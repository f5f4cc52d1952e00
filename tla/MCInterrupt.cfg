\* Two goroutines, two jobs each.
SPECIFICATION FairSpec
CONSTANTS
  Workers = {w1, w2}
  MaxJobs = 2
INVARIANTS
  TypeOK
  NoOrphans
  SweptClean
PROPERTIES
  ExitCodeIsTheFirst
  StopsInTheEnd
CHECK_DEADLOCK FALSE
