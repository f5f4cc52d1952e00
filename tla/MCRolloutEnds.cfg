\* Every layout and every flag over two targets, under fairness.
SPECIFICATION FairSpec
CONSTANTS
  N = 2
  MaxParallel = 2
  Runs <- AllRuns
PROPERTIES
  Ends
  RunsAsPlanned
CHECK_DEADLOCK FALSE
