SPECIFICATION Spec
CONSTANTS
  c1 = c1
  w1 = w1
  w2 = w2
  Nodes = {c1, w1, w2}
  CPs = {c1}
  Savers = {"run", "rival"}
  MaxNames = 2
  Groups <- MCGroups
  MaxRuns = 2
  Layouts <- MCLayouts
  Starts <- MCStarts
  RunFlags <- MCFlags
  MaxFaults = 1
INVARIANTS
  TypeOK
  ReportsAreTrue
PROPERTIES
  SnapshotFirst
SYMMETRY WorkersAlike
CHECK_DEADLOCK FALSE
