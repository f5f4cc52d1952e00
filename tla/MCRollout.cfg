\* Every layout and every flag over three targets.
SPECIFICATION Spec
CONSTANTS
  N = 3
  MaxParallel = 3
  Runs <- AllRuns
INVARIANTS
  TypeOK
  OneControlPlaneAway
  LaterNodesUntouched
  BatchesGated
  WavesWatched
CHECK_DEADLOCK FALSE
