\* Every command over four nodes in three waves, whichever way they lie.
SPECIFICATION Spec
CONSTANTS
  Nodes = {n1, n2, n3, n4}
  W = 3
SYMMETRY Symmetry
INVARIANTS
  TypeOK
  WavesInOrder
  NothingForgotten
  CanaryWatched
CHECK_DEADLOCK FALSE
