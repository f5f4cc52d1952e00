\* Two nodes of a canary and one after them are enough to leave it unwatched.
SPECIFICATION Spec
CONSTANTS
  Nodes = {n1, n2, n3}
  W = 2
INVARIANTS
  StopsShortWatched
CHECK_DEADLOCK FALSE
