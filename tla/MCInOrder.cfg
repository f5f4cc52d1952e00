\* Four nodes in any number of slots, each speaking up to twice.
SPECIFICATION OutputFairSpec
CONSTANTS
  N = 4
  MaxSays = 2
INVARIANTS
  OutputTypeOK
PROPERTIES
  ReadsInOrder
  NothingHeldBack
CHECK_DEADLOCK FALSE
