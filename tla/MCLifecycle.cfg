SPECIFICATION Spec
CONSTANTS
  c1 = c1
  c2 = c2
  w1 = w1
  Config <- MCConfig
  Workers = {w1}
  MaxEtcds = 2
  MaxFaults = 1
  Commands <- MCCommands
  MaxCommands = 3
INVARIANTS
  TypeOK
  TeardownGetsThrough
PROPERTIES
  BootstrapsAlone
  OnlyAsAsked
  GateNotHeldDown
CHECK_DEADLOCK FALSE
