\* A window of three polls, and a deadline that may come before it is over.
SPECIFICATION Spec
CONSTANTS
  Poll = 1
  Stabilize = 3
  Timeout = 4
  Dial = 1
  RebootBy = 2
  MinDown = 4
INVARIANTS
  TypeOK
  ReadyIsBack
  FailedIsAway
  EndsInTime
CHECK_DEADLOCK FALSE
