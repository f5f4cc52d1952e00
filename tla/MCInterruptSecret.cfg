\* One goroutine with one job is enough to leave its secret behind.
SPECIFICATION FairSpec
CONSTANTS
  Workers = {w1}
  MaxJobs = 1
INVARIANTS
  NoSecretLeft
CHECK_DEADLOCK FALSE
