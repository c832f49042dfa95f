\* Transient errors only.
SPECIFICATION Spec
CONSTANTS
  MaxGen = 1
  Tokens <- ThreeTokens
  Users = {}
  MaxAttempts = 2
  MaxStalled = 1
  MaxFaults = 0
  MayErr = TRUE
  MayReject = FALSE
  MayDelete = FALSE
PROPERTIES
  FailsOnlyWhenSpent
CHECK_DEADLOCK FALSE
