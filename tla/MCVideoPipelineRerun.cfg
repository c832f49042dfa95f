\* One owner asks for one reprocess; nothing fails.
SPECIFICATION Spec
CONSTANTS
  MaxGen = 2
  Tokens <- ThreeTokens
  Users = {u1}
  MaxAttempts = 2
  MaxStalled = 1
  MaxFaults = 0
  MayErr = FALSE
  MayReject = FALSE
  MayDelete = FALSE
PROPERTIES
  ReprocessRuns
CHECK_DEADLOCK FALSE
