\* One generation under a stall or a crash and transient errors.
SPECIFICATION Spec
CONSTANTS
  MaxGen = 1
  Tokens <- ThreeTokens
  Users = {}
  MaxAttempts = 2
  MaxStalled = 1
  MaxFaults = 1
  MayErr = TRUE
  MayReject = FALSE
  MayDelete = FALSE
INVARIANTS
  TypeOK
  PublishedOnce
  NoticeFollowsReady
PROPERTIES
  KeepsPromise
  OrphansAreFound
CHECK_DEADLOCK FALSE
