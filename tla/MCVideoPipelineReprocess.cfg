\* Two owners of the video ask for reprocesses while it runs, and may delete it.
SPECIFICATION Spec
CONSTANTS
  MaxGen = 2
  Tokens <- ThreeTokens
  Users = {u1, u2}
  MaxAttempts = 1
  MaxStalled = 0
  MaxFaults = 1
  MayErr = FALSE
  MayReject = TRUE
  MayDelete = TRUE
PROPERTIES
  KeepsPromise
  SmoothUploadIsReady
CHECK_DEADLOCK FALSE
