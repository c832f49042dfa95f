\* A chunked rendition: two retries, two stalls or crashes, every failure.
SPECIFICATION Spec
CONSTANTS
  Tokens <- ThreeTokens
  Chunked = TRUE
  Segments = 2
  Concurrency = 1
  FinalScanErrs = FALSE
  MaxAttempts = 2
  MaxStalled = 1
  MaxFaults = 2
  MayErr = TRUE
  MayReject = TRUE
INVARIANTS
  TypeOK
  DoneHasPlaylist
  EventsFollowCommits
PROPERTIES
  EncodeSettles
CHECK_DEADLOCK FALSE
