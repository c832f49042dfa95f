\* One stall, crash or failed call of two attempts that record two segments.
SPECIFICATION Spec
CONSTANTS
  MaxAttempts = 2
  MaxStalled = 1
  MaxStreams = 2
  Runs <- TwoRuns
  PartsPerSegment = 2
  WindowSegments = 1
  PartSegments = 1
  MaxSegments = 2
  MaxQueue = 1
  MaxTroubles = 1
  StallPlaces <- Ending
  MayReject = TRUE
INVARIANTS
  TypeOK
  ListedMediaStands
  ReadyPlays
  OrphanIsDropped
PROPERTIES
  ArchiveOnlyGrows
  BroadcastsEnd
CHECK_DEADLOCK FALSE
