\* Two tabs and three events, one unknown; videos as MCEventStreams bounds them.
SPECIFICATION MCSpec
CONSTANTS
  Tabs = {t1, t2}
  MaxEvents = 3
  Unknown = {2}
  ReplayLimit = 1
  WireLimit = 1
  MaxPending = 1
  MaxTurns = 2
  MaxPosted = 1
  MaxTicks = 2
  MaxCounts = 4
  MaxTroubles = 3
  Remembered = 1
  MaxWaiting = 2
INVARIANTS
  StreamTypeOK
  NothingIsSkipped
  OrderIsKept
  NewestIsKept
PROPERTIES
  UserEventsArrive
  UploadEndArrives
CHECK_DEADLOCK FALSE
