\* Calls of the creator and two workers, one of which may stall or crash.
SPECIFICATION Spec
CONSTANTS
  MaxCalls = 3
  Workers = {1, 2}
  Languages = {en}
  Spoken = en
  Windows = {w1}
  MaxAttempts = 2
  MaxStalled = 1
  MaxTroubles = 1
  MaxEvents = 3
  None = none
INVARIANTS
  TypeOK
PROPERTIES
  CreatorsTextStands
  PendingSettles
CHECK_DEADLOCK FALSE
