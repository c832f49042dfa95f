\* Two calls of the creator and one worker; nothing fails.
SPECIFICATION Spec
CONSTANTS
  MaxCalls = 2
  Workers = {1}
  Languages = {en}
  Spoken = en
  Windows = {w1}
  MaxAttempts = 2
  MaxStalled = 1
  MaxTroubles = 0
  MaxEvents = 2
  None = none
INVARIANTS
  WinnerOverwrites
CHECK_DEADLOCK FALSE
