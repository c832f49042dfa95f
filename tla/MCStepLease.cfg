SPECIFICATION MCSpec
CONSTANTS
  Attempts = {a1, a2, a3, a4}
  Unclaimed = none
  Events = {ready, failed}
  MaxJobs = 2
  NoJob = nojob
  MaxAttempts = 2
  MaxStalled = 1
  MaxTroubles = 1
INVARIANTS
  TypeOK
  CommitLedger
  DoneWasPublished
PROPERTIES
  ZombieNeverCommits
  EveryRowIsHandled
CHECK_DEADLOCK FALSE
