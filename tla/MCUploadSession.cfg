\* Both strategies, two completions and an abort at once, everything that may err.
SPECIFICATION Spec
CONSTANTS
  Completers = {c1, c2}
  Aborters = {a1}
  Strategies = {"single", "multipart"}
  MayErr = TRUE
INVARIANTS
  TypeOK
  SourceStands
PROPERTIES
  FirstOutcomeStands
  AbortSparesAssembled
  UploadEnds
CHECK_DEADLOCK FALSE
