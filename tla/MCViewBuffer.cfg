\* Two viewers, two flushes at once, one API process with room for one view.
SPECIFICATION Spec
CONSTANTS
  Viewers = {v1, v2}
  Servers = {s1}
  Flushers = {f1, f2}
  Batches = {b1, b2, b3}
  NoBatch = none
  Capacity = 1
  MaxFaults = 2
  Outage = FALSE
INVARIANTS
  TypeOK
  NeitherLostNorDoubled
PROPERTIES
  ViewsAreCounted
  LossNeedsCause
CHECK_DEADLOCK FALSE
