SPECIFICATION FairSpec
CONSTANTS
  Key = {k1, k2}
  Value = {v1, v2}
  NoValue = NoValue
  Error = Error
  Call = {c1, c2}
  FaultyKey = {k2}
  Capacity = 2
  MaxWrites = 3
INVARIANTS
  ResponsesFit
  ReadsLatestWrite
  NoLostWakeup
PROPERTY WaitersAnswered
CHECK_DEADLOCK FALSE
