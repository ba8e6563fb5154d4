SPECIFICATION Spec
CONSTANTS
  b1 = b1
  d1 = d1
  d2 = d2
  Block = {b1}
  Batch = {d1, d2}
  Round <- Rounds
  Payload <- Payloads
  Faulty = {}
  GcDepth = 1
  CleanupRounds = {1, 2}
  Capacity = 1
INVARIANT SynchronizerNeverStuck
CHECK_DEADLOCK FALSE
