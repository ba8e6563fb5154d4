SPECIFICATION FairSpec
CONSTANTS
  b1 = b1
  d1 = d1
  d2 = d2
  Block = {b1}
  Batch = {d1, d2}
  Round <- Rounds
  Payload <- Payloads
  Faulty = {d2}
  GcDepth = 1
  CleanupRounds = {2}
  Capacity = 1
INVARIANTS
  RequestsWatched
  LoopbackComplete
PROPERTIES RequestsAnswered SingleBatchDelivered
CHECK_DEADLOCK FALSE
