SPECIFICATION FairSpec
CONSTANTS
  b1 = b1
  d1 = d1
  d2 = d2
  Block = {b1}
  Batch = {d1, d2}
  Round <- Rounds
  Payload <- Payloads
  Faulty = {}
  GcDepth = 50
  CleanupRounds = {1}
  Capacity = 1
PROPERTY BlocksDelivered
CHECK_DEADLOCK FALSE
