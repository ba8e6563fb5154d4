SPECIFICATION FairSpec
CONSTANTS
  p = p
  q = q
  Parent <- ParentTree
  Announced = {3, 4}
  Peer = {p, q}
  Author <- Authors
  Holds <- Stores
  Correct = p
  Capacity = 1
  MaxCopies = 2
INVARIANTS
  WaitersRequested
  NoBlockForgotten
PROPERTIES
  CatchesUp
CHECK_DEADLOCK FALSE
