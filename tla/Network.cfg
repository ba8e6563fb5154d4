SPECIFICATION NetworkSpec
CONSTANTS
  Msg = {m1, m2, m3}
  MaxStreams = 2
  Capacity = 2
  MaxCalls = 6
INVARIANTS
  AcksMatchPending
  KeptInOrder
  DeadConnectionNoticed
PROPERTIES
  KeepsPromise
  EventuallyAnswered
  SendReturns
CHECK_DEADLOCK FALSE
