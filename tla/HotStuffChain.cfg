SPECIFICATION Spec
CONSTANTS
  n1 = n1
  n2 = n2
  n3 = n3
  Node = {n1, n2}
  Correct = {n1, n2}
  Keys <- KeysTwo
  Stake <- StakeTwo
  StakeModulus = 4294967
  Batch = {d1}
  NoNode = NoNode
  ZeroDigest = ZeroDigest
  MaxRound = 5
  TimeoutRounds <- TimeoutsTwo
  ReachRounds <- ReachTwo
  BatchRounds <- BatchTwo
INVARIANTS
  CommitStreamComplete
  StoredBlocksHavePayload
PROPERTY ImplementsLedger
CHECK_DEADLOCK FALSE
