SPECIFICATION Spec
CONSTANTS
  n1 = n1
  n2 = n2
  n3 = n3
  Node = {n1}
  Correct = {n1}
  Keys <- KeysOne
  Stake <- StakeOne
  StakeModulus = 4294967
  Batch = {}
  NoNode = NoNode
  ZeroDigest = ZeroDigest
  MaxRound = 7
  TimeoutRounds <- TimeoutsOne
  ReachRounds <- ReachOne
  BatchRounds <- NoBatchesOne
INVARIANTS
 CommitInOrder
CHECK_DEADLOCK FALSE
