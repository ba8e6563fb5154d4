SPECIFICATION FairFaultSpec
CONSTANTS
  n1 = n1
  n2 = n2
  n3 = n3
  Node = {n1, n2, n3}
  Correct = {n1, n3}
  Keys <- KeysThree
  Stake <- StakeThree
  StakeModulus = 4294967
  Batch = {d1}
  d1 = d1
  NoNode = NoNode
  ZeroDigest = ZeroDigest
  MaxRound = 2
  TimeoutRounds <- TimeoutsFaults
  ReachRounds <- ReachFaults
  BatchRounds <- BatchesFaults
  MayRestart = {n2}
  MayMiss = {n1, n2, n3}
  MaxFaults = 1
INVARIANT SurvivorsClosed
PROPERTY RoundsProgress
CHECK_DEADLOCK FALSE
