SPECIFICATION FaultSpec
CONSTANTS
  n1 = n1
  n2 = n2
  n3 = n3
  d1 = d1
  Node = {n1, n2, n3}
  Correct = {n1, n3}
  Keys <- KeysThree
  Stake <- StakeThree
  StakeModulus = 4294967
  Batch = {}
  NoNode = NoNode
  ZeroDigest = ZeroDigest
  MaxRound = 4
  TimeoutRounds <- TimeoutsFaults
  ReachRounds <- ReachFork
  BatchRounds <- NoBatches
  MayRestart = {n2}
  MayMiss = {}
  MaxFaults = 1
INVARIANT CommitsAgree
CHECK_DEADLOCK FALSE
