SPECIFICATION Spec
CONSTANTS
  n1 = n1
  n2 = n2
  n3 = n3
  Node = {n1, n2, n3}
  Correct = {n1, n2, n3}
  Keys <- KeysThree
  Stake <- StakeThree
  StakeModulus = 4294967
  Batch = {}
  NoNode = NoNode
  ZeroDigest = ZeroDigest
  MaxRound = 3
  TimeoutRounds <- TimeoutsSafety
  ReachRounds <- ReachSafety
  BatchRounds <- NoBatches
INVARIANTS
  TypeOK
  OneProposalPerRound
  SentMessagesVerify
  TimeoutCarriesLock
  TimeoutsKnownToHolder
  NoSkippedCommit
  CommittedIsFinal
  AncestorsStored
  OneCertificateAtQuorum
  SentMessagesAccepted
PROPERTY VoteAfterPromise
CHECK_DEADLOCK FALSE
