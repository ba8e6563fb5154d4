SPECIFICATION FairSpec
CONSTANTS
  n1 = n1
  n2 = n2
  n3 = n3
  Node = {n1, n2, n3}
  Keys <- KeysThree
  Stake <- StakeThree
  StakeModulus = 4294967
  Self = n2
  TxSize <- Sizes
  tx = tx
  Content <- Twice
  BatchSize = 2
  QueueMax = 0
  other = other
  OthersBatch = {other}
  MaxDeliveries = 1
  Responsive = {n1}
  MaxBlocks = 2
  MaxReports = 1
INVARIANTS
  TransactionsKept
  SlotsMatch
  ProposedOncePerDelivery
  BatchesKept
PROPERTIES
  TransactionsProcessed
  ProposerFreed
CHECK_DEADLOCK FALSE
