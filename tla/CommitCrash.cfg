SPECIFICATION FairSpec
CONSTANTS
  p = p
  q = q
  skip = skip
  transfer = transfer
  none = none
  Skip = skip
  NoTx = none
  Txs <- OneTx
  Producers <- TwoProducers
  Staked <- OneProducer
  Dags <- ThreeRounds
  MaxRound = 2
  EpochLength = 1
  InOrder = FALSE
  MaxCrashes = 2
INVARIANTS TxAppliedOnce FeesAccounted LivenessExact
PROPERTIES CommitsInOrder FetchUnblocks
CHECK_DEADLOCK FALSE
