SPECIFICATION SyncSpec
CONSTANTS
  p = p
  q = q
  skip = skip
  transfer = transfer
  none = none
  Skip = skip
  NoTx = none
  Txs <- OneTx
  Producers <- TwoProducers
  Staked <- OneProducer
  Dags <- FourRounds
  MaxRound = 3
  EpochLength = 1
  InOrder = TRUE
  MaxCrashes = 1
  Window = 1
  SnapshotsFrom = 1
INVARIANTS WindowClosed JoinerAgrees
CHECK_DEADLOCK FALSE
