SPECIFICATION MCSpec
CONSTANTS
  Nodes = {"a", "b", "c"}
  Ranking <- MCRanking
  Replication = 2
  EpochLength = 2
  GraceRounds = 2
  maxRetries = 0
  MaxRound = 4
  MaxTx = 2
  MaxLag = 1
  Entries = {"a"}
  Peers = {1, 2, 3}
  Origin = 1
  Ttl = 3
  Fanout = 1
  MaxDelay = 1
  MaxTime = 3
  MaxSends = 2
  MaxBlocks = 1
  Clients = {1, 2, 3}
  Streams = {4, 5, 6}
  ByteSizes = {1, 2}
  maxClientConnsPerIP = 2
  maxClientStreamsPerIP = 2
  maxClientPendingBytesPerIP = 3
  clientRateBurst = 2
  Carriers = {"self", "other"}
  Self = "self"
  Own = 0
  validUntil = 0
  EpochRounds = 1
  Splits = {1, 2}
  Lead = 1
  Retention = 1
  ChannelSize = 1
  MaxRounds = 2
  MaxSubmits = 2
  MaxRestarts = 1
INVARIANTS
  DeliveredWhole
  ShortReadSound
  HonestNeverRefused
  ExecutedAsSigned
  VerdictsAgree
  FreshProofAccepted
  HolderKeepsUp
  FilteredWasHandled
  HandledApart
  CountsExact
  PendingUndecided
