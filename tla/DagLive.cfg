SPECIFICATION FairSpec
CONSTANTS
  Nodes = {1, 2}
  Quorums <- EqualStakeQuorums
  Bootstrap = 1
  Liars = {}
  Txs = {}
  Genesis = FALSE
  Lossy = TRUE
  MinValidators = 2
  WindowEnd = 0
  MaxRound = 4
  MaxRestarts = 0
PROPERTY
  EveryNodeProduces
