SPECIFICATION MCSpec
CONSTANTS
  Nodes = {1, 2, 3}
  Quorums <- EqualStakeQuorums
  Bootstrap = 1
  Liars = {}
  Txs = {}
  Genesis = FALSE
  Lossy = FALSE
  MinValidators = 3
  WindowEnd = 0
  MaxRound = 3
  MaxRestarts = 0
INVARIANTS
  OneVertexPerRound
  ParentsFormQuorum
  StoreCausallyClosed
  FreshNeverCitesQuarantined
  FreshTxCarriedOnce
