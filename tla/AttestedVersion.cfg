SPECIFICATION Spec
CONSTANTS
  Nodes = {"a", "b", "c"}
  Ranking <- MCRanking
  Replication = 2
  EpochLength = 2
  GraceRounds = 2
  maxRetries = 0
  MaxRound = 4
  MaxTx = 2
  MaxLag = 1
  Entries = {"a"}
INVARIANT AttestedVersionDeclared
