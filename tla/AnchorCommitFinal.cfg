SPECIFICATION Spec
CONSTANTS
  Producers = {1, 2, 3}
  Holders = {1, 2, 3}
  Faulty = {}
  Quorums <- EqualStakeQuorums
  Designated <- RepeatedDesignation
  MaxRound = 2
  MaxCopies = 1
  SilenceSpan = 20
  StrictStart = 0
  Resolvable <- AllResolvable
  Converged = TRUE
  Timely = TRUE
  FirstRound <- FromGenesis
  HashRank <- AnyHashOrder
CHECK_DEADLOCK FALSE
PROPERTY CommitFinal
