SPECIFICATION MCSpec
CONSTANTS
  Producers = {1, 2, 3}
  Holders = {1, 2, 3}
  Faulty = {}
  Quorums <- EqualStakeQuorums
  Designated <- RotatingDesignation
  MaxRound = 3
  MaxCopies = 1
  SilenceSpan = 1
  StrictStart = 0
  Resolvable <- AllResolvable
  Converged = TRUE
  Timely = FALSE
  FirstRound <- FromGenesis
  HashRank <- AnyHashOrder
CHECK_DEADLOCK FALSE
INVARIANTS
  CertificateExcludesBlame
  FarAnchorsCarryCandidate
PROPERTIES
  CertifiedAnchorFinal
  BlameImpossibilityFinal
  RelaxedDecisionFinal
