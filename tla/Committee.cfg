SPECIFICATION Spec
CONSTANTS
  Members = {1, 2, 3}
  Founder = 1
  Coined = {1, 2}
  GenesisStake = 1
  MinStake = 1
  MinValidators = 2
  EpochLength = 2
  MaxChurn = 1
  Delay = 2
  Avoid = {"boundary", "unsaved", "rejoin", "founder"}
  Nil = Nil
  MaxRounds = 6
  MaxVertices = 1
  MaxTxs = 3
  MaxStake = 2
  MaxRestarts = 1
INVARIANT CommitteeAgrees
PROPERTY RegimeFinal
CHECK_DEADLOCK FALSE
