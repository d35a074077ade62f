CONSTANTS
  None = None
  Keys <- MCKeys
  ZeroKey = "zero"
  Objects <- MCObjects
  Names <- MCNames
  Namespace <- MCNamespace
  Rooted <- MCRooted
  Txs <- AllTxs
  RefsLive = TRUE
  WalkDepthLimit = 2
  MaxTermEpochs = 2
  GraceEpochs = 1
  CountModulus = 8
  MaxEpoch = 3
  MaxCrashes = 1
  Validators <- MCValidators
  Users <- MCUsers
  AccountObjects <- MCAccountObjects
  Workloads <- MCWorkloads
  Genesis <- Spread
  Thermostat <- ThermostatOn
SPECIFICATION MCSpec
INVARIANT StagedIsApplied
INVARIANT Acyclic
INVARIANT ParentsTracked
INVARIANT BodyMatches
INVARIANT IndexMatches
INVARIANT SupplyIdentity
PROPERTY ControlKept
PROPERTY NameKept
CHECK_DEADLOCK FALSE
