SPECIFICATION FairSpec
CONSTANTS
  Pair = {"a", "b"}
  Joiners = {"b"}
  MaxRetries = 2
  MaxConns = 5
  MaxDrops = 1
  MaxStops = 1
PROPERTY MeshHeals
