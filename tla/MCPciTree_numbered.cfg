CONSTANTS
  LastBus = 2
  LastDev = 1
  LastFun = 1
  DepthModulus = 3
  PoolSize = 8
  Platforms <- Candidates
SPECIFICATION NumberedSpec
INVARIANTS
  TypeOK
  ShallowRecursion
PROPERTIES
  ListsInventory
  Returns
CHECK_DEADLOCK FALSE
