CONSTANTS
  LastBus = 2
  LastDev = 1
  LastFun = 1
  DepthModulus = 3
  PoolSize = 6
  Platforms <- TangledPlatforms
SPECIFICATION Spec
INVARIANTS
  NoScanWithinItself
CHECK_DEADLOCK FALSE
