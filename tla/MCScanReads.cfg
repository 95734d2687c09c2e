CONSTANTS
  LastBus = 2
  LastDev = 1
  LastFun = 1
  DepthModulus = 8
  PoolSize = 8
  Platforms <- RemovablePlatforms
SPECIFICATION FairReadsSpec
INVARIANTS
  ReadsTypeOK
  TreeSurvives
  FlagsOfFunction
  RemainingListed
PROPERTIES
  ReturnsAnyway
CHECK_DEADLOCK FALSE
