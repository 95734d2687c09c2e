CONSTANTS
  LastBus = 2
  LastDev = 1
  LastFun = 1
  DepthModulus = 3
  PoolSize = 6
  Platforms <- SteadyPlatforms
SPECIFICATION SteadySpec
INVARIANTS
  LinksForward
  SingleHolder
  VisitsInOrder
  NothingDangling
  NothingLeaked
PROPERTIES
  ScansAsIfAtomic
CHECK_DEADLOCK FALSE
