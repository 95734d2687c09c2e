CONSTANTS
  MaxUint64 <- Max64
  CommandLines <- Lines
  WordModulus = 4096
  Firmwares <- Boots
  LastBus = 1
  LastDev = 0
  LastFun = 1
  DepthModulus = 2
  PoolSize = 6
  Machines <- Boards
SPECIFICATION FairSpec
INVARIANTS
  TypeOK
  ShowsWhatIsAsked
  NothingHeld
PROPERTIES
  Returns
CHECK_DEADLOCK FALSE
