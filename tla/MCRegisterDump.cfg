CONSTANTS
  ConfigSize = 320
  Functions <- Devices
  Tables <- SegmentTables
SPECIFICATION FairSpec
INVARIANTS
  TypeOK
  WithinBuffer
  ShowsRegisters
  ShowsBars
PROPERTIES
  Returns
CHECK_DEADLOCK FALSE
