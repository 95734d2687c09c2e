CONSTANTS
  ConfigSize = 320
  Functions <- Devices
  Tables <- SegmentTables
SPECIFICATION FairSpec
INVARIANTS
  IoLinesAreIoBars
CHECK_DEADLOCK FALSE
