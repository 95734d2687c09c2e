CONSTANTS
  ConfigSize = 320
  Functions <- Devices
  Tables <- SegmentTables
SPECIFICATION FairSpec
INVARIANTS
  BridgeWindowsShown
CHECK_DEADLOCK FALSE
