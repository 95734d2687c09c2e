CONSTANTS
  Devices <- Functions
  Tables <- SegmentTables
SPECIFICATION Spec
INVARIANTS
  TypeOK
  NamesVendor
  ReadsAgree
  NamesClassBest
CHECK_DEADLOCK FALSE
