\* WordModulus: larger than every length; a count that underflows is far larger
\* than any table.
CONSTANTS
  WordModulus = 4096
  Firmwares <- AllFirmwares
  Reads <- AllReads
SPECIFICATION Spec
INVARIANTS
  TypeOK
  WithinTables
  NeverPartial
  ReadsReachFunction
PROPERTIES
  BuildsTable
CHECK_DEADLOCK FALSE
