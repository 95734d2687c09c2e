\* MaxUint64 is beyond every limit of a field.
CONSTANTS
  MaxUint64 <- Max64
  CommandLines <- AllLines
SPECIFICATION Spec
INVARIANTS
  TypeOK
  AcceptsUsage
  OptionsAsSaid
  NothingHeld
CHECK_DEADLOCK FALSE
