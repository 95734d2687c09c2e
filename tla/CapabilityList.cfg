\* Four slots: every one of the 10 000 contents of the capability area, with
\* every first pointer, and a budget of exactly one hop per slot.
CONSTANTS
  FirstSlot = 1
  LastSlot  = 4
  HopLimit  = 4
SPECIFICATION FairSpec
INVARIANTS TypeOK AnswerIsExact
PROPERTY Returns
CHECK_DEADLOCK FALSE
