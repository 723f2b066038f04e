SPECIFICATION SyncSpec
CONSTANTS
  Old = 2
  Immediate = TRUE
  MaxChange = 2
  MaxLate = 0
  SkipThresh = 1
  MaxSync = 0
INVARIANTS LostIsMarked
CHECK_DEADLOCK FALSE
