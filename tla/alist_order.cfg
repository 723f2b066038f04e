SPECIFICATION SyncSpec
CONSTANTS
  Old = 2
  Immediate = TRUE
  MaxChange = 3
  MaxLate = 0
  SkipThresh = 1
  MaxSync = 0
INVARIANTS AlistFollowsLog
CHECK_DEADLOCK FALSE
