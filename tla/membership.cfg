SPECIFICATION MembershipSpec
CONSTANTS
  Old = 2
  Immediate = TRUE
  MaxChange = 3
  MaxLate = 1
  SkipThresh = 1
  MaxSync = 2
INVARIANTS SyncTypeOK LiveCountOK TruncatedIsLearned LastFindsSync 
PROPERTY IbaseGrows
CHECK_DEADLOCK FALSE
