SPECIFICATION Spec
CONSTANTS
  Member <- MCThree
  Chat <- MCOneChat
  Base = 3
  MaxInum = 6
  MaxGen = 3
  MaxConn = 1
  Mortal <- MCThree
  Fragile <- MCAnyOfThree
  MaxLoss = 1
INVARIANTS PromiseFindsInstance
CHECK_DEADLOCK FALSE
