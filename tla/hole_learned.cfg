SPECIFICATION SuccessionSpec
CONSTANTS
  Member <- MCFive
  Chat <- MCFirstChat
  Base = 3
  MaxInum = 6
  MaxGen = 3
  MaxConn = 1
  Mortal = {1, 2}
  Fragile = {}
  MaxLoss = 2
INVARIANTS HoleIsLearned
CHECK_DEADLOCK FALSE
