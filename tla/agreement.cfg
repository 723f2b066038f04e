SPECIFICATION MinoritySpec
CONSTANTS
  Member <- MCFive
  Chat <- MCNoChat
  Base = 3
  MaxInum = 5
  MaxGen = 2
  MaxConn = 1
  Mortal = {1, 4}
  Fragile = {{1, 5}, {4, 5}}
  MaxLoss = 4
INVARIANTS Agreement
CHECK_DEADLOCK FALSE
