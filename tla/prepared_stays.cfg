SPECIFICATION RedirectedSpec
CONSTANTS
  Member <- MCFive
  Chat <- MCNoChat
  Base = 3
  MaxInum = 5
  MaxGen = 4
  MaxConn = 2
  Mortal = {1}
  Fragile = {{1, 2}}
  MaxLoss = 2
PROPERTIES PreparedStays
CHECK_DEADLOCK FALSE
