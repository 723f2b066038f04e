SPECIFICATION ShortSpec
CONSTANTS
  Member <- MCFour
  Chat <- MCLastChat
  Base = 3
  MaxInum = 6
  MaxGen = 3
  MaxConn = 1
  Mortal = {1, 2}
  Fragile = {{1, 2}, {1, 3}}
  MaxLoss = 2
INVARIANTS OneValuePerBallot NoOtherFailure
PROPERTY ChatLearned
CHECK_DEADLOCK FALSE
