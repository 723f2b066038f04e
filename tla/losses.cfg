SPECIFICATION LossesSpec
CONSTANTS
  Member <- MCThree
  Chat <- MCTwoChats
  Base = 3
  MaxInum = 7
  MaxGen = 4
  MaxConn = 1
  Mortal <- MCThree
  Fragile <- MCAnyOfThree
  MaxLoss = 2
INVARIANTS TypeOK ProposerIsFirst RolesMatch RoleInv BallotsOK OneValuePerBallot Agreement HoleOK StartOK LostArePurged DataHeld NoOtherFailure
PROPERTIES InTotalOrder CommitByMajority
CHECK_DEADLOCK FALSE
