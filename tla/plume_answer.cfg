SPECIFICATION Spec
CONSTANTS
  Ignores = FALSE
  MaxIo = 2
  MaxTold = 3
  MaxSend = 1
INVARIANTS NotForgotten
CHECK_DEADLOCK FALSE
