SPECIFICATION Spec
CONSTANTS
  Ignores = TRUE
  MaxIo = 2
  MaxTold = 3
  MaxSend = 4
INVARIANTS TypeOK OneStepAtATime HandshakeGoesOn SentInOrder
PROPERTIES SuccessIsFinal
CHECK_DEADLOCK FALSE
