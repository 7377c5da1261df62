SPECIFICATION Spec
CONSTANTS
  Exception <- Exceptions
  MaxDepth = 3
  MaxHandlers = 2
  Jumps <- OnlyContinue
  GoesOn = FALSE
INVARIANTS NoOtherHandlers
CHECK_DEADLOCK FALSE
