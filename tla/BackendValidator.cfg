CONSTANTS
  Messages = {m1, m2}
  NoMessage = NoMessage
  ValidatorLatches = TRUE
  StopIsRemembered = TRUE
SPECIFICATION Spec
INVARIANT ConformingIsNotRejected
CHECK_DEADLOCK FALSE
