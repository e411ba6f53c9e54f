CONSTANTS
  Messages = {m1, m2}
  NoMessage = NoMessage
  ValidatorLatches = FALSE
  StopIsRemembered = TRUE
SPECIFICATION FairSpec
PROPERTY QueuedIsStored
CHECK_DEADLOCK FALSE
