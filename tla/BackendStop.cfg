CONSTANTS
  Messages = {}
  NoMessage = NoMessage
  ValidatorLatches = FALSE
  StopIsRemembered = TRUE
SPECIFICATION FairSpec
PROPERTY StopStopsProcessor
CHECK_DEADLOCK FALSE
