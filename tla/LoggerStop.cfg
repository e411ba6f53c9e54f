CONSTANTS
  Others = {c1}
  Messages = {m1}
  m1 = m1
  Levels = {0, 1}
  Severity <- MCSeverity
  CallersAtExit = FALSE
  NULL = NULL
SPECIFICATION FairSpec
PROPERTY SignalEndsLogger
CHECK_DEADLOCK FALSE
