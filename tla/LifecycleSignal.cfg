CONSTANTS
  MAX_SIG_ID = 3
  Unmaskable = {}
  SIG_DFL = SIG_DFL
  SIG_IGN = SIG_IGN
  SaveMayFail = FALSE
  BadAlloc = BadAlloc
  signalHandler = signalHandler
  SIGWINCH = 2
  Free = Free
  Destroyed = Destroyed
  Inheritable = {SIG_DFL}
  MaxEvents = 1
SPECIFICATION FairSpec
PROPERTY SignalStops
CHECK_DEADLOCK FALSE
