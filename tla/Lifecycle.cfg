CONSTANTS
  MAX_SIG_ID = 3
  Unmaskable = {}
  SIG_DFL = SIG_DFL
  SIG_IGN = SIG_IGN
  SaveMayFail = TRUE
  BadAlloc = BadAlloc
  signalHandler = signalHandler
  SIGWINCH = 2
  Free = Free
  Destroyed = Destroyed
  Inheritable = {SIG_DFL}
  MaxEvents = 2
SPECIFICATION FairSpec
INVARIANT TypeOK
INVARIANT IInv
INVARIANT LockDiscipline
INVARIANT StopIsNotForgotten
INVARIANT ObjectsOutliveThreads
INVARIANT LoggerOutlivesCallers
INVARIANT HandlersInstalled
INVARIANT OnlySelfDeadlocks
PROPERTY SignalStopsUnlessStuck
CHECK_DEADLOCK FALSE
