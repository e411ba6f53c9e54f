CONSTANTS
  MAX_SIG_ID = 4
  Unmaskable = {2}
  Routines = {signalHandler}
  SIG_DFL = SIG_DFL
  SIG_IGN = SIG_IGN
  SaveMayFail = TRUE
  BadAlloc = BadAlloc
  MaxDepth = 2
SPECIFICATION Spec
INVARIANT IInv
INVARIANT SweepIsUndoable
INVARIANT InheritedIsKept
PROPERTY StackSpec
