CONSTANTS
  Others = {c1, c2}
  Messages = {m1, m2, m3}
  m1 = m1
  Levels = {0, 1}
  Severity <- MCSeverity
  CallersAtExit = FALSE
  NULL = NULL
SPECIFICATION FairSpec
INVARIANT IInv
INVARIANT AllWritten
INVARIANT OnlyKnownStandstills
PROPERTY DeliverySpec
PROPERTY QueuedIsWritten
PROPERTY CallReturnsUnlessLocked
PROPERTY DestroyReturnsUnlessStuck
CHECK_DEADLOCK FALSE
