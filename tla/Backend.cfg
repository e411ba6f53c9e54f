CONSTANTS
  Messages = {m1, m2, m3}
  NoMessage = NoMessage
  ValidatorLatches = TRUE
  StopIsRemembered = TRUE
SPECIFICATION FairSpec
INVARIANT IInv
INVARIANT NoLostWakeup
INVARIANT RepliesAreTruthful
INVARIANT OnlyKnownStandstills
PROPERTY DeliverySpec
PROPERTY QueuedIsStoredUnlessStuck
PROPERTY PushIsAnsweredUnlessStuck
PROPERTY ShutdownEndsUnlessStuck
CHECK_DEADLOCK FALSE
