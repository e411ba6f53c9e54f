CONSTANTS
  d1 = d1
  d2 = d2
  Scripts = {s1, s2}
  Names = {d1, d2}
  Messages <- MCMessages
  EnforcesPattern = TRUE
  ValidatorLatches = FALSE
  MayFail = TRUE
  MaxMessages = 2
  NoMessage = NoMessage
SPECIFICATION Spec
INVARIANT TypeOK
INVARIANT AllAccountedFor
PROPERTY ReportIsExact
CHECK_DEADLOCK FALSE
