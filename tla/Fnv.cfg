CONSTANTS
  Strings <- MCStrings
  SignedChar = TRUE
SPECIFICATION Spec
INVARIANT AsciiIsFnv1a
INVARIANT NoCloseCollision
INVARIANT NoCollision
CHECK_DEADLOCK FALSE
