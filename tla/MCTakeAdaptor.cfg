SPECIFICATION Spec
CONSTANTS
  Std = TRUE
  Junk = 0
  Byte <- MCByte
  Source <- MCSource
  Limits <- MCLimits
  Lengths <- MCLengths
  MaxUsize = 4
  Fault <- MCFault
INVARIANTS
  TypeOK
  LimitHeld
  InOrder
  ExactOrError
PROPERTIES
  QuietAtLimit
  ExactReturns
