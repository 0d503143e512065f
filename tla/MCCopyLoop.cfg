SPECIFICATION Spec
CONSTANTS
  Std = TRUE
  N = 7
  BUF = 3
  Byte <- MCByte
  Source <- MCSource
  Fault <- MCFault
INVARIANTS
  TypeOK
  Conservation
  CountIsExact
  RetriesInterrupted
PROPERTY
  Terminates
