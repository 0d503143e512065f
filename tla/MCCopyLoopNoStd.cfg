SPECIFICATION Spec
CONSTANTS
  Std = FALSE
  N = 7
  BUF = 3
  Byte <- MCByte
  Source <- MCSource
  Fault <- MCFault
INVARIANT
  RetriesInterrupted
