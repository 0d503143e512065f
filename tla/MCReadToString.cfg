SPECIFICATION StringSpec
CONSTANTS
  Std = TRUE
  K = 2
  N = 5
  Byte <- MCByte
  Initial <- MCInitial
  Source <- MCSource
  Lead <- MCLead
  Cont <- MCCont
  Zero <- MCZero
  Junk <- MCJunk
  Fault <- MCFault
  Reserve = 2
  MaxCap = 8
INVARIANTS
  TypeOK
  RealPart
  Truncated
  NeverAsksForNothing
  CountsAppended
  ReportsWhatWasRead
PROPERTY
  Terminates
