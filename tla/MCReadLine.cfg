SPECIFICATION LineSpec
CONSTANTS
  Std = TRUE
  Byte <- MCByte
  Delim = "n"
  Initial <- MCInitial
  Source <- MCSource
  Lead <- MCLead
  Cont <- MCCont
  Fault <- MCFault
INVARIANTS
  TypeOK
  NothingLost
  OneLine
  CountsThisCall
  ReportsLine
PROPERTY
  EachCallReturns
