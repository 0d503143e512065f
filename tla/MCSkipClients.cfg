SPECIFICATION Spec
CONSTANTS
  Byte <- MCByte
  Nul = 0
  Source <- MCSource
  Half = 25
  BufSize = 3
  Skips <- MCSkips
  Fault <- MCFault
INVARIANTS
  TypeOK
  StringByString
  SkipsExactly
  EndIsTheEnd
PROPERTIES
  CallsReturn
