SPECIFICATION WriterSpec
CONSTANTS
  Addr = {p1, p2, p3, p4}
  Value <- MCValue
  Type <- MCType
  TypeOf <- MCTypeOf
  Impl <- MCImpl
  Base = "Write"
  Opt <- OptTable
  FieldPtr <- ViewFieldGetters
  Ident = {w1, w2}
  None = None
  Platform = "windows"
  f1 = f1
  f2 = f2
SYMMETRY Interchangeable
INVARIANTS
  WriterGettersSound
  WriterSingleOwner
PROPERTY
  WriterProvidesWhatWasSet
