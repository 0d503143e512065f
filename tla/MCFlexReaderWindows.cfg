SPECIFICATION Spec
CONSTANTS
  Addr = {p1, p2, p3, p4}
  Value <- MCValue
  Type <- MCType
  TypeOf <- MCTypeOf
  Impl <- MCImpl
  Ident = {w1, w2}
  None = None
  Base = "Read"
  Opt <- OptTable
  FieldPtr <- ViewFieldGetters
  Platform = "windows"
  f1 = f1
  f2 = f2
  c1 = c1
SYMMETRY Interchangeable
INVARIANT
  GettersSound
