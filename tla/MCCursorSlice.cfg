SPECIFICATION Spec
CONSTANTS
  Byte <- MCByte
  Zero = 0
  Half = 8
  MaxUsize = 7
  MaxCap = 3
  Contents <- MCContents
  Buffers <- MCBuffers
INVARIANT
  SliceTakesWhatFits
