CONSTANTS
  ByteXor <- MCByteXor
  p = p
  q = q
  Vars = {p, q}
  Sizes = {16}
  Items = {}
  ReallocSizes = {24}
  Offsets = {0}
  Data = {}
  Errors = {}
  HeapBase = 4096
  HeapEnd = 4160
  MapBase = 0
  IdAt <- MCDistinctIds
  SameSecond = FALSE
  Scribbles = {0}
  Intact = FALSE
  ENABLELOG = FALSE
  Threshold = 1024
  MaxObjects = 3
  SizeMod = 65536
SPECIFICATION Spec
INVARIANT Capacity
CHECK_DEADLOCK FALSE
SYMMETRY VarsSymmetry
