CONSTANTS
  ByteXor <- MCByteXor
  p = p
  q = q
  Vars = {p, q}
  Sizes = {16, 24}
  Items = {1, 2}
  ReallocSizes = {}
  Offsets = {0, 8}
  Data = {4}
  Errors = {"use after free", "double free", "invalid free"}
  HeapBase = 4096
  HeapEnd = 4160
  MapBase = 0
  IdAt <- MCDistinctIds
  SameSecond = FALSE
  Scribbles = {0, 4112}
  Intact = TRUE
  ENABLELOG = TRUE
  Threshold = 1024
  MaxObjects = 3
  SizeMod = 65536
SPECIFICATION Spec
INVARIANT Capacity
PROPERTY AllocatorSafe
CHECK_DEADLOCK FALSE
SYMMETRY VarsSymmetry
