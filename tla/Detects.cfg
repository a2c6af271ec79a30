CONSTANTS
  ByteXor <- MCByteXor
  p = p
  q = q
  Vars = {p, q}
  Sizes = {16, 32}
  Items = {1}
  ReallocSizes = {16, 32}
  Offsets = {0, 8, 24}
  Data = {4}
  Errors = {"use after free", "double free", "invalid free"}
  HeapBase = 4096
  HeapEnd = 4176
  MapBase = 4096
  IdAt <- MCDistinctIds
  SameSecond = FALSE
  Scribbles = {0, 4112}
  Intact = FALSE
  ENABLELOG = FALSE
  Threshold = 32
  MaxObjects = 3
  SizeMod = 65536
SPECIFICATION Spec
INVARIANT TypeOK
PROPERTY ImplementsPromise
CHECK_DEADLOCK FALSE
SYMMETRY VarsSymmetry
