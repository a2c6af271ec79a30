CONSTANTS
  ByteXor <- MCByteXor
  p = p
  q = q
  Vars = {p, q}
  Sizes = {16}
  Items = {}
  ReallocSizes = {}
  Offsets = {0}
  Data = {}
  Errors = {"double free"}
  HeapBase = 4096
  HeapEnd = 4160
  MapBase = 0
  IdAt <- MCDistinctIds
  SameSecond = FALSE
  Scribbles = {0}
  Intact = FALSE
  ENABLELOG = FALSE
  Threshold = 1024
  MaxObjects = 3
  SizeMod = 65536
SPECIFICATION Spec
INVARIANT RejectedFreeReported
CHECK_DEADLOCK FALSE
SYMMETRY VarsSymmetry
