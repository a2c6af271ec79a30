CONSTANTS
  ByteXor <- MCByteXor
  p = p
  q = q
  Vars = {p, q}
  Sizes = {16}
  Items = {}
  ReallocSizes = {40}
  Offsets = {0, 8, 32}
  Data = {4}
  Errors = {"double free", "invalid free", "stale realloc", "null realloc"}
  HeapBase = 4096
  HeapEnd = 4176
  MapBase = 4096
  IdAt <- MCCollidingIds
  SameSecond = TRUE
  Scribbles = {}
  Intact = TRUE
  ENABLELOG = FALSE
  Threshold = 40
  MaxObjects = 3
  SizeMod = 65536
SPECIFICATION Spec
INVARIANTS LivePasses LiveFreeable
PROPERTY NoFalseAlarm
CHECK_DEADLOCK FALSE
SYMMETRY VarsSymmetry
