CONSTANTS
  ByteXor <- MCByteXor
  p = p
  q = q
  a = a
  arg = a
  Main = {p, q}
  Vars = {p, q, a}
  MaxEntries = 2
  Sizes = {16}
  Items = {}
  ReallocSizes = {}
  Offsets = {0}
  Data = {}
  Errors = {"use after free", "double free"}
  HeapBase = 4096
  HeapEnd = 4160
  MapBase = 0
  IdAt <- MCIds
  SameSecond = FALSE
  Scribbles = {0}
  Intact = TRUE
  ENABLELOG = FALSE
  Threshold = 1024
  MaxObjects = 2
  SizeMod = 65536
SPECIFICATION SysSpec
INVARIANT SysTypeOK
PROPERTIES DisciplinedImplements ProtectedAccess
CHECK_DEADLOCK FALSE
SYMMETRY MainSymmetry
