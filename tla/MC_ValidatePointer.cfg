CONSTANTS
  ByteXor <- MCByteXor
  Pointers <- MCPointers
  Memories <- MCMemories
  ENABLELOG = FALSE
  Threshold = 1024
SPECIFICATION FairSpec
INVARIANTS TypeOK SearchExact LivePasses
PROPERTY Terminates
CHECK_DEADLOCK FALSE
