SPECIFICATION Spec
CONSTANTS
  ChunkLen = {0, 1, 3, 6}
  BufLen = {1, 2}
  PeekLen = 6
  ChanCap = 2
  MaxBytes = 8
  MaxChunks = 4
INVARIANTS
  InOrder
PROPERTIES
  DetectsFormat
  ReachesEof
