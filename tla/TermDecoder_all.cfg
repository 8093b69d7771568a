SPECIFICATION Spec
CONSTANTS
  Addr = {1, 2, 3}
  BinAddr = {8, 9}
  MAX_DEPTH = 3
  U32 = 512
  HeapInt = {65, 7}
  LargeInt = {577}
  Shape <- MCShape
  Foreign <- MCForeign
INVARIANTS
  DecodesHeap
  DecodesForeign
  StringsShown
CHECK_DEADLOCK FALSE
