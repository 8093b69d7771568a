SPECIFICATION Spec
CONSTANTS
  Addr = {1, 2}
  BlobLen = {1}
  RunSize = 2
  MaxInserts = 3
INVARIANTS
  PartialReadIsError
