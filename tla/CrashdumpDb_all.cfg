SPECIFICATION Spec
CONSTANTS
  Addr = {1, 2, 3, 4}
  BlobLen = {0, 1, 3}
  BUCKET_SIZE = 2
  DATA_FRAME_SIZE = 2
  MaxRecords = 3
  Thread = {t1, t2}
INVARIANTS
  WriterInv
  GetCorrect
PROPERTIES
  GetReturns
