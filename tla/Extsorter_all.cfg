SPECIFICATION MCSpec
CONSTANTS
  Addr = {1, 2}
  BlobLen = {0, 1}
  RunSize = 2
  MaxInserts = 5
INVARIANTS
  TypeOK
  NoRecordLost
  MergeAfterWorker
  WriterInputAscending
  BlobsKeepTheirAddress
  AllAddressesWritten
  CutBlobIsError
  RunFilesCleanedUp
  IInv
PROPERTIES
  ThreadsEnd
  ImplementsAddrStore
