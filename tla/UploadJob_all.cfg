SPECIFICATION Spec
CONSTANTS
  s1 = s1
  Stream = {s1}
  ChanCap = 1
  SseCap = 1
  MaxChunks = 2
  MaxProgress = 2
INVARIANTS
  CompleteMeansParsed
  SettledJob
  ClosedStreamTold
  StreamInOrder
PROPERTIES
  UploadEnds
  JobEnds
