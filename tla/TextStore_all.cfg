SPECIFICATION Spec
CONSTANTS
  Key = {10, 11, 20}
  TEXT_FRAME_SIZE = 3
  LINE_INDEX_INTERVAL = 2
  PieceLen = {1, 2}
  MaxBytes = 8
  MaxSections = 2
  PageLimit = {0, 2}
  MaxOffset = 4
CHECK_DEADLOCK FALSE
INVARIANTS
  EntriesFindText
  GetCorrect
  PageCorrect
