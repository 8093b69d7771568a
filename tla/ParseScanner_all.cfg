SPECIFICATION Spec
CONSTANTS
  Addr = {1, 2}
  NoAddr = NoAddr
  PROGRESS = 2
  MaxLines = 5
INVARIANTS
  SectionsFaithful
  RecordsFaithful
  StatsRight
CHECK_DEADLOCK FALSE
