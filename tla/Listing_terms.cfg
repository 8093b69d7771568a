SPECIFICATION Spec
CONSTANTS
  MaxLines = 6
  PROC_STREAM_PAGE = 2
  WORD = 16
INVARIANTS
  TermsOnce
