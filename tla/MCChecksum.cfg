SPECIFICATION CsumSpec
CONSTANTS
  Base = 16
  MaxWords = 17
CHECK_DEADLOCK FALSE
INVARIANTS CsumIsReference
