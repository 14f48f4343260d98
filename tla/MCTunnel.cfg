SPECIFICATION FairSpec
CONSTANTS
  MAX_OUTPUT_BUFFER = 2
  MaxBytes = 3
CHECK_DEADLOCK FALSE
INVARIANTS CountersCount PausedHasWaker
PROPERTIES RelayImplemented BytesArrive EofCloses
