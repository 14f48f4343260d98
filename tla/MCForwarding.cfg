SPECIFICATION Spec
CONSTANTS
  BUF = 2
  MaxRec = 3
  SndBuf = 2
  MaxBytes = 4
CHECK_DEADLOCK FALSE
INVARIANTS TypeOK UpIntact DownInOrder QuietMeansForwarded EndIsLast
