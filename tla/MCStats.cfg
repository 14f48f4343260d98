SPECIFICATION Spec
CONSTANTS
  Conns = {c1, c2, c3}
  Ports = {1, 2}
  Ips = {i1, i2}
  MAX_PORTS = 3
  MaxBytes = 1
  MaxTotal = 3
  MaxLines = 2
  NoConn = NoConn
CHECK_DEADLOCK FALSE
SYMMETRY MCSymmetry
INVARIANTS TypeOK IntervalsAddUp LinesConsistent KnownPortsAligned
