SPECIFICATION Spec
CONSTANTS
  ClientEnds <- MCClientEnds
  ServerEnds <- MCServerEnds
  ClientSegments <- MCClientSegments
  ServerSegments <- TwoPackets
CHECK_DEADLOCK FALSE
INVARIANT RawPacketInPlace
