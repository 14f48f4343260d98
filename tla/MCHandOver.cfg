SPECIFICATION FairSpec
CONSTANTS
  ClientEnds <- MCClientEnds
  ServerEnds <- MCServerEnds
  ClientSegments <- MCClientSegments
  ServerSegments <- OnePacket
CHECK_DEADLOCK FALSE
INVARIANTS TypeOK StreamIntact
PROPERTIES FlightArrives HandOverCompletes
