SPECIFICATION FairSpec
CONSTANTS
  f1 = f1
  c1 = c1
  c2 = c2
  Flows = {f1}
  Conns = {c1, c2}
  None = None
  MaxPackets = 1
  MaxSessions = 2
INVARIANTS SocketsTracked BlockOwned CrashNeedsGap
PROPERTIES BrotocolFollowed TrackingEnds
CHECK_DEADLOCK FALSE
