SPECIFICATION FairSpec
CONSTANTS
  Conns = {c1}
  Flows = {f1}
  ZeroFlow = ZeroFlow
CHECK_DEADLOCK FALSE
PROPERTIES
  InitOrReclaimed
  ShutdownCompletes
