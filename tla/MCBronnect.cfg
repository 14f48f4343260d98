SPECIFICATION Spec
CONSTANTS
  Conns = {c1, c2}
  Flows = {f1, f2}
  ZeroFlow = ZeroFlow
SYMMETRY Symmetry
CHECK_DEADLOCK FALSE
INVARIANTS
  EventsFollowReadiness
  NoDanglingEvents
  ConnectionsCounted
  TelexClosedBeforeRelay
  RecordKeptForCaller
PROPERTIES
  TeardownUnblocks
