SPECIFICATION FairSpec
CONSTANTS
  NUses = 2
  MaxCommands = 2
  MaxTimers = 4
  MaxDeaths = 1
CHECK_DEADLOCK FALSE
INVARIANTS RelayedIsBlocked DoneIsUnblocked
PROPERTY FinallyUnblocked
