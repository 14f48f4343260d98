SPECIFICATION ForgeFairSpec
CONSTANTS
  Tasks = {t1, t2}
  NoTask = NoTask
CHECK_DEADLOCK FALSE
INVARIANTS RefsAccounted
PROPERTY ForgeEnds
