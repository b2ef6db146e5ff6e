SPECIFICATION FairSpec
CONSTANTS
  Hw = 3
  PoolEnabled = TRUE
  Span = 4
  Bodies = {b1, b2}
  Grains = {0, 2}
  MaxGen = 2
INVARIANTS JoinedAtExit
CHECK_DEADLOCK FALSE
