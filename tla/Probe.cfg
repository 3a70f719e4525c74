SPECIFICATION Spec
CONSTANTS
  Conns = {c0}
  StaleThreshold = 2
  FreezeGap = 1
  RecvStale = 3
  Freezes = {1, 4}
  MaxSeq = 4
  MaxSessions = 2
INVARIANTS
  ZombieCheckFair
  ZombieFound
CHECK_DEADLOCK FALSE
