SPECIFICATION FairSpec
CONSTANTS
  Conns = {c0}
  Boot = {c0}
  Modes <- AllModes
  Slots = {s0}
  Quota = 1
  Nowhere = Nowhere
  MaxFailures = 1
  MaxRetries = 1
  RecvCap = 1
  Incarnations = 2
INVARIANTS
  RefusalReported
  SrtpClosedBeforeRelease
PROPERTIES
  UsesSlotOnce
  CancelEndsAll
  SleepersRetry
CHECK_DEADLOCK FALSE
