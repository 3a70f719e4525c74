SPECIFICATION FairSpec
CONSTANTS
  Callers = {c1, c2, c3}
  MaxTunnels = 1
  Devices = {d1, d2}
  None = None
INVARIANTS OpenDeviceOwned RunningProxyOwned OneTeardown OutcomeKept
PROPERTIES TurnOffReturns SwitchedOffRests
CHECK_DEADLOCK FALSE
