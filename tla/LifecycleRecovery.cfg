SPECIFICATION FairSpec
CONSTANTS
  Starters = {s1}
  MaxAttempts = 2
  Callers = {"app", "watchdog"}
PROPERTIES
  Recovers
  StopEndsAll
CHECK_DEADLOCK FALSE
