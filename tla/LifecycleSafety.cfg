SPECIFICATION Spec
CONSTANTS
  Starters = {s1, s2}
  MaxAttempts = 1
  Callers = {"timer", "wake"}
SYMMETRY StarterSymmetry
INVARIANTS
  OneWaiter
  PendingIsWatched
CHECK_DEADLOCK FALSE
