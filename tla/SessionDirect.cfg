SPECIFICATION Spec
CONSTANTS
  Conns = {c0}
  Boot = {c0}
  Modes = {"direct"}
  Slots = {s0}
  Quota = 1
  Nowhere = Nowhere
  MaxFailures = 1
  MaxRetries = 1
  RecvCap = 1
  Incarnations = 2
INVARIANTS
  SlotsComeBack
CHECK_DEADLOCK FALSE
