SPECIFICATION Spec
CONSTANTS
  MaxSlot = 1
  a1 = a1
  a2 = a2
  b1 = b1
  Creds <- TwoOrShared
  Calls = {c1}
  CallOf <- OneCall
  None = None
  Cooldown = 2
  Savers = {v1, v2}
  NoFile = NoFile
  Torn = Torn
SYMMETRY Symmetry
VIEW View
INVARIANTS
  FileWhole
  NoTwins
  QuarantineKept
  DeadForgotten
CHECK_DEADLOCK FALSE
