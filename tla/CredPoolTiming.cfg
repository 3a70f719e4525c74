SPECIFICATION FairSpec
CONSTANTS
  Conns <- TwoConns
  Grower = Grower
  Size = 1
  ConnsPerSlot = 2
  Redundancy = 1
  CredLife = 2
  FetchCooldown = 1
  SatShort = 1
  SatLong = 1
  ActiveWindow = 1
  AllocLifetime = 1
  MinRealUse = 0
  GhostCooldown = 1
  PathPause = 1
  CascadePause = 3
  CascadeWindow = 2
  TransitionPause = 1
PROPERTIES
  ServedOnceCalm
  SaturatedNotShared
  PauseNeverCutShort
