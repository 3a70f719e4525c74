SPECIFICATION Spec
CONSTANTS
  Conns <- ThreeConns
  Grower = Grower
  Size = 2
  ConnsPerSlot = 1
  Redundancy = 2
  CredLife = 1
  FetchCooldown = 0
  SatShort = 0
  SatLong = 0
  ActiveWindow = 0
  AllocLifetime = 0
  MinRealUse = 0
  GhostCooldown = 0
  PathPause = 0
  CascadePause = 0
  CascadeWindow = 0
  TransitionPause = 0
INVARIANTS
  TypeOK
  NoLeakedCapacity
  CountExactUnlessStrayed
  FetchFlagExact
  FetchTargetStaysUnusable
  ColdStartFetchesBounded
