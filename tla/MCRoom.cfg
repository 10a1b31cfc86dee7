SPECIFICATION Spec
CONSTANTS
  A = A
  B = B
  NoPlayer = NoPlayer
  CountdownTicks = 1
  MatchDurationTicks = 4
  InitialHP = 2
  MovementPerTick = 1
  AttackDepth = 1
  AttackHalfWidth = 0
  PlayerHalfExtent = 0
  MinX <- West
  MaxX = 1
  MinY = 0
  MaxY = 1
  SpawnAX <- West
  SpawnAY = 0
  SpawnBX = 1
  SpawnBY = 0
  DashCooldown = 2
  DashDistance = 2
  AttackCooldown = 3
  Windup = 1
  Active = 2
  Recovery = 1
  Damage = 1
  MaxPendingActions = 1
  Moves <- SideMoves
  ActionTypes = {"dash", "light_attack"}
CHECK_DEADLOCK FALSE
INVARIANTS
  CountdownIsInert
  Evenhanded
  Timeline
  VerdictFollowsLives
PROPERTIES
  DamageIsEarned
  DuelKept
