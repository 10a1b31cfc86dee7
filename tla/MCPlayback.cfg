SPECIFICATION Spec
CONSTANTS
  Moves <- MCBothWays
  Arena = 1
  DashDistance = 2
  MaxHP = 2
  DelayTicks = 3
  Capacity = 2
  MaxTick = 3
  MaxInput = 2
  MaxElapsed = 2
  MaxInFlight = 2
  MaxQuiet = 0
CHECK_DEADLOCK FALSE
INVARIANTS
  PredictedFromNewest
  ShownOnce
