SPECIFICATION Spec
CONSTANTS
  MaxTick <- MCMaxTick
  None = None
CHECK_DEADLOCK FALSE
INVARIANTS
  EndIsShown
  ErrorExplained
PROPERTIES
  CauseKept
  Settles
