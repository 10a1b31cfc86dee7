SPECIFICATION Spec
CONSTANTS
  a = a
  b = b
  Players <- MCPlayers
  NoPlayer = NoPlayer
  CountdownTicks = 1
  MatchDurationTicks = 2
INVARIANTS
  SoleOutcome
  NeverBlocksNorPanics
  EveryoneHears
  OutcomeJustified
  NewestWins
PROPERTIES
  PromiseKept
  Settles
