SPECIFICATION Spec
CONSTANTS
  a = a
  b = b
  c = c
  d = d
  Players <- MCPlayers
  NoPlayer = NoPlayer
  WaitingTTL = 3
  TicketTTL = 2
  MaxMatches = 4
SYMMETRY Symmetry
INVARIANTS
  NobodyWaitsInVain
  PairsMutual
