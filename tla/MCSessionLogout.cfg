SPECIFICATION Spec
CONSTANTS
  r1 = r1
  r2 = r2
  Requests <- MCRequests
  Nobody = Nobody
  MaxPairs = 3
SYMMETRY Symmetry
INVARIANTS
  LogoutRemoves
