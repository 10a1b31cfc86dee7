SPECIFICATION Spec
CONSTANTS
  c1 = c1
  c2 = c2
  Clients <- MCClients
  Releases <- MCReleases
  First <- MCFirst
  None = None
  Bundle = FALSE
  MaxRedirects = 2
SYMMETRY Symmetry
CHECK_DEADLOCK FALSE
INVARIANTS
  CopyRemains
  Trusted
  NoDowngrade
  Installs
