SPECIFICATION Spec
CONSTANTS
  alice = alice
  bob = bob
  Accounts <- MCAccounts
  None = None
INVARIANTS
  NoStaleMatch
  NoDangling
  NeverBlocks
PROPERTIES
  PendingIsLeft
