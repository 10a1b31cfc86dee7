SPECIFICATION MCSpec
CONSTANTS
  a = a
  b = b
  m = m
  Calls <- FourCalls
  NoCall = NoCall
  Tickets <- MCTickets
  MaxClock = 2
CHECK_DEADLOCK FALSE
INVARIANTS
  BothOrNone
  OnceWhileValid
PROPERTIES
  NobodyHangs
