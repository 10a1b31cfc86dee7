SPECIFICATION Spec
CONSTANTS
  dash = dash
  attack = attack
  w = w
  s = s
  d = d
  Actions <- MCActions
  Keys <- MCKeys
  Default <- MCDefault
  None = None
  Garbage = Garbage
INVARIANTS
  RestartKeepsBindings
