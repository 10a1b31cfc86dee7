SPECIFICATION Spec
CONSTANTS
  QueueSize = 2
  SequenceWindow = 3
  TickWindow = 2
  PerTick = 2
  MaxCommands = 4
  MaxTicks = 4
  MaxInFlight = 2
INVARIANTS
  ExactlyOnce
  NothingForgotten
  NeverOverflows
PROPERTIES
  StreamKept
CHECK_DEADLOCK FALSE
