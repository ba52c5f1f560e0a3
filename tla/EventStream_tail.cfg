CONSTANTS
  Clients = {c1, c2}
  Limit = 2
  Persistent = FALSE
SPECIFICATION FairSpec
CHECK_DEADLOCK FALSE
INVARIANTS
  DeliveredOnceInOrder
  CounterIsExact
PROPERTIES
  StreamEnds
  TerminalReaches
