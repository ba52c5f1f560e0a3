CONSTANTS
  Callers = {c1, c2, c3}
  Idle = Idle
  Faults = {"crash", "probe", "docker", "malformed"}
SPECIFICATION FairSpec
CHECK_DEADLOCK FALSE
INVARIANTS
  NoStopUnderLease
  SingleFlight
  OneColdStart
  ReadyMeansServing
  CauseExplainsAnswer
PROPERTIES
  EnsureReadyReturns
  IdleEngineStops
