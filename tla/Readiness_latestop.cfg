CONSTANTS
  Callers = {c1, c2}
  Idle = Idle
  Faults = {"docker", "late stop"}
SPECIFICATION Spec
INVARIANT
  LeasedEngineStaysUp
CHECK_DEADLOCK FALSE
