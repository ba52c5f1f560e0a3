CONSTANTS
  Jobs = {j1, j2}
  NoJob = NoJob
  Persist = TRUE
  WorkerTask = WorkerTask
  Idle = Idle
  Faults = {"crash", "probe", "docker", "malformed"}
SPECIFICATION FairSpec
CHECK_DEADLOCK FALSE
INVARIANTS
  CallKeepsEngine
  StopLeavesNothing
PROPERTIES
  ImplementsRunner
  GpuIsFreed
