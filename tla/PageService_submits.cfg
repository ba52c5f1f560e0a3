SPECIFICATION ServiceSpec
CONSTANTS
  Jobs = {j1, j2}
  NoJob = NoJob
  Clicks = {c1, c2}
  MaxPolls = 1
  Persist = TRUE
CHECK_DEADLOCK FALSE

INVARIANT OneJobInFlight
