CONSTANTS
  Jobs = {j1, j2}
  NoJob = NoJob
  Persist = TRUE
SPECIFICATION FairSpec
PROPERTY
  StopReturnsEventually
CHECK_DEADLOCK FALSE
