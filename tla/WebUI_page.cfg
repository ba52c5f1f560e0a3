CONSTANTS
  Jobs = {j1, j2}
  NoJob = NoJob
  Clicks = {c1, c2}
  MaxPolls = 1
SPECIFICATION FairSpec
CHECK_DEADLOCK FALSE
INVARIANTS
  ShownIsTrue
  ClockIsTheJobs
  ResultIsPaired
PROPERTIES
  GenerateComesBack
  PageCatchesUp
