CONSTANTS
  Jobs = {j1}
  NoJob = NoJob
  Posts = {p1}
  Gets = {g1}
  Limit = 1
  Persist = TRUE
CHECK_DEADLOCK FALSE
SPECIFICATION ServiceSpec
INVARIANT
  HandlesGoWithTheBody
