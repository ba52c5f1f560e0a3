CONSTANTS
  Jobs = {j1, j2}
  NoJob = NoJob
  Posts = {p1, p2}
  Gets = {g1}
  Limit = 1
  Persist = TRUE
CHECK_DEADLOCK FALSE
SPECIFICATION ServiceFairSpec
INVARIANTS
  SlotsConserved
  HandlesBelongToWork
  AnswerTellsTheJob
PROPERTIES
  PostsAreAnswered
