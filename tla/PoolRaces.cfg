SPECIFICATION FairSpec
CONSTANTS
  Clients = {c1, c2}
  Jobs = {j1, j2}
  NULL = NULL
  min_num = 1
  max_num = 2
  ThreadLimit = 2
  TimelySleep = FALSE
  IdStoredFirst = FALSE
  Spurious = TRUE
  Manages = FALSE
INVARIANT RunAtMostOnce
PROPERTY CallReturns
CHECK_DEADLOCK FALSE
