SPECIFICATION FairSpec
CONSTANTS
  Clients = {c1}
  Jobs = {j1, j2, j3, j4}
  NULL = NULL
  min_num = 1
  max_num = 2
  ThreadLimit = 2
  TimelySleep = TRUE
  IdStoredFirst = TRUE
  Spurious = FALSE
  Manages = FALSE
INVARIANT NoUseAfterFree DeletedAfterRun PendingHasWorker
PROPERTY EveryJobRuns
CHECK_DEADLOCK FALSE
