SPECIFICATION Spec
CONSTANTS
  Clients = {c1}
  Jobs = {j1, j2}
  NULL = NULL
  min_num = 1
  max_num = 2
  ThreadLimit = 2
  TimelySleep = TRUE
  IdStoredFirst = TRUE
  Spurious = FALSE
  Manages = TRUE
INVARIANT BusyThreadSpared
CHECK_DEADLOCK FALSE
