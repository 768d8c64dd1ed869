SPECIFICATION Spec
CONSTANTS
  Clients = {c1, c2}
  Jobs = {j1, j2}
  NULL = NULL
  min_num = 1
  max_num = 2
  ThreadLimit = 3
  TimelySleep = FALSE
  IdStoredFirst = FALSE
  Spurious = FALSE
  Manages = TRUE
INVARIANT TypeOK PoolSize IndexInBounds SizeInv
SYMMETRY Symmetry
CHECK_DEADLOCK FALSE
