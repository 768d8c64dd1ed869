SPECIFICATION Spec
CONSTANTS
  Objects = {o1}
  Timers = {t1}
  NULL = NULL
  MaxQueue = 3
  Spaced = FALSE
INVARIANT LastCallWins
CHECK_DEADLOCK FALSE
