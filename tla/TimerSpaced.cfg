SPECIFICATION FairSpec
CONSTANTS
  Objects = {o1, o2}
  Timers = {t1, t2, t3}
  NULL = NULL
  MaxQueue = 3
  Spaced = TRUE
INVARIANT TypeOK NoDangling LastCallWins
PROPERTY DestructorReturns
CHECK_DEADLOCK FALSE
