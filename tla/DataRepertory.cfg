SPECIFICATION FairSpec
CONSTANTS
  Threads = {t1, t2, t3}
  MaxPush = 3
  Spurious = TRUE
INVARIANT TypeOK NotAllAsleep
PROPERTY EveryItemTaken
CHECK_DEADLOCK FALSE
