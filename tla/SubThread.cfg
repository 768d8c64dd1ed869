SPECIFICATION FairSpec
CONSTANTS
  WAITING_QUIT_LOOP_TIMES = 4
  MaxMessages = 5
  Spurious = TRUE
INVARIANT TypeOK NoUseAfterFree NoLostWakeup
PROPERTY DeletedAtLast
CHECK_DEADLOCK FALSE
