SPECIFICATION FairSpec
CONSTANTS
  CIRCLE_BUFF_SIZE = 3
  MaxIndex = 8
  Spurious = TRUE
INVARIANT TypeOK RingInv NoLostWakeup
PROPERTY IsFifo EveryMessageSettled
CHECK_DEADLOCK FALSE
