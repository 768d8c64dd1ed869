SPECIFICATION FairSpec
CONSTANTS
  Conn = {1, 2}
  BUFF_SIZE = 2
  Window = 2
  Lengths = {3}
INVARIANT TypeOK InFrame
PROPERTY IsRequestReply AckArrives SenderEnds
CHECK_DEADLOCK FALSE
