SPECIFICATION FairSpec
CONSTANTS
  Conn = {1, 2}
  User = {1}
  Name = {1}
  BUFF_SIZE = 2
  Window = 2
  FILE_BUFF_SIZE = 2
  Sizes = {0, 3}
INVARIANT TypeOK InFrame PutArrives
PROPERTY CopyExact EveryoneReturns
CHECK_DEADLOCK FALSE
