SPECIFICATION Spec
CONSTANTS
  Data = {1, 2}
  Address = {1, 2, 3, 4}
  BUFF_SIZE = 2
  SEND_SIZE = 3
  Sizes = {0, 5}
  PlainBytes = {1, 6}
  MaxPlain = 9
  MaxFile = 6
INVARIANT UdpExact RoundTrip AnalysisSplits
PROPERTY IsDeque
CHECK_DEADLOCK FALSE
