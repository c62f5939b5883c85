\* Rings of three, fifos of one, a clock of five ticks and seconds of two of them.
SPECIFICATION FairJtag
CONSTANTS
  TickCount = 5
  Period = 2
  BUF_LEN = 3
  FifoLen = 1
  Timeout = 2
  MaxCount = 3
  Programs = {{"write", "close"}, {"read"}}
  Typed = 1
  Numbers = 3
INVARIANTS
  JtagTypeOK
  NeverStuck
PROPERTIES
  AlarmOnTime
  BytesInOrder
  WritesReturn
