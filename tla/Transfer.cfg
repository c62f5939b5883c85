\* Two packets of answer, limits of three and two launches, four report numbers.
SPECIFICATION FairTransfer
CONSTANTS
  USB_NAK_LIMIT = 3
  USB_RETRY_LIMIT = 2
  AskedPkts = 2
  PollPkts = 1
  ShortReport = FALSE
  Reports = 4
INVARIANTS
  TransferTypeOK
  AnswerWhole
PROPERTIES
  OneReportAtATime
  CallsReturn
  ReportsArrive
