CONSTANTS
  Byte = {0, 1}
  BUF_LEN = 3
  FIFO_LEN = 1
  Threshold = 0
  INT_MAX = 4
  Programs <- MCPrograms
SPECIFICATION FairSpec
INVARIANTS SenderAwake
PROPERTIES TxIsChannel RxIsChannel CallsReturn BytesComeOut
           WritesPatient FailedReadsLeaveNothing
