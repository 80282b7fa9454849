SPECIFICATION LiveSpec
CONSTANTS
  w1 = w1
  w2 = w2
  None = None
  Depth = 4
  PageSize = 1
  Sizes = {2}
  Writers <- OneWriter
  MaxTx = 4
  MaxRx = 4
CHECK_DEADLOCK FALSE
INVARIANTS TypeOK NoBug PrivatePages NoLostWakeup
PROPERTIES TxIsFifo RxIsFifo PublishedPagesStable PublishedIsTaken FilledIsDelivered
