SPECIFICATION SysFairSpec
CONSTANTS
  txvring = txvring
  rxvring = rxvring
  Free = Free
  Senders <- MCSendersOne
  app = app
  TxTask <- txvring
  RxTask <- rxvring
  Windows <- MCNoWindows
  VRING_SIZE = 2
  IDX_MOD = 16
  MaxSends = 12
  MaxReads = 12
  Segments = 2
  MaxRequests = 3
  MaxPipeline = 2
INVARIANTS KicksMatchRequests
PROPERTIES ImplementsLink EveryRequestAnswered
CHECK_DEADLOCK FALSE
