SPECIFICATION FairSpec
CONSTANTS
  txvring = txvring
  rxvring = rxvring
  app = app
  Free = Free
  Senders <- MCSendersTwo
  TxTask <- txvring
  Windows <- MCNoWindows
  VRING_SIZE = 3
  IDX_MOD = 12
  MaxSends = 6
  MaxReads = 12
INVARIANTS TypeOK NoOverwrite NothingStranded OneCredit MutexHeldInside
PROPERTIES ImplementsChannel SendReturns ReservedIsRead
CHECK_DEADLOCK FALSE
