SPECIFICATION Spec
CONSTANTS
  txvring = txvring
  rxvring = rxvring
  app = app
  Free = Free
  Senders <- MCSendersOne
  TxTask <- txvring
  Windows <- MCNoWindows
  VRING_SIZE = 2
  IDX_MOD = 4
  MaxSends = 7
  MaxReads = 12
INVARIANT NothingInvented
CHECK_DEADLOCK FALSE
