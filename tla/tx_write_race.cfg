SPECIFICATION Spec
CONSTANTS
  txvring = txvring
  rxvring = rxvring
  app = app
  Free = Free
  Senders <- MCSendersOne
  TxTask <- txvring
  Windows <- MCWrite
  VRING_SIZE = 4
  IDX_MOD = 16
  MaxSends = 6
  MaxReads = 10
INVARIANT PublishedIsWritten
CHECK_DEADLOCK FALSE
