SPECIFICATION FairSpec
CONSTANTS
  txvring = txvring
  rxvring = rxvring
  app = app
  Free = Free
  Senders <- MCSendersOne
  TxTask <- txvring
  Windows <- MCSuspend
  VRING_SIZE = 4
  IDX_MOD = 16
  MaxSends = 3
  MaxReads = 10
PROPERTY KickServed
CHECK_DEADLOCK FALSE
