\* Two writers on one object: a waiter is woken.
CONSTANTS
  MaxReaders = 2
  Readers = {}
  Writers = {w1, w2}
  Txns = {}
  NoTxn = NoTxn
SPECIFICATION FairSpec
PROPERTY WaitersWake
CHECK_DEADLOCK FALSE
