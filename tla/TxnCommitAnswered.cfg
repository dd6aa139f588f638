CONSTANTS
  MaxReaders = 8
  Bits = 4
  NoTxn = NoTxn
  Nobody = Nobody
  o1 = o1
  o2 = o2
  x1 = x1
  x2 = x2
  c1 = c1
  c2 = c2
  c3 = c3
  Objects = {o1}
  Txns = {x1}
  Clients = {c1, c2, c3}
  Scripts <- SequentialOnly
SPECIFICATION FairSpec
PROPERTY CommitAnswered
CHECK_DEADLOCK FALSE
