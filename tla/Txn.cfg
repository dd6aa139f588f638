CONSTANTS
  MaxReaders = 8
  Bits = 2
  NoTxn = NoTxn
  Nobody = Nobody
  o1 = o1
  o2 = o2
  x1 = x1
  x2 = x2
  c1 = c1
  c2 = c2
  c3 = c3
  Objects = {o1, o2}
  Txns = {x1, x2}
  Clients = {c1, c2, c3}
  Scripts <- Workloads
SPECIFICATION Spec
INVARIANTS BarrierHeld NoFlagClash OwnedIffAtom NoUseAfterFree
PROPERTIES RefinesStore ReadsCommitted
CHECK_DEADLOCK FALSE
