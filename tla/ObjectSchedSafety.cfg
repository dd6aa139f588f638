CONSTANTS
  MaxReaders = 5
  Readers = {r1}
  Writers = {w1, w2}
  Txns = {x1, x2}
  NoTxn = NoTxn
SPECIFICATION Spec
SYMMETRY TaskSymmetry
INVARIANTS TypeOK Exclusion CommitBeforeTxn WriteOnCommitted RightTxn QuiescentClean
CHECK_DEADLOCK FALSE
