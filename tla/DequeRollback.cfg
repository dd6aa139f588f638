\* One transaction on both ends.
CONSTANTS
  Entries = {e1, e2}
  DqTxns = {x1}
  DqNoTxn = DqNoTxn
  Null = Null
  DqEnd = DqEnd
SPECIFICATION DqSpec
INVARIANT RollbackDrops
CHECK_DEADLOCK FALSE
