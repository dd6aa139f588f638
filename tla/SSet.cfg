CONSTANTS
  Keys = {1, 2}
  Vals = {v1, v2}
  Txns = {x1, x2}
  NoTxn = NoTxn
  Absent = Absent
  Deleted = Deleted
  SyncSize = 2
  BlockSize = 1
  MaxPending = 1
  MaxAtoms = 2
  MaxAfter = 1
SPECIFICATION Spec
SYMMETRY Alike
INVARIANTS LockedIffAtom ReadsAgree
PROPERTY RefinesStore
CHECK_DEADLOCK FALSE
