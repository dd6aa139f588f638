\* The least value, the zero and both signs among the operands of the number;
\* a cache of two for five entries of three objects.
CONSTANTS
  Bits = 3
  NoTxn = NoTxn
  Txns = {x1, x2}
  Args <- Operands
  Entries = {d1, d2, d3}
  DqTxns = {x1, x2}
  DqNoTxn = DqNoTxn
  Null = Null
  DqEnd = DqEnd
  Names = {x1, x2}
  Labels = {number, sset}
  NoOid = NoOid
  MaxOids = 3
  e1 = e1
  e2 = e2
  e3 = e3
  e4 = e4
  e5 = e5
  k1 = k1
  k2 = k2
  k3 = k3
  None = None
  Oid <- Ids
  Threads = {x1, x2}
  CacheEntries = {e1, e2, e3, e4, e5}
  Capacity = 2
  MaxUint = 7
SPECIFICATION AllSpec
SYMMETRY Alike
INVARIANTS HeldIffAtom NamesLead CacheExact
PROPERTIES DivMod RefinesStore RefinesQueue RefinesNamespace
CHECK_DEADLOCK FALSE
