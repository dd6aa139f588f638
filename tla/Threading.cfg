\* As many threads as tickets, so that the counters meet again after a wrap.
CONSTANTS
  Threads = {t1, t2, t3}
  Wrap = 3
  RwThreads = {t1, t2, t3}
  MaxCount = 3
  a = a
  b = b
  c = c
  d = d
  NoTask = NoTask
  Workers = {t1, t2}
  Closer = t3
  Tasks = {a, b, c, d}
  Lists = {{a, b, c}, {d}}
  Needs <- WaitForOthers
  Yields <- YieldToOthers
SPECIFICATION AllSpec
INVARIANTS MutualExclusion FirstComeFirstServed Exclusive CountIsReaders OnePlace NoticedWork
PROPERTIES LocksServe DispatchEnds
CHECK_DEADLOCK FALSE
