CONSTANTS
  t1 = t1
  t2 = t2
  t3 = t3
  t4 = t4
  Tasks = {t1, t2, t3, t4}
  NULL = NULL
SPECIFICATION FairSpec
INVARIANTS
  WriterExcludes
  ReadersExact
  NoLostWaiter
PROPERTIES
  ReadersDoNotOvertake
  WaiterGetsIn
