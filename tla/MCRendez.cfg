CONSTANTS
  t1 = t1
  t2 = t2
  t3 = t3
  t4 = t4
  Tasks = {t1, t2, t3, t4}
  NULL = NULL
  r1 = r1
  r2 = r2
  Rendezes = {r1, r2}
  Locked = {r1}
SPECIFICATION RendezFairSpec
INVARIANTS
  MutualExclusion
  NeverAborts
  NoLostWaiter
  SleepersExact
PROPERTIES
  NoBarging
  WaiterGetsLock
CHECK_DEADLOCK FALSE
