CONSTANTS
  t1 = t1
  t2 = t2
  t3 = t3
  Tasks = {t1, t2, t3}
  NULL = NULL
  Chunk = 2
  IntRange = 8
  ExitValues = {0}
SPECIFICATION FairSpec
INVARIANTS
  RunqueueExact
  AlltaskExact
  NoDangling
  StallOnlyWhenAway
  YieldCounts
  YieldIsFair
PROPERTY ReadyRuns
