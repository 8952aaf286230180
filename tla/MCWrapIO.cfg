CONSTANTS
  t1 = t1
  t2 = t2
  Tasks = {t1, t2}
  NULL = NULL
  f1 = f1
  Fds = {f1}
  Refused = {f1}
  Callback = TRUE
  Sizes = {2}
  Supply = 1
  Demand = 2
SPECIFICATION FairSpec
INVARIANTS
  NothingLost
  OutcomesTrue
PROPERTY CallsReturn
