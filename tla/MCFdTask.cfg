CONSTANTS
  t1 = t1
  t2 = t2
  fdtask = fdtask
  Tasks = {t1, t2, fdtask}
  NULL = NULL
  f1 = f1
  Fds = {f1}
  Refused = {f1}
  Limit = 3
  RW = {"e"}
  Delays = {}
  FdTimeout = 1
  PollMax = 1
  Ms = 1
  MaxEvents = 2
  Data = {"NULL"}
  Callback = TRUE
  Yields = FALSE
SPECIFICATION FairSpec
INVARIANTS
  WatchersSleep
  SleepersAttended
  CountCovers
PROPERTY SleepersReturn
