CONSTANTS
  t1 = t1
  t2 = t2
  fdtask = fdtask
  Tasks = {t1, t2, fdtask}
  NULL = NULL
  f1 = f1
  Fds = {f1}
  Refused = {}
  Limit = 3
  RW = {"r"}
  Delays = {1}
  FdTimeout = 2
  PollMax = 1
  Ms = 1
  MaxEvents = 2
  Data = {}
  Callback = TRUE
  Yields = FALSE
SPECIFICATION Spec
INVARIANT SleepersWatched
