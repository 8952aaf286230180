CONSTANTS
  t1 = t1
  t2 = t2
  t3 = t3
  fdtask = fdtask
  Tasks = {t1, t2, t3, fdtask}
  NULL = NULL
  f1 = f1
  Fds = {f1}
  Refused = {}
  Limit = 3
  RW = {"r"}
  Delays = {0, 1}
  FdTimeout = 2
  PollMax = 1
  Ms = 2
  MaxEvents = 1
  Data = {}
  Callback = FALSE
  Yields = TRUE
SPECIFICATION Spec
SYMMETRY Perms
INVARIANTS
  SleepersExact
  SleepersWatched
  NeverOversleeps
PROPERTIES
  DelayAtLeast
  FdWaitPromised
