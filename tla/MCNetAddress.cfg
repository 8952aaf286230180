CONSTANTS
  t1 = t1
  t2 = t2
  Tasks = {t1, t2}
  NULL = NULL
  f1 = f1
  f2 = f2
  Fds = {f1, f2}
  p1 = p1
  Peers = {p1}
  Refused = {f1}
  Limit = 3
  Callback = TRUE
SPECIFICATION Spec
INVARIANT RemoteAddressGiven
