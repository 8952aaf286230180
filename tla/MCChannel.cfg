CONSTANTS
  t1 = t1
  t2 = t2
  t3 = t3
  Tasks = {t1, t2, t3}
  NULL = NULL
  c0 = c0
  c2 = c2
  Channels = {c0, c2}
  v1 = v1
  v2 = v2
  Values = {v1, v2}
  Zero = v1
  BufSize <- MCBufSize
  Arrays <- MCArrays
SPECIFICATION Spec
SYMMETRY Perms
INVARIANTS
  EntriesExact
  NoMissedMatch
  NeverAborts
PROPERTY Refinement
CHECK_DEADLOCK FALSE
