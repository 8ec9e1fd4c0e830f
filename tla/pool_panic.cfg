\* A Submit between its two selects while the pool is closed.
CONSTANTS
  t1 = t1  t2 = t2
  w1 = w1  w2 = w2
  s1 = s1  p1 = p1
  Tasks = {t1, t2}
  Workers = {w1, w2}
  ShutdownCalls = {s1}
  StopCalls = {p1}
  Bounded = {s1}
  QueueSize = 2
  ErrBuf = 1
  Reading = FALSE
  ParentCancels = FALSE
  NoTask = NoTask
SPECIFICATION Spec
SYMMETRY Symmetry
INVARIANTS SubmitNeverPanics
CHECK_DEADLOCK FALSE
