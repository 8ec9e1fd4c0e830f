\* Three tasks for two workers, a queue of two, an error buffer of one,
\* a Shutdown with a deadline and one without, a Stop, a parent context that can
\* end.
CONSTANTS
  t1 = t1  t2 = t2  t3 = t3
  w1 = w1  w2 = w2
  s1 = s1  s2 = s2  p1 = p1
  Tasks = {t1, t2, t3}
  Workers = {w1, w2}
  ShutdownCalls = {s1, s2}
  StopCalls = {p1}
  Bounded = {s1}
  QueueSize = 2
  ErrBuf = 1
  Reading = TRUE
  ParentCancels = TRUE
  NoTask = NoTask
SPECIFICATION Spec
SYMMETRY Symmetry
INVARIANTS TypeOK TaskAccounting ErrorAccounting ShutdownDrains RangeSeesAll
PROPERTIES NoLateAccept ImplementsContract
CHECK_DEADLOCK FALSE
