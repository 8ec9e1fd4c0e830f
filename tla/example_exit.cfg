\* Four jobs for two workers and a queue of one, so that produce() waits for room.
CONSTANTS
  t1 = t1  t2 = t2  t3 = t3  t4 = t4
  w1 = w1  w2 = w2
  s1 = s1  p1 = p1
  Tasks = {t1, t2, t3, t4}
  Workers = {w1, w2}
  ShutdownCalls = {s1}
  StopCalls = {p1}
  Bounded = {s1}
  QueueSize = 1
  ErrBuf = 1
  Reading = TRUE
  ParentCancels = TRUE
  NoTask = NoTask
  shutdown = s1
  stop = p1
SPECIFICATION ExFairSpec
INVARIANTS ExitsCleanly
PROPERTIES SignalEndsProgram
CHECK_DEADLOCK FALSE
