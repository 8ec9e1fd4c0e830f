\* Two tasks for one worker and a queue of one, so that a Submit waits for room
\* when the worker is slow or gone; an error channel with no buffer; a Shutdown with
\* a deadline and one without, a Stop, and a parent context that can end.
CONSTANTS
  t1 = t1  t2 = t2
  w1 = w1
  s1 = s1  s2 = s2  p1 = p1
  Tasks = {t1, t2}
  Workers = {w1}
  ShutdownCalls = {s1, s2}
  StopCalls = {p1}
  Bounded = {s2}
  QueueSize = 1
  ErrBuf = 0
  Reading = TRUE
  ParentCancels = TRUE
  NoTask = NoTask
SPECIFICATION FairSpec
PROPERTIES EndReleasesPool ShutdownReturnsAtLast AcceptedReturns SubmitReturnsAtLast
CHECK_DEADLOCK FALSE
