SPECIFICATION Spec
CONSTANTS
  p1 = p1
  p2 = p2
  w1 = w1
  w2 = w2
  t1 = t1
  t2 = t2
  Outside = Outside
  Pools = {p1, p2}
  Ring <- TheRing
  Workers = {w1, w2}
  Tasks = {t1, t2}
  MinSize = 0
  MaxSize = 1
  Joiner <- NestedJoin
  Cancellable = {t2}
  Stoppable = {p1}
  Timed = TRUE
  Suspending = {t2}
SYMMETRY WorkerSymmetry
INVARIANTS TypeOK NoPanic  NotifiedFindsResult
PROPERTIES TasksLive
CHECK_DEADLOCK FALSE
