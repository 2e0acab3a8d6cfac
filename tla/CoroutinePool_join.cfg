SPECIFICATION FairSpec
CONSTANTS
  p1 = p1
  p2 = p2
  w1 = w1
  w2 = w2
  t1 = t1
  t2 = t2
  Outside = Outside
  Pools = {p1}
  Ring <- OneRing
  Workers = {w1}
  Tasks = {t1}
  MinSize = 0
  MaxSize = 1
  Joiner <- OutsideJoin
  Cancellable = {}
  Stoppable = {}
  Timed = FALSE
  Suspending = {}
PROPERTY JoinReturns
CHECK_DEADLOCK FALSE
