\* One thread, one child whose program may not exist.
CONSTANTS
  c1 = c1
  c2 = c2
  c3 = c3
  t1 = t1
  t2 = t2
  Children = {c1}
  Threads = {t1}
CHECK_DEADLOCK FALSE
SPECIFICATION FairSpec
PROPERTY StartReturns
