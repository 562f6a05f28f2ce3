\* Two children with pipes of every kind and three threads, which start, stop, join and detach them; a spawn may fail.
CONSTANTS
  c1 = c1
  c2 = c2
  t1 = t1
  t2 = t2
  t3 = t3
  Children = {c1, c2}
  Threads = {t1, t2, t3}
  Streams = {0, 1, 2}
  Calls <- Setters
CHECK_DEADLOCK FALSE
SPECIFICATION FairSpawnSpec
INVARIANTS ListedOwnsPid ReportedOnce NoLostExit PipesFollowChild DescriptorsKept
PROPERTIES ExitsReported JoinReturns
