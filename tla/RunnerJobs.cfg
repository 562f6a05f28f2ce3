\* One thread runs two jobs, one of whose code is broken, while the io thread serves both.
CONSTANTS
  j1 = j1
  j2 = j2
  t1 = t1
  t2 = t2
  out = out
  err = err
  k1 = k1
  k2 = k2
  Children = {j1, j2}
  Threads = {t1}
  Streams = {out, err}
  Stderr = err
  ReadSize = 2
  MaxOutput <- Output
  Configs = {k1, k2}
  ConfigOf <- OwnConfig
  Broken = {j1}
CHECK_DEADLOCK FALSE
SPECIFICATION FairRunnerSpec
INVARIANTS ResultComplete ReadsFit CalledOnce
PROPERTY JobsComplete
