\* A broken and a valid job are run with the same configuration.
CONSTANTS
  j1 = j1
  j2 = j2
  t1 = t1
  t2 = t2
  out = out
  err = err
  k1 = k1
  k2 = k2
  Children = {j1, j2}
  Threads = {t1}
  Streams = {out, err}
  Stderr = err
  ReadSize = 2
  MaxOutput <- Short
  Configs = {k1}
  ConfigOf <- SharedConfig
  Broken = {j1}
CHECK_DEADLOCK FALSE
SPECIFICATION RunnerSpec
INVARIANT ValidCodeSucceeds
