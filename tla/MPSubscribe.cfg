\* A thread of a calls, subscribes and drops handles, several at a time; a thread of b
\* produces and closes. op2 is served by a simple_production. Ids 1, 2, 0 and then 1 again.
CONSTANTS
  a = a
  b = b
  t1 = t1
  t2 = t2
  t3 = t3
  op1 = op1
  op2 = op2
  Peers = {a, b}
  Opcodes = {op1, op2}
  SimpleOps = {op2}
  QuitOps = {}
  Threads = {t1, t3}
  Home <- OneAndOne
  CookieMod = 3
  MaxSerial = 4
  Budget <- OnlyA4
  MaxInFlight = 1
  MayStop = {}
CHECK_DEADLOCK FALSE
SPECIFICATION Spec
INVARIANTS TypeOK DeadProductionGoes SubscriptionHasHandle NoOrphanProduction AbortedSinkClosed NoCrossTalk NoSecondAnswer
