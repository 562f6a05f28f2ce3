\* A reply may overtake the registration of its callback.
CONSTANTS
  a = a
  b = b
  t1 = t1
  t2 = t2
  t3 = t3
  op1 = op1
  op2 = op2
  Peers = {a, b}
  Opcodes = {op1}
  SimpleOps = {}
  QuitOps = {}
  Threads = {t1}
  Home <- OneA
  CookieMod = 8
  MaxSerial = 1
  Budget <- OnlyA1
  MaxInFlight = 1
  MayStop = {}
CHECK_DEADLOCK FALSE
SPECIFICATION Spec
INVARIANT RepliesReachCallback
