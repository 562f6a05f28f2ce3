\* Both ends call, serve and produce; the connection may close at any moment.
CONSTANTS
  a = a
  b = b
  t1 = t1
  t2 = t2
  t3 = t3
  op1 = op1
  op2 = op2
  Peers = {a, b}
  Opcodes = {op1}
  SimpleOps = {}
  QuitOps = {op1}
  Threads = {t1, t3}
  Home <- OneAndOne
  CookieMod = 8
  MaxSerial = 1
  Budget <- Both1
  MaxInFlight = 2
  MayStop = {a, b}
CHECK_DEADLOCK FALSE
SPECIFICATION FairSpec
PROPERTIES CallsAdvance CallsAnswered
