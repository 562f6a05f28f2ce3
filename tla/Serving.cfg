\* One requested and one subscribed opcode, two connections, two sinks, two threads.
CONSTANTS
  reply = reply
  feed = feed
  x1 = x1
  x2 = x2
  t1 = t1
  t2 = t2
  Keys <- MCKeys
  Subscribed <- MCSubscribed
  Addresses <- MCAddresses
  Threads <- MCThreads
  MaxConnections = 2
  MaxSinks = 2
\* The calls of connect are bounded, and a program that died does nothing.
CHECK_DEADLOCK FALSE
SPECIFICATION FairServingSpec
INVARIANTS DisconnectedNotFound StraysOnce
PROPERTIES HeldCallbackStays LiveHandlersRun CloseReturns
