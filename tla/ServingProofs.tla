--------------------------- MODULE ServingProofs ---------------------------
(***************************************************************************)
(* Theorems about CallbackMap, for any keys, addresses and number of calls *)
(* of connect; and about Serving, for any opcodes, threads, sinks and      *)
(* handlers.  The table of handlers keeps in Serving the invariant it has  *)
(* on its own; sinks only grow older; and a callback that is being run is  *)
(* in the table unless its owner saw to it that it is not.                 *)
(***************************************************************************)
EXTENDS Serving, TLAPS
-----------------------------------------------------------------------------
(* The table on its own.                                                   *)

(* No two connections that are held have a number or an address in common. *)
Distinct ==
  \A c, d \in connections : c.id = d.id \/ c.at = d.at => c = d

(* An entry points to the connection that brought it, as long as that one  *)
(* is held.  Without this the address that is compared says nothing.       *)
Linked ==
  \A k \in Keys : \A e \in callbacks[k] : \A c \in connections :
    c.id = e.cb => e.cimpl = c.at /\ c.key = k

(* Numbers are given out in order.                                         *)
Numbered ==
  /\ \A c \in connections : c.id <= made
  /\ \A k \in Keys : \A e \in callbacks[k] : e.cb <= made
  /\ \A i \in disconnected : i <= made

Inv == TypeOK /\ Distinct /\ Linked /\ Numbered /\ DisconnectedNotFound
-----------------------------------------------------------------------------
(* An empty table has the invariant.                                       *)
LEMMA InitInv == Init => Inv
<1>. SUFFICES ASSUME Init PROVE Inv
  OBVIOUS
<1>1. callbacks \in [Keys -> SUBSET Entry] /\ \A k \in Keys : callbacks[k] = {}
  BY DEF Init
<1>2. TypeOK
  <2>1. made \in 0..MaxConnections
    BY ConnectionsAssumption DEF Init
  <2>2. connections \subseteq Connection /\ calling \subseteq 1..MaxConnections
        /\ disconnected \subseteq 1..MaxConnections
    BY DEF Init
  <2>3. crashed \in BOOLEAN
    BY DEF Init
  <2>. QED BY <1>1, <2>1, <2>2, <2>3 DEF TypeOK
<1>3. Distinct /\ Linked /\ Numbered /\ DisconnectedNotFound
  BY <1>1 DEF Init, Distinct, Linked, Numbered, DisconnectedNotFound
<1>. QED BY <1>2, <1>3 DEF Inv

(* connect gives a number and an address nobody has.                       *)
LEMMA ConnectInv ==
  ASSUME Inv, NEW k \in Keys, Connect(k)
  PROVE  Inv'
<1>1. PICK at \in Addresses \ Allocated :
        /\ connections' = connections \cup {[id |-> made + 1, key |-> k, at |-> at]}
        /\ callbacks' = IF callbacks[k] # {} THEN callbacks
                        ELSE [callbacks EXCEPT ![k] = {[cimpl |-> at, cb |-> made + 1]}]
  BY DEF Connect
<1> DEFINE new == [id |-> made + 1, key |-> k, at |-> at]
           own == [cimpl |-> at, cb |-> made + 1]
<1>2. /\ made' = made + 1 /\ made \in Nat /\ made + 1 \in 1..MaxConnections
      /\ UNCHANGED <<calling, disconnected, crashed>>
  BY ConnectionsAssumption DEF Connect, Inv, TypeOK
<1>3. new \in Connection /\ own \in Entry
  BY <1>2 DEF Connection, Entry
<1>4. \A j \in Keys : \A e \in callbacks'[j] : e \in callbacks[j] \/ (j = k /\ e = own)
  BY <1>1 DEF Inv, TypeOK
<1>5. \A c \in connections' : c \in connections \/ c = new
  BY <1>1
<1>6. /\ \A c \in connections : c.id # made + 1 /\ c.at # at /\ c.id \in 1..MaxConnections
      /\ \A j \in Keys : \A e \in callbacks[j] : e.cb # made + 1 /\ e.cb \in 1..MaxConnections
      /\ made + 1 \notin disconnected
  <2>1. \A c \in connections : c.at # at
    BY <1>1 DEF Allocated
  <2>2. \A c \in connections : c.id \in 1..MaxConnections /\ c.id <= made
    BY DEF Inv, TypeOK, Numbered, Connection
  <2>3. \A j \in Keys : \A e \in callbacks[j] : e.cb \in 1..MaxConnections /\ e.cb <= made
    BY DEF Inv, TypeOK, Numbered, Entry
  <2>4. \A i \in disconnected : i <= made
    BY DEF Inv, Numbered
  <2>. QED BY <1>2, <2>1, <2>2, <2>3, <2>4
<1>7. TypeOK'
  <2>1. made' \in 0..MaxConnections
    BY <1>2, ConnectionsAssumption
  <2>2. callbacks' \in [Keys -> SUBSET Entry]
    BY <1>1, <1>3 DEF Inv, TypeOK
  <2>3. connections' \subseteq Connection
    BY <1>1, <1>3 DEF Inv, TypeOK
  <2>. QED BY <1>2, <2>1, <2>2, <2>3 DEF Inv, TypeOK
<1>8. Distinct'
  BY <1>5, <1>6 DEF Inv, Distinct
<1>9. Linked'
  BY <1>4, <1>5, <1>6 DEF Inv, Linked
<1>10. Numbered'
  <2>1. \A c \in connections' : c.id <= made'
    BY <1>2, <1>5, <1>6 DEF Inv, Numbered
  <2>2. \A j \in Keys : \A e \in callbacks'[j] : e.cb <= made'
    BY <1>2, <1>4, <1>6 DEF Inv, Numbered
  <2>3. \A i \in disconnected' : i <= made'
    BY <1>2 DEF Inv, Numbered, TypeOK
  <2>. QED BY <2>1, <2>2, <2>3 DEF Numbered
<1>11. DisconnectedNotFound'
  BY <1>2, <1>4, <1>6 DEF Inv, DisconnectedNotFound
<1>. QED BY <1>7, <1>8, <1>9, <1>10, <1>11 DEF Inv

(* disconnect only takes entries away, its own among them.                 *)
LEMMA DisconnectInv ==
  ASSUME Inv, NEW c \in connections, Disconnect(c)
  PROVE  Inv'
<1>1. /\ callbacks' = [callbacks EXCEPT ![c.key] = @ \ Mine(c)]
      /\ disconnected' = disconnected \cup {c.id}
      /\ UNCHANGED <<made, connections, calling, crashed>>
  BY DEF Disconnect
<1>2. c.key \in Keys /\ c.id \in 1..MaxConnections /\ c.id <= made
  BY DEF Inv, TypeOK, Connection, Numbered
<1>3. \A k \in Keys : callbacks'[k] \subseteq callbacks[k]
  BY <1>1, <1>2 DEF Inv, TypeOK
<1>4. \A k \in Keys : \A e \in callbacks'[k] : e.cb # c.id
  <2>. SUFFICES ASSUME NEW k \in Keys, NEW e \in callbacks'[k], e.cb = c.id
                PROVE  FALSE
    OBVIOUS
  <2>1. e \in callbacks[k] /\ e.cimpl = c.at /\ c.key = k
    BY <1>3 DEF Inv, Linked
  <2>2. e \in Mine(c)
    BY <2>1 DEF Mine
  <2>. QED BY <1>1, <1>2, <2>1, <2>2 DEF Inv, TypeOK
<1>5. TypeOK'
  <2>1. callbacks' \in [Keys -> SUBSET Entry]
    BY <1>1 DEF Inv, TypeOK
  <2>. QED BY <1>1, <1>2, <2>1 DEF Inv, TypeOK
<1>6. Distinct' /\ Linked' /\ Numbered'
  BY <1>1, <1>2, <1>3 DEF Inv, Distinct, Linked, Numbered
<1>7. DisconnectedNotFound'
  BY <1>1, <1>3, <1>4 DEF Inv, DisconnectedNotFound
<1>. QED BY <1>5, <1>6, <1>7 DEF Inv

(* Every step keeps the invariant.                                         *)
LEMMA InvNext == Inv /\ [Next]_vars => Inv'
<1>. SUFFICES ASSUME Inv, [Next]_vars PROVE Inv'
  OBVIOUS
<1>1. ASSUME NEW k \in Keys, Connect(k) PROVE Inv'
  BY <1>1, ConnectInv
<1>2. ASSUME NEW k \in Keys, GetCallback(k) PROVE Inv'
  <2>1. calling' \subseteq 1..MaxConnections
    BY <1>2 DEF GetCallback, Inv, TypeOK, Entry
  <2>. QED BY <1>2, <2>1
    DEF GetCallback, Inv, TypeOK, Distinct, Linked, Numbered, DisconnectedNotFound
<1>3. ASSUME NEW c \in connections, Disconnect(c) PROVE Inv'
  BY <1>3, DisconnectInv
<1>4. ASSUME NEW c \in connections, Drop(c) PROVE Inv'
  BY <1>4 DEF Drop, Inv, TypeOK, Distinct, Linked, Numbered, DisconnectedNotFound
<1>5. CASE Return
  <2>1. crashed' \in BOOLEAN /\ calling' = {}
    BY <1>5 DEF Return
  <2>. QED BY <1>5, <2>1
    DEF Return, Inv, TypeOK, Distinct, Linked, Numbered, DisconnectedNotFound
<1>6. CASE UNCHANGED vars
  BY <1>6 DEF vars, Inv, TypeOK, Distinct, Linked, Numbered, DisconnectedNotFound
<1>. QED BY <1>1, <1>2, <1>3, <1>4, <1>5, <1>6 DEF Next

(* Inv holds throughout.                                                   *)
THEOREM TableInvariant == Spec => []Inv
BY InitInv, InvNext, PTL DEF Spec

(* A callback that was disconnected is never found again                   *)
(* (callback_map.hpp:218), whatever addresses connections come to lie at.  *)
THEOREM DisconnectWorks == Spec => []DisconnectedNotFound
<1>1. Inv => DisconnectedNotFound
  BY DEF Inv
<1>. QED BY <1>1, TableInvariant, PTL

(* The raw pointer that disconnect compares (callback_map.hpp:231) protects *)
(* every callback whose connection is held.                                *)
THEOREM HeldCallbacksStay == Spec => HeldCallbackStays
<1> DEFINE Kept == \A k \in Keys : \A e \in callbacks[k] : \A c \in connections :
                     (c.id = e.cb /\ e \notin callbacks'[k]) => c.id \in disconnected'
<1>1. Inv /\ [Next]_vars => [Kept]_vars
  <2>. SUFFICES ASSUME Inv, Next,
                       NEW k \in Keys, NEW e \in callbacks[k], NEW c \in connections,
                       c.id = e.cb, e \notin callbacks'[k]
                PROVE  c.id \in disconnected'
    OBVIOUS
  <2>1. ASSUME NEW j \in Keys, Connect(j) PROVE FALSE
    BY <2>1 DEF Connect, Inv, TypeOK
  <2>2. ASSUME NEW d \in connections, Disconnect(d) PROVE c.id \in disconnected'
    <3>1. e \in Mine(d) /\ d.key = k
      BY <2>2 DEF Disconnect, Inv, TypeOK
    <3>2. c.at = d.at
      BY <3>1 DEF Mine, Inv, Linked
    <3>. QED BY <2>2, <3>2 DEF Disconnect, Inv, Distinct
  <2>. QED BY <2>1, <2>2 DEF Next, GetCallback, Drop, Return
<1>. QED BY <1>1, TableInvariant, PTL DEF Spec, HeldCallbackStays
-----------------------------------------------------------------------------
(* What serves with it.                                                    *)

States == {"unmade", "open", "closed", "gone"}

(* A notification after the close is one of a sink that is closed.         *)
StraysClosed ==
  \A t \in Threads, s \in Sinks : <<t, s>> \in strays => sink[s].state \in {"closed", "gone"}

DoingMade ==
  \A t \in Threads, s \in Sinks : InUse(s) => sink[s].state # "unmade"

(* The io thread is in a callback that connect has brought, and that is in *)
(* the table, was disconnected, or is no longer held.                      *)
CallingKnown ==
  \A i \in calling :
    /\ i <= made
    /\ i \in Registered \/ i \in disconnected \/ \A c \in connections : c.id # i

(* A simple_production that is gone has let go of its connection.          *)
GoneUnheld == \A c \in connections : runs[c.id] # "gone"

SvInv ==
  /\ Inv /\ ServingTypeOK
  /\ StraysClosed /\ DoingMade /\ StraysOnce
  /\ CallingKnown /\ GoneUnheld
-----------------------------------------------------------------------------
(* The table: a step of Serving is one of its own, or the end of a call,   *)
(* which may be the end of the program for reasons the table knows not of. *)
CallEnds ==
  /\ calling' = {} /\ crashed' \in BOOLEAN
  /\ UNCHANGED <<made, callbacks, connections, disconnected>>

(* Every action, by what it does to the table.                             *)
LEMMA TableStep ==
  ASSUME [ServingNext]_allVars
  PROVE  \/ CallEnds
         \/ UNCHANGED vars
         \/ \E k \in Keys : Connect(k) \/ GetCallback(k)
         \/ \E c \in connections : Disconnect(c) \/ Drop(c)
<1>1. ASSUME NEW bad \in BOOLEAN, HandlerReturns(bad) PROVE CallEnds
  BY <1>1 DEF HandlerReturns, CallEnds
<1>2. CASE RequestReturns
  BY <1>1, <1>2 DEF RequestReturns, Dangling
<1>3. CASE ProductionSubscribed
  BY <1>1, <1>3 DEF ProductionSubscribed, Dangling, Raced
<1>4. ASSUME NEW ok \in BOOLEAN, NEW keep \in BOOLEAN, SubscribeReturns(ok, keep) PROVE CallEnds
  BY <1>1, <1>4 DEF SubscribeReturns, Dangling
<1>5. ASSUME NEW drop \in BOOLEAN, UnsubscribeReturns(drop) PROVE UNCHANGED vars
  BY <1>5 DEF UnsubscribeReturns, tableVars, vars
<1>6. ASSUME NEW c \in connections, DestroyProduction(c) PROVE Drop(c)
  BY <1>6 DEF DestroyProduction, Drop
<1>7. ASSUME NEW c \in connections, LeaveHandler(c) PROVE Disconnect(c) \/ Drop(c)
  BY <1>7 DEF LeaveHandler
<1>8. ASSUME NEW k \in Keys,
             \/ ConnectHandler(k) \/ MakeProduction(k) \/ Request(k)
             \/ SubscribeRequest(k) \/ UnsubscribeRequest(k)
      PROVE  Connect(k) \/ GetCallback(k) \/ UNCHANGED vars
  BY <1>8 DEF ConnectHandler, MakeProduction, Request, SubscribeRequest, UnsubscribeRequest,
              tableVars, vars
<1>9. ASSUME NEW t \in Threads, FinishClose(t) \/ Send(t) PROVE UNCHANGED vars
  BY <1>9 DEF FinishClose, Send, tableVars, vars
<1>10. ASSUME NEW t \in Threads, NEW s \in Sinks, Close(t, s) \/ Produce(t, s)
       PROVE  UNCHANGED vars
  BY <1>10 DEF Close, Produce, Call, tableVars, vars
<1>11. ASSUME NEW t \in Threads, NEW i \in Callbacks, ProduceSimple(t, i) PROVE UNCHANGED vars
  BY <1>11 DEF ProduceSimple, Call, tableVars, vars
<1>12. ASSUME NEW s \in Sinks, Forget(s) PROVE UNCHANGED vars
  BY <1>12 DEF Forget, tableVars, vars
<1>13. CASE UNCHANGED allVars
  BY <1>13 DEF allVars
<1>. QED
  BY <1>2, <1>3, <1>4, <1>5, <1>6, <1>7, <1>8, <1>9, <1>10, <1>11, <1>12, <1>13
  DEF ServingNext, Returns

(* The table keeps its invariant.                                          *)
LEMMA TableKept == ASSUME Inv, [ServingNext]_allVars PROVE Inv'
<1>1. CASE CallEnds
  BY <1>1 DEF CallEnds, Inv, TypeOK, Distinct, Linked, Numbered, DisconnectedNotFound
<1>2. CASE ~CallEnds
  BY <1>2, TableStep, InvNext DEF Next
<1>. QED BY <1>1, <1>2

(* What the io thread is in: an owner that keeps its callback connected    *)
(* keeps it in the table.                                                  *)
LEMMA CallingStays ==
  ASSUME Inv, CallingKnown, [ServingNext]_allVars
  PROVE  CallingKnown'
<1>1. CASE CallEnds
  BY <1>1 DEF CallEnds, CallingKnown
<1>2. CASE UNCHANGED vars
  BY <1>2 DEF vars, CallingKnown, Registered
<1>3. ASSUME NEW k \in Keys, Connect(k) PROVE CallingKnown'
  <2>1. /\ made' = made + 1 /\ made \in Nat /\ made + 1 \in 1..MaxConnections
        /\ UNCHANGED <<calling, disconnected>> /\ calling \subseteq Int
    BY <1>3, ConnectionsAssumption DEF Connect, Inv, TypeOK
  <2>2. \A c \in connections' : c \in connections \/ c.id = made + 1
    BY <1>3 DEF Connect
  <2>3. \A j \in Keys : callbacks[j] \subseteq callbacks'[j]
    BY <1>3 DEF Connect, Inv, TypeOK
  <2>4. Registered \subseteq Registered'
    BY <2>3 DEF Registered
  <2>. QED BY <2>1, <2>2, <2>4 DEF CallingKnown
<1>4. ASSUME NEW k \in Keys, GetCallback(k) PROVE CallingKnown'
  <2>1. PICK e \in callbacks[k] : calling' = {e.cb}
    BY <1>4 DEF GetCallback
  <2>2. e.cb <= made
    BY DEF Inv, Numbered
  <2>3. e.cb \in Registered
    BY DEF Registered
  <2>4. UNCHANGED <<made, callbacks, connections, disconnected>> /\ Registered' = Registered
    BY <1>4 DEF GetCallback, Registered
  <2>. QED BY <2>1, <2>2, <2>3, <2>4 DEF CallingKnown
<1>5. ASSUME NEW c \in connections, Disconnect(c) PROVE CallingKnown'
  <2>. SUFFICES ASSUME NEW i \in calling, i \in Registered, i \notin Registered',
                       NEW d \in connections, d.id = i
                PROVE  i \in disconnected'
    BY <1>5 DEF Disconnect, CallingKnown
  <2>1. PICK k \in Keys : \E e \in callbacks[k] : e.cb = i
    BY DEF Registered
  <2>2. PICK e \in callbacks[k] : e.cb = i
    BY <2>1
  <2>3. e \notin callbacks'[k]
    BY <2>2 DEF Registered
  <2>4. e.cimpl = c.at
    BY <1>5, <2>3 DEF Disconnect, Mine, Inv, TypeOK
  <2>5. d.at = c.at
    BY <2>2, <2>4 DEF Inv, Linked
  <2>6. d = c
    BY <2>5 DEF Inv, Distinct
  <2>. QED BY <1>5, <2>6 DEF Disconnect
<1>6. ASSUME NEW c \in connections, Drop(c) PROVE CallingKnown'
  BY <1>6 DEF Drop, CallingKnown, Registered
<1>. QED BY <1>1, <1>2, <1>3, <1>4, <1>5, <1>6, TableStep
-----------------------------------------------------------------------------
(* Sinks.                                                                  *)
SinkType == [Sinks -> [state : States, key : Keys]]

(* SetState changes one sink.                                              *)
LEMMA SetStateIs ==
  ASSUME sink \in SinkType, NEW s, NEW state \in States
  PROVE  /\ SetState(s, state) \in SinkType
         /\ \A r \in Sinks : SetState(s, state)[r].state = IF r = s THEN state ELSE sink[r].state
BY DEF SetState, SinkType

(* A sink is made open, and closes or goes, once.                          *)
Aged ==
  \A s \in Sinks :
    \/ sink'[s].state = sink[s].state
    \/ sink'[s].state \in {"closed", "gone"}
    \/ sink[s].state = "unmade" /\ sink'[s].state = "open"

LEMMA SinksAge ==
  ASSUME ServingTypeOK, [ServingNext]_allVars
  PROVE  sink' \in SinkType /\ Aged
<1>. sink \in SinkType
  BY DEF ServingTypeOK, SinkType, States
<1>1. CASE UNCHANGED sink
  BY <1>1 DEF Aged
<1>2. ASSUME NEW s, NEW state \in {"closed", "gone"}, sink' = SetState(s, state)
      PROVE  sink' \in SinkType /\ Aged
  BY <1>2, SetStateIs DEF Aged, States
<1>3. ASSUME NEW k \in Keys, SubscribeRequest(k) PROVE sink' \in SinkType /\ Aged
  <2>1. PICK s \in Sinks : /\ sink[s].state = "unmade"
                           /\ sink' = [sink EXCEPT ![s] = [state |-> "open", key |-> k]]
    BY <1>3 DEF SubscribeRequest
  <2>. QED BY <2>1 DEF SinkType, Aged, States
<1>4. CASE Returns
  <2>1. CASE RequestReturns
    BY <1>1, <2>1 DEF RequestReturns
  <2>2. CASE ProductionSubscribed
    BY <1>1, <1>2, <2>2 DEF ProductionSubscribed
  <2>3. ASSUME NEW ok \in BOOLEAN, NEW keep \in BOOLEAN, SubscribeReturns(ok, keep)
        PROVE  sink' \in SinkType /\ Aged
    BY <1>1, <1>2, <2>3 DEF SubscribeReturns
  <2>4. ASSUME NEW drop \in BOOLEAN, UnsubscribeReturns(drop)
        PROVE  sink' \in SinkType /\ Aged
    BY <1>1, <1>2, <2>4 DEF UnsubscribeReturns
  <2>. QED BY <1>4, <2>1, <2>2, <2>3, <2>4 DEF Returns
<1>5. ASSUME NEW c \in connections, LeaveHandler(c) \/ DestroyProduction(c)
      PROVE  sink' \in SinkType /\ Aged
  BY <1>1, <1>2, <1>5 DEF LeaveHandler, DestroyProduction, sinkVars
<1>6. ASSUME NEW k \in Keys,
             ConnectHandler(k) \/ MakeProduction(k) \/ Request(k) \/ UnsubscribeRequest(k)
      PROVE  UNCHANGED sink
  BY <1>6 DEF ConnectHandler, MakeProduction, Request, UnsubscribeRequest, sinkVars
<1>7. ASSUME NEW t \in Threads, FinishClose(t) PROVE sink' \in SinkType /\ Aged
  BY <1>2, <1>7 DEF FinishClose
<1>8. ASSUME NEW t \in Threads, Send(t) PROVE UNCHANGED sink
  BY <1>8 DEF Send
<1>9. ASSUME NEW t \in Threads, NEW s, NEW call, Call(t, call, s) PROVE UNCHANGED sink
  BY <1>9 DEF Call, sinkVars
<1>10. ASSUME NEW s \in Sinks, Forget(s) PROVE sink' \in SinkType /\ Aged
  BY <1>2, <1>10 DEF Forget
<1>11. CASE UNCHANGED allVars
  BY <1>1, <1>11 DEF allVars
<1>. QED
  BY <1>1, <1>3, <1>4, <1>5, <1>6, <1>7, <1>8, <1>9, <1>10, <1>11
  DEF ServingNext, Close, Produce, ProduceSimple
-----------------------------------------------------------------------------
(* What the application threads do changes by a call and by its end.       *)
LEMMA DoingStep ==
  ASSUME ServingTypeOK, [ServingNext]_allVars
  PROVE  \/ UNCHANGED <<doing, strays>>
         \/ \E t \in Threads, s \in Sinks, call \in {"close", "send"} :
              /\ doing[t] = {} /\ sink[s].state = "open" /\ UNCHANGED <<sink, strays>>
              /\ doing' = [doing EXCEPT ![t] = {[at |-> call, sink |-> s]}]
         \/ \E t \in Threads :
              /\ doing' = [doing EXCEPT ![t] = {}]
              /\ \/ UNCHANGED strays
                 \/ \E s \in Sinks : /\ In(t, "send", s) /\ sink[s].state # "open"
                                     /\ strays' = strays \cup {<<t, s>>}
<1>1. CASE Returns
  BY <1>1 DEF Returns, RequestReturns, ProductionSubscribed, SubscribeReturns,
              UnsubscribeReturns, HandlerReturns
<1>2. ASSUME NEW c \in connections, LeaveHandler(c) \/ DestroyProduction(c)
      PROVE  UNCHANGED <<doing, strays>>
  BY <1>2 DEF LeaveHandler, DestroyProduction, sinkVars
<1>3. ASSUME NEW k \in Keys,
             \/ ConnectHandler(k) \/ MakeProduction(k) \/ Request(k)
             \/ SubscribeRequest(k) \/ UnsubscribeRequest(k)
      PROVE  UNCHANGED <<doing, strays>>
  BY <1>3 DEF ConnectHandler, MakeProduction, Request, SubscribeRequest, UnsubscribeRequest,
              sinkVars
<1>4. ASSUME NEW s \in Sinks, Forget(s) PROVE UNCHANGED <<doing, strays>>
  BY <1>4 DEF Forget
<1>5. ASSUME NEW t \in Threads, NEW s \in Sinks, Close(t, s) \/ Produce(t, s)
      PROVE  \E call \in {"close", "send"} :
               /\ doing[t] = {} /\ sink[s].state = "open" /\ UNCHANGED <<sink, strays>>
               /\ doing' = [doing EXCEPT ![t] = {[at |-> call, sink |-> s]}]
  BY <1>5 DEF Close, Produce, MayProduce, Call, sinkVars
<1>6. ASSUME NEW t \in Threads, NEW i \in Callbacks, ProduceSimple(t, i)
      PROVE  \E s \in Sinks :
               /\ doing[t] = {} /\ sink[s].state = "open" /\ UNCHANGED <<sink, strays>>
               /\ doing' = [doing EXCEPT ![t] = {[at |-> "send", sink |-> s]}]
  <2>1. slot[i] \in Sinks
    BY <1>6, ServingAssumption DEF ProduceSimple, ServingTypeOK, Sinks
  <2>. QED BY <1>6, <2>1 DEF ProduceSimple, MayProduce, Call, sinkVars
<1>7. ASSUME NEW t \in Threads, FinishClose(t)
      PROVE  doing' = [doing EXCEPT ![t] = {}] /\ UNCHANGED strays
  BY <1>7 DEF FinishClose
<1>8. ASSUME NEW t \in Threads, Send(t)
      PROVE  /\ doing' = [doing EXCEPT ![t] = {}]
             /\ \/ UNCHANGED strays
                \/ \E s \in Sinks : /\ In(t, "send", s) /\ sink[s].state # "open"
                                    /\ strays' = strays \cup {<<t, s>>}
  BY <1>8 DEF Send
<1>9. CASE UNCHANGED allVars
  BY <1>9 DEF allVars
<1>. QED
  BY <1>1, <1>2, <1>3, <1>4, <1>5, <1>6, <1>7, <1>8, <1>9 DEF ServingNext

(* A sink that is in use was made; one that was closed is not used again.  *)
LEMMA StraysStay ==
  ASSUME ServingTypeOK, StraysClosed, DoingMade, StraysOnce, [ServingNext]_allVars
  PROVE  StraysClosed' /\ DoingMade' /\ StraysOnce'
<1>1. Aged
  BY SinksAge
<1>2. /\ doing \in [Threads -> SUBSET [at : {"close", "send"}, sink : Sinks]]
      /\ strays \subseteq Threads \X Sinks
      /\ \A s \in Sinks : sink[s].state \in States
  BY DEF ServingTypeOK, States
<1>3. CASE UNCHANGED <<doing, strays>>
  <2>1. \A s \in Sinks : InUse(s)' => InUse(s)
    BY <1>3 DEF InUse, In
  <2>. QED BY <1>1, <1>2, <1>3, <2>1 DEF StraysClosed, DoingMade, StraysOnce, Aged, In
<1>4. ASSUME NEW t \in Threads, NEW s \in Sinks, NEW call \in {"close", "send"},
             doing[t] = {}, sink[s].state = "open", UNCHANGED <<sink, strays>>,
             doing' = [doing EXCEPT ![t] = {[at |-> call, sink |-> s]}]
      PROVE  StraysClosed' /\ DoingMade' /\ StraysOnce'
  <2>1. ASSUME NEW u \in Threads, NEW r \in Sinks, NEW c, In(u, c, r)'
        PROVE  In(u, c, r) \/ (u = t /\ r = s)
    BY <1>2, <1>4, <2>1 DEF In
  <2>2. \A r \in Sinks : InUse(r)' => InUse(r) \/ r = s
    BY <2>1 DEF InUse
  <2>3. \A u \in Threads : <<u, s>> \notin strays
    BY <1>4 DEF StraysClosed
  <2>. QED BY <1>4, <2>1, <2>2, <2>3 DEF StraysClosed, DoingMade, StraysOnce
<1>5. ASSUME NEW t \in Threads, doing' = [doing EXCEPT ![t] = {}],
             \/ UNCHANGED strays
             \/ \E s \in Sinks : /\ In(t, "send", s) /\ sink[s].state # "open"
                                 /\ strays' = strays \cup {<<t, s>>}
      PROVE  StraysClosed' /\ DoingMade' /\ StraysOnce'
  <2>1. ASSUME NEW u \in Threads, NEW r \in Sinks, NEW c, In(u, c, r)'
        PROVE  In(u, c, r) /\ u # t
    BY <1>2, <1>5, <2>1 DEF In
  <2>2. \A r \in Sinks : InUse(r)' => InUse(r)
    BY <2>1 DEF InUse
  <2>3. \A u \in Threads, r \in Sinks :
          <<u, r>> \in strays' =>
            \/ <<u, r>> \in strays
            \/ u = t /\ In(t, "send", r) /\ sink[r].state # "open"
    BY <1>5
  <2>4. \A r \in Sinks : In(t, "send", r) => sink[r].state # "unmade"
    BY DEF DoingMade, InUse
  <2>5. StraysClosed'
    BY <1>1, <1>2, <2>3, <2>4 DEF StraysClosed, Aged, States
  <2>6. DoingMade'
    BY <1>1, <2>2 DEF DoingMade, Aged
  <2>7. StraysOnce'
    BY <2>1, <2>3 DEF StraysOnce
  <2>. QED BY <2>5, <2>6, <2>7
<1>. QED BY <1>3, <1>4, <1>5, DoingStep
-----------------------------------------------------------------------------
(* A new connection is given to what is bound to its callback; an object   *)
(* is gone when its connection is.                                         *)
RunsType == [Callbacks -> {"nothing", "handler", "production", "gone"}]

LEMMA RunsStay ==
  ASSUME Inv, ServingTypeOK, GoneUnheld, [ServingNext]_allVars
  PROVE  runs' \in RunsType /\ GoneUnheld'
<1>. runs \in RunsType /\ connections \subseteq Connection
  BY DEF ServingTypeOK, RunsType, Inv, TypeOK
<1>1. ASSUME UNCHANGED runs, connections' \subseteq connections
      PROVE  runs' \in RunsType /\ GoneUnheld'
  BY <1>1 DEF GoneUnheld
<1>2. ASSUME NEW k \in Keys, Connect(k), NEW what \in {"handler", "production"},
             runs' = [runs EXCEPT ![made'] = what]
      PROVE  runs' \in RunsType /\ GoneUnheld'
  <2>1. made' = made + 1 /\ \A c \in connections : c.id <= made /\ c.id \in Callbacks
    BY <1>2 DEF Connect, Inv, Numbered, Connection, Callbacks
  <2>2. \A c \in connections' : c \in connections \/ c.id = made + 1
    BY <1>2 DEF Connect
  <2>3. made \in Nat /\ made + 1 \in Callbacks
    BY <1>2, ConnectionsAssumption DEF Connect, Inv, TypeOK, Callbacks
  <2>4. \A i \in Callbacks : runs'[i] = IF i = made + 1 THEN what ELSE runs[i]
    BY <1>2, <2>1 DEF RunsType
  <2>5. GoneUnheld'
    BY <2>1, <2>2, <2>3, <2>4 DEF GoneUnheld
  <2>. QED BY <1>2, <2>1, <2>3, <2>5 DEF RunsType
<1>3. ASSUME NEW c \in connections, DestroyProduction(c)
      PROVE  runs' \in RunsType /\ GoneUnheld'
  <2>1. /\ runs' = [runs EXCEPT ![c.id] = "gone"] /\ connections' = connections \ {c}
        /\ c.id \in Callbacks
    BY <1>3 DEF DestroyProduction, Connection, Callbacks
  <2>2. \A d \in connections' : d \in connections /\ d.id # c.id /\ d.id \in Callbacks
    BY <2>1 DEF Inv, Distinct, Connection, Callbacks
  <2>. QED BY <2>1, <2>2 DEF GoneUnheld, RunsType
<1>4. ASSUME NEW k \in Keys, ConnectHandler(k) \/ MakeProduction(k)
      PROVE  runs' \in RunsType /\ GoneUnheld'
  BY <1>2, <1>4 DEF ConnectHandler, MakeProduction
<1>5. CASE Returns
  BY <1>1, <1>5 DEF Returns, RequestReturns, ProductionSubscribed, SubscribeReturns,
                    UnsubscribeReturns, HandlerReturns, tableVars
<1>6. ASSUME NEW c \in connections, LeaveHandler(c)
      PROVE  UNCHANGED runs /\ connections' \subseteq connections
  BY <1>6 DEF LeaveHandler, Disconnect, Drop
<1>7. ASSUME NEW k \in Keys, Request(k) \/ SubscribeRequest(k) \/ UnsubscribeRequest(k)
      PROVE  UNCHANGED <<runs, connections>>
  BY <1>7 DEF Request, SubscribeRequest, UnsubscribeRequest, GetCallback, tableVars
<1>8. ASSUME NEW t \in Threads, FinishClose(t) \/ Send(t) PROVE UNCHANGED <<runs, connections>>
  BY <1>8 DEF FinishClose, Send, tableVars
<1>9. ASSUME NEW t \in Threads, NEW s, NEW call, Call(t, call, s)
      PROVE  UNCHANGED <<runs, connections>>
  BY <1>9 DEF Call, tableVars
<1>10. ASSUME NEW s \in Sinks, Forget(s) PROVE UNCHANGED <<runs, connections>>
  BY <1>10 DEF Forget, tableVars
<1>11. CASE UNCHANGED allVars
  BY <1>1, <1>11 DEF allVars, vars
<1>. QED
  BY <1>1, <1>3, <1>4, <1>5, <1>6, <1>7, <1>8, <1>9, <1>10, <1>11
  DEF ServingNext, Close, Produce, ProduceSimple
-----------------------------------------------------------------------------
(* Types of what is left: slots, copies, productions, the io thread.       *)
ServingType ==
  [at : {"request"}, sink : {0}] \cup [at : {"subscribe", "unsubscribe"}, sink : Sinks]

LEMMA RestTyped ==
  ASSUME ServingTypeOK, [ServingNext]_allVars
  PROVE  /\ slot' \in [Callbacks -> 0..MaxSinks] /\ kept' \subseteq Sinks
         /\ productions' \in [Keys -> 0..MaxSinks] /\ serving' \subseteq ServingType
<1> DEFINE Goal == /\ slot' \in [Callbacks -> 0..MaxSinks] /\ kept' \subseteq Sinks
                   /\ productions' \in [Keys -> 0..MaxSinks] /\ serving' \subseteq ServingType
<1>. /\ slot \in [Callbacks -> 0..MaxSinks] /\ kept \subseteq Sinks
     /\ productions \in [Keys -> 0..MaxSinks] /\ serving \subseteq ServingType
     /\ sink \in SinkType /\ 0 \in 0..MaxSinks /\ Sinks \subseteq 0..MaxSinks
  BY ServingAssumption DEF ServingTypeOK, ServingType, SinkType, States, Sinks
<1>1. ASSUME UNCHANGED <<slot, kept, productions, serving>> PROVE Goal
  BY <1>1
<1>2. ASSUME NEW s PROVE Erased(s) \in [Keys -> 0..MaxSinks]
  BY DEF Erased
<1>3. ASSUME NEW call \in {"subscribe", "unsubscribe"}, NEW s \in Sinks, Serve(call, s)
      PROVE  serving' \subseteq ServingType
  BY <1>3 DEF Serve, ServingType
<1>4. ASSUME NEW k \in Keys, Request(k) PROVE Goal
  BY <1>4 DEF Request, Serve, ServingType, sinkVars
<1>5. ASSUME NEW k \in Keys, SubscribeRequest(k) PROVE Goal
  <2>1. PICK s \in Sinks : Serve("subscribe", s)
    BY <1>5 DEF SubscribeRequest
  <2>. QED BY <1>3, <1>5, <2>1 DEF SubscribeRequest
<1>6. ASSUME NEW k \in Keys, UnsubscribeRequest(k) PROVE Goal
  <2>1. productions[k] \in Sinks
    BY <1>6, ServingAssumption DEF UnsubscribeRequest, Sinks
  <2>2. serving' \subseteq ServingType
    BY <1>3, <1>6, <2>1 DEF UnsubscribeRequest
  <2>3. productions' \in [Keys -> 0..MaxSinks]
    BY <1>6 DEF UnsubscribeRequest
  <2>. QED BY <1>6, <2>2, <2>3 DEF UnsubscribeRequest
<1>7. CASE RequestReturns
  BY <1>7 DEF RequestReturns, HandlerReturns
<1>8. ASSUME NEW ok \in BOOLEAN, NEW keep \in BOOLEAN, SubscribeReturns(ok, keep) PROVE Goal
  <2>1. PICK r \in serving :
          /\ serving' = {} /\ UNCHANGED slot /\ r.at = "subscribe"
          /\ kept' = IF keep THEN kept \cup {r.sink} ELSE kept
          /\ productions' = IF ok /\ keep
                            THEN [productions EXCEPT ![sink[r.sink].key] = r.sink]
                            ELSE productions
    BY <1>8 DEF SubscribeReturns, HandlerReturns
  <2>2. r.sink \in Sinks
    BY <2>1 DEF ServingType
  <2>. QED BY <2>1, <2>2
<1>9. CASE ProductionSubscribed
  <2>1. PICK r \in serving, i \in calling :
          /\ serving' = {} /\ UNCHANGED kept /\ r.at = "subscribe"
          /\ slot' = [slot EXCEPT ![i] = r.sink]
          /\ productions' = [productions EXCEPT ![sink[r.sink].key] = r.sink]
    BY <1>9 DEF ProductionSubscribed, HandlerReturns
  <2>2. r.sink \in Sinks
    BY <2>1 DEF ServingType
  <2>. QED BY <2>1, <2>2
<1>10. ASSUME NEW drop \in BOOLEAN, UnsubscribeReturns(drop) PROVE Goal
  BY <1>10 DEF UnsubscribeReturns
<1>11. ASSUME NEW c \in connections, LeaveHandler(c) PROVE Goal
  BY <1>11 DEF LeaveHandler, sinkVars
<1>12. ASSUME NEW c \in connections, DestroyProduction(c) PROVE Goal
  BY <1>2, <1>12 DEF DestroyProduction
<1>13. ASSUME NEW k \in Keys, ConnectHandler(k) \/ MakeProduction(k) PROVE Goal
  BY <1>13 DEF ConnectHandler, MakeProduction, sinkVars
<1>14. ASSUME NEW t \in Threads, FinishClose(t) PROVE Goal
  BY <1>2, <1>14 DEF FinishClose
<1>15. ASSUME NEW t \in Threads, Send(t) PROVE Goal
  BY <1>15 DEF Send
<1>16. ASSUME NEW t \in Threads,
              NEW s, NEW i, Close(t, s) \/ Produce(t, s) \/ ProduceSimple(t, i)
       PROVE  Goal
  BY <1>16 DEF Close, Produce, ProduceSimple, Call, sinkVars
<1>17. ASSUME NEW s \in Sinks, Forget(s) PROVE Goal
  BY <1>2, <1>17 DEF Forget
<1>18. CASE UNCHANGED allVars
  BY <1>1, <1>18 DEF allVars
<1>19. CASE Returns
  BY <1>7, <1>8, <1>9, <1>10, <1>19 DEF Returns
<1>. QED
  BY <1>4, <1>5, <1>6, <1>11, <1>12, <1>13, <1>14, <1>15, <1>16, <1>17, <1>18, <1>19
  DEF ServingNext
-----------------------------------------------------------------------------
(* Every step keeps the types of Serving.                                  *)
LEMMA ServingTyped ==
  ASSUME Inv, ServingTypeOK, GoneUnheld, [ServingNext]_allVars
  PROVE  ServingTypeOK'
<1>1. sink' \in [Sinks -> [state : {"unmade", "open", "closed", "gone"}, key : Keys]]
  BY SinksAge DEF SinkType, States
<1>2. runs' \in [Callbacks -> {"nothing", "handler", "production", "gone"}]
  BY RunsStay DEF RunsType
<1>3. /\ slot' \in [Callbacks -> 0..MaxSinks] /\ kept' \subseteq Sinks
      /\ productions' \in [Keys -> 0..MaxSinks]
      /\ serving' \subseteq [at : {"request"}, sink : {0}] \cup
                           [at : {"subscribe", "unsubscribe"}, sink : Sinks]
  BY RestTyped DEF ServingType
<1>4. /\ doing' \in [Threads -> SUBSET [at : {"close", "send"}, sink : Sinks]]
      /\ strays' \subseteq Threads \X Sinks
  BY DoingStep DEF ServingTypeOK
<1>. QED BY <1>1, <1>2, <1>3, <1>4 DEF ServingTypeOK

LEMMA SvInit == ServingInit => SvInv
<1>. SUFFICES ASSUME ServingInit PROVE SvInv
  OBVIOUS
<1>1. Inv
  BY InitInv DEF ServingInit
<1>2. ServingTypeOK
  <2>1. (CHOOSE k \in Keys : TRUE) \in Keys
    BY ServingAssumption
  <2>2. sink \in [Sinks -> [state : {"unmade", "open", "closed", "gone"}, key : Keys]]
    BY <2>1 DEF ServingInit
  <2>3. 0 \in 0..MaxSinks
    BY ServingAssumption
  <2>4. /\ runs \in [Callbacks -> {"nothing", "handler", "production", "gone"}]
        /\ slot \in [Callbacks -> 0..MaxSinks] /\ productions \in [Keys -> 0..MaxSinks]
    BY <2>3 DEF ServingInit
  <2>5. /\ kept = {} /\ serving = {} /\ strays = {}
        /\ doing \in [Threads -> SUBSET [at : {"close", "send"}, sink : Sinks]]
    BY DEF ServingInit
  <2>. QED BY <2>2, <2>4, <2>5 DEF ServingTypeOK
<1>3. StraysClosed /\ DoingMade /\ StraysOnce
  BY DEF ServingInit, StraysClosed, DoingMade, StraysOnce, InUse, In
<1>4. CallingKnown /\ GoneUnheld
  BY DEF ServingInit, Init, CallingKnown, GoneUnheld
<1>. QED BY <1>1, <1>2, <1>3, <1>4 DEF SvInv

LEMMA SvNext == SvInv /\ [ServingNext]_allVars => SvInv'
BY TableKept, CallingStays, StraysStay, RunsStay, ServingTyped DEF SvInv

(* The inductive invariant of Serving.                                     *)
THEOREM ServingInvariant == ServingSpec => []SvInv
BY SvInit, SvNext, PTL DEF ServingSpec

(* After disconnect the io thread does not find a handler, whatever else   *)
(* the passer does (message_passer.cpp:270, callback_map.hpp:218).         *)
THEOREM HandlersNotFound == ServingSpec => []DisconnectedNotFound
<1>1. SvInv => DisconnectedNotFound
  BY DEF SvInv, Inv
<1>. QED BY <1>1, ServingInvariant, PTL

(* A thread sends at most one notification of a sink after its close: the  *)
(* one it was about to send when it let go of the sink's mutex             *)
(* (message_passer.cpp:85).                                                *)
THEOREM StraysSentOnce == ServingSpec => []StraysOnce
<1>1. SvInv => StraysOnce
  BY DEF SvInv
<1>. QED BY <1>1, ServingInvariant, PTL

(* The program only dies in a handler whose owner disconnected it or let   *)
(* its connection go, or in a simple_production that produced while it was *)
(* subscribed to (message_passer.cpp:530, callback_map.hpp:173).           *)
THEOREM LiveHandlersSurvive == ServingSpec => LiveHandlersRun
<1> DEFINE Owned == crashed' => \/ crashed \/ Raced
                               \/ \E i \in calling :
                                    i \in disconnected \/ \A c \in connections : c.id # i
<1>1. SvInv /\ [ServingNext]_allVars => [Owned]_allVars
  <2>. SUFFICES ASSUME SvInv, ServingNext, crashed', ~crashed, ~Raced
                PROVE  \E i \in calling :
                         i \in disconnected \/ \A c \in connections : c.id # i
    OBVIOUS
  <2>1. crashed \in BOOLEAN
    BY DEF SvInv, Inv, TypeOK
  <2>2. ASSUME Dangling
        PROVE  \E i \in calling :
                 i \in disconnected \/ \A c \in connections : c.id # i
    <3>1. PICK i \in calling : i \notin Registered \/ runs[i] = "gone"
      BY <2>2 DEF Dangling
    <3>2. CASE i \notin Registered
      BY <3>2 DEF SvInv, CallingKnown
    <3>3. CASE runs[i] = "gone"
      BY <3>3 DEF SvInv, GoneUnheld
    <3>. QED BY <3>1, <3>2, <3>3
  <2>3. ASSUME NEW bad \in BOOLEAN, HandlerReturns(bad) PROVE bad
    BY <2>3 DEF HandlerReturns
  <2>4. CASE RequestReturns
    BY <2>2, <2>3, <2>4 DEF RequestReturns, Dangling
  <2>5. CASE ProductionSubscribed
    BY <2>2, <2>3, <2>5 DEF ProductionSubscribed, Dangling, Raced
  <2>6. ASSUME NEW ok \in BOOLEAN, NEW keep \in BOOLEAN, SubscribeReturns(ok, keep)
        PROVE  Dangling
    BY <2>3, <2>6 DEF SubscribeReturns, Dangling
  <2>7. ASSUME NEW drop \in BOOLEAN, UnsubscribeReturns(drop) PROVE FALSE
    BY <2>7 DEF UnsubscribeReturns, tableVars
  <2>8. ASSUME NEW c \in connections, LeaveHandler(c) \/ DestroyProduction(c) PROVE FALSE
    BY <2>8 DEF LeaveHandler, Disconnect, Drop, DestroyProduction
  <2>9. ASSUME NEW k \in Keys,
               \/ ConnectHandler(k) \/ MakeProduction(k) \/ Request(k)
               \/ SubscribeRequest(k) \/ UnsubscribeRequest(k)
        PROVE  FALSE
    BY <2>9 DEF ConnectHandler, MakeProduction, Request, SubscribeRequest, UnsubscribeRequest,
                Connect, GetCallback, tableVars
  <2>10. ASSUME NEW t \in Threads, FinishClose(t) \/ Send(t) PROVE FALSE
    BY <2>10 DEF FinishClose, Send, tableVars
  <2>11. ASSUME NEW t \in Threads,
                NEW s, NEW i, Close(t, s) \/ Produce(t, s) \/ ProduceSimple(t, i)
         PROVE  FALSE
    BY <2>11 DEF Close, Produce, ProduceSimple, Call, tableVars
  <2>12. ASSUME NEW s \in Sinks, Forget(s) PROVE FALSE
    BY <2>12 DEF Forget, tableVars
  <2>. QED
    BY <2>2, <2>4, <2>5, <2>6, <2>7, <2>8, <2>9, <2>10, <2>11, <2>12
    DEF ServingNext, Returns
<1>. QED BY <1>1, ServingInvariant, PTL DEF ServingSpec, LiveHandlersRun

(* The raw pointer that disconnect compares protects every handler whose   *)
(* connection is held, also while the passer serves.                       *)
THEOREM HeldHandlersStay == ServingSpec => HeldCallbackStays
<1> DEFINE Kept == \A k \in Keys : \A e \in callbacks[k] : \A c \in connections :
                     (c.id = e.cb /\ e \notin callbacks'[k]) => c.id \in disconnected'
<1>1. SvInv /\ [ServingNext]_allVars => [Kept]_vars
  <2>. SUFFICES ASSUME SvInv, [ServingNext]_allVars,
                       NEW k \in Keys, NEW e \in callbacks[k], NEW c \in connections,
                       c.id = e.cb, e \notin callbacks'[k]
                PROVE  c.id \in disconnected'
    OBVIOUS
  <2>. Inv
    BY DEF SvInv
  <2>1. ASSUME NEW j \in Keys, Connect(j) PROVE FALSE
    BY <2>1 DEF Connect, Inv, TypeOK
  <2>2. ASSUME NEW d \in connections, Disconnect(d) PROVE c.id \in disconnected'
    <3>1. e \in Mine(d) /\ d.key = k
      BY <2>2 DEF Disconnect, Inv, TypeOK
    <3>2. c.at = d.at
      BY <3>1 DEF Mine, Inv, Linked
    <3>. QED BY <2>2, <3>2 DEF Disconnect, Inv, Distinct
  <2>. QED BY <2>1, <2>2, TableStep DEF CallEnds, GetCallback, Drop, vars
<1>. QED BY <1>1, ServingInvariant, PTL DEF ServingSpec, HeldCallbackStays
=============================================================================
