------------------------------ MODULE Serving ------------------------------
(***************************************************************************)
(* How one message_passer serves the other end, with the mutexes that      *)
(* MessagePasser takes for granted.  The io thread looks a handler up in   *)
(* the callback_map and runs it, or the slot of a sink, with the mutex of  *)
(* the passer held.  Application threads connect and disconnect handlers   *)
(* (under the mutex of the table alone), produce through a sink (under its *)
(* own mutex, which is let go before the message is sent) and close one    *)
(* (under its own mutex and then that of the passer).  A simple_production *)
(* is a handler bound to an object, whose _sink has no mutex at all.       *)
(*                                                                         *)
(* Keys are the opcodes of both tables of handlers; those in Subscribed    *)
(* are in the table of the subscription handlers.  The i-th call of        *)
(* connect brings the callback i; if a simple_production made that call,   *)
(* i stands for the object too.                                            *)
(***************************************************************************)
EXTENDS CallbackMap

CONSTANTS
  Subscribed,  \* the keys of subscription handlers, the others are of requests
  Threads,     \* the application threads
  MaxSinks     \* bound: how many sinks are made

ASSUME ServingAssumption == Keys # {} /\ Subscribed \subseteq Keys /\ MaxSinks \in Nat

VARIABLES
  runs,         \* runs[i]: what the callback i is bound to
  slot,         \* slot[i]: the _sink of the simple_production i, 0 if it has none
  sink,         \* sink[s]: its opcode, and whether it is open, closed, or gone
  kept,         \* the sinks of which the application has a copy
  productions,  \* _productions: the sink of an opcode, 0 if none
  serving,      \* what the io thread does under the mutex, a set of at most one
  doing,        \* doing[t]: the call of a sink t is in, a set of at most one
  strays        \* history: who sent a notification of which sink after its close

tableVars == <<made, callbacks, connections, calling, disconnected, crashed>>
sinkVars == <<slot, sink, kept, productions, strays>>
allVars == <<vars, runs, slot, sink, kept, productions, serving, doing, strays>>

Sinks == 1..MaxSinks
Callbacks == 1..MaxConnections

ServingInit ==
  /\ Init
  /\ runs = [i \in Callbacks |-> "nothing"]
  /\ slot = [i \in Callbacks |-> 0]
  /\ sink = [s \in Sinks |-> [state |-> "unmade", key |-> CHOOSE k \in Keys : TRUE]]
  /\ kept = {}
  /\ productions = [k \in Keys |-> 0]
  /\ serving = {}
  /\ doing = [t \in Threads |-> {}]
  /\ strays = {}

(* The mutex of the passer is the io thread's while it serves, that of a   *)
(* sink is taken for long by close only.                                   *)
PasserFree == serving = {}

In(t, call, s) == [at |-> call, sink |-> s] \in doing[t]

Locked(s) == \E t \in Threads : In(t, "close", s)

InUse(s) == \E t \in Threads, call \in {"close", "send"} : In(t, call, s)

SetState(s, state) == [sink EXCEPT ![s].state = state]
-----------------------------------------------------------------------------
(* Handlers come and go, in any thread and at any time.                    *)
ConnectHandler(k) ==
  /\ Connect(k)
  /\ runs' = [runs EXCEPT ![made'] = "handler"]
  /\ UNCHANGED <<sinkVars, serving, doing>>

MakeProduction(k) ==
  /\ k \in Subscribed /\ Connect(k)
  /\ runs' = [runs EXCEPT ![made'] = "production"]
  /\ UNCHANGED <<sinkVars, serving, doing>>

LeaveHandler(c) ==
  /\ runs[c.id] = "handler"
  /\ Disconnect(c) \/ Drop(c)
  /\ UNCHANGED <<runs, sinkVars, serving, doing>>

(* close_production goes by the opcode; the abort it sends says no more    *)
(* than that s is closed.                                                  *)
Erased(s) == [productions EXCEPT ![sink[s].key] = 0]

(* ~simple_production: _sink goes, and closes itself, then _con.  The      *)
(* table keeps the callback that is bound to the object.                   *)
DestroyProduction(c) ==
  /\ ~crashed /\ runs[c.id] = "production"
  /\ IF slot[c.id] = 0 THEN UNCHANGED <<sink, productions>>
     ELSE /\ PasserFree /\ ~InUse(slot[c.id])
          /\ sink' = SetState(slot[c.id], "gone")
          /\ productions' = Erased(slot[c.id])
  /\ slot' = [slot EXCEPT ![c.id] = 0]
  /\ runs' = [runs EXCEPT ![c.id] = "gone"]
  /\ connections' = connections \ {c}
  /\ UNCHANGED <<made, callbacks, calling, disconnected, crashed, kept, serving,
                 doing, strays>>
-----------------------------------------------------------------------------
(* The io thread.  A key without a handler is answered with an error and   *)
(* changes nothing.                                                        *)
Serve(call, s) == serving' = {[at |-> call, sink |-> s]}

Request(k) ==
  /\ k \notin Subscribed /\ PasserFree
  /\ GetCallback(k)
  /\ Serve("request", 0)
  /\ UNCHANGED <<runs, sinkVars, doing>>

SubscribeRequest(k) ==
  /\ k \in Subscribed /\ PasserFree /\ productions[k] = 0
  /\ GetCallback(k)
  /\ \E s \in Sinks :
       /\ sink[s].state = "unmade" /\ \A r \in 1..(s - 1) : sink[r].state # "unmade"
       /\ sink' = [sink EXCEPT ![s] = [state |-> "open", key |-> k]]
       /\ Serve("subscribe", s)
  /\ UNCHANGED <<runs, slot, kept, productions, doing, strays>>

(* The production is erased before its sink hears of it.                   *)
UnsubscribeRequest(k) ==
  /\ ~crashed /\ PasserFree /\ productions[k] # 0
  /\ productions' = [productions EXCEPT ![k] = 0]
  /\ Serve("unsubscribe", productions[k])
  /\ UNCHANGED <<tableVars, runs, slot, sink, kept, doing, strays>>

(* A handler returns, if it exists: what it is bound to may be gone, or it *)
(* was taken from the table.  What that does is undefined.                 *)
Dangling == \E i \in calling : i \notin Registered \/ runs[i] = "gone"

(* simple_production::produce uses _sink while _on_subscribe replaces it.  *)
Raced == \E i \in calling, t \in Threads : slot[i] # 0 /\ In(t, "send", slot[i])

HandlerReturns(bad) ==
  /\ ~crashed
  /\ calling' = {} /\ serving' = {}
  /\ crashed' \in (IF bad THEN BOOLEAN ELSE {FALSE})
  /\ UNCHANGED <<made, callbacks, connections, disconnected, runs, doing, strays>>

RequestReturns ==
  /\ \E r \in serving : r.at = "request"
  /\ HandlerReturns(Dangling)
  /\ UNCHANGED <<slot, sink, kept, productions>>

(* A handler keeps a copy of the sink or not, and answers success or not,  *)
(* or throws: a production is entered on success, and erased at once by    *)
(* the destructor of a sink of which there is no copy.                     *)
SubscribeReturns(ok, keep) ==
  \E r \in serving, i \in calling :
    /\ r.at = "subscribe" /\ runs[i] = "handler"
    /\ HandlerReturns(Dangling)
    /\ kept' = IF keep THEN kept \cup {r.sink} ELSE kept
    /\ sink' = IF keep THEN sink ELSE SetState(r.sink, "gone")
    /\ productions' = IF ok /\ keep THEN [productions EXCEPT ![sink[r.sink].key] = r.sink]
                      ELSE productions
    /\ UNCHANGED slot

(* simple_production::_on_subscribe: the sink is replaced, the old one     *)
(* goes, and finds no production to close.                                 *)
ProductionSubscribed ==
  \E r \in serving, i \in calling :
    /\ r.at = "subscribe" /\ runs[i] \in {"production", "gone"}
    /\ HandlerReturns(Dangling \/ Raced)
    /\ slot' = [slot EXCEPT ![i] = r.sink]
    /\ sink' = IF slot[i] = 0 THEN sink ELSE SetState(slot[i], "gone")
    /\ productions' = [productions EXCEPT ![sink[r.sink].key] = r.sink]
    /\ UNCHANGED kept

RaiseLocks_Checked_Bug(s) == {s}

(* The mutexes of sinks that raise_unsubscribe takes.                      *)
RaiseLocks(s) == {}

(* The slots connected to _on_unsubscribed run.  They may let the sink go  *)
(* (its destructor finds no production), but do not call it.               *)
UnsubscribeReturns(drop) ==
  \E r \in serving :
    /\ ~crashed /\ r.at = "unsubscribe"
    /\ \A s \in RaiseLocks(r.sink) : ~Locked(s)
    /\ IF drop
       THEN /\ r.sink \in kept /\ ~InUse(r.sink)
            /\ kept' = kept \ {r.sink} /\ sink' = SetState(r.sink, "gone")
       ELSE UNCHANGED <<kept, sink>>
    /\ serving' = {}
    /\ UNCHANGED <<tableVars, runs, slot, productions, doing, strays>>
-----------------------------------------------------------------------------
(* The application and its sinks.                                          *)
Call(t, call, s) ==
  /\ ~crashed /\ doing[t] = {}
  /\ doing' = [doing EXCEPT ![t] = {[at |-> call, sink |-> s]}]
  /\ UNCHANGED <<tableVars, runs, sinkVars, serving>>

(* subscription_sink::close: the sink's mutex, then the passer's.          *)
Close(t, s) ==
  /\ s \in kept /\ sink[s].state = "open" /\ ~Locked(s)
  /\ Call(t, "close", s)

FinishClose(t) ==
  \E s \in Sinks :
    /\ ~crashed /\ In(t, "close", s) /\ PasserFree
    /\ sink' = SetState(s, "closed")
    /\ productions' = Erased(s)
    /\ doing' = [doing EXCEPT ![t] = {}]
    /\ UNCHANGED <<tableVars, runs, slot, kept, serving, strays>>

MayProduce_Unchecked_Bug(s) == ~Locked(s)

(* What is_closed finds, when it was given the mutex.                      *)
MayProduce(s) == ~Locked(s) /\ sink[s].state = "open"

Produce(t, s) ==
  /\ s \in kept /\ MayProduce(s)
  /\ Call(t, "send", s)

ProduceSimple(t, i) ==
  /\ runs[i] = "production" /\ slot[i] # 0 /\ MayProduce(slot[i])
  /\ Call(t, "send", slot[i])

Send(t) ==
  \E s \in Sinks :
    /\ ~crashed /\ In(t, "send", s)
    /\ doing' = [doing EXCEPT ![t] = {}]
    /\ strays' = IF sink[s].state = "open" THEN strays ELSE strays \cup {<<t, s>>}
    /\ UNCHANGED <<tableVars, runs, slot, sink, kept, productions, serving>>

(* The last copy goes; its destructor closes an open sink.                 *)
Forget(s) ==
  /\ ~crashed /\ s \in kept /\ ~InUse(s)
  /\ IF sink[s].state = "open" THEN PasserFree /\ productions' = Erased(s)
     ELSE UNCHANGED productions
  /\ kept' = kept \ {s}
  /\ sink' = SetState(s, "gone")
  /\ UNCHANGED <<tableVars, runs, slot, serving, doing, strays>>
-----------------------------------------------------------------------------
Returns ==
  \/ RequestReturns \/ ProductionSubscribed
  \/ \E ok, keep \in BOOLEAN : SubscribeReturns(ok, keep)
  \/ \E drop \in BOOLEAN : UnsubscribeReturns(drop)

ServingNext ==
  \/ Returns
  \/ \E k \in Keys : \/ ConnectHandler(k) \/ MakeProduction(k)
                     \/ Request(k) \/ SubscribeRequest(k) \/ UnsubscribeRequest(k)
  \/ \E c \in connections : LeaveHandler(c) \/ DestroyProduction(c)
  \/ \E t \in Threads : \/ FinishClose(t) \/ Send(t)
                        \/ \E s \in Sinks : Close(t, s) \/ Produce(t, s)
                        \/ \E i \in Callbacks : ProduceSimple(t, i)
  \/ \E s \in Sinks : Forget(s)

ServingSpec == ServingInit /\ [][ServingNext]_allVars

(* What the application has the passer run returns, a send does, and a     *)
(* mutex that is freed again and again is given to whoever waits for it.   *)
FairServingSpec ==
  /\ ServingSpec
  /\ WF_allVars(Returns)
  /\ \A t \in Threads : WF_allVars(Send(t)) /\ SF_allVars(FinishClose(t))
-----------------------------------------------------------------------------
ServingTypeOK ==
  /\ runs \in [Callbacks -> {"nothing", "handler", "production", "gone"}]
  /\ slot \in [Callbacks -> 0..MaxSinks]
  /\ sink \in [Sinks -> [state : {"unmade", "open", "closed", "gone"}, key : Keys]]
  /\ kept \subseteq Sinks
  /\ productions \in [Keys -> 0..MaxSinks]
  /\ serving \subseteq [at : {"request"}, sink : {0}] \cup
                      [at : {"subscribe", "unsubscribe"}, sink : Sinks]
  /\ doing \in [Threads -> SUBSET [at : {"close", "send"}, sink : Sinks]]
  /\ strays \subseteq Threads \X Sinks

(* A close returns: the io thread never waits for a sink while it has the  *)
(* mutex of the passer, which the thread that closes the sink waits for.   *)
CloseReturns ==
  \A t \in Threads, s \in Sinks : In(t, "close", s) ~> (~In(t, "close", s) \/ crashed)

(* produce sends after it let go of the sink's mutex, so a notification    *)
(* may follow the abort of its subscription; but no thread sends another.  *)
StraysOnce == \A t \in Threads, s \in Sinks : <<t, s>> \in strays => ~In(t, "send", s)

(* A handler only dies of what its owner did: it was disconnected, or its  *)
(* connection (or the simple_production) let go, or a simple_production    *)
(* produced while it was subscribed to.                                    *)
LiveHandlersRun ==
  [][crashed' => \/ crashed \/ Raced
                 \/ \E i \in calling : i \in disconnected \/ \A c \in connections : c.id # i]_allVars
=============================================================================
