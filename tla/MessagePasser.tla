--------------------------- MODULE MessagePasser ---------------------------
(***************************************************************************)
(* Two message_passer objects joined by one connection                     *)
(* (src/network/transport/message_passer.{hpp,cpp}).  Each end makes       *)
(* requests, subscribes to opcodes of the other end, and produces          *)
(* notifications for the subscriptions the other end holds.                *)
(*                                                                         *)
(* Application threads (Threads) call into the passer of their Home; one   *)
(* io thread per peer runs _on_message_received for the messages its       *)
(* connection delivers, in order.  A step is a section of code that no     *)
(* other thread can see half done: a section under _mutex, or the single   *)
(* call of connection::send between two of them.                           *)
(***************************************************************************)
EXTENDS Naturals, Sequences, FiniteSets

CONSTANTS
  Peers,        \* the two ends of the connection
  Opcodes,      \* the opcodes in use
  SimpleOps,    \* the opcodes whose subscription handler is a simple_production
  QuitOps,      \* the opcodes whose handler may close its sink before it answers
  Threads,      \* the application threads
  Home,         \* Home[t]: the peer whose message_passer t calls
  CookieMod,    \* conversation ids are counted modulo this (2^32 in the code)
  MaxSerial,    \* bound: an upper limit for Budget
  Budget,       \* bound: Budget[p] conversation ids are handed out by p
  MaxInFlight,  \* bound: no notification is started when this many messages travel
  MayStop       \* the peers whose connection may be closed

ASSUME PeersAssumption == \E a \in Peers : \E b \in Peers : a # b /\ Peers = {a, b}
ASSUME ThreadsAssumption == Home \in [Threads -> Peers]
ASSUME OpcodesAssumption == /\ SimpleOps \subseteq Opcodes
                            /\ QuitOps \subseteq Opcodes
ASSUME BoundsAssumption == /\ CookieMod \in Nat \ {0}
                           /\ MaxSerial \in Nat
                           /\ Budget \in [Peers -> 0..MaxSerial]
                           /\ MaxInFlight \in Nat

VARIABLES
  conn,           \* the connection of each peer
  listening,      \* _on_message_connection is connected
  baked,          \* conversation ids baked so far; _last_cookie is baked % CookieMod
  calls,          \* history: what the n-th conversation is, and how far it has come
  outstanding,    \* _outstanding_requests
  subscriptions,  \* _subscriptions: whose on_data callback an opcode has, 0 if none
  handles,        \* subscription_handle objects the application holds
  productions,    \* _productions: which sink an opcode points to, 0 if none
  sinks,          \* subscription_sink_impl objects that are alive
  chan,           \* chan[p]: the messages travelling to p
  replying,       \* the reply the io thread has still to send, if any
  hand            \* what each application thread is in the middle of, if anything

vars == <<conn, listening, baked, calls, outstanding, subscriptions, handles,
          productions, sinks, chan, replying, hand>>

Serials == 1..MaxSerial
Kinds == {"request", "subscribe_request", "unsubscribe_request"}
ReplyType == [request             |-> "response",
              subscribe_request   |-> "subscribe_response",
              unsubscribe_request |-> "unsubscribe_response"]
Replies == {"response", "subscribe_response", "unsubscribe_response"}

(* A message.  serial is history: the number of the conversation the id    *)
(* was baked for, which the wrapped id (cid) may share with another one.   *)
Message == [type   : Kinds \cup Replies \cup {"notification"},
            op     : Opcodes,
            cid    : 0..(CookieMod - 1),
            serial : Serials,
            err    : {"success", "failure", "aborted"}]

Outstanding == [cid : 0..(CookieMod - 1), serial : Serials, kind : Kinds]
Handle      == [op : Opcodes, serial : Serials]
Sink        == [op : Opcodes, serial : Serials, closed : BOOLEAN]
Fates       == {"unused", "issued", "served", "answered", "dropped", "lost"}
Hand        == [at : {"send"}, msg : Message]
                 \cup [at : {"insert"}, msg : {m \in Message : m.type \in Kinds}]
                 \cup [at : {"close"}, msg : {m \in Message : m.type = "notification"}]
Call        == [kind : Kinds \cup {"none"}, fate : Fates]

Other(p) == CHOOSE q \in Peers : q # p

(* Deviations of the code, for the runs that show what each property       *)
(* detects: names ending in _Bug stand in for the definition that follows. *)
Cookie_Unwrapped_Bug(n) == n
Cookie_Narrow_Bug(n) == n % (CookieMod - 1)

Cookie(n) == n % CookieMod

Msg(type, op, n, err) ==
  [type |-> type, op |-> op, cid |-> Cookie(n), serial |-> n, err |-> err]

(* create_reply_header: the reply carries the conversation id and opcode.  *)
Reply(m, err) ==
  [type |-> ReplyType[m.type], op |-> m.op, cid |-> m.cid, serial |-> m.serial, err |-> err]

(* The io thread keeps _mutex from the subscription handler to the reply;  *)
(* the reply to an unsubscribe request is sent after the mutex was freed.  *)
Locked(p) == \E m \in replying[p] : m.type = "subscribe_response"

(* connection::send: silently ignored unless this end is running; nobody   *)
(* reads what is sent to an end that stopped.                              *)
(*                                                                         *)
(* ASSUMPTION: the connection is one the passer can work with: what is     *)
(* sent while both ends run arrives, in order, once.  tcp_connection, as   *)
(* it is, is none: it never writes a byte (TcpConnection!QueueDrains), so  *)
(* that no call over it is answered, and CallsAnswered is not about it.    *)
Reaches(p) == conn[p] = "running" /\ conn[Other(p)] # "stopped"

Wire(p, ms) ==
  chan' = IF Reaches(p) THEN [chan EXCEPT ![Other(p)] = @ \o ms] ELSE chan

SetFate(cs, p, n, f) == [cs EXCEPT ![p][n].fate = f]

Unless(ok, f) == IF ok THEN f ELSE "lost"
-----------------------------------------------------------------------------
Init ==
  /\ conn = [p \in Peers |-> "created"]
  /\ listening = [p \in Peers |-> FALSE]
  /\ baked = [p \in Peers |-> 0]
  /\ calls = [p \in Peers |-> [n \in Serials |-> [kind |-> "none", fate |-> "unused"]]]
  /\ outstanding = [p \in Peers |-> {}]
  /\ subscriptions = [p \in Peers |-> [o \in Opcodes |-> 0]]
  /\ handles = [p \in Peers |-> {}]
  /\ productions = [p \in Peers |-> [o \in Opcodes |-> 0]]
  /\ sinks = [p \in Peers |-> {}]
  /\ chan = [p \in Peers |-> <<>>]
  /\ replying = [p \in Peers |-> {}]
  /\ hand = [t \in Threads |-> {}]
-----------------------------------------------------------------------------
(* message_passer::start: the connection is started first, the slot for    *)
(* its messages is connected afterwards.                                   *)
StartConnection(p) ==
  /\ conn[p] = "created"
  /\ conn' = [conn EXCEPT ![p] = "running"]
  /\ UNCHANGED <<listening, baked, calls, outstanding, subscriptions, handles,
                 productions, sinks, chan, replying, hand>>

Listen(p) ==
  /\ conn[p] # "created" /\ ~listening[p]
  /\ listening' = [listening EXCEPT ![p] = TRUE]
  /\ UNCHANGED <<conn, baked, calls, outstanding, subscriptions, handles,
                 productions, sinks, chan, replying, hand>>

(* The end whose connection carries a message to q made the call if it is  *)
(* a request, q made it if it is a reply.                                  *)
Caller(q, m) == IF m.type \in Kinds THEN Other(q) ELSE q

(* The calls that die with the messages in gone[q], on their way to q.     *)
LoseCalls(gone) ==
  calls' = [p \in Peers |-> [n \in Serials |->
              IF \E q \in Peers : \E m \in gone[q] :
                    m.type # "notification" /\ Caller(q, m) = p /\ m.serial = n
              THEN [calls[p][n] EXCEPT !.fate = "lost"] ELSE calls[p][n]]]

TailSet(s, k) == {s[i] : i \in (k + 1)..Len(s)}

(* The connection of p is closed.  What p had queued beyond some point is  *)
(* never written, unless the other end had stopped and nothing was left to *)
(* write; of what travels to p, a message already read is still delivered. *)
Stop(p) ==
  /\ p \in MayStop /\ conn[p] = "running"
  /\ conn' = [conn EXCEPT ![p] = "stopped"]
  /\ \E k \in 0..Len(chan[Other(p)]), j \in 0..Len(chan[p]) :
       /\ conn[Other(p)] = "stopped" => k = Len(chan[Other(p)])
       /\ j \in {0, 1}
       /\ chan' = [chan EXCEPT ![Other(p)] = SubSeq(@, 1, k), ![p] = SubSeq(@, 1, j)]
       /\ LoseCalls([q \in Peers |-> TailSet(chan[q], IF q = p THEN j ELSE k)])
  /\ UNCHANGED <<listening, baked, outstanding, subscriptions, handles,
                 productions, sinks, replying, hand>>

(* The read of p fails at the end of the stream of an end that stopped.    *)
HangUp(p) ==
  /\ conn[p] = "running" /\ conn[Other(p)] = "stopped" /\ chan[p] = <<>>
  /\ conn' = [conn EXCEPT ![p] = "stopped"]
  /\ UNCHANGED <<listening, baked, calls, outstanding, subscriptions, handles,
                 productions, sinks, chan, replying, hand>>
-----------------------------------------------------------------------------
(* Calls of the application.  Each bakes a conversation id under _mutex,   *)
(* then sends the message (unlocked), then takes _mutex again and enters   *)
(* its callback in _outstanding_requests (_do_request).                    *)
Idle(t) == hand[t] = {}

Bake(t, type, op) ==
  LET p == Home[t]  n == baked[p] + 1 IN
    /\ Idle(t) /\ ~Locked(p) /\ baked[p] < Budget[p]
    /\ baked' = [baked EXCEPT ![p] = n]
    /\ calls' = [calls EXCEPT ![p][n] = [kind |-> type, fate |-> "issued"]]
    /\ hand' = [hand EXCEPT ![t] = {[at |-> "send", msg |-> Msg(type, op, n, "success")]}]

Request(t, op) ==
  /\ Bake(t, "request", op)
  /\ UNCHANGED <<conn, listening, outstanding, subscriptions, handles,
                 productions, sinks, chan, replying>>

(* message_passer::subscribe throws when the opcode is subscribed to.      *)
Subscribe(t, op) ==
  /\ subscriptions[Home[t]][op] = 0
  /\ Bake(t, "subscribe_request", op)
  /\ UNCHANGED <<conn, listening, outstanding, subscriptions, handles,
                 productions, sinks, chan, replying>>

Unsubscribe_Keep_Bug(t, h, dropped) ==
  LET p == Home[t] IN
    /\ h \in handles[p]
    /\ Bake(t, "unsubscribe_request", h.op)
    /\ handles' = IF dropped THEN [handles EXCEPT ![p] = @ \ {h}] ELSE handles
    /\ UNCHANGED <<conn, listening, outstanding, subscriptions, productions, sinks,
                   chan, replying>>

(* message_passer::unsubscribe, by subscription_handle::unsubscribe or by  *)
(* the destructor of the last copy of the handle (dropped): it erases      *)
(* whatever subscription the opcode has and tells the other end.           *)
Unsubscribe(t, h, dropped) ==
  LET p == Home[t] IN
    /\ h \in handles[p]
    /\ Bake(t, "unsubscribe_request", h.op)
    /\ subscriptions' = [subscriptions EXCEPT ![p][h.op] = 0]
    /\ handles' = IF dropped THEN [handles EXCEPT ![p] = @ \ {h}] ELSE handles
    /\ UNCHANGED <<conn, listening, outstanding, productions, sinks, chan, replying>>

SendCall(t) ==
  LET p == Home[t] IN
    \E h \in hand[t] :
      /\ h.at = "send" /\ h.msg.type \in Kinds
      /\ Wire(p, <<h.msg>>)
      /\ calls' = SetFate(calls, p, h.msg.serial, Unless(Reaches(p), "issued"))
      /\ hand' = [hand EXCEPT ![t] = {[at |-> "insert", msg |-> h.msg]}]
      /\ UNCHANGED <<conn, listening, baked, outstanding, subscriptions, handles,
                     productions, sinks, replying>>

(* std::map::insert: an entry that is there already stays.                 *)
Insert(entries, e) ==
  IF \E r \in entries : r.cid = e.cid THEN entries ELSE entries \cup {e}

Entry(m) == [cid |-> m.cid, serial |-> m.serial, kind |-> m.type]

Register(t) ==
  LET p == Home[t] IN
    \E h \in hand[t] :
      /\ h.at = "insert" /\ ~Locked(p)
      /\ outstanding' = [outstanding EXCEPT ![p] = Insert(@, Entry(h.msg))]
      /\ hand' = [hand EXCEPT ![t] = {}]
      /\ UNCHANGED <<conn, listening, baked, calls, subscriptions, handles,
                     productions, sinks, chan, replying>>
-----------------------------------------------------------------------------
(* The producing side.  subscription_sink::produce looks at _closed, and   *)
(* sends afterwards, holding no mutex of the passer.                       *)
Produce(t, s) ==
  LET p == Home[t] IN
    /\ Idle(t) /\ s \in sinks[p] /\ ~s.closed
    /\ Len(chan[Other(p)]) < MaxInFlight
    /\ hand' = [hand EXCEPT ![t] =
                  {[at |-> "send", msg |-> Msg("notification", s.op, s.serial, "success")]}]
    /\ UNCHANGED <<conn, listening, baked, calls, outstanding, subscriptions,
                   handles, productions, sinks, chan, replying>>

SendNotification(t) ==
  \E h \in hand[t] :
    /\ h.at = "send" /\ h.msg.type = "notification"
    /\ Wire(Home[t], <<h.msg>>)
    /\ hand' = [hand EXCEPT ![t] = {}]
    /\ UNCHANGED <<conn, listening, baked, calls, outstanding, subscriptions,
                   handles, productions, sinks, replying>>

(* message_passer::close_production goes by the opcode alone: it erases    *)
(* the production the opcode has now, and sends m, the abort of the sink   *)
(* that is closed, to the other end.                                       *)
CloseProduction(p, m) ==
  /\ productions' = [productions EXCEPT ![p][m.op] = 0]
  /\ IF productions[p][m.op] = 0 THEN UNCHANGED chan ELSE Wire(p, <<m>>)

Closing(s) == {[at |-> "close", msg |-> Msg("notification", s.op, s.serial, "aborted")]}

Close_Flag_Bug(t, s) ==
  /\ Idle(t) /\ s \in sinks[Home[t]] /\ ~s.closed /\ s.op \notin SimpleOps
  /\ hand' = [hand EXCEPT ![t] = Closing(s)]
  /\ UNCHANGED <<conn, listening, baked, calls, outstanding, subscriptions,
                 handles, productions, sinks, chan, replying>>

(* subscription_sink::close: _closed is set under the mutex of the sink,   *)
(* the passer's mutex is only taken after that (FinishClose).              *)
Close(t, s) ==
  LET p == Home[t] IN
    /\ Idle(t) /\ s \in sinks[p] /\ ~s.closed /\ s.op \notin SimpleOps
    /\ sinks' = [sinks EXCEPT ![p] = (@ \ {s}) \cup {[s EXCEPT !.closed = TRUE]}]
    /\ hand' = [hand EXCEPT ![t] = Closing(s)]
    /\ UNCHANGED <<conn, listening, baked, calls, outstanding, subscriptions,
                   handles, productions, chan, replying>>

(* A thread is inside produce or close of the sink, and has a copy of it.  *)
InUse(p, s) ==
  \E t \in Threads : Home[t] = p /\ \E h \in hand[t] :
     h.msg.type = "notification" /\ h.msg.op = s.op /\ h.msg.serial = s.serial

DropSink_Silent_Bug(t, s) ==
  LET p == Home[t] IN
    /\ Idle(t) /\ s \in sinks[p] /\ s.op \notin SimpleOps /\ ~InUse(p, s)
    /\ sinks' = [sinks EXCEPT ![p] = @ \ {s}]
    /\ UNCHANGED <<conn, listening, baked, calls, outstanding, subscriptions,
                   handles, productions, chan, replying, hand>>

(* The last copy of a sink goes: from here on the weak pointer of its      *)
(* production has expired.  The destructor closes it then (FinishClose).   *)
DropSink(t, s) ==
  LET p == Home[t] IN
    /\ Idle(t) /\ s \in sinks[p] /\ s.op \notin SimpleOps /\ ~InUse(p, s)
    /\ sinks' = [sinks EXCEPT ![p] = @ \ {s}]
    /\ hand' = IF s.closed THEN hand ELSE [hand EXCEPT ![t] = Closing(s)]
    /\ UNCHANGED <<conn, listening, baked, calls, outstanding, subscriptions,
                   handles, productions, chan, replying>>

(* close or the destructor gets the passer's mutex: meanwhile the io       *)
(* thread may have erased the production and entered the next one.         *)
FinishClose(t) ==
  \E h \in hand[t] :
    /\ h.at = "close" /\ ~Locked(Home[t])
    /\ CloseProduction(Home[t], h.msg)
    /\ hand' = [hand EXCEPT ![t] = {}]
    /\ UNCHANGED <<conn, listening, baked, calls, outstanding, subscriptions,
                   handles, sinks, replying>>
-----------------------------------------------------------------------------
(* _on_message_received, one action per case and outcome.                  *)
Arrives(p, types) ==
  /\ conn[p] # "created" /\ listening[p] /\ replying[p] = {}
  /\ chan[p] # <<>> /\ Head(chan[p]).type \in types

Consume(p) == chan' = [chan EXCEPT ![p] = Tail(@)]

(* m was handled and ms sent back, in the same section.                    *)
Answer(p, m, ms) ==
  /\ chan' = IF Reaches(p)
             THEN [chan EXCEPT ![p] = Tail(@), ![Other(p)] = @ \o ms]
             ELSE [chan EXCEPT ![p] = Tail(@)]
  /\ calls' = SetFate(calls, Other(p), m.serial, Unless(Reaches(p), "served"))

(* A message read before the slot was connected goes to nobody.            *)
ReceiveEarly(p) ==
  /\ conn[p] # "created" /\ ~listening[p] /\ chan[p] # <<>>
  /\ Consume(p)
  /\ LoseCalls([q \in Peers |-> IF q = p THEN {Head(chan[p])} ELSE {}])
  /\ UNCHANGED <<conn, listening, baked, outstanding, subscriptions, handles,
                 productions, sinks, replying, hand>>

(* The on_data callback runs if the opcode has one; the state of the       *)
(* passer is the same either way.                                          *)
ReceiveNotification(p) ==
  /\ Arrives(p, {"notification"})
  /\ Consume(p)
  /\ UNCHANGED <<conn, listening, baked, calls, outstanding, subscriptions,
                 handles, productions, sinks, replying, hand>>

(* The handler answers, or there is none, or it throws: a reply is sent.   *)
ReceiveRequest(p) ==
  /\ Arrives(p, {"request"})
  /\ \E err \in {"success", "failure"} :
       Answer(p, Head(chan[p]), <<Reply(Head(chan[p]), err)>>)
  /\ UNCHANGED <<conn, listening, baked, outstanding, subscriptions, handles,
                 productions, sinks, replying, hand>>

RefuseSubscribe_Mute_Bug(p) ==
  LET m == Head(chan[p]) IN
    /\ Arrives(p, {"subscribe_request"})
    /\ productions[p][m.op] # 0 \/ m.op \notin SimpleOps
    /\ Answer(p, m, <<>>)
    /\ UNCHANGED <<conn, listening, baked, outstanding, subscriptions, handles,
                   productions, sinks, replying, hand>>

(* A second subscription to an opcode, or one its handler refuses, is      *)
(* answered with an error; the sink made for the handler dies unnoticed.   *)
RefuseSubscribe(p) ==
  LET m == Head(chan[p]) IN
    /\ Arrives(p, {"subscribe_request"})
    /\ productions[p][m.op] # 0 \/ m.op \notin SimpleOps
    /\ Answer(p, m, <<Reply(m, "failure")>>)
    /\ UNCHANGED <<conn, listening, baked, outstanding, subscriptions, handles,
                   productions, sinks, replying, hand>>

(* The handler succeeds and keeps the sink; the reply follows under the    *)
(* same mutex, but the sink can be used from now on.  A simple_production  *)
(* gives up the sink it had, whose destructor finds no production.         *)
AcceptSubscribe(p) ==
  LET m == Head(chan[p])
      s == [op |-> m.op, serial |-> m.serial, closed |-> FALSE]
      replaced == IF m.op \in SimpleOps THEN {r \in sinks[p] : r.op = m.op} ELSE {}
  IN
    /\ Arrives(p, {"subscribe_request"})
    /\ productions[p][m.op] = 0
    /\ sinks' = [sinks EXCEPT ![p] = (@ \ replaced) \cup {s}]
    /\ productions' = [productions EXCEPT ![p][m.op] = m.serial]
    /\ replying' = [replying EXCEPT ![p] = {Reply(m, "success")}]
    /\ calls' = SetFate(calls, Other(p), m.serial, "served")
    /\ Consume(p)
    /\ UNCHANGED <<conn, listening, baked, outstanding, subscriptions, handles, hand>>

(* The handler succeeds but keeps no copy of the sink: the production is   *)
(* entered, then aborted by the destructor, before the reply is sent.      *)
DiscardSubscribe(p) ==
  LET m == Head(chan[p]) IN
    /\ Arrives(p, {"subscribe_request"})
    /\ productions[p][m.op] = 0 /\ m.op \notin SimpleOps
    /\ Answer(p, m, <<Msg("notification", m.op, m.serial, "aborted"),
                      Reply(m, "success")>>)
    /\ UNCHANGED <<conn, listening, baked, outstanding, subscriptions, handles,
                   productions, sinks, replying, hand>>

(* The handler closes its sink and succeeds all the same: at that moment   *)
(* there is no production to erase, and the one entered after it points to *)
(* a closed sink, of which the application may keep a copy (see DropSink). *)
AcceptClosed(p) ==
  LET m == Head(chan[p])
      s == [op |-> m.op, serial |-> m.serial, closed |-> TRUE]
  IN
    /\ Arrives(p, {"subscribe_request"})
    /\ productions[p][m.op] = 0 /\ m.op \in QuitOps
    /\ sinks' = [sinks EXCEPT ![p] = @ \cup {s}]
    /\ productions' = [productions EXCEPT ![p][m.op] = m.serial]
    /\ Answer(p, m, <<Reply(m, "success")>>)
    /\ UNCHANGED <<conn, listening, baked, outstanding, subscriptions, handles,
                   replying, hand>>

ReceiveUnsubscribe_Keep_Bug(p) ==
  LET m == Head(chan[p]) IN
    /\ Arrives(p, {"unsubscribe_request"})
    /\ replying' = [replying EXCEPT ![p] = {Reply(m, "success")}]
    /\ calls' = SetFate(calls, Other(p), m.serial, "served")
    /\ Consume(p)
    /\ UNCHANGED <<conn, listening, baked, outstanding, subscriptions, handles,
                   productions, sinks, hand>>

(* The production of the opcode is erased; its sink is told, not closed.   *)
ReceiveUnsubscribe(p) ==
  LET m == Head(chan[p]) IN
    /\ Arrives(p, {"unsubscribe_request"})
    /\ productions' = [productions EXCEPT ![p][m.op] = 0]
    /\ replying' = [replying EXCEPT ![p] = {Reply(m, "success")}]
    /\ calls' = SetFate(calls, Other(p), m.serial, "served")
    /\ Consume(p)
    /\ UNCHANGED <<conn, listening, baked, outstanding, subscriptions, handles,
                   sinks, hand>>

SendReply(p) ==
  \E m \in replying[p] :
    /\ replying' = [replying EXCEPT ![p] = {}]
    /\ Wire(p, <<m>>)
    /\ calls' = SetFate(calls, Other(p), m.serial, Unless(Reaches(p), "served"))
    /\ UNCHANGED <<conn, listening, baked, outstanding, subscriptions, handles,
                   productions, sinks, hand>>
-----------------------------------------------------------------------------
(* The three types of response are one case: the conversation id alone     *)
(* finds the callback, which is erased and called under _mutex.            *)
DropResponse(p) ==
  LET m == Head(chan[p]) IN
    /\ Arrives(p, Replies)
    /\ \A r \in outstanding[p] : r.cid # m.cid
    /\ Consume(p)
    /\ calls' = SetFate(calls, p, m.serial, "dropped")
    /\ UNCHANGED <<conn, listening, baked, outstanding, subscriptions, handles,
                   productions, sinks, replying, hand>>

Completes_AnyType_Bug(p, m, r) ==
  /\ Arrives(p, Replies \cup Kinds)
  /\ r \in outstanding[p] /\ r.cid = m.cid
  /\ Consume(p)

(* r is the entry the response m at the head of the channel runs.          *)
Completes(p, m, r) ==
  /\ Arrives(p, Replies)
  /\ r \in outstanding[p] /\ r.cid = m.cid
  /\ Consume(p)

CompleteCall_Keep_Bug(p) ==
  LET m == Head(chan[p]) IN
    \E r \in outstanding[p] :
      /\ Completes(p, m, r)
      /\ r.kind = "subscribe_request" => m.err # "success"
      /\ calls' = SetFate(calls, p, r.serial, "answered")
      /\ UNCHANGED <<conn, listening, baked, outstanding, subscriptions, handles,
                     productions, sinks, replying, hand>>

(* The callback of a request or of an unsubscribe request, or that of a    *)
(* subscribe request which failed: it is given no handle.                  *)
CompleteCall(p) ==
  LET m == Head(chan[p]) IN
    \E r \in outstanding[p] :
      /\ Completes(p, m, r)
      /\ r.kind = "subscribe_request" => m.err # "success"
      /\ outstanding' = [outstanding EXCEPT ![p] = @ \ {r}]
      /\ calls' = SetFate(calls, p, r.serial, "answered")
      /\ UNCHANGED <<conn, listening, baked, subscriptions, handles,
                     productions, sinks, replying, hand>>

(* _on_subscribe_reply enters on_data (unless the opcode has one already)  *)
(* and gives the application a handle, which it keeps.                     *)
CompleteSubscribe(p) ==
  LET m == Head(chan[p]) IN
    \E r \in outstanding[p] :
      /\ Completes(p, m, r)
      /\ r.kind = "subscribe_request" /\ m.err = "success"
      /\ outstanding' = [outstanding EXCEPT ![p] = @ \ {r}]
      /\ calls' = SetFate(calls, p, r.serial, "answered")
      /\ subscriptions' = [subscriptions EXCEPT ![p][m.op] = IF @ = 0 THEN r.serial ELSE @]
      /\ handles' = [handles EXCEPT ![p] = @ \cup {[op |-> m.op, serial |-> r.serial]}]
      /\ UNCHANGED <<conn, listening, baked, productions, sinks, replying, hand>>

(* The application does not keep it: its destructor unsubscribes at once,  *)
(* sending and registering a call inside this one.                         *)
DiscardHandle(p) ==
  LET m == Head(chan[p])  n == baked[p] + 1
      u == Msg("unsubscribe_request", m.op, n, "success")
  IN
    \E r \in outstanding[p] :
      /\ Arrives(p, Replies) /\ r.cid = m.cid /\ baked[p] < Budget[p]
      /\ r.kind = "subscribe_request" /\ m.err = "success"
      /\ subscriptions' = [subscriptions EXCEPT ![p][m.op] = 0]
      /\ baked' = [baked EXCEPT ![p] = n]
      /\ calls' = [calls EXCEPT ![p][r.serial].fate = "answered",
                     ![p][n] = [kind |-> u.type, fate |-> Unless(Reaches(p), "issued")]]
      /\ outstanding' = [outstanding EXCEPT ![p] = Insert(@ \ {r}, Entry(u))]
      /\ chan' = IF Reaches(p)
                 THEN [chan EXCEPT ![p] = Tail(@), ![Other(p)] = Append(@, u)]
                 ELSE [chan EXCEPT ![p] = Tail(@)]
      /\ UNCHANGED <<conn, listening, handles, productions, sinks, replying, hand>>
-----------------------------------------------------------------------------
Receive(p) == \/ ReceiveEarly(p)
              \/ ReceiveNotification(p)
              \/ ReceiveRequest(p)
              \/ RefuseSubscribe(p)
              \/ AcceptSubscribe(p)
              \/ DiscardSubscribe(p)
              \/ AcceptClosed(p)
              \/ ReceiveUnsubscribe(p)
              \/ DropResponse(p)
              \/ CompleteCall(p)
              \/ CompleteSubscribe(p)
              \/ DiscardHandle(p)

Continue(t) == SendCall(t) \/ Register(t) \/ SendNotification(t) \/ FinishClose(t)

Application(t) == \/ \E op \in Opcodes : Request(t, op) \/ Subscribe(t, op)
                  \/ \E h \in handles[Home[t]], dropped \in BOOLEAN : Unsubscribe(t, h, dropped)
                  \/ \E s \in sinks[Home[t]] : Produce(t, s) \/ Close(t, s) \/ DropSink(t, s)

Next == \/ \E p \in Peers : \/ StartConnection(p) \/ Listen(p) \/ Stop(p) \/ HangUp(p)
                            \/ Receive(p) \/ SendReply(p)
        \/ \E t \in Threads : Application(t) \/ Continue(t)

(* The io thread runs whatever its connection delivers, and a thread that  *)
(* is inside a call of the passer goes on; both ends are started.          *)
Fairness == /\ \A p \in Peers : /\ WF_vars(StartConnection(p)) /\ WF_vars(Listen(p))
                                /\ WF_vars(Receive(p)) /\ WF_vars(SendReply(p))
            /\ \A t \in Threads : WF_vars(Continue(t))

Spec == Init /\ [][Next]_vars
FairSpec == Spec /\ Fairness
-----------------------------------------------------------------------------
TypeOK ==
  /\ conn \in [Peers -> {"created", "running", "stopped"}]
  /\ listening \in [Peers -> BOOLEAN]
  /\ baked \in [Peers -> 0..MaxSerial]
  /\ calls \in [Peers -> [Serials -> Call]]
  /\ outstanding \in [Peers -> SUBSET Outstanding]
  /\ subscriptions \in [Peers -> [Opcodes -> 0..MaxSerial]]
  /\ handles \in [Peers -> SUBSET Handle]
  /\ productions \in [Peers -> [Opcodes -> 0..MaxSerial]]
  /\ sinks \in [Peers -> SUBSET Sink]
  /\ chan \in [Peers -> Seq(Message)]
  /\ replying \in [Peers -> SUBSET Message]
  /\ hand \in [Threads -> SUBSET Hand]

(* n is among the CookieMod ids p baked last.                              *)
Recent(p, n) == n + CookieMod > baked[p]

(* No crosstalk: the callback a response is about to run belongs to the    *)
(* very call the response answers, and has the kind that was issued (the   *)
(* code looks at the conversation id only), although the ids wrap and are  *)
(* used again.  It takes an entry or a response that is older than a whole *)
(* round of ids to mix up two calls, and those are mixed up.               *)
NoCrossTalk ==
  \A p \in Peers : chan[p] # <<>> /\ Head(chan[p]).type \in Replies =>
    \A r \in outstanding[p] :
      /\ r.cid = Head(chan[p]).cid
      /\ Recent(p, r.serial) /\ Recent(p, Head(chan[p]).serial)
      => /\ r.serial = Head(chan[p]).serial
         /\ Head(chan[p]).type = ReplyType[r.kind]

(* No callback can run twice: of a call that is answered there is no entry *)
(* in _outstanding_requests, not even when insert kept an older one of its *)
(* conversation id.                                                        *)
NoSecondAnswer ==
  \A p \in Peers : \A r \in outstanding[p] : calls[p][r.serial].fate # "answered"

Closes(t, p, o, n) ==
  Home[t] = p /\ \E h \in hand[t] : h.at = "close" /\ h.msg.op = o /\ h.msg.serial = n

(* A production whose sink is closed or gone blocks its opcode.  It is     *)
(* there only while the thread that closed or dropped the sink is on its   *)
(* way to erase it, whatever other closes and subscriptions of the opcode  *)
(* come in between, and although all of them go by the opcode.  (Of a      *)
(* handler that closes its own sink this is not so: AcceptClosed.)         *)
DeadProductionGoes ==
  \A p \in Peers, o \in Opcodes \ QuitOps : productions[p][o] # 0 =>
    \/ [op |-> o, serial |-> productions[p][o], closed |-> FALSE] \in sinks[p]
    \/ \E t \in Threads : Closes(t, p, o, productions[p][o])

(* An on_data callback is only kept while the application has the handle   *)
(* to remove it with.                                                      *)
SubscriptionHasHandle ==
  \A p \in Peers, o \in Opcodes : subscriptions[p][o] # 0 =>
    [op |-> o, serial |-> subscriptions[p][o]] \in handles[p]

(* An abort on its way means that the sink it names is closed or gone, and *)
(* no other abort names it.                                                *)
AbortedSinkClosed ==
  \A p \in Peers : \A i \in 1..Len(chan[p]) :
    LET m == chan[p][i] IN
      (m.type = "notification" /\ m.err = "aborted") =>
        /\ \A s \in sinks[Other(p)] : s.op = m.op /\ s.serial = m.serial => s.closed
        /\ \A j \in 1..Len(chan[p]) : j # i /\ chan[p][j].serial = m.serial
             => chan[p][j].err # "aborted"

Quiet == /\ \A p \in Peers : chan[p] = <<>> /\ replying[p] = {} /\ conn[p] = "running"
         /\ \A t \in Threads : Idle(t)

(* No id was handed out twice.                                             *)
Unwrapped == \A p \in Peers : baked[p] <= CookieMod

(* When nothing is in flight, an end only produces an opcode that the      *)
(* other end subscribes to, unless the subscriber never learnt that its    *)
(* request was accepted.  Once ids are used again it is not so: a response *)
(* older than a round may be taken for that of the subscription.           *)
NoOrphanProduction ==
  Quiet /\ Unwrapped => \A p \in Peers, o \in Opcodes :
    productions[p][o] # 0 /\ calls[Other(p)][productions[p][o]].fate = "answered"
      => subscriptions[Other(p)][o] # 0

(* Calls as CallContract has them.                                         *)
Contract == INSTANCE CallContract
  WITH fate <- [p \in Peers |-> [n \in Serials |-> calls[p][n].fate]]

(* Each call is issued, served and settled at most once and in that order. *)
CallsAdvance == Contract!Safe

Up == \A p \in Peers : conn[p] = "running" /\ listening[p]

(* A call whose callback is registered in time, with both ends listening   *)
(* and its reply still to come, is answered: the callback runs, unless an  *)
(* end stops.  Neither loss nor a dropped reply counts as an answer.       *)
CallsAnswered ==
  \A p \in Peers, n \in Serials :
    /\ Up /\ calls[p][n].fate \in {"issued", "served"}
    /\ \E r \in outstanding[p] : r.serial = n
    ~> \/ calls[p][n].fate = "answered"
       \/ \E q \in Peers : conn[q] = "stopped"

(* A reply that is delivered runs the callback of its call.                *)
RepliesReachCallback ==
  \A p \in Peers, n \in Serials : calls[p][n].fate # "dropped"
=============================================================================
