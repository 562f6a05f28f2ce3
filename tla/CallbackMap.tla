---------------------------- MODULE CallbackMap ----------------------------
(***************************************************************************)
(* util::functional::callback_map: the table in which a message_passer     *)
(* keeps the handlers of requests and of subscriptions.  connect hands out *)
(* a connection_impl, held by the callback_connections of the application; *)
(* the table itself only remembers its address, as a raw pointer, and      *)
(* disconnect takes a callback away when that address is its own.  The io  *)
(* thread looks a callback up under the mutex of the table and calls it    *)
(* after the mutex was released.                                           *)
(*                                                                         *)
(* A step is a section under the mutex of the table.  The callbacks are    *)
(* numbered by the calls of connect that brought them; the same number     *)
(* stands for the connection_impl that call made.                          *)
(***************************************************************************)
EXTENDS Integers, FiniteSets

CONSTANTS
  Keys,           \* the opcodes
  Addresses,      \* where a connection_impl may be allocated
  MaxConnections  \* bound: how often connect is called

ASSUME ConnectionsAssumption == MaxConnections \in Nat

VARIABLES
  made,         \* calls of connect so far
  callbacks,    \* callbacks[k]: the entry of k as a set, empty when there is none
  connections,  \* the connection_impls somebody holds
  calling,      \* the callback the io thread is in, as a set of at most one
  disconnected, \* history: the connections whose disconnect was called
  crashed       \* a callback was called that no longer exists

vars == <<made, callbacks, connections, calling, disconnected, crashed>>

Entry      == [cimpl : Addresses, cb : 1..MaxConnections]
Connection == [id : 1..MaxConnections, key : Keys, at : Addresses]

Init ==
  /\ made = 0
  /\ callbacks = [k \in Keys |-> {}]
  /\ connections = {}
  /\ calling = {}
  /\ disconnected = {}
  /\ crashed = FALSE
-----------------------------------------------------------------------------
(* The new connection_impl lies where no other one does.                   *)
Allocated == {c.at : c \in connections}

Connect_Replace_Bug(k) ==
  /\ ~crashed /\ made < MaxConnections
  /\ \E at \in Addresses \ Allocated :
       /\ connections' = connections \cup {[id |-> made + 1, key |-> k, at |-> at]}
       /\ callbacks' = [callbacks EXCEPT ![k] = {[cimpl |-> at, cb |-> made + 1]}]
  /\ made' = made + 1
  /\ UNCHANGED <<calling, disconnected, crashed>>

(* std::map::insert does nothing when the key has a callback: the caller   *)
(* is given a connection all the same.                                     *)
Connect(k) ==
  /\ ~crashed /\ made < MaxConnections
  /\ \E at \in Addresses \ Allocated :
       /\ connections' = connections \cup {[id |-> made + 1, key |-> k, at |-> at]}
       /\ callbacks' = IF callbacks[k] # {} THEN callbacks
                       ELSE [callbacks EXCEPT ![k] = {[cimpl |-> at, cb |-> made + 1]}]
  /\ made' = made + 1
  /\ UNCHANGED <<calling, disconnected, crashed>>

Mine_ByKey_Bug(c) == callbacks[c.key]

(* What disconnect takes away: the entry of its key, if it is its own.     *)
Mine(c) == {e \in callbacks[c.key] : e.cimpl = c.at}

Disconnect_Once_Bug(c) ==
  /\ ~crashed /\ c \in connections
  /\ callbacks' = [callbacks EXCEPT ![c.key] =
                     IF calling = {} THEN @ \ Mine(c) ELSE @]
  /\ disconnected' = disconnected \cup {c.id}
  /\ UNCHANGED <<made, connections, calling, crashed>>

Disconnect(c) ==
  /\ ~crashed /\ c \in connections
  /\ callbacks' = [callbacks EXCEPT ![c.key] = @ \ Mine(c)]
  /\ disconnected' = disconnected \cup {c.id}
  /\ UNCHANGED <<made, connections, calling, crashed>>

(* The last callback_connection goes, as in the destructor of a            *)
(* simple_production: the callback stays.                                  *)
Drop(c) ==
  /\ ~crashed /\ c \in connections
  /\ connections' = connections \ {c}
  /\ UNCHANGED <<made, callbacks, calling, disconnected, crashed>>
-----------------------------------------------------------------------------
(* The io thread: get_callback gives a reference into the table, or throws *)
(* no_such_callback (and then nothing changes).                            *)
GetCallback(k) ==
  /\ ~crashed /\ calling = {}
  /\ \E e \in callbacks[k] : calling' = {e.cb}
  /\ UNCHANGED <<made, callbacks, connections, disconnected, crashed>>

(* The call begins, or ends, with the callback in its place.               *)
Registered == UNION {{e.cb : e \in callbacks[k]} : k \in Keys}

Return ==
  /\ ~crashed /\ calling # {}
  /\ calling' = {}
  /\ crashed' \in (IF calling \subseteq Registered THEN {FALSE} ELSE BOOLEAN)
  /\ UNCHANGED <<made, callbacks, connections, disconnected>>

Next ==
  \/ \E k \in Keys : Connect(k) \/ GetCallback(k)
  \/ \E c \in connections : Disconnect(c) \/ Drop(c)
  \/ Return

Spec == Init /\ [][Next]_vars
-----------------------------------------------------------------------------
TypeOK ==
  /\ made \in 0..MaxConnections
  /\ callbacks \in [Keys -> SUBSET Entry]
  /\ connections \subseteq Connection
  /\ calling \subseteq 1..MaxConnections
  /\ disconnected \subseteq 1..MaxConnections
  /\ crashed \in BOOLEAN

(* While somebody holds the connection of a callback, the callback is only *)
(* taken away through that connection: addresses are used again, but not   *)
(* while they are taken.  (A callback whose connection was dropped has no  *)
(* such protection: the next connection of the key may lie where its own   *)
(* did.)                                                                   *)
HeldCallbackStays ==
  [][\A k \in Keys : \A e \in callbacks[k] : \A c \in connections :
       (c.id = e.cb /\ e \notin callbacks'[k]) => c.id \in disconnected']_vars

(* Once disconnect has returned the io thread does not find the callback   *)
(* any more, whether another connect of the key came in between or not; it *)
(* may be in it still.                                                     *)
DisconnectedNotFound ==
  \A k \in Keys : \A e \in callbacks[k] : e.cb \notin disconnected
=============================================================================
