# Formal model of the-farm

TLA+ modules, TLC configurations and TLAPS proofs for the-farm (`src/`), a build
and test farm in C++: management nodes and agents that talk to each other over a
message-passing protocol, and compilers that are run as child processes. Paths below
are relative to `src/src/` (and written `src/src/...` in `PROJECT.json`).

* [The system](#the-system) -- the inventory
* [What is modelled](#what-is-modelled) -- module by module
* [What is checked](#what-is-checked) -- runs, bounds, fairness
* [What is proved](#what-is-proved)
* [Where the code and its promises part](#where-the-code-and-its-promises-part)
* [What is not modelled](#what-is-not-modelled)
* [Plan](#plan)

To check a run: `tlc -config MPStop.cfg MCMessagePasser.tla`. To check a proof:
`tlapm MessagePasserProofs.tla`.

## The system

| Component | State | Operations | Who else touches it |
|---|---|---|---|
| `message_passer` (`network/transport/message_passer.*`) | `_last_cookie`, `_outstanding_requests`, `_subscriptions`, `_productions`, handler maps, all under `_mutex` | `start`, `request`, `subscribe`, `unsubscribe`, `add_request_handler`, `add_producer`, `_on_message_received` | application threads; the io thread of the connection; handles and sinks (which call back into the passer) |
| subscription handles, sinks, `simple_production` (same file) | `_closed` and the mutex of a sink; a handle is a reference count | `unsubscribe`, `produce`, `close`, destructors | the application; the passer holds sinks by weak pointer |
| `tcp_connection`, `message_queue` (`network/transport/`) | `_started`, `_stopped`, `_msg_queue`, `_maximum_payload_length`, the socket | `start`, `stop`, `send`, the handlers of reads and writes | application threads (`send`, `stop`), the io thread, the other end |
| `process::parent`, `process::child` (`util/process/`) | `_children`, `_joining`, each child's `_pid`, `_exited`, `_exit_status` | `start_child`, `stop_all`, `join_all`, `detach_all`, `on_signal` | application threads, the io thread, the kernel (SIGCHLD, exits) |
| `CompilerRunner` (`farm/compiler/runner.cpp`) | per job: two growing buffers, which of them is closed, whether the child exited | `run_job`, `_on_read_stream`, `_on_child_stopped`, `_on_process_completed` | application threads, the io thread, `process::parent`, the error parser of the configuration |
| `appendable_buffer` (`util/buffer/`) | storage, size of what is filled | `get_appendable_buffer`, `report_appended`, `move_to` | one owner |
| payload codec, memory streams (`network/protocol/payload_serializer.cpp`, `util/memstream.cpp`) | position in a buffer | serialize, deserialize, size | one owner |
| dispatcher (`network/protocol/dispatcher.*`, `util/functional/member-function-registry.hpp`) | `_invokers`, a table of methods without a mutex | `register_function`, `call` | whoever serves requests with it; no program of the repository does yet |
| spawner, `posix::pipe`, `child_options` (`util/process/`) | the descriptors of the program and of its processes, the behaviour of each standard stream | `spawn`, the setters, `~child` | every other child of the program, which inherits what is open |
| `callback_map` (`util/functional/callback_map.hpp`) | callbacks by key, under a mutex | `connect`, `disconnect`, `get_callback` | handlers of the passer, in any thread |
| requirements, agent controller (`farm/requirements`, `farm/agent`, `farm/version.cpp`) | the agents by id (under a mutex), a list of matchers | `register_agent`, `unregister_agent`, `find_compatible_agents`, `register_matcher`, `matches`, `supports` | application threads |
| console (`util/console`) | a stack of modes | `run`, `push`, `pop` | one thread |

What makes each of them correct:

* *message_passer*: a response runs the callback of the call it answers and of no
  other, once; a call that gets through is answered; a subscription has a handle, a
  production an open sink or a thread that is closing it; an abort tells of a sink that
  closed; when both ends are at rest no production feeds a subscription that is gone.
* *tcp_connection*: the reader keeps its place in the stream whatever it skips; at
  most one write is under way and what is queued gets written; a connection that
  stopped or lost its other end lets go of everything.
* *process parent*: an exit is reported once, to the child that ended, whatever it
  races with; nobody signals a process that is not theirs; joiners are woken.
* *spawner*: the program and a child have the ends of the child's own pipes that they
  should, from the time it is listed; a child that is gone leaves none behind.
* *CompilerRunner*: the callback runs once, with all the output and the verdict of its
  own compiler, whichever of the three ends is seen last.
* *appendable_buffer*: a read never reaches outside the storage or over earlier data.
* *callback_map*: disconnecting takes away one's own callback, always and only that; a
  handler whose owner did nothing to it outlives the call it is in.
* *sinks*: closing one returns, whatever the io thread is doing meanwhile; a thread
  sends no second notification after the abort.
* *payload codec*: what both ends agree on comes back, and nothing that was cut short
  is taken for whole. *Dispatcher*: a function runs only with the very arguments that
  were sent; a call is answered once, with the error of the step that failed.
* *requirements, agent controller*: only registered agents that have what is asked for
  are offered, each once.
* *console*: a command runs in the mode that is on top; a mode that left is not used
  again; the loop ends with its input.

Interactions: a passer calls `connection::send` and is called by the connection's
`on_message` signal; a runner calls `parent::start_child` and is called back by the
io thread with the parent's mutex held; a child's end is seen by the kernel, then by
`on_signal`, then by the runner; a job's output is seen by the stream handlers in any
order with that.

What is hard in it, and where the properties are aimed:

* steps of two threads in an order nobody tests: a reply that overtakes the
  registration of its callback; two subscriptions of one opcode; a production closed
  while it is unsubscribed; a process that ends before it is listed;
* numbers that wrap or are off by one: conversation ids, pieces of a skipped payload,
  the window of a growing buffer;
* things that must eventually happen: every call is answered, every exit is reported,
  every joiner is woken, every job's callback is called, what is queued is written;
* an end that closes while calls, writes and reads are under way;
* an owner that lets go of what another thread is using: a handler that runs while it
  is disconnected, a `simple_production` destroyed with its handler still in the table,
  a sink closed while it is produced to;
* a step of several that fails: a spawn whose pipes are made, a message that broke off
  in its third argument, a reply that does not fit.

`PROJECT.json` lists each hazard at its line with the properties that cover it.

## What is modelled

### MessagePasser (with CallContract, MCMessagePasser, MessagePasserProofs)

Two passers, `Peers`, joined by one connection. A step is a section of code no other
thread can see half done: a section under `_mutex`, or the call of
`connection::send` between two of them. So `request` is three steps: `Request`
(bake an id, locked), `SendCall` (send, unlocked), `Register` (enter the callback,
locked), and the reply may be delivered between any two. Closing a sink is two, under two
mutexes: `Close` (`_closed`, under that of the sink) or `DropSink` (the last copy goes, the
weak pointer of the production expires), then `FinishClose` (`close_production`, under
that of the passer), and the io thread may meet the dead sink in between.

| Model | Code |
|---|---|
| `baked`, `Cookie` | `_last_cookie`, `_bake_cookie`; ids are counted modulo `CookieMod` (2^32 in the code) |
| `outstanding` | `_outstanding_requests`, keyed by the id; `Insert` is `std::map::insert`, which keeps the entry that is there |
| `subscriptions`, `handles` | `_subscriptions`, the handles the application holds |
| `productions`, `sinks` | `_productions` (weak pointers), the sinks alive |
| `chan`, `conn`, `listening` | messages on their way, the connection, the slot of `on_message` |
| `replying` | the reply the io thread still has to send; with a `subscribe_response` it still has `_mutex` (`Locked`) |
| `hand` | what an application thread is in the middle of |
| `Receive` | `_on_message_received`, one action per case and outcome |
| `AcceptClosed` | the handler of an opcode of `QuitOps` closes its own sink and succeeds: its production is entered with a closed sink, which only an unsubscribe removes |
| `Wire`, `Reaches` | `connection::send` |
| `Stop`, `HangUp` | either end closes; messages in flight and queued may be lost |

`calls` and every `serial` are history: which conversation an id was baked for, and
how far it has come. No guard of the code depends on them.

Abstractions. Payloads are left out. What an application callback does under
`_mutex` is a later call of an application thread, except for a handle dropped inside
its own subscribe callback (`DiscardHandle`) and a sink dropped inside its handler
(`DiscardSubscribe`) or closed there (`AcceptClosed`), which are single steps. A handler
that refuses does not keep the sink. Each passer is started once and outlives its
threads. Handlers are there from the beginning to the end; that they come and go, and what
waits for the mutexes of sinks, are the subject of `Serving`.

The connection is one the passer can work with: what is sent while both ends run arrives,
in order, once. The repository has no such connection but the mock of its tests:
`tcp_connection` never writes a byte (the finding `tcp_drain`) and never delivers a frame
with a payload or without one. What is checked here is what the passers would do over a
connection that works; over that one no call is answered.

`CallContract` is what the request/response layer promises of a call: issued, served
and settled at most once and in that order. `MessagePasser` implements it with the fates of
its calls (`Contract`). To be lost with a connection, or dropped because the reply came
before the callback was entered, settles a call too, but is no answer: that calls are
answered is a property of its own (`CallsAnswered`).

### TcpConnection (with TcpConnectionProofs)

One connection and its queue; the other end sends any well-formed frames and closes
at any point. The stream that arrives is a sequence of cells, a header being one and
every payload byte one. A read that is under way is in `reading`, a write in
`writing` (its size); the handlers (`HandleHeader`, `HandlePayload`,
`HandleIgnore`, `HandleWrite`, `HandleReadError`) run one at a time. `stop` is two
steps, as in the code: `_stopped` under the mutex, then the close of the socket and
`on_closed`. `_maximum_payload_length` is not initialised, so it starts as any of
`Limits`. `message::get_data` returns a null pointer, so a payload read fails
(`HandlePayload`); the branch for one that succeeds is kept for the code as it was
meant. An `async_write` of no bytes completes at once.

### AppendableBuffer

The buffer as a value of two sizes, each operation a function of it. Its lemmas are in
`CompilerRunnerProofs`.

### ProcessParent (with MCProcessParent, ProcessParentProofs)

One parent, its children, the kernel's view of their processes (`proc`), and SIGCHLD
(`signal`: raised once for several exits). `holder` is the parent's mutex: held by
`start_child` from the spawn to the listing (`Start`, `Enlist`), by `on_signal` from
its beginning over every round of `waitpid` (`Reap`) to its end (`EndSignal`), and
let go by `join_all` while it sleeps. The loop of `on_signal` goes on with an
iterator it erased: the model lets the program die there (`crashed`) or go on. A
failed spawn (`StartFails`) destroys a child that never ran, which signals process
-1 and waits for ever. Process ids are not reused. The parent is not destroyed.

### Spawner (with MCSpawner, SpawnerProofs)

Extends `ProcessParent` with the descriptors. `Options[c]` is what the setters of
`child_options` make of the calls in `Calls[c]`: the default is assigned, a stream that
has a behaviour keeps it. A descriptor is told by the end of the pipe it leads to:
`opened` are those of the program, `inherited[c]` those of the process of `c`, `kept`
the children the application holds. `Spawn` makes the pipes and copies everything open
into the process, since no pipe is close-on-exec: a process has the program's ends of
its elder brothers' pipes, and both ends of its own. So a filter's input never ends
while the filter itself runs, and a closed output is seen only when every holder is
gone. `Started` closes what `spawn` gave away; a child is destroyed, and its ends
closed, when neither `_children` nor the application has it (`Release`,
`ReapAndDestroy`, `DetachAndDestroy`). `SpawnFails` leaves open what had been made, with
a child that is never destroyed. The setters of the environment are left out:
`posix_spawn` is given none.

### CompilerRunner (with MCCompilerRunner, CompilerRunnerProofs)

Extends `ProcessParent`: a job is its `running_child_t` and the child that runs its
compiler. Adds what is in the two pipes, the reads that are queued with their
buffers, the mutex of the job (`job[j].locker`), the errors an error parser has
kept, and the result given to the callback. `Settle` is the tail of each handler:
whoever sees the last of the three ends completes the job. Callbacks do not start
further jobs; the destructor of the runner is not modelled. Whether the code
compiles is told by the first unit on the error stream. `_on_read_stream` takes any error
code for the end of the stream; here a read of a pipe that has data does not fail, so the
end is only seen when everything was read (`OnEnd`).

### CallbackMap (proofs in ServingProofs)

The table of handlers of a passer. Callbacks and connections are numbered by the
calls of `connect`; `connections` are the `connection_impl`s somebody holds, each at
an address no other held one has, `callbacks` the entries with the raw pointer
(`cimpl`) they remember. `Drop` is the end of the last `callback_connection`: the entry
stays and its address may be used again. `GetCallback` is the lookup under the table's
mutex, `Return` the end of the call, which happens without it: a callback that was
taken away in between was destroyed while it ran, and the model lets the program die
(`crashed`) or go on. The table outlives its connections. Its run is that of `Serving`.

### Serving (with MCServing, ServingProofs)

Extends `CallbackMap` to one end that serves: `runs[i]` says what the callback `i` is
bound to (a handler, a `simple_production`, or one that is gone), `slot[i]` is the
`_sink` of a `simple_production`, `sink[s]` the state of a sink, `kept` those the
application copied.

| Model | Code |
|---|---|
| `serving` | the io thread runs a handler or a slot of a sink with the passer's `_mutex` held, from `Request`, `SubscribeRequest` or `UnsubscribeRequest` to the return of what it called |
| `doing` | what a thread is in the middle of: `close` (it has the mutex of the sink and waits for the passer's) or `send` (`produce` looked at `_closed`, let go of the mutex, and is about to send) |
| `Close`, `FinishClose` | `subscription_sink::close`: the sink's mutex, then `close_production` |
| `DestroyProduction` | `~simple_production`: the sink goes and closes, the connection is dropped, the callback stays in the table |
| `Raced` | `_sink` is replaced by `_on_subscribe` while `produce` uses it, without a mutex |
| `strays` | history: who sent a notification after the close |

Handlers and slots of the application are assumed to return, and not to call a sink that
another thread is closing: such a call waits for the mutex of the sink while that thread
waits for the passer's, and nothing in the repository says it is forbidden.

### PayloadCodec

A payload is written to a buffer (`Serialize`), given to the other end whole or cut
short (`Receive`), and read back item by item (`DeserializeCount`,
`DeserializeItem`). Buffers are sequences of bytes that count to `Base`, so that
every width, length field and misread byte is where the code has it. `Fields` is
the list of the writes of an item, each of which fits or throws; `ReadItem` tells
what the reader makes of the bytes at hand: a value, `out_of_range`, `invalid_data`
(a `node_item` is written but never read), or a crash (a vector with elements is
copied into one that has none). Partly read items are left out of `got`. Its run is
that of `Dispatcher`.

### Dispatcher (with MCDispatcher, DispatcherProofs)

Extends `PayloadCodec`: the payload is a request's, `Functions` is what
`register_function` makes of the functions offered (a later one of an opcode takes the
place of an earlier), `Perform` is the rest of `base_dispatcher::call` once the
arguments are there: the lookup, `arg_parser::pop` of every parameter before anything
runs, the call, and the reply. `Refuse` is the answer to a payload that could not be
read, `SendPayload` the templates of `message_passer` that fill a message with a payload.

`message::get_data` returns a null pointer, so a message is never filled and a payload
never read: the first write of two bytes is out of the room `size` asked for, or goes to
the null pointer. `Data` has this case and the one of a proper array, which the tests of
the codec use, so that the dispatcher's own part can be seen. A message of no bytes is a
call without arguments. Two things are read from their use: `_invokers` has no mutex, so
everything is registered before the first request comes; and the template
`dispatcher.hpp:60` calls `_registry.call` with arguments in an order that no overload
takes, which nobody noticed because it is instantiated nowhere: the order of
`base_dispatcher::call` is taken.

### Requirements and AgentController (with MCAgentController, AgentControllerProofs)

`Requirements` are functions: versions are four numbers, compared the way
`Version::operator<` does (each number less, not in order of importance); the
constructors and setters of a `CompilerRequirement` (no setter makes a null
requirement another one); `Supports`; the ten matchers on strings, which are
sequences of numbers here; and `Unfulfilled`, the registry's judgement of a node.

`AgentController` has the registered agents (`known`, a set by id: `Register` of a
known id changes nothing), the requirement the next search is for, built by
constructors (`Ask`) and setters (`Amend`), the answer of the last search, and the
operators of the registry. Each operation is one section under the mutex. `said` is
history. Last-seen times, descriptions and user data are left out.

## What is checked

All passing runs use `CHECK_DEADLOCK FALSE`: the bounded budgets run out and a
connection or program may rest for ever.

| Run | Shows | Bounds |
|---|---|---|
| `mp_subscribe` | `TypeOK`, `DeadProductionGoes`, `SubscriptionHasHandle`, `NoOrphanProduction`, `AbortedSinkClosed`, `NoCrossTalk`, `NoSecondAnswer` | 1 thread at each end, any number of calls under way, 2 opcodes, one of them served by a `simple_production`, 4 conversations with 3 ids: the fourth has the id of the first; 1 message in flight before a notification starts |
| `mp_stop` | `CallsAdvance` (refinement of `CallContract`), `CallsAnswered` | both ends call, 1 thread and 1 call each; handlers may close their sink; either end may stop |
| `tcp_stream` | `TypeOK`, `FramingKept`, `OneWriter`, `StoppedReleases`, `EofCloses` | 3 frames of 0, 1 or 3 bytes, ignore buffer of 2, limits 0 and 1, 2 sends, 1 stop |
| `proc_report` (`Spawner`) | `ListedOwnsPid`, `ReportedOnce`, `NoLostExit`, `PipesFollowChild`, `DescriptorsKept`, `ExitsReported`, `JoinReturns` | 2 children with pipes of every kind, 3 threads |
| `runner_jobs` | `ResultComplete`, `ReadsFit`, `CalledOnce`, `JobsComplete` | 2 jobs, 1 thread, 2 units on the error stream, reads of 2 |
| `handlers` (`Serving`) | `DisconnectedNotFound`, `StraysOnce`, `HeldCallbackStays`, `LiveHandlersRun`, `CloseReturns` | a requested and a subscribed opcode, 2 calls of `connect`, 2 addresses, 2 sinks, 2 threads |
| `payload_codec` (`Dispatcher`) | `RoundTrip`, `TruncationFound`, `SizeFallsShort`, `CallAsSent`, `PayloadsNeverLeave` | payloads of up to 3 of 15 items, 6 sizes of the buffer, up to 3 bytes lost, 5 opcodes, one of them registered twice and one never |
| `agents` | `OffersSupport`, `OfferedOnce`, `OffersRegistered`, `OppositesDisagree` | 2 agents with 2 lists of compilers, 4 versions, 10 operators, 2 matchers, 6 texts |
| `mp_reply_race`, `tcp_drain`, `proc_spawn_fails`, `runner_shared` | the four findings below | one call, message, child; two jobs |

Why the bounds are enough. *Conversations*: the tables are keyed by opcode and by id
alone, so one opcode and three conversations bring about every way in which a table
entry of an earlier conversation can meet a message of a later one (subscribe,
unsubscribe, subscribe again), and let a close of the first subscription's sink meet the
production of the second. The third has the id that wraps to 0, and the fourth the id of
the first: it meets whatever the first left, an entry whose reply was dropped, which
`insert` keeps, or a reply still on its way. One thread of the calling end is enough for
two subscriptions of one opcode, since `subscribe` returns before it is answered; what
threads of one end may do to each other between the sections of one call is proved for
any number of them. One thread of the other end closes a sink meanwhile.
*Frames*: a payload of 3 with an ignore buffer of 2 has a full and a partial piece, 1 is a partial piece or within the limit, 0 has no
payload; a limit that changes in the middle falls between any two reads. *Children*:
two exits that share a signal, while one thread starts a child, one joins and one lets
go of a child: two children and three threads; the safety of any number of both is
proved. One child has its streams set one by one, with a call that comes too late, the
other by the default. *Jobs*: two jobs let on_signal wait for the mutex of one while the other
completes; two units and reads of two give full, short and empty reads. *Handlers*:
a connection that was dropped and its successor at the same address take two calls of
`connect` and two addresses, a stale sink beside a fresh one two sinks, a thread that
closes one while another produces to it two threads; again the safety of any number is
proved. *Payloads*: an item is misread only
because of what stands before it, so three in every order are enough; with bytes
that count to 16 a length field wraps at 256, and one string is that long.
*Functions*: none, one and two parameters, with and without a result, one that a later
function replaces, and an opcode without any: each way through the registry.
*Agents*: an agent is offered or not for itself, so two show what one registration
can do to another's; two lists let an agent come back with other compilers; of the ranges
the versions make, one contains two of the compilers in the code's order and the third
only as versions are usually compared, and one ends in a version the code's order compares
with none of them; two matchers are a pair of opposites.

Fairness. `MessagePasser`: both ends are started, the io thread handles what was
delivered (asio runs a ready handler), and a thread that is inside a call continues.
The application is never obliged to call anything. `CallsAnswered` asks for no more than
what this can give: of a call made while both ends listen, whose entry was there in time,
that its callback runs or an end stops. `TcpConnection`: the handlers of
completed operations run, and a stop that has begun finishes. `ProcessParent` and
`CompilerRunner`: the io thread runs, a thread inside a call goes on when it has the
mutex, and a process that was not stopped ends (an assumption about the programs
that are run, without which nothing in the code ends either). In these weak fairness is
enough: a mutex is not modelled as something that can be held against a waiter for ever,
except where the code does (`proc_spawn_fails`). `Serving` has the two mutexes of a
sink's close: what the io thread called returns, a send does (both weak), and a thread
that waits for the passer's mutex gets it when it is freed again and again (strong
fairness of `FinishClose`: the io thread may serve one message after the other).

Every passing property has a mutant in `PROJECT.json`: a definition ending in `_Bug`
that stands in for the one that follows it and makes the run fail.

## What is proved

`MessagePasserProofs` proves, for any opcodes, threads, homes, bounds and any size of
the conversation id:

* `TypeCorrect`: `TypeOK` is invariant (it is inductive as it stands).
* `DeadProductionsGo`: a production points to an open sink, or a thread that closed or
  dropped it is on its way to erase it. With `TypeOK` and `OneInHand` (a thread is in the
  middle of one thing) it is inductive: what takes a production's place finds the old one
  erased, and a close in between erases whatever the opcode has, so the thread that comes
  late has nothing to answer for. It leaves out opcodes whose handlers close their own
  sink: of these it is false (`AcceptClosed`).
* `SubscriptionsKeepHandle`: a subscription is always held by a handle.
* `ResponsesFindTheirCall`: a response runs the callback of the very call it answers, of
  the kind that was issued, however often the ids have wrapped, unless the entry or the
  response is older than a round of ids.
  The property says nothing of messages deeper in the channels or in hand,
  so the inductive invariant is `Provenance`: every message anywhere in the system,
  and every entry of a table, carries the id and the kind of a conversation its
  caller baked. The theorem follows because two conversations of one round differ in their
  ids (`CookieWindow`).
* `AnsweredOnce`: a message is never answered that was answered before, even when ids
  wrap. `SettledOnce` adds that no two entries are of one conversation
  (`EntriesDiffer`) and that a thread's hand is about a conversation nobody has settled
  (`HandsOpen`).
* `CallsKeepContract`: when the ids have not wrapped, the passers implement
  `CallContract` (`CallsAdvance`). The calls alone do not show it: that a reply settles
  a call once needs that there is one reply. The invariant `Underway` says that each
  call has at most one token, its request while it is issued and its reply while it is
  served, in a channel, in `replying` or in a hand (`Tokens`), and that the history of
  ids not yet baked is blank (`Unbegun`). One lemma per action shows that what serves,
  answers, drops or loses a call takes its token and steps the contract (`Onward`); a
  connection that goes down takes every token it carried. The proof uses `Provenance`
  (a reply finds the entry of its own call) and `SettledOnce`.
* `AbortsSpeakTrue`: an abort on its way names a sink that is closed or gone, and no
  other abort names it, also when ids wrap. What is named is a conversation, so the
  invariant `Aborting` follows one: first there is its `subscribe_request`, a claim to a
  sink, in one place only and never baked twice (`Claims`); a sink is only there when its
  claim came and went (`SinksSpent`); then a thread that closes it, one only and the sink
  closed or gone by then (`ClosesSpent`); and at last an abort (`AbortsSpent`).
* `OrphansEnd`: when nothing is in flight and no id was handed out twice (`Unwrapped`), a
  production whose subscriber was answered has its subscription still. A production was made by a
  conversation that was served (`Produced`), the reply to which is a success
  (`RepliesAccept`), so its subscriber entered the subscription when it was answered. From
  then on, until an end stops, the subscription is there or the `unsubscribe_request` that
  undoes the production is on its way (`Followed`): in the hand of a thread, or in the
  channel. The conjunction, with `OneInHand` and
  `Connected`, is `Orphanless`; with `Underway` it holds as long as `Unwrapped` does, and
  what was handed out twice stays so (`UnwrappedBefore`). Afterwards the code does leave
  such productions: a reply older than a round is taken for that of the subscription.

`ProcessParentProofs`, for any number of children and threads: `ListedOwnsPid`,
`ReportedOnce` and `NoLostExit`. The inductive invariant `IInv` adds to the types
`MutexKept` (a thread that spawned a child, or failed to, and a handler that is
reaping are the holder of the mutex; nobody else is) and `Bookkeeping` (where each
child stands between its process, the list, `_exited` and its callback). The
second needs the first: between the spawn and the listing a child may have exited,
and only the mutex keeps `on_signal` from reaping it unseen.

`SpawnerProofs`, for any children, threads and options: `SpawnerUsesParent` (what is
proved of a parent holds beneath a spawner), `PipesFollowChildren` and
`DescriptorsFollowChildren`. The invariant `SpawnerInvariant` says where the ends of a
child's pipes are at each stage of it; it needs the parent's mutex, which keeps a second
child from being spawned between the spawn of the first and the closing of what was
given away.

`TcpConnectionProofs`, for any sizes, limits, frames and budgets: `ConnectionTyped`,
`FramesKept` and `OneWriteUnderWay`. `Framed(left, stream, owed)` says that the reader
is `left` cells away from a header and that from every header in the stream the next one
is as far as its length field says; every handler moves `left` with what it takes.
`OneWriter` holds for the reason of the finding `tcp_drain`: every write is of no bytes
(`NothingWritten`), so nothing is ever consumed.

`CompilerRunnerProofs`, for any sizes of a buffer: `GetGivesWindow` and `ReportCounts`;
and, for any jobs, configurations, outputs and sizes of a read:

* `RunnerUsesParent`: every behaviour of a runner is one of `ProcessParent`, so what
  is proved of a parent holds beneath a runner.
* `ReadsStayInside`, `CalledAtMostOnce`, `ResultsComplete`. `RunnerInv` says of each
  job what holds before it is started (`Fresh`), what follows from its child being
  gone (`Gone`), what each buffer holds compared to its pipe (`StreamKept`) and that
  the job was answered exactly when all three ends were seen (`Completed`). It rests
  on `IInv` (an exit is reported of a process that is reaped, and once), which is
  available by `RunnerUsesParent`.

`ServingProofs`, of a `CallbackMap` on its own, for any keys, addresses and calls of
`connect`: `DisconnectWorks` and `HeldCallbacksStay`. The inductive invariant adds that held
connections differ in address (`Distinct`), that an entry points to its own
connection while that is held (`Linked`), and that numbers are given out in order.

The same module, for any number of handlers, sinks and threads: every behaviour of
`Serving` is one of `CallbackMap`, so `HandlersNotFound` and `HeldHandlersStay` follow;
`StraysSentOnce` (a thread that sent a stray one found the sink open before, and finds it
closed from then on) and `LiveHandlersSurvive` (a handler that is being called and
neither disconnected nor let go of is still in the table, with what it is bound to).

`AgentControllerProofs`, for any agents, compilers and versions: `OfferedSupport`,
`OfferedAtMostOnce` and `OfferedRegistered`. `LessIsOlder` shows that the code's order
is stricter than the usual one, so a range is never exceeded; the invariant adds that
an answer was taken from what is known now, for the requirement as it is now.
`OppositesNeverAgree` is about texts of any length: that of two different ones exactly
one is less needs the first place where they differ, which there is because the natural
numbers are well-founded (`WFMin`).

`DispatcherProofs`, for any payloads, values, buffers, losses and functions:

* `SizeShort` and `NothingLeaves`. The bytes of an item of any type, and so of a payload,
  are `ItemSize` and `Size` but for the counts `size` leaves out (`ItemLong`,
  `WritesLong`); a write that does not fit ends `serialize`, which gets to the end exactly
  when all of it fits (`SerializeEnds`). The buffer of a message has no room for the
  count, so no payload is written to it, be it a request's or a result
  (`ResultsFilled`). The invariant `Kept` says besides what kind of bytes are where.
* `PayloadsComeBack`, `BrokenOffFound` and `CalledAsSent`, for payloads whose number of
  items fits the two bytes of the count. `Reached(q, n, g, r, c)` says what a reader that
  read `n` items has: those items, and the bytes of the others but for the `c` last ones.
  An item that came whole is read and the rest left (`ItemWhole`); one that broke off
  anywhere is refused with `out_of_range` (`ItemBroken`): this is where it matters that
  every field says how long it is before it comes. So a step keeps `Reached` or finds out
  (`ReadOn`), and at the last item nothing is left and nothing was lost (`ReachedEnd`).
  The invariant `Coded` adds that a function which ran was answered, after which
  nothing it was called with changes.
* `LastRegistered`: an opcode has a function exactly when one was offered for it, and that
  is the last one.

The functions there are recursive (`Total`, `Functions`, `ReadStrings`, and `FlattenSeq`
of the community modules). That such a definition has the function it describes is
proved (`JoinExists`, `SumExists`, `Recursion`), then what the function is at any `n`;
each by `UpTo`, induction up to a bound for a set in place of a predicate, from the
well-foundedness of the natural numbers.

Assumptions: the named ASSUMEs of the modules, and what the theorems assume themselves.

* Two peers, typed constants, budgets that are numbers. `TextsAssumption`: texts are
  sequences of numbers. `ItemsAssumption`, `OfferedAssumption`: the value of an item is
  one its C++ type can have (an integer has its width, a `bool` is 0 or 1), functions have
  parameters of these types. `BaseAssumption`: a byte can tell the types apart.
* `CallsKeepContract` assumes that ids have not wrapped (`MaxSerial <= CookieMod`), and
  `NoOrphanProduction` says nothing once one was handed out twice; that the code relies on
  this is the hazard at `message_passer.cpp:248`. The other theorems of `MessagePasserProofs` do without.
* `PayloadsComeBack`, `BrokenOffFound` and `CalledAsSent` assume that a payload has less
  than `Base * Base` items (65536): `serialize` casts the number of them to 16 bits
  (`payload_serializer.cpp:216`), so a longer one does not come back.

Only model-checked: liveness (`CallsAnswered`, `ExitsReported`, `JoinReturns`,
`JobsComplete`, `StoppedReleases`, `EofCloses`, `CloseReturns`), which rests on fairness,
out of the prover's reach. Every invariant and every action property a passing run checks
is stated by a theorem.

## Where the code and its promises part

Each has a run that ends in a counterexample.

1. `mp_reply_race`: a request is sent before its callback is registered
   (`message_passer.cpp:209-212`); a reply that comes in between is ignored
   (`:346-348`), the callback never runs and its entry stays.
2. `tcp_drain`: a new queue item offers `size - remains` = 0 bytes
   (`message_queue.cpp:90`), so a connection writes nothing, for ever.
3. `proc_spawn_fails`: `start_child` of a program that cannot be spawned destroys a
   child that was never started, which signals process -1 and waits for an exit
   nobody reports, with the parent's mutex held (`parent.cpp:33-43`).
4. `runner_shared`: the error parser of a configuration keeps what it parsed
   (`regex_error_parser.cpp:91`), so a valid job after a broken one fails.

What else the code does that its users may not expect, but nothing in the repository
forbids. The models do it too, so the properties leave it out or except it; `PROJECT.json`
has each as a hazard with a note.

* A close goes by the opcode and may erase the production of the next subscription, which
  is then aborted in the name of the last one (`message_passer.cpp:391`); a handler that
  closes its own sink blocks its opcode (`:304`); of two subscriptions of one opcode the
  handle that goes first takes the callback away (`:157`).
* A call that is lost, and a reply that came early, leave an entry for ever; a round of ids
  later its callback may be run for another call (`:248`).
* A frame without a payload is delivered to nobody (`tcp_connection.cpp:135`).
* A callback is destroyed while it is called, by a disconnect in another thread
  (`callback_map.hpp:173`), and one bound to a `simple_production` outlives it
  (`message_passer.cpp:530`); `on_signal` goes on with an iterator it erased
  (`parent.cpp:110`); `~child` signals a process id that was reaped (`child.cpp:75`).
* A joiner of a child that was stopped sleeps for ever (`parent.cpp:58`).
* No compiler is of a specific version, because `supports` asks for less on both sides
  (`requirement.cpp:59`); an agent that registers again keeps its older compilers
  (`controller.cpp:25`).

## What is not modelled

* The destruction of a passer, a parent or a runner while operations are under way. The
  code gives an owner no way to wait for them, so what happens is undefined.
* Several parents in one program, which reap each other's children (`parent.cpp:89`), and
  the registration of a function while a request is served
  (`member-function-registry.hpp:174`): the repository has no program that does either.
* Handlers of the application that call a sink another thread is closing, callbacks of a
  job that start further jobs: see `Serving` and `CompilerRunner`.
* The console: one thread and a stack of modes, and no program enters one.
* The error parser: regular expressions. That it is given the rest of the last window
  with the output (`runner.cpp:79`) needs the content of a buffer, of which
  `AppendableBuffer` keeps the sizes. That it accumulates is part of `CompilerRunner`.
* Command lines, the environment, the expansion of variables, files, payload streams, ANSI
  colours, jobs and error information: input, output, formatting, or values without
  behaviour.
* Tree serializers: recursion over C++ types at compile time.
* The worker node: a stub. Test support: used by tests only.

## Plan

In order of importance; all but 12 are done.

1. `MessagePasser` against `CallContract`; its proofs.
2. `TcpConnection`; its proofs.
3. `ProcessParent`, and `AppendableBuffer`; their proofs.
4. `CompilerRunner`, composed of the two; its proofs, on top of theirs.
5. `CallbackMap`: connections by raw pointer, calls after unlock; its proofs.
6. `PayloadCodec`: sizes, round trip and truncation.
7. `Requirements` and `AgentController`; the proofs of what is offered.
8. `Spawner` on top of 3, `Serving` on top of 5 (the destruction of a
   `simple_production`, the mutexes of sinks), `Dispatcher` on top of 6; the proofs of the
   first two. Each run takes the place of that of the module it extends.
9. `NoSecondAnswer`, proved.
10. The step refinement of `CallContract`, `AbortedSinkClosed` and `NoOrphanProduction`,
    proved.
11. The codec, the dispatcher and the opposite matchers, proved for data of any length.
12. The destruction of a passer, when the code has a way to do it; several parents.
