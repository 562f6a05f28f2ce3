--------------------------- MODULE ProcessParent ---------------------------
(***************************************************************************)
(* One util::process::parent with its children                             *)
(* (src/util/process/{parent,child}.cpp), the processes the kernel runs    *)
(* for them, and SIGCHLD.                                                  *)
(*                                                                         *)
(* Application threads start, stop, join and detach children; the io       *)
(* thread runs on_signal.  parent::_mutex is held from the beginning of    *)
(* each of them to the end, except while join_all sleeps.  A child stands  *)
(* for the object and for the process: no process id is used twice.        *)
(***************************************************************************)
EXTENDS Naturals, FiniteSets

CONSTANTS Children,  \* the children that may be started, each once
          Threads    \* the application threads

ASSUME ThreadsAssumption == "io" \notin Threads

VARIABLES
  proc,        \* what the kernel says of the process of a child
  children,    \* _children
  exited,      \* child::_exited
  detached,    \* child::_detach
  called,      \* how often the callback given to start_child ran
  holder,      \* who holds parent::_mutex
  signal,      \* SIGCHLD was raised and its handler has not begun
  watching,    \* the signal handler is queued (async_wait)
  hand,        \* what each thread is in the middle of
  crashed      \* the program died of undefined behaviour

vars == <<proc, children, exited, detached, called, holder, signal, watching, hand, crashed>>

Idle        == [at |-> "idle"]
Spawned(c)  == [at |-> "spawned", child |-> c]
Asleep      == [at |-> "asleep"]
Woken       == [at |-> "woken"]
Waiting(c)  == [at |-> "waiting", child |-> c]
Failed(c)   == [at |-> "failed", child |-> c]
Hands       == {Idle, Asleep, Woken} \cup
               [at : {"spawned", "waiting", "failed"}, child : Children]

Free == holder = {}

(* Every action but the ones of the kernel needs a program that runs.      *)
Alive == ~crashed

Init ==
  /\ proc = [c \in Children |-> "none"]
  /\ children = {} /\ holder = {}
  /\ exited = [c \in Children |-> FALSE] /\ detached = [c \in Children |-> FALSE]
  /\ called = [c \in Children |-> 0]
  /\ signal = FALSE /\ watching = TRUE
  /\ hand = [t \in Threads |-> Idle]
  /\ crashed = FALSE
-----------------------------------------------------------------------------
(* The kernel: a process ends; SIGCHLD is raised, once for several that    *)
(* end before its handler begins.                                          *)
Exit(c) ==
  /\ proc[c] = "running"
  /\ proc' = [proc EXCEPT ![c] = "zombie"]
  /\ signal' = TRUE
  /\ UNCHANGED <<children, exited, detached, called, holder, watching, hand, crashed>>

(* kill(pid, SIGSTOP) for each of cs: what runs stops for good, nothing in *)
(* the code continues it; its parent gets SIGCHLD for that too.            *)
Halt(cs) ==
  /\ proc' = [c \in Children |-> IF c \in cs /\ proc[c] = "running" THEN "halted" ELSE proc[c]]
  /\ signal' = (signal \/ \E c \in cs : proc[c] = "running")
-----------------------------------------------------------------------------
(* Names ending in _Bug are deviations that stand in for the definition    *)
(* that follows them, to show what each property detects.                  *)
Start_Unlocked_Bug(t, c) ==
  /\ Alive /\ hand[t] = Idle /\ Free /\ proc[c] = "none"
  /\ proc' = [proc EXCEPT ![c] = "running"]
  /\ hand' = [hand EXCEPT ![t] = Spawned(c)]
  /\ UNCHANGED <<children, exited, detached, called, holder, signal, watching, crashed>>

(* start_child: the process is spawned, and may end at once, before the    *)
(* child is entered in _children.                                          *)
Start(t, c) ==
  /\ Alive /\ hand[t] = Idle /\ Free /\ proc[c] = "none"
  /\ proc' = [proc EXCEPT ![c] = "running"]
  /\ holder' = {t}
  /\ hand' = [hand EXCEPT ![t] = Spawned(c)]
  /\ UNCHANGED <<children, exited, detached, called, signal, watching, crashed>>

Enlist(t, c) ==
  /\ Alive /\ hand[t] = Spawned(c)
  /\ children' = children \cup {c}
  /\ holder' = {}
  /\ hand' = [hand EXCEPT ![t] = Idle]
  /\ UNCHANGED <<proc, exited, detached, called, signal, watching, crashed>>

(* The spawn fails: the child is destroyed.  ~child stops _pid and waits   *)
(* for an exit that nobody will report, all with _mutex held.  _pid is -1, *)
(* and so every other process it may signal; or, when a pipe could not be  *)
(* made, it was never initialised and is anybody's or nobody's.            *)
PidStops == {Children, {}} \cup {{d} : d \in Children}

StartFails(t, c) ==
  /\ Alive /\ hand[t] = Idle /\ Free /\ proc[c] = "none"
  /\ \E cs \in PidStops : Halt(cs)
  /\ holder' = {t}
  /\ hand' = [hand EXCEPT ![t] = Failed(c)]
  /\ UNCHANGED <<children, exited, detached, called, watching, crashed>>

StopAll(t) ==
  /\ Alive /\ hand[t] = Idle /\ Free
  /\ Halt(children)
  /\ UNCHANGED <<children, exited, detached, called, holder, watching, hand, crashed>>

(* join_all looks at _children before it sleeps and each time it is woken. *)
JoinAll(t) ==
  /\ Alive /\ hand[t] \in {Idle, Woken} /\ Free
  /\ hand' = [hand EXCEPT ![t] = IF children = {} THEN Idle ELSE Asleep]
  /\ UNCHANGED <<proc, children, exited, detached, called, holder, signal, watching, crashed>>

(* detach_all, which wakes nobody.                                         *)
DetachAll(t) ==
  /\ Alive /\ hand[t] = Idle /\ Free /\ children # {}
  /\ detached' = [c \in Children |-> detached[c] \/ c \in children]
  /\ children' = {}
  /\ UNCHANGED <<proc, exited, called, holder, signal, watching, hand, crashed>>

(* child::detach: the child stays in _children.                            *)
Detach(t, c) ==
  /\ Alive /\ hand[t] = Idle /\ proc[c] # "none" /\ ~detached[c]
  /\ \A u \in Threads : hand[u] # Spawned(c)
  /\ detached' = [detached EXCEPT ![c] = TRUE]
  /\ UNCHANGED <<proc, children, exited, called, holder, signal, watching, hand, crashed>>

(* child::stop, child::wait (also what ~child does to a child that was not *)
(* detached): the pid of a reaped process is nobody's.                     *)
StopChild(t, c) ==
  /\ Alive /\ hand[t] = Idle /\ proc[c] # "none"
  /\ \A u \in Threads : hand[u] # Spawned(c)
  /\ Halt({c})
  /\ UNCHANGED <<children, exited, detached, called, holder, watching, hand, crashed>>

Wait(t, c) ==
  /\ Alive /\ hand[t] = Idle /\ proc[c] # "none" /\ ~exited[c]
  /\ \A u \in Threads : hand[u] # Spawned(c)
  /\ hand' = [hand EXCEPT ![t] = Waiting(c)]
  /\ UNCHANGED <<proc, children, exited, detached, called, holder, signal, watching, crashed>>

WaitReturns(t, c) ==
  /\ Alive /\ hand[t] = Waiting(c) /\ exited[c]
  /\ hand' = [hand EXCEPT ![t] = Idle]
  /\ UNCHANGED <<proc, children, exited, detached, called, holder, signal, watching, crashed>>
-----------------------------------------------------------------------------
(* on_signal *)
OnSignal ==
  /\ Alive /\ watching /\ signal /\ Free
  /\ signal' = FALSE /\ watching' = FALSE
  /\ holder' = {"io"}
  /\ UNCHANGED <<proc, children, exited, detached, called, hand, crashed>>

Zombies == {c \in Children : proc[c] = "zombie"}

WakeJoiners ==
  hand' = [t \in Threads |-> IF hand[t] = Asleep THEN Woken ELSE hand[t]]

Reap_Silent_Bug(c) ==
  /\ Alive /\ holder = {"io"} /\ c \in Zombies
  /\ proc' = [proc EXCEPT ![c] = "reaped"]
  /\ exited' = [exited EXCEPT ![c] = @ \/ c \in children]
  /\ called' = [called EXCEPT ![c] = IF c \in children THEN @ + 1 ELSE @]
  /\ children' = children \ {c}
  /\ \E died \in BOOLEAN : (died => c \in children) /\ crashed' = died
  /\ UNCHANGED <<detached, holder, signal, watching, hand>>

Reap_Unerased_Bug(c) ==
  /\ Alive /\ holder = {"io"} /\ c \in Zombies
  /\ proc' = [proc EXCEPT ![c] = "reaped"]
  /\ exited' = [exited EXCEPT ![c] = @ \/ c \in children]
  /\ called' = [called EXCEPT ![c] = IF c \in children THEN @ + 1 ELSE @]
  /\ WakeJoiners
  /\ UNCHANGED <<children, crashed, detached, holder, signal, watching>>

(* One round of the waitpid loop: the child the process belongs to is told *)
(* (report_stopped), its callback runs and it leaves _children.  The loop  *)
(* over _children then advances an iterator that was erased, which goes    *)
(* well or kills the program.                                              *)
Reap(c) ==
  /\ Alive /\ holder = {"io"} /\ c \in Zombies
  /\ proc' = [proc EXCEPT ![c] = "reaped"]
  /\ exited' = [exited EXCEPT ![c] = @ \/ c \in children]
  /\ called' = [called EXCEPT ![c] = IF c \in children THEN @ + 1 ELSE @]
  /\ children' = children \ {c}
  /\ \E died \in BOOLEAN : (died => c \in children) /\ crashed' = died
  /\ WakeJoiners
  /\ UNCHANGED <<detached, holder, signal, watching>>

EndSignal_Deaf_Bug ==
  /\ Alive /\ holder = {"io"} /\ Zombies = {}
  /\ holder' = {}
  /\ UNCHANGED <<proc, children, exited, detached, called, signal, watching, hand, crashed>>

EndSignal_OneRound_Bug ==
  /\ Alive /\ holder = {"io"}
  /\ watching' = TRUE /\ holder' = {}
  /\ UNCHANGED <<proc, children, exited, detached, called, signal, hand, crashed>>

(* waitpid finds nothing more; the handler is queued again.                *)
EndSignal ==
  /\ Alive /\ holder = {"io"} /\ Zombies = {}
  /\ watching' = TRUE /\ holder' = {}
  /\ UNCHANGED <<proc, children, exited, detached, called, signal, hand, crashed>>
-----------------------------------------------------------------------------
OnThread(t) ==
  \/ StopAll(t) \/ JoinAll(t) \/ DetachAll(t)
  \/ \E c \in Children : \/ Start(t, c) \/ Enlist(t, c) \/ StartFails(t, c)
                         \/ Detach(t, c) \/ StopChild(t, c)
                         \/ Wait(t, c) \/ WaitReturns(t, c)

Next == \/ \E t \in Threads : OnThread(t)
        \/ \E c \in Children : Exit(c) \/ Reap(c)
        \/ OnSignal \/ EndSignal

(* The io thread runs, a thread inside a call goes on, and a process that  *)
(* is not stopped ends.                                                    *)
Fairness ==
  /\ WF_vars(OnSignal) /\ WF_vars(EndSignal)
  /\ \A c \in Children : WF_vars(Exit(c)) /\ WF_vars(Reap(c))
  /\ \A t \in Threads : /\ WF_vars(hand[t] = Woken /\ JoinAll(t))
                        /\ \A c \in Children : WF_vars(Enlist(t, c)) /\ WF_vars(WaitReturns(t, c))

Spec == Init /\ [][Next]_vars
FairSpec == Spec /\ Fairness
-----------------------------------------------------------------------------
TypeOK ==
  /\ proc \in [Children -> {"none", "running", "halted", "zombie", "reaped"}]
  /\ children \subseteq Children
  /\ exited \in [Children -> BOOLEAN] /\ detached \in [Children -> BOOLEAN]
  /\ called \in [Children -> Nat]
  /\ holder \subseteq Threads \cup {"io"}
  /\ signal \in BOOLEAN /\ watching \in BOOLEAN /\ crashed \in BOOLEAN
  /\ hand \in [Threads -> Hands]

(* A child in _children still owns its process id, so that stop_all never  *)
(* signals a process id the kernel has taken back.                         *)
ListedOwnsPid ==
  \A c \in children : proc[c] \in {"running", "halted", "zombie"}

(* A process that is gone was reported, exactly once, unless its child was *)
(* detached; one that is not gone was not reported.                        *)
ReportedOnce ==
  \A c \in Children : /\ proc[c] = "reaped" /\ ~detached[c] => exited[c] /\ called[c] = 1
                      /\ proc[c] # "reaped" => ~exited[c] /\ called[c] = 0

(* No SIGCHLD is lost: whenever the io thread rests with the mutex free,   *)
(* every process that ended has a signal that will lead to it.             *)
NoLostExit ==
  holder # {"io"} /\ Zombies # {} => signal /\ watching

StartFailed == \E t \in Threads, c \in Children : hand[t] = Failed(c)

(* Every exit is reported to its child's callback.                         *)
ExitsReported ==
  \A c \in Children : (proc[c] = "zombie") ~> (called[c] = 1 \/ detached[c] \/ crashed \/ StartFailed)

(* join_all returns once all children have ended by themselves: a joiner   *)
(* is woken by the last of them, also by one detach_all took off the list, *)
(* which itself wakes nobody.  A child that was stopped never ends, and    *)
(* its joiner sleeps for ever.                                             *)
JoinReturns ==
  \A t \in Threads : (hand[t] = Asleep) ~>
    (\/ hand[t] = Idle \/ crashed \/ StartFailed
     \/ \E c \in Children : proc[c] = "halted")

(* start_child returns, with a child or with an error.                     *)
StartReturns ==
  \A t \in Threads, c \in Children : (hand[t] = Failed(c)) ~> (hand[t] = Idle)
=============================================================================
