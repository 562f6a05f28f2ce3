------------------------------ MODULE Spawner ------------------------------
(***************************************************************************)
(* The descriptors behind the children of a parent: spawn                  *)
(* (src/util/process/_detail/spawner_posix_spawn.hpp), posix::pipe and     *)
(* child_options, on top of ProcessParent.                                 *)
(*                                                                         *)
(* posix_spawn gives the new process a copy of every descriptor the        *)
(* program has open: no pipe is made close-on-exec, and the file actions   *)
(* only say what becomes of the standard streams.  A process therefore     *)
(* also holds the ends of the pipes of its elder brothers, and both ends   *)
(* of its own.  Descriptors are told apart by the end of a pipe they lead  *)
(* to, since nothing depends on their number.                              *)
(***************************************************************************)
EXTENDS ProcessParent, SequencesExt

CONSTANTS
  Streams,  \* the standard streams by their native handle
  Calls     \* Calls[c]: the setters called on the child_options of c, in order

ASSUME HandlesAssumption == Streams \subseteq Nat

VARIABLES
  opened,     \* the ends of pipes the program has open
  inherited,  \* inherited[c]: the ends the process of c has open
  kept        \* the children the application has a child_pointer to

fileVars  == <<opened, inherited, kept>>
spawnVars == <<vars, fileVars>>

Behaviours == {"inherit", "pipe_read", "pipe_write", "close"}
PipeEnd    == [child : Children, stream : Streams, side : {"read", "write"}]
-----------------------------------------------------------------------------
(* child_options: the default is assigned to every stream; the behaviour   *)
(* of one stream is inserted, and so ignored when the stream has one.      *)
SetDefault(opts, beh)   == [s \in Streams |-> beh]
SetStream(opts, s, beh) == IF s \in DOMAIN opts THEN opts
                           ELSE [q \in DOMAIN opts \cup {s} |-> IF q = s THEN beh ELSE opts[q]]

Configure(opts, call) ==
  CASE call.set = "default" -> SetDefault(opts, call.beh)
    [] call.set = "stream"  -> SetStream(opts, call.stream, call.beh)

Options == [c \in Children |-> FoldLeft(Configure, [s \in {} |-> "close"], Calls[c])]

ASSUME OptionsAssumption == \A c \in Children : DOMAIN Options[c] \subseteq Streams

(* The end of a pipe that is given to the child, and the one that the      *)
(* program keeps in _streams.                                              *)
Piped(c)       == {s \in DOMAIN Options[c] : Options[c][s] \in {"pipe_read", "pipe_write"}}
Theirs(c, s)   == [child |-> c, stream |-> s,
                   side |-> IF Options[c][s] = "pipe_read" THEN "read" ELSE "write"]
Ours(c, s)     == [child |-> c, stream |-> s,
                   side |-> IF Options[c][s] = "pipe_read" THEN "write" ELSE "read"]
TheirEnds(c)   == {Theirs(c, s) : s \in Piped(c)}
OurEnds(c)     == {Ours(c, s) : s \in Piped(c)}

(* posix::pipe: both ends, open until they are closed; pipes made before   *)
(* one could not be are left so.                                           *)
MadeBefore(c, s) == {e \in TheirEnds(c) \cup OurEnds(c) : e.stream < s}

SpawnInit ==
  /\ Init
  /\ opened = {} /\ kept = {}
  /\ inherited = [c \in Children |-> {}]
-----------------------------------------------------------------------------
(* The pipes are made and the process starts with a copy of every end.     *)
Spawn(t, c) ==
  /\ Start(t, c)
  /\ opened' = opened \cup TheirEnds(c) \cup OurEnds(c)
  /\ inherited' = [inherited EXCEPT ![c] = opened']
  /\ UNCHANGED kept

CloseLater_WriteEnds_Bug(c) == {e \in TheirEnds(c) : e.side = "write"}

(* What spawn closes when posix_spawn has returned.                        *)
CloseLater(c) == TheirEnds(c)

Started(t, c) ==
  /\ Enlist(t, c)
  /\ opened' = opened \ CloseLater(c)
  /\ kept' = kept \cup {c}
  /\ UNCHANGED inherited

(* posix_spawn reports an error, or a pipe could not be made.              *)
SpawnFails(t, c) ==
  /\ StartFails(t, c)
  /\ \/ opened' = opened \cup OurEnds(c)
     \/ \E s \in Piped(c) : opened' = opened \cup MadeBefore(c, s)
  /\ UNCHANGED <<inherited, kept>>

ProcessExits(c) ==
  /\ Exit(c)
  /\ inherited' = [inherited EXCEPT ![c] = {}]
  /\ UNCHANGED <<opened, kept>>
-----------------------------------------------------------------------------
(* A child is destroyed, and its descriptors with it, when neither         *)
(* _children nor the application has it any more.                          *)
Destroyed(cs) == UNION {OurEnds(c) : c \in cs}

Release_Eager_Bug(t, c) ==
  /\ Alive /\ hand[t] = Idle /\ c \in kept
  /\ \A u \in Threads : hand[u] # Waiting(c)
  /\ kept' = kept \ {c}
  /\ opened' = opened \ Destroyed({c})
  /\ UNCHANGED <<vars, inherited>>

(* The last child_pointer of the application goes.  ~child finds that the  *)
(* process is gone, or that the child was detached.                        *)
Release(t, c) ==
  /\ Alive /\ hand[t] = Idle /\ c \in kept
  /\ \A u \in Threads : hand[u] # Waiting(c)
  /\ kept' = kept \ {c}
  /\ opened' = opened \ Destroyed({c} \ children)
  /\ UNCHANGED <<vars, inherited>>

ReapAndDestroy(c) ==
  /\ Reap(c)
  /\ opened' = opened \ Destroyed((children \cap {c}) \ kept)
  /\ UNCHANGED <<inherited, kept>>

DetachAndDestroy(t) ==
  /\ DetachAll(t)
  /\ opened' = opened \ Destroyed(children \ kept)
  /\ UNCHANGED <<inherited, kept>>

(* What is called on a child needs a child_pointer to it.                  *)
OnChild(t, c) ==
  /\ c \in kept
  /\ Detach(t, c) \/ StopChild(t, c) \/ Wait(t, c)
  /\ UNCHANGED fileVars
-----------------------------------------------------------------------------
Undisturbed(A) == A /\ UNCHANGED fileVars

SpawnNext ==
  \/ \E t \in Threads :
       \/ Undisturbed(StopAll(t)) \/ Undisturbed(JoinAll(t)) \/ DetachAndDestroy(t)
       \/ \E c \in Children : \/ Spawn(t, c) \/ Started(t, c) \/ SpawnFails(t, c)
                              \/ Release(t, c) \/ OnChild(t, c)
                              \/ Undisturbed(WaitReturns(t, c))
  \/ \E c \in Children : ProcessExits(c) \/ ReapAndDestroy(c)
  \/ Undisturbed(OnSignal) \/ Undisturbed(EndSignal)

SpawnFairness ==
  /\ WF_spawnVars(Undisturbed(OnSignal)) /\ WF_spawnVars(Undisturbed(EndSignal))
  /\ \A c \in Children : WF_spawnVars(ProcessExits(c)) /\ WF_spawnVars(ReapAndDestroy(c))
  /\ \A t \in Threads :
       /\ WF_spawnVars(hand[t] = Woken /\ Undisturbed(JoinAll(t)))
       /\ \A c \in Children : /\ WF_spawnVars(Started(t, c))
                              /\ WF_spawnVars(Undisturbed(WaitReturns(t, c)))

SpawnSpec     == SpawnInit /\ [][SpawnNext]_spawnVars
FairSpawnSpec == SpawnSpec /\ SpawnFairness
-----------------------------------------------------------------------------
SpawnTypeOK ==
  /\ TypeOK
  /\ opened \subseteq PipeEnd
  /\ inherited \in [Children -> SUBSET PipeEnd]
  /\ kept \subseteq Children

(* Once the process of a child is gone and start_child has returned,       *)
(* nobody holds the ends of its pipes that were meant for it: who reads    *)
(* its output comes to the end, and who writes to it is told.  A brother   *)
(* that is spawned in the meantime would keep them.                        *)
PipesFollowChild ==
  \A c \in Children : proc[c] \in {"zombie", "reaped"} =>
    \/ \E t \in Threads : hand[t] = Spawned(c)
    \/ \A e \in TheirEnds(c) : e \notin opened /\ \A d \in Children : e \notin inherited[d]

(* The program has exactly the ends open that belong to a child that is    *)
(* not destroyed: none is left over, and none is closed while it can still *)
(* be asked for by get_stream.                                             *)
DescriptorsKept ==
  ~StartFailed =>
    opened = Destroyed(children \cup kept) \cup
             UNION {TheirEnds(c) \cup OurEnds(c) :
                      c \in {d \in Children : \E t \in Threads : hand[t] = Spawned(d)}}
=============================================================================
