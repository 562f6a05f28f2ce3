--------------------------- MODULE SpawnerProofs ---------------------------
(***************************************************************************)
(* Theorems about Spawner, for any children, threads and options.          *)
(***************************************************************************)
EXTENDS Spawner, ProcessParentProofs

(* The ends meant for a child are open in the program only between spawn   *)
(* and the end of start_child, or after that failed and let nobody else    *)
(* in; of the processes only its own has them, while it lasts.             *)
EndsInPlace ==
  \A c \in Children : \A e \in TheirEnds(c) :
    /\ e \in opened =>
         \/ \E t \in Threads : hand[t] = Spawned(c)
         \/ proc[c] = "none" /\ \E t \in Threads, d \in Children : hand[t] = Failed(d)
    /\ \A d \in Children : e \in inherited[d] => d = c /\ proc[c] \in {"running", "halted"}

(* Only a child that was started is kept.                                  *)
KeptStarted ==
  /\ \A c \in kept : proc[c] # "none"
  /\ \A c \in Children, t \in Threads : hand[t] = Spawned(c) => c \notin kept

SInv == SpawnTypeOK /\ EndsInPlace /\ KeptStarted /\ DescriptorsKept
-----------------------------------------------------------------------------
(* Every step of the spawner is one of its parent, or leaves that alone.   *)
LEMMA SpawnerStep == [SpawnNext]_spawnVars => [Next]_vars
BY DEF SpawnNext, spawnVars, Next, OnThread, Undisturbed, DetachAndDestroy, Spawn, Started,
       SpawnFails, Release, OnChild, ProcessExits, ReapAndDestroy

(* The children of a spawner are those of a process::parent (child.cpp:113 *)
(* is the only caller of spawn), so all that is proved of it holds here.   *)
THEOREM SpawnerUsesParent == SpawnSpec => Spec
<1>1. SpawnInit => Init
  BY DEF SpawnInit
<1>. QED BY <1>1, SpawnerStep, PTL DEF SpawnSpec, Spec

THEOREM SpawnerKeepsParent == SpawnSpec => []IInv
BY SpawnerUsesParent, ParentInvariant, PTL
-----------------------------------------------------------------------------
(* The two ends of a pipe differ, and tell whose pipe they are of.         *)
LEMMA EndsDiffer ==
  ASSUME NEW c \in Children, NEW d \in Children
  PROVE  /\ TheirEnds(c) \cap OurEnds(d) = {}
         /\ c # d => /\ TheirEnds(c) \cap TheirEnds(d) = {}
                     /\ OurEnds(c) \cap OurEnds(d) = {}
  <1>1. \A s \in Piped(c), r \in Piped(d) : Theirs(c, s) # Ours(d, r)
    <2>. TAKE s \in Piped(c), r \in Piped(d)
    <2>1. CASE c = d /\ s = r
      BY <2>1 DEF Theirs, Ours
    <2>2. CASE c # d \/ s # r
      BY <2>2 DEF Theirs, Ours
    <2>. QED BY <2>1, <2>2
  <1>2. c # d => \A s \in Piped(c), r \in Piped(d) : Theirs(c, s) # Theirs(d, r) /\ Ours(c, s) # Ours(d, r)
    BY DEF Theirs, Ours
  <1>. QED BY <1>1, <1>2 DEF TheirEnds, OurEnds

LEMMA EndsTyped ==
  ASSUME NEW c \in Children
  PROVE  TheirEnds(c) \subseteq PipeEnd /\ OurEnds(c) \subseteq PipeEnd
BY OptionsAssumption DEF TheirEnds, OurEnds, Theirs, Ours, PipeEnd, Piped

(* While the mutex is free no start_child is under way.                    *)
LEMMA FreeMeansIdle ==
  ASSUME IInv, Free, NEW t \in Threads, NEW c \in Children
  PROVE  hand[t] # Spawned(c) /\ hand[t] # Failed(c)
BY DEF IInv, MutexKept, Free
(* What a thread is in the middle of tells itself.                         *)
LEMMA HandsTell ==
  /\ Idle.at = "idle" /\ Asleep.at = "asleep" /\ Woken.at = "woken"
  /\ \A c \in Children : /\ Spawned(c).at = "spawned" /\ Waiting(c).at = "waiting"
                         /\ Failed(c).at = "failed"
BY DEF Idle, Asleep, Woken, Spawned, Waiting, Failed
-----------------------------------------------------------------------------
LEMMA SpawnInitInv == SpawnInit => SInv
<1>. SUFFICES ASSUME SpawnInit PROVE SInv
  OBVIOUS
<1>. USE DEF SpawnInit, Init
<1>1. SpawnTypeOK
  BY InitInv DEF IInv, SpawnTypeOK
<1>2. EndsInPlace /\ KeptStarted
  BY DEF EndsInPlace, KeptStarted, Idle, Spawned
<1>3. DescriptorsKept
  BY DEF DescriptorsKept, Destroyed, Idle, Spawned
<1>. QED BY <1>1, <1>2, <1>3 DEF SInv

(* The types: what is opened and inherited are ends of pipes.              *)
LEMMA SpawnTypes == IInv /\ IInv' /\ SInv /\ [SpawnNext]_spawnVars => SpawnTypeOK'
<1>. SUFFICES ASSUME IInv, IInv', SpawnTypeOK, [SpawnNext]_spawnVars PROVE SpawnTypeOK'
  BY DEF SInv
<1>1. TypeOK'
  BY DEF IInv
<1>2. opened' \subseteq PipeEnd /\ inherited' \in [Children -> SUBSET PipeEnd] /\ kept' \subseteq Children
  <2>. USE DEF SpawnTypeOK
  <2>1. ASSUME NEW t \in Threads, NEW c \in Children, Spawn(t, c)
        PROVE  opened' \subseteq PipeEnd /\ inherited' \in [Children -> SUBSET PipeEnd] /\ kept' \subseteq Children
    BY <2>1, EndsTyped DEF Spawn
  <2>2. ASSUME NEW t \in Threads, NEW c \in Children, SpawnFails(t, c)
        PROVE  opened' \subseteq PipeEnd /\ inherited' \in [Children -> SUBSET PipeEnd] /\ kept' \subseteq Children
    BY <2>2, EndsTyped DEF SpawnFails, MadeBefore
  <2>3. ASSUME NEW t \in Threads, NEW c \in Children, Started(t, c) \/ Release(t, c) \/ OnChild(t, c) \/ Undisturbed(WaitReturns(t, c))
        PROVE  opened' \subseteq PipeEnd /\ inherited' \in [Children -> SUBSET PipeEnd] /\ kept' \subseteq Children
    BY <2>3 DEF Started, Release, OnChild, Undisturbed, fileVars
  <2>4. ASSUME NEW t \in Threads, Undisturbed(StopAll(t)) \/ Undisturbed(JoinAll(t)) \/ DetachAndDestroy(t)
        PROVE  opened' \subseteq PipeEnd /\ inherited' \in [Children -> SUBSET PipeEnd] /\ kept' \subseteq Children
    BY <2>4 DEF Undisturbed, fileVars, DetachAndDestroy
  <2>5. ASSUME NEW c \in Children, ProcessExits(c) \/ ReapAndDestroy(c)
        PROVE  opened' \subseteq PipeEnd /\ inherited' \in [Children -> SUBSET PipeEnd] /\ kept' \subseteq Children
    BY <2>5 DEF ProcessExits, ReapAndDestroy
  <2>6. CASE Undisturbed(OnSignal) \/ Undisturbed(EndSignal) \/ UNCHANGED spawnVars
    BY <2>6 DEF Undisturbed, spawnVars, fileVars
  <2>. QED BY <2>1, <2>2, <2>3, <2>4, <2>5, <2>6 DEF SpawnNext
<1>. QED BY <1>1, <1>2 DEF SpawnTypeOK
-----------------------------------------------------------------------------
(* Each step keeps the ends in their place.                                *)
LEMMA EndsStay == IInv /\ SInv /\ [SpawnNext]_spawnVars => EndsInPlace'
<1>. SUFFICES ASSUME IInv, SInv, [SpawnNext]_spawnVars PROVE EndsInPlace'
  OBVIOUS
<1>. USE DEF SInv
<1>1. ASSUME NEW t \in Threads, NEW c \in Children, Spawn(t, c)
      PROVE  EndsInPlace'
  <2>. USE <1>1 DEF Spawn
  <2>1. /\ Free /\ proc' = [proc EXCEPT ![c] = "running"] /\ hand' = [hand EXCEPT ![t] = Spawned(c)]
        /\ proc \in [Children -> {"none", "running", "halted", "zombie", "reaped"}]
        /\ hand \in [Threads -> Hands] /\ inherited \in [Children -> SUBSET PipeEnd]
    BY DEF Start, IInv, TypeOK, SpawnTypeOK
  <2>2. \A d \in Children : TheirEnds(d) \cap opened = {}
    BY <2>1, FreeMeansIdle DEF EndsInPlace
  <2>3. \A d \in Children : TheirEnds(d) \cap opened' # {} => d = c
    BY <2>2, EndsDiffer
  <2>. SUFFICES ASSUME NEW d \in Children, NEW e \in TheirEnds(d)
                PROVE  /\ e \in opened' =>
                            \/ \E u \in Threads : hand'[u] = Spawned(d)
                            \/ proc'[d] = "none" /\ \E u \in Threads, k \in Children : hand'[u] = Failed(k)
                       /\ \A k \in Children : e \in inherited'[k] => k = d /\ proc'[d] \in {"running", "halted"}
    BY DEF EndsInPlace
  <2>4. e \in opened' => d = c /\ hand'[t] = Spawned(d)
    BY <2>1, <2>3
  <2>5. ASSUME NEW k \in Children, e \in inherited'[k]
        PROVE  k = d /\ proc'[d] \in {"running", "halted"}
    <3>1. CASE k = c
      BY <2>1, <2>3, <2>5, <3>1
    <3>2. CASE k # c
      BY <2>1, <2>5, <3>2 DEF EndsInPlace
    <3>. QED BY <3>1, <3>2
  <2>. QED BY <2>4, <2>5
<1>2. ASSUME NEW t \in Threads, NEW c \in Children, Started(t, c)
      PROVE  EndsInPlace'
  <2>. USE <1>2 DEF Started
  <2>1. /\ hand[t] = Spawned(c) /\ hand' = [hand EXCEPT ![t] = Idle] /\ proc' = proc
        /\ hand \in [Threads -> Hands]
    BY DEF Enlist, IInv, TypeOK
  <2>2. \A u \in Threads, d \in Children : hand[u] = Spawned(d) /\ d # c => hand'[u] = Spawned(d)
    BY <2>1 DEF Spawned
  <2>3. \A u \in Threads, d \in Children : hand[u] = Failed(d) => hand'[u] = Failed(d)
    BY <2>1 DEF Spawned, Failed
  <2>4. \A e \in TheirEnds(c) : e \notin opened'
    BY DEF CloseLater
  <2>. QED BY <2>1, <2>2, <2>3, <2>4 DEF EndsInPlace
<1>3. ASSUME NEW t \in Threads, NEW c \in Children, SpawnFails(t, c)
      PROVE  EndsInPlace'
  <2>. USE <1>3 DEF SpawnFails
  <2>1. /\ Free /\ proc[c] = "none" /\ hand' = [hand EXCEPT ![t] = Failed(c)]
        /\ \A d \in Children : \/ proc'[d] = proc[d]
                               \/ proc[d] = "running" /\ proc'[d] = "halted"
        /\ hand \in [Threads -> Hands]
    BY DEF StartFails, Halt, IInv, TypeOK
  <2>2. \A d \in Children : TheirEnds(d) \cap opened = {}
    BY <2>1, FreeMeansIdle DEF EndsInPlace
  <2>3. opened' \subseteq opened \cup TheirEnds(c) \cup OurEnds(c)
    BY DEF MadeBefore
  <2>4. \A d \in Children : TheirEnds(d) \cap opened' # {} => d = c
    BY <2>2, <2>3, EndsDiffer
  <2>5. hand'[t] = Failed(c) /\ proc'[c] = "none"
    BY <2>1
  <2>. QED BY <2>1, <2>4, <2>5 DEF EndsInPlace
<1>4. ASSUME NEW c \in Children, ProcessExits(c)
      PROVE  EndsInPlace'
  <2>. USE <1>4 DEF ProcessExits
  <2>1. /\ proc[c] = "running" /\ proc' = [proc EXCEPT ![c] = "zombie"] /\ hand' = hand
        /\ proc \in [Children -> {"none", "running", "halted", "zombie", "reaped"}]
        /\ inherited \in [Children -> SUBSET PipeEnd]
    BY DEF Exit, IInv, TypeOK, SpawnTypeOK
  <2>2. \A d \in Children : inherited'[d] = IF d = c THEN {} ELSE inherited[d]
    BY <2>1
  <2>3. \A d \in Children : d # c => proc'[d] = proc[d]
    BY <2>1
  <2>. QED BY <2>1, <2>2, <2>3 DEF EndsInPlace
<1>5. ASSUME NEW c \in Children, ReapAndDestroy(c)
      PROVE  EndsInPlace'
  <2>. USE <1>5 DEF ReapAndDestroy
  <2>1. /\ proc[c] = "zombie" /\ proc' = [proc EXCEPT ![c] = "reaped"]
        /\ hand' = [u \in Threads |-> IF hand[u] = Asleep THEN Woken ELSE hand[u]]
        /\ proc \in [Children -> {"none", "running", "halted", "zombie", "reaped"}]
    BY DEF Reap, WakeJoiners, Zombies, IInv, TypeOK
  <2>2. \A u \in Threads, d \in Children : hand[u] \in {Spawned(d), Failed(d)} => hand'[u] = hand[u]
    BY <2>1 DEF Spawned, Failed, Asleep
  <2>3. \A d \in Children : d # c => proc'[d] = proc[d]
    BY <2>1
  <2>. QED BY <2>1, <2>2, <2>3 DEF EndsInPlace
<1>6. ASSUME NEW t \in Threads, NEW c \in Children, Release(t, c)
      PROVE  EndsInPlace'
  BY <1>6 DEF Release, EndsInPlace, vars
<1>7. ASSUME NEW t \in Threads, DetachAndDestroy(t)
      PROVE  EndsInPlace'
  BY <1>7 DEF DetachAndDestroy, DetachAll, EndsInPlace
<1>8. ASSUME NEW t \in Threads, NEW c \in Children, OnChild(t, c) \/ Undisturbed(WaitReturns(t, c))
      PROVE  EndsInPlace'
  <2>1. UNCHANGED fileVars
    BY <1>8 DEF OnChild, Undisturbed
  <2>2. /\ hand[t] = Idle \/ hand[t] = Waiting(c)
        /\ hand' = hand \/ hand' = [hand EXCEPT ![t] = Idle] \/ hand' = [hand EXCEPT ![t] = Waiting(c)]
        /\ hand \in [Threads -> Hands]
        /\ \A d \in Children : \/ proc'[d] = proc[d]
                               \/ proc[d] = "running" /\ proc'[d] = "halted"
    BY <1>8 DEF OnChild, Undisturbed, Detach, StopChild, Wait, WaitReturns, Halt, IInv, TypeOK
  <2>3. \A u \in Threads, d \in Children : hand[u] \in {Spawned(d), Failed(d)} => hand'[u] = hand[u]
    BY <2>2 DEF Spawned, Failed, Idle, Waiting
  <2>. QED BY <2>1, <2>2, <2>3 DEF EndsInPlace, fileVars
<1>9. ASSUME NEW t \in Threads, Undisturbed(StopAll(t)) \/ Undisturbed(JoinAll(t))
      PROVE  EndsInPlace'
  <2>1. UNCHANGED fileVars
    BY <1>9 DEF Undisturbed
  <2>2. /\ hand' = hand \/ hand[t] \in {Idle, Woken}
        /\ \A u \in Threads : u # t => hand'[u] = hand[u]
        /\ \A d \in Children : \/ proc'[d] = proc[d]
                               \/ proc[d] = "running" /\ proc'[d] = "halted"
    BY <1>9 DEF Undisturbed, StopAll, JoinAll, Halt, IInv, TypeOK
  <2>3. \A u \in Threads, d \in Children : hand[u] \in {Spawned(d), Failed(d)} => hand'[u] = hand[u]
    BY <2>2 DEF Spawned, Failed, Idle, Woken
  <2>. QED BY <2>1, <2>2, <2>3 DEF EndsInPlace, fileVars
<1>10. CASE Undisturbed(OnSignal) \/ Undisturbed(EndSignal) \/ UNCHANGED spawnVars
  BY <1>10 DEF Undisturbed, OnSignal, EndSignal, spawnVars, vars, fileVars, EndsInPlace
<1>. QED BY <1>1, <1>2, <1>3, <1>4, <1>5, <1>6, <1>7, <1>8, <1>9, <1>10 DEF SpawnNext
-----------------------------------------------------------------------------
LEMMA KeptStays == IInv /\ SInv /\ [SpawnNext]_spawnVars => KeptStarted'
<1>. SUFFICES ASSUME IInv, SInv, [SpawnNext]_spawnVars PROVE KeptStarted'
  OBVIOUS
<1>. USE DEF SInv
<1>1. ASSUME NEW t \in Threads, NEW c \in Children, Spawn(t, c)
      PROVE  KeptStarted'
  <2>1. /\ proc[c] = "none" /\ proc' = [proc EXCEPT ![c] = "running"] /\ kept' = kept
        /\ hand' = [hand EXCEPT ![t] = Spawned(c)] /\ kept \subseteq Children
        /\ proc \in [Children -> {"none", "running", "halted", "zombie", "reaped"}]
        /\ hand \in [Threads -> Hands]
    BY <1>1 DEF Spawn, Start, IInv, TypeOK, SpawnTypeOK
  <2>. QED BY <2>1 DEF KeptStarted, Spawned
<1>2. ASSUME NEW t \in Threads, NEW c \in Children, Started(t, c)
      PROVE  KeptStarted'
  <2>1. /\ hand[t] = Spawned(c) /\ proc' = proc /\ kept' = kept \cup {c}
        /\ hand' = [hand EXCEPT ![t] = Idle] /\ hand \in [Threads -> Hands]
    BY <1>2 DEF Started, Enlist, IInv, TypeOK
  <2>2. proc[c] # "none" /\ \A u \in Threads : u # t => hand[u] # Spawned(c)
    BY <2>1 DEF IInv, Bookkeeping, Owned, MutexKept
  <2>. QED BY <2>1, <2>2 DEF KeptStarted, Spawned, Idle
<1>3. ASSUME NEW t \in Threads, NEW c \in Children, SpawnFails(t, c)
      PROVE  KeptStarted'
  <2>1. /\ hand' = [hand EXCEPT ![t] = Failed(c)] /\ kept' = kept /\ hand \in [Threads -> Hands]
        /\ \A d \in Children : proc[d] # "none" => proc'[d] # "none"
    BY <1>3 DEF SpawnFails, StartFails, Halt, IInv, TypeOK
  <2>. QED BY <2>1 DEF KeptStarted, Spawned, Failed, SpawnTypeOK
<1>4. ASSUME /\ kept' \subseteq kept
             /\ \A d \in Children : proc[d] # "none" => proc'[d] # "none"
             /\ \A u \in Threads, d \in Children : hand'[u] = Spawned(d) => hand[u] = Spawned(d)
      PROVE  KeptStarted'
  BY <1>4 DEF KeptStarted, SpawnTypeOK
<1>5. ASSUME NEW c \in Children, ProcessExits(c) \/ ReapAndDestroy(c)
      PROVE  KeptStarted'
  <2>1. /\ kept' = kept /\ \A d \in Children : proc[d] # "none" => proc'[d] # "none"
        /\ \A u \in Threads : hand'[u] = hand[u] \/ hand'[u] = Woken
    BY <1>5 DEF ProcessExits, ReapAndDestroy, Exit, Reap, WakeJoiners, IInv, TypeOK
  <2>. QED BY <1>4, <2>1 DEF Spawned, Woken
<1>6. ASSUME NEW t \in Threads,
             \/ Undisturbed(StopAll(t)) \/ Undisturbed(JoinAll(t)) \/ DetachAndDestroy(t)
             \/ \E c \in Children : Release(t, c) \/ OnChild(t, c) \/ Undisturbed(WaitReturns(t, c))
      PROVE  KeptStarted'
  <2>1. kept' \subseteq kept /\ \A d \in Children : proc[d] # "none" => proc'[d] # "none"
    BY <1>6 DEF Undisturbed, fileVars, vars, StopAll, JoinAll, DetachAndDestroy, DetachAll, Release, OnChild,
                WaitReturns, Detach, StopChild, Wait, Halt, IInv, TypeOK
  <2>2. \A u \in Threads : \/ hand'[u] = hand[u] \/ hand'[u] \in {Idle, Asleep}
                           \/ \E c \in Children : hand'[u] = Waiting(c)
    BY <1>6 DEF Undisturbed, vars, StopAll, JoinAll, DetachAndDestroy, DetachAll, Release, OnChild,
                WaitReturns, Detach, StopChild, Wait, IInv, TypeOK
  <2>3. ASSUME NEW u \in Threads, NEW d \in Children, hand'[u] = Spawned(d)
        PROVE  hand[u] = Spawned(d)
    BY <2>2, <2>3, HandsTell
  <2>. QED BY <1>4, <2>1, <2>3
<1>7. CASE Undisturbed(OnSignal) \/ Undisturbed(EndSignal) \/ UNCHANGED spawnVars
  BY <1>4, <1>7 DEF Undisturbed, OnSignal, EndSignal, spawnVars, vars, fileVars
<1>. QED BY <1>1, <1>2, <1>3, <1>5, <1>6, <1>7 DEF SpawnNext
-----------------------------------------------------------------------------
(* The children whose start_child is between spawn and the listing.        *)
Starting == {d \in Children : \E t \in Threads : hand[t] = Spawned(d)}

(* The descriptors of the program after each step.                         *)
LEMMA DescriptorsStay == IInv /\ IInv' /\ SInv /\ [SpawnNext]_spawnVars => DescriptorsKept'
<1>. SUFFICES ASSUME IInv, IInv', SInv, [SpawnNext]_spawnVars, ~StartFailed' PROVE DescriptorsKept'
  BY DEF DescriptorsKept
<1>. USE DEF SInv
<1>a. DescriptorsKept <=> (~StartFailed => opened = Destroyed(children \cup kept) \cup UNION {TheirEnds(c) \cup OurEnds(c) : c \in Starting})
  BY DEF DescriptorsKept, Starting
<1>b. DescriptorsKept' <=> (~StartFailed' => opened' = Destroyed(children' \cup kept') \cup UNION {TheirEnds(c) \cup OurEnds(c) : c \in Starting'})
  BY DEF DescriptorsKept, Starting, Destroyed, TheirEnds, OurEnds
<1>c. children \cup kept \subseteq Children
  BY DEF SpawnTypeOK, TypeOK
<1>1. ASSUME NEW t \in Threads, NEW c \in Children, Spawn(t, c)
      PROVE  DescriptorsKept'
  <2>. USE <1>1 DEF Spawn
  <2>1. /\ Free /\ hand' = [hand EXCEPT ![t] = Spawned(c)] /\ hand \in [Threads -> Hands]
        /\ children' = children
    BY DEF Start, IInv, TypeOK
  <2>2. Starting = {} /\ ~StartFailed
    BY <2>1, FreeMeansIdle DEF Starting, StartFailed
  <2>3. Starting' = {c}
    BY <2>1, <2>2 DEF Starting, Spawned
  <2>4. UNION {TheirEnds(d) \cup OurEnds(d) : d \in Starting} = {}
    BY <2>2
  <2>5. UNION {TheirEnds(d) \cup OurEnds(d) : d \in Starting'} = TheirEnds(c) \cup OurEnds(c)
    BY <2>3
  <2>6. opened = Destroyed(children \cup kept)
    BY <1>a, <2>2, <2>4
  <2>7. opened' = Destroyed(children' \cup kept') \cup (TheirEnds(c) \cup OurEnds(c))
    BY <2>1, <2>6
  <2>. QED BY <1>b, <2>5, <2>7
<1>2. ASSUME NEW t \in Threads, NEW c \in Children, Started(t, c)
      PROVE  DescriptorsKept'
  <2>. USE <1>2 DEF Started
  <2>1. /\ hand[t] = Spawned(c) /\ hand' = [hand EXCEPT ![t] = Idle] /\ hand \in [Threads -> Hands]
        /\ children' = children \cup {c} /\ holder = {t}
    BY DEF Enlist, IInv, TypeOK, MutexKept
  <2>2. \A u \in Threads, d \in Children : hand[u] \in {Spawned(d), Failed(d)} => u = t
    BY <2>1 DEF IInv, MutexKept
  <2>3. Starting = {c} /\ Starting' = {}
    BY <2>1, <2>2 DEF Starting, Spawned, Idle
  <2>4. ~StartFailed
    BY <2>1, <2>2, HandsTell DEF StartFailed
  <2>5. TheirEnds(c) \cap Destroyed(children \cup kept \cup {c}) = {}
    BY <1>c, EndsDiffer DEF Destroyed
  <2>6. opened' = opened \ TheirEnds(c)
    BY DEF CloseLater
  <2>7. opened = Destroyed(children \cup kept) \cup TheirEnds(c) \cup OurEnds(c)
    BY <1>a, <2>3, <2>4
  <2>8. Destroyed(children' \cup kept') = Destroyed(children \cup kept) \cup OurEnds(c)
    BY <2>1 DEF Destroyed
  <2>9. opened' = Destroyed(children' \cup kept')
    BY <2>5, <2>6, <2>7, <2>8, EndsDiffer DEF Destroyed
  <2>. QED BY <1>b, <2>3, <2>9
<1>3. ASSUME NEW t \in Threads, NEW c \in Children, SpawnFails(t, c)
      PROVE  FALSE
  BY <1>3 DEF SpawnFails, StartFails, StartFailed, IInv, TypeOK
<1>4. ASSUME NEW gone \in SUBSET Children, Starting' = Starting, StartFailed' = StartFailed,
             gone \cap Starting = {},
             children' \cup kept' = (children \cup kept) \ gone,
             opened' = opened \ Destroyed(gone)
      PROVE  DescriptorsKept'
  <2>1. \A c \in gone, d \in Children : d # c => OurEnds(c) \cap OurEnds(d) = {}
    BY EndsDiffer
  <2>2. \A c \in gone, d \in Starting : OurEnds(c) \cap (TheirEnds(d) \cup OurEnds(d)) = {}
    BY <1>4, EndsDiffer DEF Starting
  <2>3. Destroyed(children \cup kept) \ Destroyed(gone) = Destroyed((children \cup kept) \ gone)
    BY <1>c, <2>1 DEF Destroyed
  <2>. DEFINE theirs == UNION {TheirEnds(d) \cup OurEnds(d) : d \in Starting}
  <2>4. ASSUME NEW e \in Destroyed(gone)
        PROVE  e \notin theirs
    <3>1. PICK c \in gone : e \in OurEnds(c)
      BY <2>4 DEF Destroyed
    <3>2. \A d \in Starting : e \notin TheirEnds(d) \cup OurEnds(d)
      BY <2>2, <3>1
    <3>. QED BY <3>2
  <2>5. ~StartFailed => opened = Destroyed(children \cup kept) \cup theirs
    BY <1>a
  <2>6. DescriptorsKept' <=> (~StartFailed' => opened' = Destroyed(children' \cup kept') \cup theirs)
    BY <1>b, <1>4
  <2>. HIDE DEF theirs
  <2>7. ~StartFailed => opened' = (Destroyed(children \cup kept) \ Destroyed(gone)) \cup theirs
    BY <1>4, <2>4, <2>5
  <2>. QED BY <1>4, <2>3, <2>6, <2>7
<1>5. ASSUME NEW t \in Threads, NEW c \in Children, Release(t, c)
      PROVE  DescriptorsKept'
  <2>. USE <1>5 DEF Release
  <2>1. hand' = hand /\ children' = children
    BY DEF vars
  <2>2. Starting' = Starting /\ StartFailed' = StartFailed
    BY <2>1 DEF Starting, StartFailed
  <2>3. c \notin Starting
    BY DEF Starting, KeptStarted
  <2>4. children' \cup kept' = (children \cup kept) \ ({c} \ children)
    BY <2>1
  <2>5. {c} \ children \in SUBSET Children
    OBVIOUS
  <2>. QED BY <1>4, <2>2, <2>3, <2>4, <2>5
<1>6. ASSUME NEW c \in Children, ReapAndDestroy(c)
      PROVE  DescriptorsKept'
  <2>. USE <1>6 DEF ReapAndDestroy
  <2>1. /\ holder = {"io"} /\ children' = children \ {c} /\ hand \in [Threads -> Hands]
        /\ hand' = [u \in Threads |-> IF hand[u] = Asleep THEN Woken ELSE hand[u]]
    BY DEF Reap, WakeJoiners, IInv, TypeOK
  <2>2. \A u \in Threads, d \in Children : (hand'[u] = Spawned(d) <=> hand[u] = Spawned(d)) /\ (hand'[u] = Failed(d) <=> hand[u] = Failed(d))
    BY <2>1 DEF Spawned, Failed, Asleep, Woken
  <2>3. Starting' = Starting /\ StartFailed' = StartFailed
    BY <2>2 DEF Starting, StartFailed
  <2>4. Starting = {}
    BY <2>1, ThreadsAssumption DEF Starting, IInv, MutexKept
  <2>5. children' \cup kept' = (children \cup kept) \ ((children \cap {c}) \ kept)
    BY <2>1
  <2>6. (children \cap {c}) \ kept \in SUBSET Children
    OBVIOUS
  <2>. QED BY <1>4, <2>3, <2>4, <2>5, <2>6
<1>7. ASSUME NEW t \in Threads, DetachAndDestroy(t)
      PROVE  DescriptorsKept'
  <2>. USE <1>7 DEF DetachAndDestroy
  <2>1. Free /\ children' = {} /\ hand' = hand
    BY DEF DetachAll
  <2>2. Starting' = Starting /\ StartFailed' = StartFailed
    BY <2>1 DEF Starting, StartFailed
  <2>3. Starting = {}
    BY <2>1, FreeMeansIdle DEF Starting
  <2>4. children' \cup kept' = (children \cup kept) \ (children \ kept)
    BY <2>1
  <2>5. children \ kept \in SUBSET Children
    BY <1>c
  <2>. QED BY <1>4, <2>2, <2>3, <2>4, <2>5
<1>8. ASSUME UNCHANGED <<opened, kept, children>>, Starting' = Starting, StartFailed' = StartFailed
      PROVE  DescriptorsKept'
  BY <1>a, <1>b, <1>8
<1>9. ASSUME NEW t \in Threads,
             \/ Undisturbed(StopAll(t)) \/ Undisturbed(JoinAll(t))
             \/ \E c \in Children : OnChild(t, c) \/ Undisturbed(WaitReturns(t, c))
      PROVE  DescriptorsKept'
  <2>1. UNCHANGED <<opened, kept, children>>
    BY <1>9 DEF Undisturbed, fileVars, StopAll, JoinAll, OnChild, WaitReturns, Detach, StopChild, Wait
  <2>2. /\ hand \in [Threads -> Hands]
        /\ \A u \in Threads : u # t => hand'[u] = hand[u]
        /\ hand'[t] = hand[t] \/
             /\ hand[t] \in {Idle, Woken} \/ \E c \in Children : hand[t] = Waiting(c)
             /\ hand'[t] \in {Idle, Asleep} \/ \E c \in Children : hand'[t] = Waiting(c)
    BY <1>9 DEF Undisturbed, StopAll, JoinAll, OnChild, WaitReturns, Detach, StopChild, Wait, IInv, TypeOK
  <2>3. \A u \in Threads, d \in Children : (hand'[u] = Spawned(d) <=> hand[u] = Spawned(d)) /\ (hand'[u] = Failed(d) <=> hand[u] = Failed(d))
    BY <2>2, HandsTell
  <2>4. Starting' = Starting /\ StartFailed' = StartFailed
    BY <2>3 DEF Starting, StartFailed
  <2>. QED BY <1>8, <2>1, <2>4
<1>10. ASSUME \/ Undisturbed(OnSignal) \/ Undisturbed(EndSignal) \/ UNCHANGED spawnVars
              \/ \E c \in Children : ProcessExits(c)
       PROVE  DescriptorsKept'
  <2>1. UNCHANGED <<opened, kept, children, hand>>
    BY <1>10 DEF Undisturbed, OnSignal, EndSignal, spawnVars, vars, fileVars, ProcessExits, Exit
  <2>2. Starting' = Starting /\ StartFailed' = StartFailed
    BY <2>1 DEF Starting, StartFailed
  <2>. QED BY <1>8, <2>1, <2>2
<1>. QED BY <1>1, <1>2, <1>3, <1>5, <1>6, <1>7, <1>9, <1>10 DEF SpawnNext
-----------------------------------------------------------------------------
(* SInv holds throughout, for any children, threads and options.           *)
THEOREM SpawnerInvariant == SpawnSpec => []SInv
<1>1. IInv /\ IInv' /\ SInv /\ [SpawnNext]_spawnVars => SInv'
  BY SpawnTypes, EndsStay, KeptStays, DescriptorsStay DEF SInv
<1>. QED BY <1>1, SpawnInitInv, SpawnerKeepsParent, PTL DEF SpawnSpec

(* A reader of a child's output comes to its end when the child is gone    *)
(* (spawner_posix_spawn.hpp:111), whatever else was spawned meanwhile.     *)
THEOREM PipesFollowChildren == SpawnSpec => []PipesFollowChild
<1>1. SInv => PipesFollowChild
  BY DEF SInv, EndsInPlace, PipesFollowChild
<1>. QED BY <1>1, SpawnerInvariant, PTL

(* Descriptors are closed with their child, neither later nor earlier.     *)
THEOREM DescriptorsFollowChildren == SpawnSpec => []DescriptorsKept
<1>1. SInv => DescriptorsKept
  BY DEF SInv
<1>. QED BY <1>1, SpawnerInvariant, PTL
=============================================================================
