------------------------ MODULE ProcessParentProofs ------------------------
(***************************************************************************)
(* Theorems about ProcessParent, for any children and any threads.         *)
(***************************************************************************)
EXTENDS ProcessParent, TLAPS

Owned == {"running", "halted", "zombie"}

(* Who holds the mutex is in the middle of a step that needs it, and the   *)
(* signal handler is queued unless the io thread is inside it.             *)
MutexKept ==
  /\ watching <=> holder # {"io"}
  /\ \A t \in Threads, c \in Children :
       hand[t] \in {Spawned(c), Failed(c)} => holder = {t}

(* A child whose process was spawned is listed, about to be, or detached;  *)
(* it leaves the list with all others, detached, or when it is reaped.     *)
Bookkeeping ==
  /\ \A t \in Threads, c \in Children :
       hand[t] = Spawned(c) => proc[c] \in Owned /\ c \notin children /\ ~detached[c]
  /\ \A c \in Children :
       /\ proc[c] \in Owned =>
            \/ c \in children \/ detached[c]
            \/ \E t \in Threads : hand[t] = Spawned(c)
       /\ detached[c] => proc[c] # "none"

IInv == /\ TypeOK /\ MutexKept /\ Bookkeeping
        /\ ListedOwnsPid /\ ReportedOnce /\ NoLostExit
-----------------------------------------------------------------------------
(* The invariant holds of a parent that was just made, and every step      *)
(* keeps it.                                                               *)
LEMMA InitInv == Init => IInv
<1>. SUFFICES ASSUME Init PROVE IInv
  OBVIOUS
<1>. USE DEF Init
<1>1. TypeOK
  BY DEF TypeOK, Hands, Idle
<1>2. MutexKept
  BY DEF MutexKept, Idle, Spawned, Failed
<1>3. Bookkeeping
  BY DEF Bookkeeping, Owned, Idle, Spawned
<1>4. ListedOwnsPid /\ ReportedOnce /\ NoLostExit
  BY DEF ListedOwnsPid, ReportedOnce, NoLostExit, Zombies
<1>. QED BY <1>1, <1>2, <1>3, <1>4 DEF IInv

(* One step for each action, one below it for each conjunct.               *)
LEMMA IInvNext == IInv /\ [Next]_vars => IInv'
<1>. SUFFICES ASSUME IInv, [Next]_vars PROVE IInv'
  OBVIOUS
<1>. USE ThreadsAssumption DEF IInv
<1>1. ASSUME NEW c \in Children, Exit(c)
     PROVE  IInv'
  <2>. USE <1>1 DEF Exit
  <2>1. TypeOK'
    BY DEF TypeOK, Hands, Idle, Spawned, Asleep, Woken, Waiting, Failed
  <2>2. MutexKept'
    BY DEF TypeOK, MutexKept, Idle, Spawned, Asleep, Woken, Waiting, Failed
  <2>3. Bookkeeping'
    BY DEF TypeOK, MutexKept, Bookkeeping, Owned, ReportedOnce, Idle, Spawned, Asleep, Woken, Waiting, Failed
  <2>4. ListedOwnsPid'
    BY DEF TypeOK, Bookkeeping, Owned, ListedOwnsPid, Spawned
  <2>5. ReportedOnce'
    BY DEF TypeOK, MutexKept, Bookkeeping, Owned, ReportedOnce, Spawned
  <2>6. NoLostExit'
    BY DEF TypeOK, MutexKept, NoLostExit, Zombies
  <2>. QED BY <2>1, <2>2, <2>3, <2>4, <2>5, <2>6
<1>2. ASSUME NEW t \in Threads, NEW c \in Children, Start(t, c)
     PROVE  IInv'
  <2>. USE <1>2 DEF Start, Alive, Free
  <2>1. TypeOK'
    BY DEF TypeOK, Hands, Idle, Spawned, Asleep, Woken, Waiting, Failed
  <2>2. MutexKept'
    BY DEF TypeOK, MutexKept, Idle, Spawned, Asleep, Woken, Waiting, Failed
  <2>3. Bookkeeping'
    <3>1. /\ hand'[t] = Spawned(c) /\ proc'[c] = "running"
          /\ \A u \in Threads \ {t} : hand'[u] = hand[u]
          /\ \A d \in Children \ {c} : proc'[d] = proc[d]
      BY DEF TypeOK
    <3>2. /\ c \notin children /\ ~detached[c]
          /\ \A u \in Threads : hand[u] # Spawned(c)
      BY DEF TypeOK, Bookkeeping, Owned, ListedOwnsPid
    <3>3. \A d \in Children : hand'[t] = Spawned(d) => d = c
      BY <3>1 DEF Spawned
    <3>4. \A d \in Children : hand[t] # Spawned(d)
      BY DEF Idle, Spawned
    <3>5. ASSUME NEW u \in Threads, NEW d \in Children, hand'[u] = Spawned(d)
          PROVE  proc'[d] \in Owned /\ d \notin children /\ ~detached[d]
      BY <3>1, <3>2, <3>3, <3>5 DEF Bookkeeping, Owned
    <3>6. ASSUME NEW d \in Children, proc'[d] \in Owned
          PROVE  d \in children \/ detached[d] \/ \E u \in Threads : hand'[u] = Spawned(d)
      BY <3>1, <3>4, <3>6 DEF Bookkeeping
    <3>. QED BY <3>1, <3>2, <3>5, <3>6 DEF Bookkeeping
  <2>4. ListedOwnsPid'
    BY DEF TypeOK, Bookkeeping, Owned, ListedOwnsPid, Spawned
  <2>5. ReportedOnce'
    BY DEF TypeOK, MutexKept, Bookkeeping, Owned, ReportedOnce, Spawned
  <2>6. NoLostExit'
    BY DEF TypeOK, MutexKept, NoLostExit, Zombies
  <2>. QED BY <2>1, <2>2, <2>3, <2>4, <2>5, <2>6
<1>3. ASSUME NEW t \in Threads, NEW c \in Children, Enlist(t, c)
     PROVE  IInv'
  <2>. USE <1>3 DEF Enlist, Alive
  <2>1. TypeOK'
    BY DEF TypeOK, Hands, Idle, Spawned, Asleep, Woken, Waiting, Failed
  <2>2. MutexKept'
    BY DEF TypeOK, MutexKept, Idle, Spawned, Asleep, Woken, Waiting, Failed
  <2>3. Bookkeeping'
    BY DEF TypeOK, MutexKept, Bookkeeping, Owned, ReportedOnce, Idle, Spawned, Asleep, Woken, Waiting, Failed
  <2>4. ListedOwnsPid'
    BY DEF TypeOK, Bookkeeping, Owned, ListedOwnsPid, Spawned
  <2>5. ReportedOnce'
    BY DEF TypeOK, MutexKept, Bookkeeping, Owned, ReportedOnce, Spawned
  <2>6. NoLostExit'
    BY DEF TypeOK, MutexKept, NoLostExit, Zombies
  <2>. QED BY <2>1, <2>2, <2>3, <2>4, <2>5, <2>6
<1>4. ASSUME NEW t \in Threads, NEW c \in Children, StartFails(t, c)
     PROVE  IInv'
  <2>. USE <1>4 DEF StartFails, PidStops, Alive, Free, Halt
  <2>1. TypeOK'
    BY DEF TypeOK, Hands, Idle, Spawned, Asleep, Woken, Waiting, Failed
  <2>2. MutexKept'
    BY DEF TypeOK, MutexKept, Idle, Spawned, Asleep, Woken, Waiting, Failed
  <2>3. Bookkeeping'
    BY DEF TypeOK, MutexKept, Bookkeeping, Owned, ReportedOnce, Idle, Spawned, Asleep, Woken, Waiting, Failed
  <2>4. ListedOwnsPid'
    BY DEF TypeOK, Bookkeeping, Owned, ListedOwnsPid, Spawned
  <2>5. ReportedOnce'
    BY DEF TypeOK, MutexKept, Bookkeeping, Owned, ReportedOnce, Spawned
  <2>6. NoLostExit'
    BY DEF TypeOK, MutexKept, NoLostExit, Zombies
  <2>. QED BY <2>1, <2>2, <2>3, <2>4, <2>5, <2>6
<1>5. ASSUME NEW t \in Threads, StopAll(t)
     PROVE  IInv'
  <2>. USE <1>5 DEF StopAll, Alive, Free, Halt
  <2>1. TypeOK'
    BY DEF TypeOK, Hands, Idle, Spawned, Asleep, Woken, Waiting, Failed
  <2>2. MutexKept'
    BY DEF TypeOK, MutexKept, Idle, Spawned, Asleep, Woken, Waiting, Failed
  <2>3. Bookkeeping'
    BY DEF TypeOK, MutexKept, Bookkeeping, Owned, ReportedOnce, Idle, Spawned, Asleep, Woken, Waiting, Failed
  <2>4. ListedOwnsPid'
    BY DEF TypeOK, Bookkeeping, Owned, ListedOwnsPid, Spawned
  <2>5. ReportedOnce'
    BY DEF TypeOK, MutexKept, Bookkeeping, Owned, ReportedOnce, Spawned
  <2>6. NoLostExit'
    BY DEF TypeOK, MutexKept, NoLostExit, Zombies
  <2>. QED BY <2>1, <2>2, <2>3, <2>4, <2>5, <2>6
<1>6. ASSUME NEW t \in Threads, JoinAll(t)
     PROVE  IInv'
  <2>. USE <1>6 DEF JoinAll, Alive, Free
  <2>1. TypeOK'
    BY DEF TypeOK, Hands, Idle, Spawned, Asleep, Woken, Waiting, Failed
  <2>2. MutexKept'
    BY DEF TypeOK, MutexKept, Idle, Spawned, Asleep, Woken, Waiting, Failed
  <2>3. Bookkeeping'
    BY DEF TypeOK, MutexKept, Bookkeeping, Owned, ReportedOnce, Idle, Spawned, Asleep, Woken, Waiting, Failed
  <2>4. ListedOwnsPid'
    BY DEF TypeOK, Bookkeeping, Owned, ListedOwnsPid, Spawned
  <2>5. ReportedOnce'
    BY DEF TypeOK, MutexKept, Bookkeeping, Owned, ReportedOnce, Spawned
  <2>6. NoLostExit'
    BY DEF TypeOK, MutexKept, NoLostExit, Zombies
  <2>. QED BY <2>1, <2>2, <2>3, <2>4, <2>5, <2>6
<1>7. ASSUME NEW t \in Threads, DetachAll(t)
     PROVE  IInv'
  <2>. USE <1>7 DEF DetachAll, Alive, Free
  <2>1. TypeOK'
    BY DEF TypeOK, Hands, Idle, Spawned, Asleep, Woken, Waiting, Failed
  <2>2. MutexKept'
    BY DEF TypeOK, MutexKept, Idle, Spawned, Asleep, Woken, Waiting, Failed
  <2>3. Bookkeeping'
    <3>1. /\ children' = {} /\ proc' = proc /\ hand' = hand
          /\ \A c \in Children : detached'[c] = (detached[c] \/ c \in children)
      BY DEF TypeOK
    <3>2. \A u \in Threads, c \in Children : hand[u] # Spawned(c)
      BY DEF MutexKept
    <3>3. \A c \in children : c \in Children /\ proc[c] # "none"
      BY DEF TypeOK, ListedOwnsPid
    <3>. QED BY <3>1, <3>2, <3>3 DEF Bookkeeping, Owned
  <2>4. ListedOwnsPid'
    BY DEF TypeOK, Bookkeeping, Owned, ListedOwnsPid, Spawned
  <2>5. ReportedOnce'
    BY DEF TypeOK, MutexKept, Bookkeeping, Owned, ReportedOnce, Spawned
  <2>6. NoLostExit'
    BY DEF TypeOK, MutexKept, NoLostExit, Zombies
  <2>. QED BY <2>1, <2>2, <2>3, <2>4, <2>5, <2>6
<1>8. ASSUME NEW t \in Threads, NEW c \in Children, StopChild(t, c)
     PROVE  IInv'
  <2>. USE <1>8 DEF StopChild, Alive, Halt
  <2>1. TypeOK'
    BY DEF TypeOK, Hands, Idle, Spawned, Asleep, Woken, Waiting, Failed
  <2>2. MutexKept'
    BY DEF TypeOK, MutexKept, Idle, Spawned, Asleep, Woken, Waiting, Failed
  <2>3. Bookkeeping'
    BY DEF TypeOK, MutexKept, Bookkeeping, Owned, ReportedOnce, Idle, Spawned, Asleep, Woken, Waiting, Failed
  <2>4. ListedOwnsPid'
    BY DEF TypeOK, Bookkeeping, Owned, ListedOwnsPid, Spawned
  <2>5. ReportedOnce'
    BY DEF TypeOK, MutexKept, Bookkeeping, Owned, ReportedOnce, Spawned
  <2>6. NoLostExit'
    BY DEF TypeOK, MutexKept, NoLostExit, Zombies
  <2>. QED BY <2>1, <2>2, <2>3, <2>4, <2>5, <2>6
<1>9. ASSUME NEW t \in Threads, NEW c \in Children, Wait(t, c)
     PROVE  IInv'
  <2>. USE <1>9 DEF Wait, Alive
  <2>1. TypeOK'
    BY DEF TypeOK, Hands, Idle, Spawned, Asleep, Woken, Waiting, Failed
  <2>2. MutexKept'
    BY DEF TypeOK, MutexKept, Idle, Spawned, Asleep, Woken, Waiting, Failed
  <2>3. Bookkeeping'
    BY DEF TypeOK, MutexKept, Bookkeeping, Owned, ReportedOnce, Idle, Spawned, Asleep, Woken, Waiting, Failed
  <2>4. ListedOwnsPid'
    BY DEF TypeOK, Bookkeeping, Owned, ListedOwnsPid, Spawned
  <2>5. ReportedOnce'
    BY DEF TypeOK, MutexKept, Bookkeeping, Owned, ReportedOnce, Spawned
  <2>6. NoLostExit'
    BY DEF TypeOK, MutexKept, NoLostExit, Zombies
  <2>. QED BY <2>1, <2>2, <2>3, <2>4, <2>5, <2>6
<1>10. ASSUME NEW t \in Threads, NEW c \in Children, WaitReturns(t, c)
     PROVE  IInv'
  <2>. USE <1>10 DEF WaitReturns, Alive
  <2>1. TypeOK'
    BY DEF TypeOK, Hands, Idle, Spawned, Asleep, Woken, Waiting, Failed
  <2>2. MutexKept'
    BY DEF TypeOK, MutexKept, Idle, Spawned, Asleep, Woken, Waiting, Failed
  <2>3. Bookkeeping'
    BY DEF TypeOK, MutexKept, Bookkeeping, Owned, ReportedOnce, Idle, Spawned, Asleep, Woken, Waiting, Failed
  <2>4. ListedOwnsPid'
    BY DEF TypeOK, Bookkeeping, Owned, ListedOwnsPid, Spawned
  <2>5. ReportedOnce'
    BY DEF TypeOK, MutexKept, Bookkeeping, Owned, ReportedOnce, Spawned
  <2>6. NoLostExit'
    BY DEF TypeOK, MutexKept, NoLostExit, Zombies
  <2>. QED BY <2>1, <2>2, <2>3, <2>4, <2>5, <2>6
<1>11. ASSUME OnSignal
     PROVE  IInv'
  <2>. USE <1>11 DEF OnSignal, Alive, Free
  <2>1. TypeOK'
    BY DEF TypeOK, Hands, Idle, Spawned, Asleep, Woken, Waiting, Failed
  <2>2. MutexKept'
    BY DEF TypeOK, MutexKept, Idle, Spawned, Asleep, Woken, Waiting, Failed
  <2>3. Bookkeeping'
    BY DEF TypeOK, MutexKept, Bookkeeping, Owned, ReportedOnce, Idle, Spawned, Asleep, Woken, Waiting, Failed
  <2>4. ListedOwnsPid'
    BY DEF TypeOK, Bookkeeping, Owned, ListedOwnsPid, Spawned
  <2>5. ReportedOnce'
    BY DEF TypeOK, MutexKept, Bookkeeping, Owned, ReportedOnce, Spawned
  <2>6. NoLostExit'
    BY DEF TypeOK, MutexKept, NoLostExit, Zombies
  <2>. QED BY <2>1, <2>2, <2>3, <2>4, <2>5, <2>6
<1>12. ASSUME NEW c \in Children, Reap(c)
     PROVE  IInv'
  <2>. USE <1>12 DEF Reap, Alive, Zombies, WakeJoiners
  <2>1. TypeOK'
    BY DEF TypeOK, Hands, Idle, Spawned, Asleep, Woken, Waiting, Failed
  <2>2. MutexKept'
    BY DEF TypeOK, MutexKept, Idle, Spawned, Asleep, Woken, Waiting, Failed
  <2>3. Bookkeeping'
    BY DEF TypeOK, MutexKept, Bookkeeping, Owned, ReportedOnce, Idle, Spawned, Asleep, Woken, Waiting, Failed
  <2>4. ListedOwnsPid'
    BY DEF TypeOK, Bookkeeping, Owned, ListedOwnsPid, Spawned
  <2>5. ReportedOnce'
    <3>1. proc[c] = "zombie" /\ ~exited[c] /\ called[c] = 0
      BY DEF ReportedOnce
    <3>2. ~detached[c] => c \in children
      <4>1. \A u \in Threads : hand[u] # Spawned(c)
        BY DEF MutexKept
      <4>. QED BY <3>1, <4>1 DEF Bookkeeping, Owned
    <3>3. c \in children => exited'[c]
      <4>1. exited'[c] = (exited[c] \/ c \in children)
        BY Zenon DEF TypeOK
      <4>. QED BY <4>1
    <3>4. proc'[c] = "reaped" /\ (c \in children => called'[c] = 1)
      BY <3>1 DEF TypeOK
    <3>5. ASSUME NEW d \in Children, d # c
          PROVE  proc'[d] = proc[d] /\ exited'[d] = exited[d] /\ called'[d] = called[d]
      BY <3>5 DEF TypeOK
    <3>. QED BY <3>2, <3>3, <3>4, <3>5 DEF ReportedOnce
  <2>6. NoLostExit'
    BY DEF TypeOK, MutexKept, NoLostExit, Zombies
  <2>. QED BY <2>1, <2>2, <2>3, <2>4, <2>5, <2>6
<1>13. ASSUME EndSignal
     PROVE  IInv'
  <2>. USE <1>13 DEF EndSignal, Alive, Zombies
  <2>1. TypeOK'
    BY DEF TypeOK, Hands, Idle, Spawned, Asleep, Woken, Waiting, Failed
  <2>2. MutexKept'
    BY DEF TypeOK, MutexKept, Idle, Spawned, Asleep, Woken, Waiting, Failed
  <2>3. Bookkeeping'
    BY DEF TypeOK, MutexKept, Bookkeeping, Owned, ReportedOnce, Idle, Spawned, Asleep, Woken, Waiting, Failed
  <2>4. ListedOwnsPid'
    BY DEF TypeOK, Bookkeeping, Owned, ListedOwnsPid, Spawned
  <2>5. ReportedOnce'
    BY DEF TypeOK, MutexKept, Bookkeeping, Owned, ReportedOnce, Spawned
  <2>6. NoLostExit'
    BY DEF TypeOK, MutexKept, NoLostExit, Zombies
  <2>. QED BY <2>1, <2>2, <2>3, <2>4, <2>5, <2>6
<1>15. ASSUME NEW t \in Threads, NEW c \in Children, Detach(t, c)
     PROVE  IInv'
  <2>. USE <1>15 DEF Detach, Alive
  <2>1. TypeOK'
    BY DEF TypeOK, Hands, Idle, Spawned, Asleep, Woken, Waiting, Failed
  <2>2. MutexKept'
    BY DEF TypeOK, MutexKept, Idle, Spawned, Asleep, Woken, Waiting, Failed
  <2>3. Bookkeeping'
    BY DEF TypeOK, MutexKept, Bookkeeping, Owned, ReportedOnce, Idle, Spawned, Asleep, Woken, Waiting, Failed
  <2>4. ListedOwnsPid'
    BY DEF TypeOK, Bookkeeping, Owned, ListedOwnsPid, Spawned
  <2>5. ReportedOnce'
    BY DEF TypeOK, MutexKept, Bookkeeping, Owned, ReportedOnce, Spawned
  <2>6. NoLostExit'
    BY DEF TypeOK, MutexKept, NoLostExit, Zombies
  <2>. QED BY <2>1, <2>2, <2>3, <2>4, <2>5, <2>6
<1>14. CASE UNCHANGED vars
  BY <1>14 DEF vars, TypeOK, MutexKept, Bookkeeping, ListedOwnsPid, ReportedOnce, NoLostExit, Zombies
<1>. QED BY <1>1, <1>2, <1>3, <1>4, <1>5, <1>6, <1>7, <1>8, <1>9, <1>10, <1>11, <1>12, <1>13, <1>14, <1>15 DEF Next, OnThread

(* IInv holds throughout, for any number of children and threads.          *)
THEOREM ParentInvariant == Spec => []IInv
BY InitInv, IInvNext, PTL DEF Spec

(* stop_all only signals processes that are still there (parent.cpp:46): a *)
(* listed child leaves _children in the step that reaps its process.       *)
THEOREM ListedChildrenOwnTheirPid == Spec => []ListedOwnsPid
<1>1. IInv => ListedOwnsPid
  BY DEF IInv
<1>. QED BY <1>1, ParentInvariant, PTL

(* on_signal reports every exit once, however early it comes after the     *)
(* spawn and however the signals coalesce (parent.cpp:80).                 *)
THEOREM ExitsReportedOnce == Spec => []ReportedOnce
<1>1. IInv => ReportedOnce
  BY DEF IInv
<1>. QED BY <1>1, ParentInvariant, PTL

(* No exit is forgotten: a process that ended while no handler runs has a  *)
(* signal pending, and a handler queued for it (parent.cpp:117).           *)
THEOREM NoExitLost == Spec => []NoLostExit
<1>1. IInv => NoLostExit
  BY DEF IInv
<1>. QED BY <1>1, ParentInvariant, PTL
=============================================================================
