------------------------ MODULE CompilerRunnerProofs -----------------------
(***************************************************************************)
(* Theorems about CompilerRunner, for any jobs, threads, streams, outputs  *)
(* and sizes of a read.  The parent's invariant comes with the refinement: *)
(* every step of a runner is a step its parent allows.  First, what the    *)
(* operations of AppendableBuffer guarantee for any sizes.                 *)
(***************************************************************************)
EXTENDS CompilerRunner, ProcessParentProofs

(* A buffer that was just made or reset is well formed.                    *)
LEMMA EmptyWellFormed == WellFormed(Empty)
BY DEF WellFormed, Empty, Buffer

(* get_appendable_buffer makes room for all n bytes behind what is filled, *)
(* which it leaves as it is.                                               *)
THEOREM GetGivesWindow ==
  ASSUME NEW b, NEW n \in Nat, WellFormed(b)
  PROVE  Window(Get(b, n), n) /\ Get(b, n).filled = b.filled
<1>. b \in Buffer /\ b.filled <= b.size
  BY DEF WellFormed
<1>1. CASE b.size - b.filled < n
  <2>1. Get(b, n) = [size |-> b.size + n, filled |-> b.filled]
    BY <1>1 DEF Get, Buffer
  <2>. QED BY <2>1 DEF Window, WellFormed, Buffer
<1>2. CASE ~(b.size - b.filled < n)
  <2>1. Get(b, n) = b
    BY <1>2 DEF Get
  <2>. QED BY <2>1, <1>2 DEF Window, WellFormed, Buffer
<1>. QED BY <1>1, <1>2

(* report_appended never reports more than the storage holds, and counts a *)
(* short read of k bytes into a window of n exactly.                       *)
THEOREM ReportCounts ==
  ASSUME NEW b, NEW n \in Nat, NEW k \in 0..n, Window(b, n)
  PROVE  WellFormed(Report(b, k)) /\ Report(b, k).filled = b.filled + k
<1>. b \in Buffer /\ b.filled + n <= b.size
  BY DEF Window, WellFormed
<1>1. Report(b, k) = [size |-> b.size, filled |-> b.filled + k]
  BY DEF Report, Buffer
<1>. QED BY <1>1 DEF WellFormed, Buffer
-----------------------------------------------------------------------------
(* No read is queued before the child was started and run_job let go of    *)
(* the job; a job whose child could not be started is held for ever.       *)
Fresh(j) ==
  /\ proc[j] = "none" \/ job[j].locker # {}
       => \A s \in Streams : reader[j][s].state = "none"
  /\ \A t \in job[j].locker : proc[j] = "none" => hand[t] = Failed(j)

(* The exit of a child is known only after its process was reaped.         *)
Gone(j) == job[j].child_exited => proc[j] = "reaped"

(* What was read of a stream is in its buffer, until the job is completed; *)
(* the end of a stream is seen when nothing can come any more.             *)
StreamKept(j, s) ==
  /\ pipe[j][s].unread <= pipe[j][s].written
  /\ WellFormed(reader[j][s].buf)
  /\ reader[j][s].state # "closed" =>
       reader[j][s].buf.filled = pipe[j][s].written - pipe[j][s].unread
  /\ reader[j][s].state = "queued" => Window(reader[j][s].buf, ReadSize)
  /\ reader[j][s].state = "closed" =>
       /\ pipe[j][s].ended /\ pipe[j][s].unread = 0
       /\ result[j].calls = 0 => reader[j][s].buf.filled = pipe[j][s].written

(* The callback ran only when all three ends had been seen, and was given  *)
(* everything.                                                             *)
Completed(j) ==
  /\ result[j].calls \in {0, 1}
  /\ result[j].calls = 1 =>
       /\ AllCompleted(reader[j], job[j])
       /\ \A s \in Streams : result[j].output[s] = pipe[j][s].written
       /\ j \in Broken => result[j].errors # {}

JobInv(j) == Fresh(j) /\ Gone(j) /\ Completed(j) /\ \A s \in Streams : StreamKept(j, s)

RunnerInv == RunnerTypeOK /\ \A j \in Children : JobInv(j)
-----------------------------------------------------------------------------
(* What a runner does to its parent.                                       *)
LEMMA RunnerStep == [RunnerNext]_allVars => [Next]_vars
<1>. SUFFICES ASSUME [RunnerNext]_allVars PROVE [Next]_vars
  OBVIOUS
<1>1. CASE OnIo
  <2>1. CASE OnSignal \/ EndSignal
    BY <2>1 DEF Next
  <2>2. ASSUME NEW j \in Children, OnChildStopped(j)
        PROVE  Next
    BY <2>2 DEF OnChildStopped, Next
  <2>3. ASSUME NEW j \in Children, NEW s \in Streams, OnEnd(j, s)
        PROVE  UNCHANGED vars
    BY <2>3 DEF OnEnd
  <2>4. ASSUME NEW j \in Children, NEW s \in Streams, NEW n \in 1..ReadSize, OnData(j, s, n)
        PROVE  UNCHANGED vars
    BY <2>4 DEF OnData
  <2>. QED BY <1>1, <2>1, <2>2, <2>3, <2>4 DEF OnIo
<1>2. ASSUME NEW j \in Children, CompilerExits(j)
      PROVE  Next
  BY <1>2 DEF CompilerExits, Next
<1>3. ASSUME NEW j \in Children, NEW s \in Streams, Write(j, s) \/ EndStream(j, s)
      PROVE  UNCHANGED vars
  BY <1>3 DEF Write, EndStream
<1>4. ASSUME NEW j \in Children, NEW t \in Threads,
             RunJob(t, j) \/ RunJobFails(t, j) \/ ChildStarted(t, j)
      PROVE  Next
  BY <1>4 DEF RunJob, RunJobFails, ChildStarted, Next, OnThread
<1>5. ASSUME NEW j \in Children, NEW t \in Threads, QueueReads(t, j)
      PROVE  UNCHANGED vars
  BY <1>5 DEF QueueReads
<1>6. CASE UNCHANGED allVars
  BY <1>6 DEF allVars
<1>. QED BY <1>1, <1>2, <1>3, <1>4, <1>5, <1>6 DEF RunnerNext

(* Every behaviour of a runner is one its process::parent allows, so that  *)
(* what is proved of a parent holds beneath a runner (runner.cpp:139).     *)
THEOREM RunnerUsesParent == RunnerSpec => Spec
<1>1. RunnerInit => Init
  BY DEF RunnerInit
<1>. QED BY <1>1, RunnerStep, PTL DEF RunnerSpec, Spec
-----------------------------------------------------------------------------
(* A job stays as it should while a step is about another one, or only     *)
(* about its process.                                                      *)
LEMMA JobFrame ==
  ASSUME NEW i \in Children, JobInv(i),
         proc'[i] = "none" <=> proc[i] = "none",
         proc[i] = "reaped" => proc'[i] = "reaped",
         pipe'[i] = pipe[i], reader'[i] = reader[i], job'[i] = job[i], result'[i] = result[i],
         \A t \in job[i].locker : hand[t] = Failed(i) => hand'[t] = Failed(i)
  PROVE  JobInv(i)'
<1>1. Fresh(i)'
  BY DEF JobInv, Fresh
<1>2. Gone(i)'
  BY DEF JobInv, Gone
<1>3. Completed(i)'
  BY DEF JobInv, Completed, AllCompleted
<1>4. ASSUME NEW s \in Streams PROVE StreamKept(i, s)'
  BY DEF JobInv, StreamKept
<1>. QED BY <1>1, <1>2, <1>3, <1>4 DEF JobInv

(* A job that is not completed and whose exit was not seen or one of whose *)
(* streams still is read has not been answered.                            *)
LEMMA NotAnswered ==
  ASSUME NEW j \in Children, JobInv(j),
         ~job[j].child_exited \/ \E s \in Streams : reader[j][s].state # "closed"
  PROVE  result[j].calls = 0
BY DEF JobInv, Completed, AllCompleted

(* A runner without jobs has the invariant.                                *)
LEMMA RunnerInitInv == RunnerInit => RunnerInv
<1>. SUFFICES ASSUME RunnerInit PROVE RunnerInv
  OBVIOUS
<1>1. TypeOK
  BY InitInv DEF RunnerInit, IInv
<1>2. WellFormed(Empty) /\ Empty.filled = 0
  BY EmptyWellFormed DEF Empty
<1>3. RunnerTypeOK
  BY <1>1, <1>2 DEF RunnerTypeOK, RunnerInit, Nothing, WellFormed
<1>4. ASSUME NEW j \in Children PROVE JobInv(j)
  BY <1>2 DEF RunnerInit, JobInv, Fresh, Gone, Completed, StreamKept
<1>. QED BY <1>3, <1>4 DEF RunnerInv
-----------------------------------------------------------------------------
(* An update two levels deep.                                              *)
LEMMA TwoLevels ==
  ASSUME NEW S, NEW T, NEW V, NEW f \in [S -> [T -> V]], NEW x \in S, NEW y \in T, NEW v \in V,
         NEW g, g = [f EXCEPT ![x][y] = v]
  PROVE  /\ g \in [S -> [T -> V]]
         /\ g[x][y] = v
         /\ \A i \in S : i # x => g[i] = f[i]
         /\ \A r \in T : r # y => g[x][r] = f[x][r]
<1>1. f[x] \in [T -> V]
  OBVIOUS
<1>2. [f[x] EXCEPT ![y] = v] \in [T -> V]
  BY <1>1
<1>3. g = [f EXCEPT ![x] = [f[x] EXCEPT ![y] = v]]
  OBVIOUS
<1>. QED BY <1>1, <1>2, <1>3

Pipe == [written : Nat, unread : Nat, ended : BOOLEAN]

(* The compiler, or whoever holds a copy of the pipe, writes or closes.    *)
LEMMA WriteInv ==
  ASSUME RunnerInv, NEW j \in Children, NEW s \in Streams, Write(j, s), TypeOK'
  PROVE  RunnerInv'
<1>. USE DEF Write
<1>1. pipe \in [Children -> [Streams -> Pipe]] /\ pipe[j][s] \in Pipe
  BY DEF RunnerInv, RunnerTypeOK, Pipe
<1>2. Grown(pipe[j][s]) \in Pipe
  BY <1>1 DEF Grown, Pipe
<1>3. /\ pipe' \in [Children -> [Streams -> Pipe]]
      /\ pipe'[j][s] = Grown(pipe[j][s])
      /\ \A i \in Children : i # j => pipe'[i] = pipe[i]
      /\ \A r \in Streams : r # s => pipe'[j][r] = pipe[j][r]
  BY <1>1, <1>2, TwoLevels
<1>4. RunnerTypeOK'
  BY <1>3 DEF RunnerInv, RunnerTypeOK, Pipe
<1>5. ASSUME NEW i \in Children PROVE JobInv(i)'
  <2>1. CASE i # j
    BY <1>3, <2>1, JobFrame DEF RunnerInv, vars
  <2>2. CASE i = j
    <3>1. reader[j][s].state # "closed" /\ result[j].calls = 0
      BY NotAnswered DEF RunnerInv, JobInv, StreamKept
    <3>2. ASSUME NEW r \in Streams PROVE StreamKept(j, r)'
      <4>1. CASE r = s
        <5>1. /\ pipe[j][s].written \in Nat /\ pipe[j][s].unread \in Nat
              /\ pipe'[j][s].written = pipe[j][s].written + 1
              /\ pipe'[j][s].unread = pipe[j][s].unread + 1
          BY <1>1, <1>3 DEF Grown, Pipe
        <5>. QED BY <5>1, <3>1, <4>1 DEF RunnerInv, JobInv, StreamKept
      <4>2. CASE r # s
        BY <1>3, <4>2 DEF RunnerInv, JobInv, StreamKept
      <4>. QED BY <4>1, <4>2
    <3>3. Fresh(j)' /\ Gone(j)' /\ Completed(j)'
      BY <3>1 DEF RunnerInv, JobInv, Fresh, Gone, Completed, vars
    <3>. QED BY <2>2, <3>2, <3>3 DEF JobInv
  <2>. QED BY <2>1, <2>2
<1>. QED BY <1>4, <1>5 DEF RunnerInv

(* The last write end of a pipe is closed.                                 *)
LEMMA EndStreamInv ==
  ASSUME RunnerInv, NEW j \in Children, NEW s \in Streams, EndStream(j, s), TypeOK'
  PROVE  RunnerInv'
<1>. USE DEF EndStream
<1>1. pipe \in [Children -> [Streams -> Pipe]] /\ pipe[j][s] \in Pipe
  BY DEF RunnerInv, RunnerTypeOK, Pipe
<1>2. /\ Ended(pipe[j][s]) \in Pipe
      /\ Ended(pipe[j][s]).written = pipe[j][s].written
      /\ Ended(pipe[j][s]).unread = pipe[j][s].unread
      /\ Ended(pipe[j][s]).ended = TRUE
  BY <1>1 DEF Pipe, Ended
<1>3. /\ pipe' \in [Children -> [Streams -> Pipe]]
      /\ pipe'[j][s] = Ended(pipe[j][s])
      /\ \A i \in Children : i # j => pipe'[i] = pipe[i]
      /\ \A r \in Streams : r # s => pipe'[j][r] = pipe[j][r]
  BY <1>1, <1>2, TwoLevels
<1>4. RunnerTypeOK'
  BY <1>3 DEF RunnerInv, RunnerTypeOK, Pipe
<1>5. ASSUME NEW i \in Children PROVE JobInv(i)'
  <2>1. CASE i # j
    BY <1>3, <2>1, JobFrame DEF RunnerInv, vars
  <2>2. CASE i = j
    <3>1. ASSUME NEW r \in Streams
          PROVE  /\ pipe'[j][r].written = pipe[j][r].written
                 /\ pipe'[j][r].unread = pipe[j][r].unread
                 /\ pipe[j][r].ended => pipe'[j][r].ended
      BY <1>2, <1>3
    <3>2. \A r \in Streams : StreamKept(j, r)'
      BY <3>1 DEF RunnerInv, JobInv, StreamKept
    <3>3. Fresh(j)' /\ Gone(j)' /\ Completed(j)'
      BY <3>1 DEF RunnerInv, JobInv, Fresh, Gone, Completed, AllCompleted, vars
    <3>. QED BY <2>2, <3>2, <3>3 DEF JobInv
  <2>. QED BY <2>1, <2>2
<1>. QED BY <1>4, <1>5 DEF RunnerInv

(* run_job, up to where the mutex of the job is let go of.                 *)
LEMMA RunJobInv ==
  ASSUME RunnerInv, NEW j \in Children, NEW t \in Threads,
         RunJob(t, j) \/ RunJobFails(t, j), TypeOK'
  PROVE  RunnerInv'
<1>1. /\ ~InRunJob(t) /\ proc[j] = "none"
      /\ job' = [job EXCEPT ![j] = [locker |-> {t}, child_exited |-> job[j].child_exited]]
      /\ UNCHANGED <<pipe, reader, parsed, result>>
  BY DEF RunJob, RunJobFails, Start, StartFails, RunnerInv, RunnerTypeOK
<1>2. RunnerTypeOK'
  BY <1>1 DEF RunnerInv, RunnerTypeOK
<1>3. /\ \A i \in Children : /\ i # j => (proc'[i] = "none" <=> proc[i] = "none")
                             /\ proc[i] = "reaped" => proc'[i] = "reaped"
      /\ \A u \in Threads : u # t => hand'[u] = hand[u]
      /\ proc'[j] = "none" => hand'[t] = Failed(j)
  BY DEF RunJob, RunJobFails, Start, StartFails, Halt, RunnerInv, RunnerTypeOK, TypeOK
<1>4. ASSUME NEW i \in Children PROVE JobInv(i)'
  <2>1. CASE i # j
    <3>1. \A u \in job[i].locker : u # t /\ u \in Threads
      BY <1>1 DEF InRunJob, RunnerInv, RunnerTypeOK
    <3>2. job'[i] = job[i]
      BY <1>1, <2>1 DEF RunnerInv, RunnerTypeOK
    <3>. QED BY <1>1, <1>3, <2>1, <3>1, <3>2, JobFrame DEF RunnerInv
  <2>2. CASE i = j
    <3>1. job'[j].locker = {t} /\ job'[j].child_exited = job[j].child_exited
      BY <1>1 DEF RunnerInv, RunnerTypeOK
    <3>2. Fresh(j)'
      BY <1>1, <1>3, <3>1 DEF RunnerInv, JobInv, Fresh
    <3>3. Gone(j)'
      BY <1>1, <3>1 DEF RunnerInv, JobInv, Gone
    <3>4. Completed(j)'
      BY <1>1, <3>1 DEF RunnerInv, JobInv, Completed, AllCompleted
    <3>5. \A s \in Streams : StreamKept(j, s)'
      BY <1>1 DEF RunnerInv, JobInv, StreamKept
    <3>. QED BY <2>2, <3>2, <3>3, <3>4, <3>5 DEF JobInv
  <2>. QED BY <2>1, <2>2
<1>. QED BY <1>2, <1>4 DEF RunnerInv

(* run_job queues the first read of both streams and lets go of the job.   *)
LEMMA QueueReadsInv ==
  ASSUME RunnerInv, NEW j \in Children, NEW t \in Threads, QueueReads(t, j), TypeOK'
  PROVE  RunnerInv'
<1>. USE DEF QueueReads
<1>. DEFINE rd == [s \in Streams |-> QueueRead(reader[j][s].buf)]
<1>1. /\ job[j].locker = {t} /\ proc[j] # "none"
      /\ result[j].calls = 0
      /\ \A s \in Streams : reader[j][s].state = "none"
  <2>1. \A s \in Streams : reader[j][s].state = "none"
    BY DEF RunnerInv, JobInv, Fresh
  <2>2. proc[j] # "none"
    <3>1. t \in job[j].locker /\ hand[t] # Failed(j)
      BY DEF Idle, Failed
    <3>. QED BY <3>1 DEF RunnerInv, JobInv, Fresh
  <2>3. result[j].calls = 0
    BY <2>1, NotAnswered, StreamsAssumption DEF RunnerInv
  <2>. QED BY <2>1, <2>2, <2>3
<1>2. ASSUME NEW s \in Streams
      PROVE  /\ rd[s] \in [state : {"none", "queued", "closed"}, buf : Buffer]
             /\ rd[s].state = "queued" /\ Window(rd[s].buf, ReadSize)
             /\ rd[s].buf.filled = pipe[j][s].written - pipe[j][s].unread
  <2>1. /\ WellFormed(reader[j][s].buf)
        /\ reader[j][s].buf.filled = pipe[j][s].written - pipe[j][s].unread
    BY <1>1 DEF RunnerInv, JobInv, StreamKept
  <2>2. /\ Window(Get(reader[j][s].buf, ReadSize), ReadSize)
        /\ Get(reader[j][s].buf, ReadSize).filled = reader[j][s].buf.filled
    BY <2>1, GetGivesWindow, ReadSizeAssumption
  <2>. QED BY <2>1, <2>2 DEF QueueRead, Window, WellFormed
<1>3. reader' = [reader EXCEPT ![j] = rd]
  OBVIOUS
<1>. HIDE DEF rd
<1>4. rd \in [Streams -> [state : {"none", "queued", "closed"}, buf : Buffer]]
  BY <1>2 DEF rd
<1>5. RunnerTypeOK'
  <2>1. reader' \in [Children -> [Streams -> [state : {"none", "queued", "closed"}, buf : Buffer]]]
    BY <1>3, <1>4 DEF RunnerInv, RunnerTypeOK
  <2>2. job' \in [Children -> [locker : SUBSET Threads, child_exited : BOOLEAN]]
    BY DEF RunnerInv, RunnerTypeOK
  <2>. QED BY <2>1, <2>2 DEF RunnerInv, RunnerTypeOK
<1>6. /\ reader'[j] = rd /\ job'[j].locker = {} /\ job'[j].child_exited = job[j].child_exited
      /\ \A i \in Children : i # j => reader'[i] = reader[i] /\ job'[i] = job[i]
  BY <1>3 DEF RunnerInv, RunnerTypeOK
<1>7. ASSUME NEW i \in Children PROVE JobInv(i)'
  <2>1. CASE i # j
    BY <1>6, <2>1, JobFrame DEF RunnerInv, vars
  <2>2. CASE i = j
    <3>1. Fresh(j)'
      BY <1>1, <1>6 DEF Fresh, vars
    <3>2. Gone(j)' /\ Completed(j)'
      BY <1>1, <1>6 DEF RunnerInv, JobInv, Gone, Completed, vars
    <3>3. ASSUME NEW s \in Streams PROVE StreamKept(j, s)'
      BY <1>2, <1>6 DEF RunnerInv, JobInv, StreamKept, Window
    <3>. QED BY <2>2, <3>1, <3>2, <3>3 DEF JobInv
  <2>. QED BY <2>1, <2>2
<1>. QED BY <1>5, <1>7 DEF RunnerInv

(* A step of the parent or of a process that no handler of a job sees.     *)
LEMMA ParentOnlyInv ==
  ASSUME RunnerInv, TypeOK', UNCHANGED jobVars,
         \/ \E j \in Children : CompilerExits(j) \/ \E t \in Threads : ChildStarted(t, j)
         \/ OnSignal \/ EndSignal
  PROVE  RunnerInv'
<1>1. RunnerTypeOK'
  BY DEF RunnerInv, RunnerTypeOK, jobVars
<1>2. /\ \A i \in Children : /\ proc'[i] = "none" <=> proc[i] = "none"
                             /\ proc[i] = "reaped" => proc'[i] = "reaped"
      /\ \A i \in Children, u \in Threads : hand[u] = Failed(i) => hand'[u] = Failed(i)
  <2>1. ASSUME NEW j \in Children, CompilerExits(j)
        PROVE  <1>2!1 /\ <1>2!2
    BY <2>1 DEF CompilerExits, Exit, RunnerInv, RunnerTypeOK, TypeOK
  <2>2. ASSUME NEW j \in Children, NEW t \in Threads, ChildStarted(t, j)
        PROVE  <1>2!1 /\ <1>2!2
    BY <2>2 DEF ChildStarted, Enlist, RunnerInv, RunnerTypeOK, TypeOK, Failed, Spawned
  <2>3. CASE OnSignal \/ EndSignal
    BY <2>3 DEF OnSignal, EndSignal
  <2>. QED BY <2>1, <2>2, <2>3
<1>3. ASSUME NEW i \in Children PROVE JobInv(i)'
  BY <1>2, JobFrame DEF RunnerInv, RunnerTypeOK, jobVars
<1>. QED BY <1>1, <1>3 DEF RunnerInv

(* Data is read; ReadSize is what every queued read may take.              *)
LEMMA OnDataInv ==
  ASSUME RunnerInv, NEW j \in Children, NEW s \in Streams, NEW n \in 1..ReadSize,
         OnData(j, s, n), TypeOK'
  PROVE  RunnerInv'
<1>. USE DEF OnData
<1>. DEFINE q == Drained(pipe[j][s], n)
            r == QueueRead(Report(reader[j][s].buf, n))
<1>1. /\ pipe \in [Children -> [Streams -> Pipe]] /\ pipe[j][s] \in Pipe
      /\ n \in Nat /\ n <= pipe[j][s].unread /\ ReadSize \in Nat /\ n \in 0..ReadSize
  BY ReadSizeAssumption DEF RunnerInv, RunnerTypeOK, Pipe
<1>2. /\ q \in Pipe /\ q.written = pipe[j][s].written /\ q.unread = pipe[j][s].unread - n
  BY <1>1 DEF Pipe, Drained
<1>3. /\ WellFormed(Report(reader[j][s].buf, n))
      /\ Report(reader[j][s].buf, n).filled = reader[j][s].buf.filled + n
  BY <1>1, ReportCounts DEF RunnerInv, JobInv, StreamKept
<1>4. /\ r \in [state : {"none", "queued", "closed"}, buf : Buffer]
      /\ r.state = "queued" /\ Window(r.buf, ReadSize)
      /\ r.buf.filled = reader[j][s].buf.filled + n
  <2>1. /\ Window(Get(Report(reader[j][s].buf, n), ReadSize), ReadSize)
        /\ Get(Report(reader[j][s].buf, n), ReadSize).filled = reader[j][s].buf.filled + n
    BY <1>1, <1>3, GetGivesWindow
  <2>. QED BY <2>1 DEF QueueRead, Window, WellFormed
<1>5. result[j].calls = 0
  BY NotAnswered DEF RunnerInv
<1>. HIDE DEF q, r
<1>6. /\ pipe' \in [Children -> [Streams -> Pipe]]
      /\ pipe'[j][s] = q
      /\ \A i \in Children : i # j => pipe'[i] = pipe[i]
      /\ \A u \in Streams : u # s => pipe'[j][u] = pipe[j][u]
  BY <1>1, <1>2, TwoLevels DEF q
<1>7. /\ reader' \in [Children -> [Streams -> [state : {"none", "queued", "closed"}, buf : Buffer]]]
      /\ reader'[j][s] = r
      /\ \A i \in Children : i # j => reader'[i] = reader[i]
      /\ \A u \in Streams : u # s => reader'[j][u] = reader[j][u]
  BY <1>4, TwoLevels DEF r, RunnerInv, RunnerTypeOK
<1>8. RunnerTypeOK'
  BY <1>6, <1>7 DEF RunnerInv, RunnerTypeOK, Pipe
<1>9. ASSUME NEW i \in Children PROVE JobInv(i)'
  <2>1. CASE i # j
    BY <1>6, <1>7, <2>1, JobFrame DEF RunnerInv, vars
  <2>2. CASE i = j
    <3>1. proc[j] # "none"
      BY DEF RunnerInv, JobInv, Fresh
    <3>2. Fresh(j)' /\ Gone(j)' /\ Completed(j)'
      BY <1>5, <3>1 DEF RunnerInv, JobInv, Fresh, Gone, Completed, vars
    <3>3. ASSUME NEW u \in Streams PROVE StreamKept(j, u)'
      <4>1. CASE u # s
        BY <1>6, <1>7, <4>1 DEF RunnerInv, JobInv, StreamKept
      <4>2. CASE u = s
        <5>1. reader[j][s].buf.filled = pipe[j][s].written - pipe[j][s].unread
          BY DEF RunnerInv, JobInv, StreamKept
        <5>2. q.unread <= q.written /\ r.buf.filled = q.written - q.unread
          BY <1>1, <1>2, <1>4, <5>1 DEF RunnerInv, JobInv, StreamKept, Pipe
        <5>. QED BY <1>4, <1>6, <1>7, <4>2, <5>2 DEF StreamKept, Window
      <4>. QED BY <4>1, <4>2
    <3>. QED BY <2>2, <3>2, <3>3 DEF JobInv
  <2>. QED BY <2>1, <2>2
<1>. QED BY <1>8, <1>9 DEF RunnerInv
-----------------------------------------------------------------------------
Reader == [state : {"none", "queued", "closed"}, buf : Buffer]
JobRec == [locker : SUBSET Threads, child_exited : BOOLEAN]
Result == [calls : Nat, errors : SUBSET (Children \cup {"failed"}), output : [Streams -> Nat]]

(* What a step may do to the processes and threads without a job noticing. *)
Quietly(j) ==
  /\ \A i \in Children : /\ i # j => (proc'[i] = "none" <=> proc[i] = "none")
                         /\ proc[i] = "reaped" => proc'[i] = "reaped"
  /\ \A u \in Threads, i \in Children : hand[u] = Failed(i) => hand'[u] = Failed(i)

(* The readers rd and the flags cd a handler leaves behind.                *)
Ready(j, rd, cd) ==
  /\ rd \in [Streams -> Reader] /\ cd \in JobRec
  /\ cd.locker = {} /\ proc'[j] # "none"
  /\ cd.child_exited => proc'[j] = "reaped"
  /\ \A s \in Streams :
       /\ WellFormed(rd[s].buf)
       /\ rd[s].buf.filled = pipe[j][s].written - pipe[j][s].unread
       /\ rd[s].state = "queued" => Window(rd[s].buf, ReadSize)
       /\ rd[s].state = "closed" => pipe[j][s].ended /\ pipe[j][s].unread = 0

(* A handler that is not the last one only leaves its mark.                *)
LEMMA SettleLater ==
  ASSUME RunnerInv, TypeOK', UNCHANGED pipe, NEW j \in Children, NEW rd, NEW cd,
         Settle(j, rd, cd), Quietly(j), Ready(j, rd, cd), result[j].calls = 0,
         ~AllCompleted(rd, cd)
  PROVE  RunnerInv'
<1>1. /\ reader' = [reader EXCEPT ![j] = rd] /\ job' = [job EXCEPT ![j] = cd]
      /\ UNCHANGED <<parsed, result>>
  BY DEF Settle
<1>2. RunnerTypeOK'
  <2>1. reader \in [Children -> [Streams -> Reader]] /\ job \in [Children -> JobRec]
    BY DEF RunnerInv, RunnerTypeOK, Reader, JobRec
  <2>2. reader' \in [Children -> [Streams -> Reader]] /\ job' \in [Children -> JobRec]
    BY <1>1, <2>1 DEF Ready
  <2>. QED BY <1>1, <2>2 DEF RunnerInv, RunnerTypeOK, Reader, JobRec
<1>3. /\ reader'[j] = rd /\ job'[j] = cd
      /\ \A i \in Children : i # j => reader'[i] = reader[i] /\ job'[i] = job[i]
  BY <1>1 DEF RunnerInv, RunnerTypeOK
<1>4. ASSUME NEW i \in Children PROVE JobInv(i)'
  <2>1. CASE i # j
    <3>1. \A u \in job[i].locker : u \in Threads
      BY DEF RunnerInv, RunnerTypeOK
    <3>. QED BY <1>1, <1>3, <2>1, <3>1, JobFrame DEF RunnerInv, Quietly
  <2>2. CASE i = j
    <3>1. Fresh(j)' /\ Gone(j)'
      BY <1>3 DEF Ready, Fresh, Gone
    <3>2. Completed(j)'
      BY <1>1 DEF Completed
    <3>3. ASSUME NEW s \in Streams PROVE StreamKept(j, s)'
      <4>1. pipe[j][s].unread <= pipe[j][s].written /\ pipe[j][s].written \in Nat
        BY DEF RunnerInv, RunnerTypeOK, JobInv, StreamKept
      <4>. QED BY <1>1, <1>3, <4>1 DEF Ready, StreamKept
    <3>. QED BY <2>2, <3>1, <3>2, <3>3 DEF JobInv
  <2>. QED BY <2>1, <2>2
<1>. QED BY <1>2, <1>4 DEF RunnerInv

(* The last one completes the job.                                         *)
LEMMA SettleNow ==
  ASSUME RunnerInv, TypeOK', UNCHANGED pipe, NEW j \in Children, NEW rd, NEW cd,
         Settle(j, rd, cd), Quietly(j), Ready(j, rd, cd), result[j].calls = 0,
         AllCompleted(rd, cd)
  PROVE  RunnerInv'
<1>. DEFINE seen == parsed[ConfigOf[j]] \cup Found(j, rd)
            res == [calls |-> result[j].calls + 1,
                    errors |-> IF seen = {} /\ NonZero(j) THEN {"failed"} ELSE seen,
                    output |-> [s \in Streams |-> Moved(rd[s].buf)]]
            emptied == [s \in Streams |-> [rd[s] EXCEPT !.buf = AfterMove(0)]]
<1>1. /\ parsed' = [parsed EXCEPT ![ConfigOf[j]] = seen]
      /\ result' = [result EXCEPT ![j] = res]
      /\ reader' = [reader EXCEPT ![j] = emptied]
      /\ job' = [job EXCEPT ![j] = cd]
  BY DEF Settle, ProcessCompleted
<1>2. ConfigOf[j] \in Configs /\ seen \subseteq Children
  BY ConfigsAssumption DEF RunnerInv, RunnerTypeOK, Found
<1>3. \A s \in Streams : rd[s].buf.filled \in Nat
  BY DEF Ready, Reader, Buffer
<1>4. res \in Result
  BY <1>2, <1>3 DEF Moved, Result, RunnerInv, RunnerTypeOK
<1>5. AfterMove(0) \in Buffer /\ WellFormed(AfterMove(0))
  BY DEF AfterMove, Buffer, WellFormed
<1>6. \A s \in Streams : /\ emptied[s] \in Reader /\ emptied[s].state = "closed"
                          /\ emptied[s].buf = AfterMove(0)
  BY <1>5 DEF AllCompleted, Ready, Reader
<1>7. /\ res.calls = 1
      /\ \A s \in Streams : res.output[s] = rd[s].buf.filled
      /\ j \in Broken => res.errors # {}
  BY DEF Moved, NonZero
<1>8. emptied \in [Streams -> Reader]
  BY <1>6
<1>. HIDE DEF seen, res, emptied
<1>9. RunnerTypeOK'
  <2>1. /\ reader \in [Children -> [Streams -> Reader]] /\ job \in [Children -> JobRec]
        /\ result \in [Children -> Result]
    BY DEF RunnerInv, RunnerTypeOK, Reader, JobRec, Result
  <2>2. /\ reader' \in [Children -> [Streams -> Reader]] /\ job' \in [Children -> JobRec]
        /\ result' \in [Children -> Result]
    BY <1>1, <1>4, <1>8, <2>1 DEF Ready
  <2>3. parsed' \in [Configs -> SUBSET Children]
    BY <1>1, <1>2 DEF RunnerInv, RunnerTypeOK
  <2>. QED BY <2>2, <2>3 DEF RunnerInv, RunnerTypeOK, Reader, JobRec, Result
<1>10. /\ reader'[j] = emptied /\ job'[j] = cd /\ result'[j] = res
       /\ \A i \in Children : i # j => /\ reader'[i] = reader[i] /\ job'[i] = job[i]
                                       /\ result'[i] = result[i]
  BY <1>1 DEF RunnerInv, RunnerTypeOK
<1>11. ASSUME NEW i \in Children PROVE JobInv(i)'
  <2>1. CASE i # j
    <3>1. \A u \in job[i].locker : u \in Threads
      BY DEF RunnerInv, RunnerTypeOK
    <3>. QED BY <1>10, <2>1, <3>1, JobFrame DEF RunnerInv, Quietly
  <2>2. CASE i = j
    <3>1. Fresh(j)' /\ Gone(j)'
      BY <1>10 DEF Ready, Fresh, Gone
    <3>2. \A s \in Streams : /\ pipe[j][s].ended /\ pipe[j][s].unread = 0
                              /\ rd[s].buf.filled = pipe[j][s].written
                              /\ pipe[j][s].written \in Nat
      BY DEF Ready, AllCompleted, RunnerInv, RunnerTypeOK
    <3>3. Completed(j)'
      BY <1>6, <1>7, <1>10, <3>2 DEF Completed, AllCompleted
    <3>4. ASSUME NEW s \in Streams PROVE StreamKept(j, s)'
      BY <1>5, <1>6, <1>7, <1>10, <3>2 DEF StreamKept
    <3>. QED BY <2>2, <3>1, <3>3, <3>4 DEF JobInv
  <2>. QED BY <2>1, <2>2
<1>. QED BY <1>9, <1>11 DEF RunnerInv

(* The end of a stream is seen, which may be the last of the three ends.   *)
LEMMA OnEndInv ==
  ASSUME RunnerInv, NEW j \in Children, NEW s \in Streams, OnEnd(j, s), TypeOK'
  PROVE  RunnerInv'
<1>. DEFINE rd == [reader[j] EXCEPT ![s].state = "closed"]
<1>1. /\ job[j].locker = {} /\ reader[j][s].state = "queued"
      /\ pipe[j][s].ended /\ pipe[j][s].unread = 0
      /\ UNCHANGED vars /\ UNCHANGED pipe /\ Settle(j, rd, job[j])
  BY DEF OnEnd
<1>2. result[j].calls = 0
  BY <1>1, NotAnswered DEF RunnerInv
<1>3. Quietly(j)
  BY <1>1 DEF Quietly, vars
<1>4. reader[j] \in [Streams -> Reader] /\ job[j] \in JobRec
  BY DEF RunnerInv, RunnerTypeOK, Reader, JobRec
<1>5. /\ [reader[j][s] EXCEPT !.state = "closed"] \in Reader
      /\ [reader[j][s] EXCEPT !.state = "closed"].buf = reader[j][s].buf
      /\ [reader[j][s] EXCEPT !.state = "closed"].state = "closed"
  BY <1>4 DEF Reader
<1>6. /\ rd \in [Streams -> Reader]
      /\ rd[s].state = "closed" /\ rd[s].buf = reader[j][s].buf
      /\ \A r \in Streams : r # s => rd[r] = reader[j][r]
  BY <1>4, <1>5
<1>. HIDE DEF rd
<1>7. ASSUME NEW r \in Streams
      PROVE  /\ WellFormed(rd[r].buf)
             /\ rd[r].buf.filled = pipe[j][r].written - pipe[j][r].unread
             /\ rd[r].state = "queued" => Window(rd[r].buf, ReadSize)
             /\ rd[r].state = "closed" => pipe[j][r].ended /\ pipe[j][r].unread = 0
  <2>1. /\ StreamKept(j, r)
        /\ pipe[j][r].written \in Nat /\ pipe[j][r].unread \in Nat
    BY DEF RunnerInv, RunnerTypeOK, JobInv
  <2>. QED BY <1>1, <1>2, <1>6, <2>1 DEF StreamKept
<1>8. /\ proc'[j] # "none"
      /\ job[j].child_exited => proc'[j] = "reaped"
  BY <1>1 DEF RunnerInv, JobInv, Fresh, Gone, vars
<1>9. Ready(j, rd, job[j])
  BY <1>1, <1>4, <1>6, <1>7, <1>8 DEF Ready
<1>. QED BY <1>1, <1>2, <1>3, <1>9, SettleNow, SettleLater

(* The end of the child is seen, which may be the last of the three ends.  *)
LEMMA OnChildStoppedInv ==
  ASSUME RunnerInv, NEW j \in Children, OnChildStopped(j), TypeOK'
  PROVE  RunnerInv'
<1>. DEFINE cd == [job[j] EXCEPT !.child_exited = TRUE]
<1>1. /\ Reap(j) /\ job[j].locker = {} /\ UNCHANGED pipe /\ Settle(j, reader[j], cd)
  BY DEF OnChildStopped
<1>2. proc[j] = "zombie" /\ proc' = [proc EXCEPT ![j] = "reaped"] /\ WakeJoiners
  BY <1>1 DEF Reap, Zombies
<1>3. result[j].calls = 0
  <2>1. ~job[j].child_exited
    BY <1>2 DEF RunnerInv, JobInv, Gone
  <2>. QED BY <2>1, NotAnswered DEF RunnerInv
<1>4. Quietly(j) /\ proc'[j] = "reaped"
  BY <1>2 DEF Quietly, WakeJoiners, RunnerInv, RunnerTypeOK, TypeOK, Asleep, Failed
<1>5. cd \in JobRec /\ cd.locker = {}
  BY <1>1 DEF RunnerInv, RunnerTypeOK, JobRec
<1>6. reader[j] \in [Streams -> Reader]
  BY DEF RunnerInv, RunnerTypeOK, Reader
<1>. HIDE DEF cd
<1>7. ASSUME NEW r \in Streams
      PROVE  /\ WellFormed(reader[j][r].buf)
             /\ reader[j][r].buf.filled = pipe[j][r].written - pipe[j][r].unread
             /\ reader[j][r].state = "queued" => Window(reader[j][r].buf, ReadSize)
             /\ reader[j][r].state = "closed" => pipe[j][r].ended /\ pipe[j][r].unread = 0
  <2>1. /\ StreamKept(j, r)
        /\ pipe[j][r].written \in Nat /\ pipe[j][r].unread \in Nat
    BY DEF RunnerInv, RunnerTypeOK, JobInv
  <2>. QED BY <1>3, <2>1 DEF StreamKept
<1>8. Ready(j, reader[j], cd)
  BY <1>4, <1>5, <1>6, <1>7 DEF Ready
<1>. QED BY <1>1, <1>3, <1>4, <1>8, SettleNow, SettleLater
-----------------------------------------------------------------------------
(* Every step of a runner keeps the invariant, given that of its parent.   *)
LEMMA RunnerNextInv == RunnerInv /\ IInv /\ [RunnerNext]_allVars => RunnerInv'
<1>. SUFFICES ASSUME RunnerInv, IInv, [RunnerNext]_allVars PROVE RunnerInv'
  OBVIOUS
<1>1. TypeOK'
  BY RunnerStep, IInvNext DEF IInv
<1>2. CASE OnIo
  <2>1. CASE (OnSignal \/ EndSignal) /\ UNCHANGED jobVars
    BY <1>1, <2>1, ParentOnlyInv
  <2>. QED BY <1>1, <1>2, <2>1, OnChildStoppedInv, OnEndInv, OnDataInv DEF OnIo
<1>3. ASSUME NEW j \in Children, NEW s \in Streams, Write(j, s) \/ EndStream(j, s)
      PROVE  RunnerInv'
  BY <1>1, <1>3, WriteInv, EndStreamInv
<1>4. ASSUME NEW j \in Children, CompilerExits(j)
      PROVE  RunnerInv'
  <2>1. UNCHANGED jobVars
    BY <1>4 DEF CompilerExits
  <2>. QED BY <1>1, <1>4, <2>1, ParentOnlyInv
<1>5. ASSUME NEW j \in Children, NEW t \in Threads, ChildStarted(t, j)
      PROVE  RunnerInv'
  <2>1. UNCHANGED jobVars
    BY <1>5 DEF ChildStarted
  <2>. QED BY <1>1, <1>5, <2>1, ParentOnlyInv
<1>6. ASSUME NEW j \in Children, NEW t \in Threads,
             RunJob(t, j) \/ RunJobFails(t, j) \/ QueueReads(t, j)
      PROVE  RunnerInv'
  BY <1>1, <1>6, RunJobInv, QueueReadsInv
<1>7. CASE UNCHANGED allVars
  <2>1. RunnerTypeOK'
    BY <1>1, <1>7 DEF allVars, jobVars, RunnerInv, RunnerTypeOK
  <2>2. ASSUME NEW i \in Children PROVE JobInv(i)'
    BY <1>7, JobFrame DEF allVars, vars, jobVars, RunnerInv
  <2>. QED BY <2>1, <2>2 DEF RunnerInv
<1>. QED BY <1>2, <1>3, <1>4, <1>5, <1>6, <1>7 DEF RunnerNext

(* RunnerInv holds throughout, for any jobs, outputs and sizes of a read.  *)
THEOREM RunnerInvariant == RunnerSpec => []RunnerInv
BY RunnerInitInv, RunnerNextInv, RunnerUsesParent, ParentInvariant, PTL DEF RunnerSpec

(* A read never writes outside its buffer nor over what was read before    *)
(* (runner.cpp:155, appendable_buffer.cpp:52).                             *)
THEOREM ReadsStayInside == RunnerSpec => []ReadsFit
<1>1. RunnerInv => ReadsFit
  BY DEF RunnerInv, JobInv, StreamKept, ReadsFit
<1>. QED BY <1>1, RunnerInvariant, PTL

(* The callback of a job is never called twice (runner.cpp:184-196).       *)
THEOREM CalledAtMostOnce == RunnerSpec => []CalledOnce
<1>1. RunnerInv => CalledOnce
  BY DEF RunnerInv, JobInv, Completed, CalledOnce
<1>. QED BY <1>1, RunnerInvariant, PTL

(* It is given everything, in whatever order the ends were seen            *)
(* (runner.cpp:60, runner.cpp:198).                                        *)
THEOREM ResultsComplete == RunnerSpec => []ResultComplete
<1>1. RunnerInv => ResultComplete
  <2>. SUFFICES ASSUME RunnerInv, NEW j \in Children, result[j].calls > 0
                PROVE  /\ proc[j] = "reaped"
                       /\ \A s \in Streams : result[j].output[s] = pipe[j][s].written
                       /\ j \in Broken => result[j].errors # {}
    BY DEF ResultComplete
  <2>1. result[j].calls = 1
    BY DEF RunnerInv, JobInv, Completed
  <2>. QED BY <2>1 DEF RunnerInv, JobInv, Completed, Gone, AllCompleted
<1>. QED BY <1>1, RunnerInvariant, PTL
=============================================================================
