-------------------------- MODULE CompilerRunner ---------------------------
(***************************************************************************)
(* One CompilerRunner (src/farm/compiler/runner.cpp) on top of its         *)
(* process::parent: run_job starts a compiler for a job, the io thread     *)
(* reads what it writes and learns that it ended, and whoever sees the     *)
(* last of these three things (both streams at their end, the child gone)  *)
(* makes the result and calls the job's callback.                          *)
(*                                                                         *)
(* A job is its running_child_t, and the child that runs its compiler, so  *)
(* the jobs are the Children of ProcessParent.                             *)
(***************************************************************************)
EXTENDS ProcessParent, AppendableBuffer

CONSTANTS
  Streams,   \* the streams that are read: standard output and standard error
  Stderr,    \* the one the compiler writes its errors to
  ReadSize,  \* what _queue_read_stream asks for (512 in the code)
  MaxOutput, \* bound: MaxOutput[s] units are written to s
  Configs,   \* CompilerRunnerConfig objects, each with its ErrorParser
  ConfigOf,  \* ConfigOf[j]: the one job j is run with
  Broken     \* the jobs whose code does not compile

ASSUME StreamsAssumption == Stderr \in Streams /\ MaxOutput \in [Streams -> Nat]
ASSUME ReadSizeAssumption == ReadSize \in Nat \ {0}
ASSUME ConfigsAssumption == ConfigOf \in [Children -> Configs] /\ Broken \subseteq Children

VARIABLES
  pipe,    \* pipe[j][s]: units written, and not yet read; whether every writer is gone
  reader,  \* reader[j][s]: is a read queued or was the end seen; stdout_buf, stderr_buf
  job,     \* job[j]: who is in run_job with its mutex; child_exited
  parsed,  \* parsed[k]: the jobs whose errors the ErrorParser of k has seen
  result   \* result[j]: how often its callback was called, and what it was given last

jobVars == <<pipe, reader, job, parsed, result>>
allVars == <<vars, jobVars>>

Nothing == [s \in Streams |-> 0]

RunnerInit ==
  /\ Init
  /\ pipe = [j \in Children |->
               [s \in Streams |-> [written |-> 0, unread |-> 0, ended |-> FALSE]]]
  /\ reader = [j \in Children |-> [s \in Streams |-> [state |-> "none", buf |-> Empty]]]
  /\ job = [j \in Children |-> [locker |-> {}, child_exited |-> FALSE]]
  /\ parsed = [k \in Configs |-> {}]
  /\ result = [j \in Children |-> [calls |-> 0, errors |-> {}, output |-> Nothing]]
-----------------------------------------------------------------------------
(* The compiler.                                                           *)
Grown(q)      == [written |-> q.written + 1, unread |-> q.unread + 1, ended |-> q.ended]
Ended(q)      == [q EXCEPT !.ended = TRUE]
Drained(q, n) == [q EXCEPT !.unread = @ - n]

Write(j, s) ==
  /\ proc[j] = "running" /\ ~pipe[j][s].ended /\ pipe[j][s].written < MaxOutput[s]
  /\ pipe' = [pipe EXCEPT ![j][s] = Grown(@)]
  /\ UNCHANGED <<vars, reader, job, parsed, result>>

(* The last copy of the write end goes: the compiler closes it or ends, or *)
(* a process it started, which may outlive it, does.                       *)
EndStream(j, s) ==
  /\ proc[j] \in {"running", "zombie", "reaped"} /\ ~pipe[j][s].ended
  /\ pipe' = [pipe EXCEPT ![j][s] = Ended(@)]
  /\ UNCHANGED <<vars, reader, job, parsed, result>>

CompilerExits(j) == Exit(j) /\ UNCHANGED jobVars
-----------------------------------------------------------------------------
(* run_job holds the mutex of the job from before the child is started     *)
(* until both reads are queued.                                            *)
InRunJob(t) == \E j \in Children : t \in job[j].locker

RunJob(t, j) ==
  /\ ~InRunJob(t) /\ Start(t, j)
  /\ job' = [job EXCEPT ![j].locker = {t}]
  /\ UNCHANGED <<pipe, reader, parsed, result>>

RunJobFails(t, j) ==
  /\ ~InRunJob(t) /\ StartFails(t, j)
  /\ job' = [job EXCEPT ![j].locker = {t}]
  /\ UNCHANGED <<pipe, reader, parsed, result>>

ChildStarted(t, j) == Enlist(t, j) /\ UNCHANGED jobVars

QueueRead(b) == [state |-> "queued", buf |-> Get(b, ReadSize)]

QueueReads(t, j) ==
  /\ Alive /\ job[j].locker = {t} /\ hand[t] = Idle
  /\ reader' = [reader EXCEPT ![j] = [s \in Streams |-> QueueRead(reader[j][s].buf)]]
  /\ job' = [job EXCEPT ![j].locker = {}]
  /\ UNCHANGED <<vars, pipe, parsed, result>>
-----------------------------------------------------------------------------
(* The errors parse_errors finds in what was read: the first unit the      *)
(* compiler writes to Stderr tells what is wrong with the code.            *)
Found(j, rd) == IF j \in Broken /\ rd[Stderr].buf.filled > 0 THEN {j} ELSE {}

(* child::exit_code is not 0: the code is broken, or nothing was reported. *)
NonZero(j) == j \in Broken \/ ~exited'[j]

AllCompleted_Early_Bug(rd, cd) == cd.child_exited

AllCompleted_Lax_Bug(rd, cd) == \A s \in Streams : rd[s].state = "closed"

AllCompleted(rd, cd) ==
  cd.child_exited /\ \A s \in Streams : rd[s].state = "closed"

(* _on_process_completed, with the mutex of the job.  The parser of the    *)
(* configuration keeps what it has parsed; errors that found no line are   *)
(* one error that names no job ("Compilation failed").                     *)
ProcessCompleted(j, rd, cd) ==
  LET seen == parsed[ConfigOf[j]] \cup Found(j, rd) IN
    /\ parsed' = [parsed EXCEPT ![ConfigOf[j]] = seen]
    /\ result' = [result EXCEPT ![j] =
                    [calls  |-> @.calls + 1,
                     errors |-> IF seen = {} /\ NonZero(j) THEN {"failed"} ELSE seen,
                     output |-> [s \in Streams |-> Moved(rd[s].buf)]]]
    /\ reader' = [reader EXCEPT ![j] =
                    [s \in Streams |-> [rd[s] EXCEPT !.buf = AfterMove(0)]]]
    /\ job' = [job EXCEPT ![j] = cd]

(* What the handlers do last: rd and cd are the readers and the flags of   *)
(* the job after theirs was set.                                           *)
Settle(j, rd, cd) ==
  IF AllCompleted(rd, cd) THEN ProcessCompleted(j, rd, cd)
  ELSE /\ reader' = [reader EXCEPT ![j] = rd]
       /\ job' = [job EXCEPT ![j] = cd]
       /\ UNCHANGED <<parsed, result>>

(* _on_read_stream, for n units read and for the end of the stream.        *)
OnData(j, s, n) ==
  /\ Alive /\ job[j].locker = {} /\ reader[j][s].state = "queued"
  /\ n <= pipe[j][s].unread
  /\ pipe' = [pipe EXCEPT ![j][s] = Drained(@, n)]
  /\ reader' = [reader EXCEPT ![j][s] = QueueRead(Report(@.buf, n))]
  /\ UNCHANGED <<vars, job, parsed, result>>

OnEnd_Unchecked_Bug(j, s) ==
  /\ Alive /\ job[j].locker = {} /\ reader[j][s].state = "queued"
  /\ pipe[j][s].ended /\ pipe[j][s].unread = 0
  /\ reader' = [reader EXCEPT ![j][s].state = "closed"]
  /\ UNCHANGED <<vars, pipe, job, parsed, result>>

(* Any error code counts as the end of the stream, and what is unread then *)
(* is lost.  Here the only error of a read is that end: a pipe that has    *)
(* data, and is closed by nobody while it is read, gives the data.         *)
OnEnd(j, s) ==
  /\ Alive /\ job[j].locker = {} /\ reader[j][s].state = "queued"
  /\ pipe[j][s].ended /\ pipe[j][s].unread = 0
  /\ UNCHANGED <<vars, pipe>>
  /\ Settle(j, [reader[j] EXCEPT ![s].state = "closed"], job[j])

(* on_signal reaches the child: _on_child_stopped, under the mutex of the  *)
(* parent and, when run_job has let go of it, that of the job.             *)
OnChildStopped(j) ==
  /\ Reap(j) /\ job[j].locker = {}
  /\ Settle(j, reader[j], [job[j] EXCEPT !.child_exited = TRUE])
  /\ UNCHANGED pipe
-----------------------------------------------------------------------------
OnIo == \/ OnSignal /\ UNCHANGED jobVars
        \/ EndSignal /\ UNCHANGED jobVars
        \/ \E j \in Children : \/ OnChildStopped(j)
                               \/ \E s \in Streams : \/ OnEnd(j, s)
                                                     \/ \E n \in 1..ReadSize : OnData(j, s, n)

RunnerNext ==
  \/ OnIo
  \/ \E j \in Children :
       \/ CompilerExits(j)
       \/ \E s \in Streams : Write(j, s) \/ EndStream(j, s)
       \/ \E t \in Threads : \/ RunJob(t, j) \/ RunJobFails(t, j)
                             \/ ChildStarted(t, j) \/ QueueReads(t, j)

(* The io thread serves whatever is ready, a thread inside run_job goes    *)
(* on, compilers end and with them, sooner or later, their streams.        *)
RunnerFairness ==
  /\ WF_allVars(OnSignal /\ UNCHANGED jobVars) /\ WF_allVars(EndSignal /\ UNCHANGED jobVars)
  /\ \A j \in Children :
       /\ WF_allVars(CompilerExits(j)) /\ WF_allVars(OnChildStopped(j))
       /\ \A s \in Streams : /\ WF_allVars(OnEnd(j, s)) /\ WF_allVars(EndStream(j, s))
                             /\ WF_allVars(\E n \in 1..ReadSize : OnData(j, s, n))
       /\ \A t \in Threads : WF_allVars(ChildStarted(t, j)) /\ WF_allVars(QueueReads(t, j))

RunnerSpec == RunnerInit /\ [][RunnerNext]_allVars
FairRunnerSpec == RunnerSpec /\ RunnerFairness
-----------------------------------------------------------------------------
RunnerTypeOK ==
  /\ TypeOK
  /\ pipe \in [Children -> [Streams -> [written : Nat, unread : Nat, ended : BOOLEAN]]]
  /\ reader \in [Children -> [Streams -> [state : {"none", "queued", "closed"}, buf : Buffer]]]
  /\ job \in [Children -> [locker : SUBSET Threads, child_exited : BOOLEAN]]
  /\ parsed \in [Configs -> SUBSET Children]
  /\ result \in [Children -> [calls : Nat, errors : SUBSET (Children \cup {"failed"}),
                              output : [Streams -> Nat]]]

(* A callback is given all the compiler wrote, whichever of the two ends   *)
(* of stream and the end of the process was seen last, and the verdict the *)
(* compiler gave.                                                          *)
ResultComplete ==
  \A j \in Children : result[j].calls > 0 =>
    /\ proc[j] = "reaped"
    /\ \A s \in Streams : result[j].output[s] = pipe[j][s].written
    /\ j \in Broken => result[j].errors # {}

(* No read that is queued can write outside its buffer, and nothing that   *)
(* was read is overwritten.                                                *)
ReadsFit ==
  \A j \in Children, s \in Streams : reader[j][s].state = "queued" =>
    /\ Window(reader[j][s].buf, ReadSize)
    /\ reader[j][s].buf.filled = pipe[j][s].written - pipe[j][s].unread

(* The callback of a job is called exactly once: never twice, and finally, *)
(* although run_job, on_signal and the stream handlers wait for each       *)
(* other's mutexes.                                                        *)
CalledOnce == \A j \in Children : result[j].calls <= 1

JobsComplete ==
  \A j \in Children :
    (job[j].locker # {}) ~> (result[j].calls > 0 \/ crashed \/ StartFailed)

(* Code that compiles is reported to compile.                              *)
ValidCodeSucceeds ==
  \A j \in Children \ Broken : result[j].calls > 0 => result[j].errors = {}
=============================================================================
