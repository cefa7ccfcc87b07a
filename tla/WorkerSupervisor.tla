-------------------------- MODULE WorkerSupervisor --------------------------
(***************************************************************************)
(* The supervision of one worker process at a time: WorkerSupervisor.run   *)
(* and _run_opencode (worker_supervisor.py) on the owner thread, the       *)
(* execution's control group (execution_containment.py), the trusted       *)
(* joiner that enters it before it becomes the worker, the reader of the   *)
(* worker's events and the parser of its claim (worker_egress.py), and     *)
(* what stops it: SIGINT, SIGTERM, whose handler runs on the owner thread  *)
(* between two of its steps, lifecycle requests on connection threads, and *)
(* the loss of the process, after which another observes the group.        *)
(*                                                                         *)
(* Of the persisted record only execution_stage is here: none, "launch"    *)
(* (worker-launch, no identity) or "running" (worker-running, identity     *)
(* recorded).  An execution's leader is its first process; desc is the     *)
(* rest of its group, which keeps the worker's output open or not.         *)
(***************************************************************************)
EXTENDS Naturals, Sequences

CONSTANTS
  Conns,       \* connection threads
  MaxExecs,    \* bound: executions launched
  MaxEvents,   \* bound: events a worker writes
  MaxStarts,   \* bound: service processes
  MaxIncidents \* bound: SIGTERMs, requests, failed system calls and crashes

ASSUME SupervisorAssumption ==
  /\ MaxExecs \in Nat \ {0} /\ MaxEvents \in Nat
  /\ MaxIncidents \in Nat /\ MaxStarts \in Nat \ {0}
  /\ Conns \cap {"free", "owner"} = {}

Execs == 1..MaxExecs
\* A devlegate_report tool call with exact, well-typed fields, or one that
\* is none; events of other kinds change nothing.
Events == {"report", "bad"}

Pcs == {"down", "idle", "enter", "admit", "create", "spawn", "identity",
        "wait", "finish", "join", "empty", "again", "destroy", "leave",
        "pop", "returned", "count"}

\* The locals of run() and _run_opencode().
Runs == [interrupted : BOOLEAN,   \* interruption_kind is set
         broken : BOOLEAN,        \* transport_error
         claim : BOOLEAN, error : BOOLEAN,   \* WorkerEgressParser
         read : 0..MaxEvents,     \* events the reader thread has consumed
         started : BOOLEAN, retired : BOOLEAN]

VARIABLES
  stage,      \* persisted execution_stage
  cur,        \* persisted execution_id, 0 before the first
  pc,         \* where the owner thread is
  run,        \* locals of the call in progress
  active,     \* _active is not empty
  lock,       \* holder of WorkerSupervisor._lock
  cmd,        \* holder of _operator_command_lock
  draining,   \* WorkerSupervisor._draining
  intent,     \* _lifecycle_intent is set
  abort,      \* the stop event says operator_abort
  handler,    \* SIGTERM's handler, on the owner thread
  conn,       \* per connection thread, its lifecycle request
  leader,     \* per execution, its first process
  code,       \* the last leader ended with status 0
  desc,       \* per execution, the rest of its group
  out,        \* the events the last worker has written to stdout
  group,      \* executions whose control group exists
  deceived,   \* history: executions reported retired while alive
  late,       \* history: executions found absent before their leader joined
  incidents, starts

record == <<stage, cur>>
thread == <<pc, run, active>>
locks == <<lock, cmd>>
requests == <<draining, intent, abort, handler, conn>>
kernel == <<leader, code, desc, out, group>>
history == <<deceived, late>>
bounds == <<incidents, starts>>
vars == <<record, thread, locks, requests, kernel, history, bounds>>

NewRun == [interrupted |-> FALSE, broken |-> FALSE, claim |-> FALSE,
           error |-> FALSE, read |-> 0, started |-> TRUE, retired |-> FALSE]

TypeOK ==
  /\ stage \in {"none", "launch", "running"}
  /\ cur \in 0..MaxExecs
  /\ pc \in Pcs
  /\ run \in Runs
  /\ active \in BOOLEAN
  /\ lock \in {"free", "owner"}
  /\ cmd \in {"free", "owner"} \cup Conns
  /\ draining \in BOOLEAN /\ intent \in BOOLEAN /\ abort \in BOOLEAN
  /\ handler \in {"none", "command", "drain"}
  /\ conn \in [Conns -> {"idle", "waiting", "holding", "drained", "done"}]
  /\ leader \in [Execs -> {"none", "joining", "running", "exited"}]
  /\ code \in BOOLEAN
  /\ desc \in [Execs -> {"none", "quiet", "piped"}]
  /\ out \in Seq(Events) /\ Len(out) <= MaxEvents
  /\ group \subseteq Execs
  /\ deceived \subseteq Execs /\ late \subseteq Execs
  /\ incidents \in 0..MaxIncidents /\ starts \in 0..MaxStarts

Init ==
  /\ stage = "none" /\ cur = 0
  /\ pc = "idle" /\ run = NewRun /\ active = FALSE
  /\ lock = "free" /\ cmd = "free"
  /\ draining = FALSE /\ intent = FALSE /\ abort = FALSE
  /\ handler = "none" /\ conn = [c \in Conns |-> "idle"]
  /\ leader = [e \in Execs |-> "none"] /\ code = FALSE
  /\ desc = [e \in Execs |-> "none"] /\ out = <<>>
  /\ group = {}
  /\ deceived = {} /\ late = {}
  /\ incidents = 0 /\ starts = 1

-----------------------------------------------------------------------------
\* The kernel's view of an execution.

\* cgroup.events: a joiner that has not yet written cgroup.procs is outside.
Populated(e) == leader[e] = "running" \/ desc[e] # "none"

\* observe(): a group that is empty, or is not there any more.
Absent(e) == ~Populated(e)

\* No process of the execution is left.
Gone(e) == leader[e] \in {"none", "exited"} /\ desc[e] = "none"

\* cgroup.kill ends the members, SIGKILL to the process group the leader too.
Killed(e, groupKill) ==
  /\ desc' = [desc EXCEPT ![e] = "none"]
  /\ leader' = [leader EXCEPT ![e] =
       IF @ = "running" \/ (groupKill /\ @ = "joining") THEN "exited" ELSE @]
  /\ code' = (code /\ leader[e] = "exited")

Incident == incidents < MaxIncidents /\ incidents' = incidents + 1

\* A call to the system fails.
Fault == Incident

-----------------------------------------------------------------------------
\* The owner thread.  Its steps wait while a signal handler runs on it.

At(label) == pc = label /\ handler = "none"

Goto(label) == pc' = label

\* run_iteration commits worker-launch and calls run().
Launch ==
  /\ At("idle") /\ stage = "none" /\ cur < MaxExecs
  /\ ~abort /\ ~intent
  /\ stage' = "launch" /\ cur' = cur + 1
  /\ Goto("enter")
  /\ UNCHANGED <<run, active, locks, requests, kernel, history, bounds>>

Enter ==
  /\ At("enter") /\ lock = "free"
  /\ lock' = "owner" /\ Goto("admit")
  /\ UNCHANGED <<record, run, active, cmd, requests, kernel, history, bounds>>

\* WorkerAdmissionClosed: the record goes back to idle.
AdmitRefused ==
  /\ At("admit") /\ draining
  /\ lock' = "free" /\ stage' = "none" /\ Goto("idle")
  /\ UNCHANGED <<cur, run, active, cmd, requests, kernel, history, bounds>>

Admit ==
  /\ At("admit") /\ ~draining
  /\ lock' = "free" /\ active' = TRUE /\ Goto("create")
  /\ UNCHANGED <<record, run, cmd, requests, kernel, history, bounds>>

\* An exception of the containment leaves run() with a result built from
\* defaults: not started, and worker_group_retired.
Escape ==
  /\ run' = [run EXCEPT !.started = FALSE, !.retired = TRUE]
  /\ Goto("leave")

Create ==
  /\ At("create")
  /\ group' = group \cup {cur} /\ Goto("spawn")
  /\ UNCHANGED <<record, run, active, locks, requests, leader, code, desc, out,
                 history, bounds>>

\* The probe of the delegated subtree with a disposable joiner, the mkdir of
\* the group, or the execution log's file fails.
CreateFails ==
  /\ At("create") /\ Fault /\ Escape
  /\ UNCHANGED <<record, active, locks, requests, kernel, history, starts>>

Spawn ==
  /\ At("spawn")
  /\ leader' = [leader EXCEPT ![cur] = "joining"] /\ Goto("identity")
  /\ UNCHANGED <<record, run, active, locks, requests, code, desc, out, group,
                 history, bounds>>

\* The group is destroyed again and nothing is said to be retired.
SpawnFails ==
  /\ At("spawn") /\ Fault
  /\ group' = group \ {cur}
  /\ run' = [run EXCEPT !.started = FALSE] /\ Goto("leave")
  /\ UNCHANGED <<record, active, locks, requests, leader, code, desc, out,
                 history, starts>>

\* The identity is saved only of a process that is alive.
RecordIdentity ==
  /\ At("identity")
  /\ stage' = IF leader[cur] = "exited" THEN stage ELSE "running"
  /\ Goto("wait")
  /\ UNCHANGED <<cur, run, active, locks, requests, kernel, history, bounds>>

\* The worker is told to terminate and waited for like an aborted one.
IdentityFails ==
  /\ At("identity") /\ leader[cur] # "exited" /\ Fault
  /\ run' = [run EXCEPT !.broken = TRUE] /\ Goto("finish")
  /\ UNCHANGED <<record, active, locks, requests, kernel, history, starts>>

WaitExited ==
  /\ At("wait") /\ leader[cur] = "exited"
  /\ Goto("join")
  /\ UNCHANGED <<record, run, active, locks, requests, kernel, history, bounds>>

\* interrupt() marks the run only if it still found the process.
Interrupt ==
  /\ At("wait") /\ abort
  /\ run' = [run EXCEPT !.interrupted = leader[cur] # "exited"]
  /\ Goto("finish")
  /\ UNCHANGED <<record, active, locks, requests, kernel, history, bounds>>

\* WORKER_TERMINATION_TIMEOUT passed: both kills, and the wait goes on.
FinishTimeout ==
  /\ At("finish") /\ leader[cur] # "exited"
  /\ Killed(cur, TRUE)
  /\ UNCHANGED <<record, thread, locks, requests, out, group, history, bounds>>

\* Mutant: the group is left alone once the leader has ended.
FinishLeaderOnly ==
  /\ At("finish") /\ leader[cur] = "exited"
  /\ Goto("join")
  /\ UNCHANGED <<record, run, active, locks, requests, kernel, history, bounds>>

FinishExited ==
  /\ At("finish") /\ leader[cur] = "exited"
  /\ Killed(cur, FALSE) /\ Goto("join")
  /\ UNCHANGED <<record, run, active, locks, requests, out, group, history,
                 bounds>>

\* cgroup.kill cannot be written.
KillFails ==
  /\ At("finish") /\ Fault /\ Escape
  /\ UNCHANGED <<record, active, locks, requests, kernel, history, starts>>

\* Mutant: the result is taken before the reader is done.
JoinEarly ==
  /\ At("join") /\ Goto("empty")
  /\ UNCHANGED <<record, run, active, locks, requests, kernel, history, bounds>>

\* The reader thread ends when nobody holds the worker's output any more.
JoinReaders ==
  /\ At("join")
  /\ leader[cur] = "exited" /\ desc[cur] # "piped" /\ run.read = Len(out)
  /\ Goto("empty")
  /\ UNCHANGED <<record, run, active, locks, requests, kernel, history, bounds>>

\* Mutant: the leader's end is taken for the end of its group.
GroupEmptyByLeader ==
  /\ At("empty") \/ At("again")
  /\ leader[cur] = "exited" /\ Goto("destroy")
  /\ UNCHANGED <<record, run, active, locks, requests, kernel, history, bounds>>

GroupEmpty ==
  /\ At("empty") \/ At("again")
  /\ ~Populated(cur) /\ Goto("destroy")
  /\ UNCHANGED <<record, run, active, locks, requests, kernel, history, bounds>>

\* wait_empty timed out, or could not read cgroup.events: only the group of
\* an interrupted worker is killed, and then waited for once more.
GroupPopulated ==
  /\ At("empty")
  /\ (Populated(cur) /\ UNCHANGED incidents) \/ Fault
  /\ \/ /\ run.interrupted /\ Killed(cur, FALSE)
        /\ Goto("again") /\ UNCHANGED run
     \/ /\ ~run.interrupted /\ run' = [run EXCEPT !.broken = TRUE]
        /\ Goto("leave") /\ UNCHANGED <<leader, code, desc>>
  /\ UNCHANGED <<record, active, locks, requests, out, group, history, starts>>

\* The second wait fails, or the kill before it.
GroupUnproven ==
  /\ At("again") /\ Fault
  /\ \/ run' = [run EXCEPT !.broken = TRUE] /\ Goto("leave")
     \/ Escape
  /\ UNCHANGED <<record, active, locks, requests, kernel, history, starts>>

Destroy ==
  /\ At("destroy")
  /\ \/ /\ group' = group \ {cur} /\ run' = [run EXCEPT !.retired = TRUE]
        /\ UNCHANGED incidents
     \/ /\ Fault /\ run' = [run EXCEPT !.broken = TRUE] /\ UNCHANGED group
  /\ Goto("leave")
  /\ UNCHANGED <<record, active, locks, requests, leader, code, desc, out,
                 history, starts>>

Leave ==
  /\ At("leave") /\ lock = "free"
  /\ lock' = "owner" /\ Goto("pop")
  /\ UNCHANGED <<record, run, active, cmd, requests, kernel, history, bounds>>

Pop ==
  /\ At("pop")
  /\ active' = FALSE /\ lock' = "free" /\ Goto("returned")
  /\ UNCHANGED <<record, run, cmd, requests, kernel, history, bounds>>

\* _canonical_result: a claim stands only for a started worker that ended
\* with status 0, whole output and one well-formed report.
Conclusion ==
  IF run.started /\ code /\ ~run.broken /\ run.claim /\ ~run.error
  THEN "claimed" ELSE "failed"

\* The call's locals, the worker's pipe and its status are forgotten.
CallEnds == run' = NewRun /\ out' = <<>> /\ code' = FALSE

\* Back in run_iteration: post-worker is saved only of a retired group, and
\* without it the iteration ends in an error that leaves the record.
Returned ==
  /\ At("returned")
  /\ stage' = IF run.retired THEN "none" ELSE stage
  /\ deceived' = IF run.retired /\ ~run.started /\ ~Gone(cur)
                 THEN deceived \cup {cur} ELSE deceived
  /\ Goto("idle") /\ CallEnds
  /\ UNCHANGED <<cur, active, locks, requests, leader, desc, group, late,
                 bounds>>

\* Mutant: a launch whose worker was never identified is taken for absent.
ObserveAnyStage ==
  /\ At("idle") /\ stage # "none" /\ ~abort
  /\ Absent(cur)
  /\ stage' = "none"
  /\ late' = IF stage = "running" /\ leader[cur] = "joining"
             THEN late \cup {cur} ELSE late
  /\ UNCHANGED <<cur, thread, locks, requests, kernel, deceived, bounds>>

\* _reconcile_stranded_execution: only an observed, absent worker is
\* normalized; live or indeterminate ones, and a bare launch, block.
ObserveAbsent ==
  /\ At("idle") /\ stage = "running" /\ ~abort
  /\ Absent(cur)
  /\ stage' = "none"
  /\ late' = IF leader[cur] = "joining" THEN late \cup {cur} ELSE late
  /\ UNCHANGED <<cur, thread, locks, requests, kernel, deceived, bounds>>

\* _lifecycle_exit_ready asks for active_count under the supervisor's lock.
CountEnter ==
  /\ At("idle") /\ intent /\ lock = "free"
  /\ lock' = "owner" /\ Goto("count")
  /\ UNCHANGED <<record, run, active, cmd, requests, kernel, history, bounds>>

\* What a process leaves behind when it is gone.
ProcessGone ==
  /\ pc' = "down" /\ active' = FALSE /\ CallEnds
  /\ lock' = "free" /\ cmd' = "free"
  /\ draining' = FALSE /\ intent' = FALSE /\ abort' = FALSE
  /\ handler' = "none" /\ conn' = [c \in Conns |-> "idle"]
  /\ UNCHANGED <<record, leader, desc, group, history, starts>>

Exit == At("count") /\ ~active /\ ProcessGone /\ UNCHANGED incidents
ExitAborted == At("idle") /\ abort /\ ProcessGone /\ UNCHANGED incidents
Crash == pc # "down" /\ ProcessGone /\ Incident

Start ==
  /\ pc = "down" /\ starts < MaxStarts
  /\ starts' = starts + 1 /\ Goto("idle")
  /\ UNCHANGED <<record, run, active, locks, requests, kernel, history, incidents>>

-----------------------------------------------------------------------------
\* Signals and lifecycle requests.

\* Once per process.
Sigint ==
  /\ pc # "down" /\ ~abort /\ abort' = TRUE
  /\ UNCHANGED <<record, thread, locks, draining, intent, handler, conn, kernel,
                 history, bounds>>

Sigterm ==
  /\ pc # "down" /\ handler = "none" /\ ~intent
  /\ handler' = "command" /\ Incident
  /\ UNCHANGED <<record, thread, locks, draining, intent, abort, conn, kernel,
                 history, starts>>

HandlerCommand ==
  /\ handler = "command" /\ cmd = "free"
  /\ cmd' = "owner" /\ handler' = "drain"
  /\ UNCHANGED <<record, thread, lock, draining, intent, abort, conn, kernel,
                 history, bounds>>

\* begin_drain, or the count in the answer when a stop was accepted before:
\* both take the supervisor's lock.
HandlerDrain ==
  /\ handler = "drain" /\ lock = "free"
  /\ draining' = TRUE /\ intent' = TRUE
  /\ cmd' = "free" /\ handler' = "none"
  /\ UNCHANGED <<record, thread, lock, abort, conn, kernel, history, bounds>>

Request(c) ==
  /\ pc # "down" /\ conn[c] = "idle"
  /\ conn' = [conn EXCEPT ![c] = "waiting"] /\ Incident
  /\ UNCHANGED <<record, thread, locks, draining, intent, abort, handler, kernel,
                 history, starts>>

RequestCommand(c) ==
  /\ conn[c] = "waiting" /\ cmd = "free"
  /\ cmd' = c /\ conn' = [conn EXCEPT ![c] = "holding"]
  /\ UNCHANGED <<record, thread, lock, draining, intent, abort, handler, kernel,
                 history, bounds>>

RequestDrain(c) ==
  /\ conn[c] = "holding" /\ lock = "free"
  /\ draining' = TRUE /\ conn' = [conn EXCEPT ![c] = "drained"]
  /\ UNCHANGED <<record, thread, locks, intent, abort, handler, kernel, history,
                 bounds>>

\* Mutant: the command lock is not given back.
RequestKeepsLock(c) ==
  /\ conn[c] = "drained"
  /\ intent' = TRUE
  /\ \E force \in BOOLEAN : abort' = (abort \/ force)
  /\ conn' = [conn EXCEPT ![c] = "done"]
  /\ UNCHANGED <<record, thread, locks, draining, handler, kernel, history,
                 bounds>>

\* The intent, the abort of a forced request, and the locks released.
RequestAccepted(c) ==
  /\ conn[c] = "drained"
  /\ intent' = TRUE
  /\ \E force \in BOOLEAN : abort' = (abort \/ force)
  /\ cmd' = "free" /\ conn' = [conn EXCEPT ![c] = "done"]
  /\ UNCHANGED <<record, thread, lock, draining, handler, kernel, history,
                 bounds>>

-----------------------------------------------------------------------------
\* Worker processes and the reader thread.

\* The reader thread lives from the spawn to its join.
Reading == pc \in {"identity", "wait", "finish", "join"}

\* The joiner enters the group and becomes the worker, or ends with 127.
JoinerEnters(e) ==
  /\ leader[e] = "joining"
  /\ \E s \in {"running", "exited"} :
       /\ s = "running" => e \in group
       /\ leader' = [leader EXCEPT ![e] = s]
  /\ UNCHANGED <<record, thread, locks, requests, code, desc, out, group,
                 history, bounds>>

LeaderExits(e) ==
  /\ leader[e] = "running"
  /\ leader' = [leader EXCEPT ![e] = "exited"]
  /\ \E ok \in BOOLEAN : code' = IF e = cur /\ Reading THEN ok ELSE code
  /\ UNCHANGED <<record, thread, locks, requests, desc, out, group, history,
                 bounds>>

Fork(e) ==
  /\ leader[e] = "running" /\ desc[e] = "none"
  /\ \E d \in {"quiet", "piped"} : desc' = [desc EXCEPT ![e] = d]
  /\ UNCHANGED <<record, thread, locks, requests, leader, code, out, group,
                 history, bounds>>

DescendantEnds(e) ==
  /\ desc[e] # "none"
  /\ desc' = [desc EXCEPT ![e] = "none"]
  /\ UNCHANGED <<record, thread, locks, requests, leader, code, out, group,
                 history, bounds>>

WorkerWrites ==
  /\ Reading /\ Len(out) < MaxEvents
  /\ leader[cur] = "running" \/ desc[cur] = "piped"
  /\ \E v \in Events : out' = Append(out, v)
  /\ UNCHANGED <<record, thread, locks, requests, leader, code, desc, group,
                 history, bounds>>

\* consume_stdout and WorkerEgressParser.consume on one event.
Consume(r, v) ==
  [r EXCEPT !.read = @ + 1,
            !.error = @ \/ v = "bad" \/ (v = "report" /\ r.claim),
            !.claim = @ \/ (v = "report" /\ ~r.error)]

ReaderConsumes ==
  /\ Reading /\ run.read < Len(out)
  /\ run' = Consume(run, out[run.read + 1])
  /\ UNCHANGED <<record, pc, active, locks, requests, kernel, history, bounds>>

\* The execution log cannot be written: the worker is told to terminate.
LogFails ==
  /\ Reading /\ run.read < Len(out) /\ Fault
  /\ run' = [Consume(run, out[run.read + 1]) EXCEPT !.broken = TRUE]
  /\ UNCHANGED <<record, pc, active, locks, requests, kernel, history, starts>>

-----------------------------------------------------------------------------
\* run() up to the worker's exit or an interruption, and the rest of it with
\* what the owner thread does between two calls.
LaunchStep ==
  \/ Launch \/ Enter \/ AdmitRefused \/ Admit \/ Create \/ CreateFails
  \/ Spawn \/ SpawnFails
  \/ RecordIdentity \/ IdentityFails \/ WaitExited \/ Interrupt

RetireStep ==
  \/ FinishTimeout \/ FinishExited \/ KillFails \/ JoinReaders \/ GroupEmpty
  \/ GroupPopulated \/ GroupUnproven \/ Destroy \/ Leave \/ Pop \/ Returned
  \/ ObserveAbsent \/ CountEnter \/ Exit \/ ExitAborted

OwnerStep == LaunchStep \/ RetireStep

HandlerStep == HandlerCommand \/ HandlerDrain
ConnStep(c) == RequestCommand(c) \/ RequestDrain(c) \/ RequestAccepted(c)

Next ==
  \/ OwnerStep \/ Crash \/ Start \/ Sigint \/ Sigterm \/ HandlerStep
  \/ \E c \in Conns : Request(c) \/ ConnStep(c)
  \/ \E e \in Execs : \/ JoinerEnters(e) \/ LeaderExits(e)
                      \/ Fork(e) \/ DescendantEnds(e)
  \/ WorkerWrites \/ ReaderConsumes \/ LogFails

\* Threads run; processes end, signals and requests arrive when they like.
Fairness ==
  /\ WF_vars(OwnerStep) /\ WF_vars(HandlerStep) /\ WF_vars(ReaderConsumes)
  /\ \A c \in Conns : WF_vars(ConnStep(c))

Spec == Init /\ [][Next]_vars /\ Fairness

-----------------------------------------------------------------------------
\* Correctness.

\* A worker is started only when every earlier worker's processes have
\* ended: a launch never overlaps an older execution in the shared worktree
\* (duplicate launch refused, runtime.py:8334).  The two ways the code can be
\* misled are excepted by name: a result that claims a retirement it has not
\* seen, and a joiner that enters its group after the group was found empty.
WorkersNeverOverlap ==
  [][\A e \in Execs : leader[e] = "none" /\ leader'[e] # "none" =>
       \A f \in Execs \ {e} : Gone(f) \/ f \in deceived \cup late]_vars

\* Without a crash no process of a worker is ever left without a record: at
\* every orderly end of the service (_lifecycle_exit_ready, the aborted
\* loop) and between two iterations, a worker that is still alive is the
\* recorded one.
IdleLeavesNoWorker ==
  pc \in {"idle", "count"} =>
    \A e \in Execs : \/ Gone(e) \/ e \in deceived \cup late
                     \/ e = cur /\ stage # "none"

\* A conclusion taken from the worker's claim means that its whole output
\* was one well-formed report and that its leader ended with status 0,
\* whatever the reader thread, the worker's descendants and the kills did.
ClaimIsWhole ==
  pc = "returned" /\ Conclusion = "claimed" => code /\ out = <<"report">>

\* The owner thread waits for a lock it holds itself.
SelfDeadlock == handler # "none" /\ lock = "owner"

\* The leader ended by itself and a descendant holds the worker's output
\* open while the reader is joined: the stop request is not looked at there.
OutputHeld == pc = "join" /\ desc[cur] = "piped" /\ ~run.interrupted

InRun == pc \in Pcs \ {"down", "idle", "count"}

\* An abort ends the worker's supervision: run() returns, whatever the
\* worker does with its signals, unless its output is held open or the
\* owner thread stands in a handler (_run_opencode, finish_interrupted).
AbortEnds ==
  []<>(~(abort /\ InRun) \/ OutputHeld \/ SelfDeadlock)

\* Every lifecycle request on a connection thread and every SIGTERM gets
\* through the two locks, taken in one order by all, unless SIGTERM arrived
\* while the owner thread held the supervisor's lock, which is not reentrant
\* (WorkerSupervisor._lock, request_lifecycle).
OnlySelfDeadlock ==
  /\ \A c \in Conns : []<>(conn[c] # "waiting" \/ SelfDeadlock)
  /\ []<>(handler = "none" \/ SelfDeadlock)

\* docs/EXECUTION_OWNERSHIP.md: a group is reported retired only when it is
\* empty.
RetiredOnlyWhenEmpty == deceived = {}

-----------------------------------------------------------------------------
\* The inductive invariant of the proofs, in named parts.

\* No process of the execution is left, or the code was misled about it.
Accounted(e) == Gone(e) \/ e \in deceived \cup late

BeforeSpawn == {"enter", "admit", "create", "spawn"}
AfterJoin == {"empty", "again", "destroy"}
Leaving == {"leave", "pop", "returned"}

\* An execution that was not launched yet has no process.
FutureIsEmpty ==
  \A e \in Execs : e > cur => leader[e] = "none" /\ desc[e] = "none"

\* An execution is launched only when the one before is accounted for, and
\* the persisted record is given up only then.
PastIsAccounted == \A e \in Execs : e < cur => Accounted(e)
RecordCoversLast == stage = "none" => \A e \in Execs : Accounted(e)

\* The owner thread is inside run() only with a record of the launch.
RunIsRecorded == InRun => stage # "none" /\ cur \in Execs

\* Where the leader of the current execution can be, seen from the owner.
LeaderShape ==
  /\ pc \in BeforeSpawn => leader[cur] = "none" /\ desc[cur] = "none"
  /\ pc \in AfterJoin => leader[cur] = "exited" /\ desc[cur] # "piped"
  /\ pc = "destroy" => Gone(cur)

\* What the locals of run() say when the call is not leaving yet, and that a
\* retirement they claim of a started worker is true.
RunShape ==
  /\ pc \notin Leaving => run.started /\ ~run.retired
  /\ pc \in Leaving /\ run.started /\ run.retired => Gone(cur)

\* The parser accepts exactly one report and nothing else.
ParserShape ==
  /\ run.read <= Len(out)
  /\ ~run.error => /\ run.read <= 1
                   /\ run.claim <=> run.read = 1
                   /\ run.read = 1 => out[1] = "report"

\* A started worker's output was read to its end unless the run is broken.
OutputRead ==
  /\ pc \in AfterJoin => run.read = Len(out)
  /\ pc \in Leaving /\ run.started /\ ~run.broken => run.read = Len(out)
  /\ ~InRun \/ pc \in BeforeSpawn => run.read = 0 /\ out = <<>>

IInv ==
  /\ TypeOK
  /\ FutureIsEmpty /\ PastIsAccounted /\ RecordCoversLast
  /\ RunIsRecorded /\ LeaderShape /\ RunShape /\ ParserShape /\ OutputRead
=============================================================================
