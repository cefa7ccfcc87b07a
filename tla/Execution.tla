----------------------------- MODULE Execution -----------------------------
(***************************************************************************)
(* One ticket's executions under the hosted service (runtime.py:           *)
(* _run_iteration_body and what it calls): admission, worker launch,       *)
(* checkpoint, publication of the execution branch, the control-plane      *)
(* lifecycle, and what a new process does with the persisted record of an  *)
(* execution whose owner was lost.                                         *)
(*                                                                         *)
(* st is the state file: _save_state replaces it in one step, so that a    *)
(* crash falls between two saves, and between a save and the side effect   *)
(* (worker, commit, push) it announces.  Everything else a process knows   *)
(* is volatile.  Git is abstracted to what the code compares: a product    *)
(* head, a control head (external commits and lifecycle commits), the      *)
(* workspace head and the published execution branch, the last two named   *)
(* by the execution whose checkpoint they are.                             *)
(*                                                                         *)
(* Not here: merge_pending (synchronization is one step), the resolution   *)
(* of a pending reconciliation, the automatic retry of an execution that   *)
(* changed nothing while the product moved (it stays in post-checkpoint),  *)
(* drop, recover and retry --force.                                        *)
(***************************************************************************)
EXTENDS Naturals, FiniteSets

CONSTANTS
  MaxExecs,      \* bound: executions admitted
  MaxChanges,    \* bound: external commits, to product and control together
  MaxCrashes,    \* bound: crashes of the service process
  MaxRequests    \* bound: lifecycle requests and SIGINTs

ASSUME BoundsAssumption ==
  /\ MaxExecs \in Nat \ {0}
  /\ MaxChanges \in Nat /\ MaxCrashes \in Nat /\ MaxRequests \in Nat

Execs == 1..MaxExecs
NoExec == 0
Heads == 0..MaxChanges
ControlHeads == [ext : Heads, own : 0..MaxExecs]
Generations == [product : Heads, control : ControlHeads]
NoGeneration == [product |-> 0, control |-> [ext |-> 0, own |-> MaxExecs + 1]]

Phases == {"idle", "agent_pending", "agent_running"}
Stages == {"none", "worker-launch", "worker-running", "post-worker",
           "checkpointing", "post-checkpoint", "publishing",
           "post-publication", "lifecycle"}
Kinds == {"none", "operator_abort", "process_loss"}
Conclusions == {"none", "failed", "done"}

\* failed_executions[ticket]; exec = NoExec when there is no entry.
Failures == [exec : 0..MaxExecs, interrupted : BOOLEAN, kind : Kinds,
             generation : BOOLEAN, at : Generations \cup {NoGeneration}]
NoFailure == [exec |-> NoExec, interrupted |-> FALSE, kind |-> "none",
              generation |-> FALSE, at |-> NoGeneration]

States ==
  [phase : Phases, stage : Stages,
   exec : 0..MaxExecs,            \* execution_id, and the ticket's lineage
   base : Heads,                  \* execution_base_head
   local : Heads,                 \* local_head = remote_head at admission
   bound : ControlHeads,          \* execution_control_head
   start : 0..MaxExecs,           \* execution_start_head
   remote : 0..MaxExecs,          \* execution_remote_head
   identity : BOOLEAN,            \* worker_identity is recorded
   kind : Kinds,                  \* execution_interruption_kind
   marker : 0..MaxExecs,          \* manual_retry_required.execution_id
   failed : Failures,
   handled : Generations \cup {NoGeneration},
   report : Conclusions,          \* pending_execution_report
   reconciliation : BOOLEAN]

Pcs == {"down", "loop", "retry", "plan", "select", "pending", "prepared",
        "launch", "spawned", "running", "signalled", "post-worker",
        "checkpointing", "checkpointed", "drain", "post-checkpoint",
        "publishing", "pushed", "post-publication", "lifecycle", "applied"}

Auths == {"none", "resume", "retry"}
Intents == {"none", "stop", "restart"}

VARIABLES
  st,          \* the persisted state
  product,     \* product branch head, local checkout kept in step
  control,     \* control branch head
  ticket,      \* "todo" or "review" in the control tree
  seen,        \* the generation last synchronized into the local checkouts
  ws,          \* execution workspace head
  dirty,       \* the execution workspace holds uncommitted work
  branch,      \* published head of the execution branch
  workers,     \* executions with a live worker process group
  reports,     \* lifecycle commits: execution and checkpoint head
  \* volatile
  pc,          \* where the owner thread is
  auth,        \* ExecutionAuthorization
  pend,        \* pending_agent_execution
  recovering,  \* entered through _recover_checkpoint_publication
  aborted,     \* this process interrupted the running worker
  held,        \* conclusion of the report the owner has in hand
  intent,      \* _lifecycle_intent
  stop,        \* _stop_event (operator_abort)
  snap,        \* state read by a forced stop that has not saved yet
  \* history
  launches,    \* per execution, how it was launched
  results,     \* what each worker really ended with
  retired,     \* executions whose results were put away
  changes, crashes, requests

NoLaunch == [auth |-> "unlaunched", at |-> NoGeneration]
Launches == [auth : Auths, at : Generations] \cup {NoLaunch}
InitialState ==
  [phase |-> "idle", stage |-> "none", exec |-> NoExec, base |-> 0,
   local |-> 0, bound |-> [ext |-> 0, own |-> 0], start |-> 0, remote |-> 0,
   identity |-> FALSE, kind |-> "none", marker |-> NoExec,
   failed |-> NoFailure, handled |-> NoGeneration, report |-> "none",
   reconciliation |-> FALSE]

\* Not a state: no forced stop is between its read and its save.
NoSnap == [InitialState EXCEPT !.phase = "none"]

persistent == <<st, product, control, ticket, seen, ws, dirty, branch,
                workers, reports>>
task == <<auth, pend, recovering, aborted, held>>
local == <<pc, task>>
signals == <<intent, stop, snap>>
history == <<launches, results, retired>>
bounds == <<changes, crashes, requests>>
vars == <<persistent, local, signals, history, bounds>>

world == <<product, control, ticket, seen, ws, dirty, branch, workers,
           reports>>

Current == [product |-> product, control |-> control]
Draining == intent # "none"
StopBeforeAdmission == stop \/ Draining

TypeOK ==
  /\ st \in States
  /\ product \in Heads
  /\ control \in ControlHeads
  /\ ticket \in {"todo", "review"}
  /\ seen \in Generations
  /\ ws \in 0..MaxExecs
  /\ dirty \in BOOLEAN
  /\ branch \in 0..MaxExecs
  /\ workers \subseteq Execs
  /\ reports \subseteq [exec : Execs, head : 0..MaxExecs]
  /\ pc \in Pcs
  /\ auth \in Auths
  /\ pend \in BOOLEAN
  /\ recovering \in BOOLEAN
  /\ aborted \in BOOLEAN
  /\ held \in Conclusions
  /\ intent \in Intents
  /\ stop \in BOOLEAN
  /\ snap \in States \cup {NoSnap}
  /\ launches \in [Execs -> Launches]
  /\ results \in [Execs -> Conclusions]
  /\ retired \subseteq Execs
  /\ changes \in 0..MaxChanges
  /\ crashes \in 0..MaxCrashes
  /\ requests \in 0..MaxRequests

Init ==
  /\ st = InitialState
  /\ product = 0
  /\ control = [ext |-> 0, own |-> 0]
  /\ ticket = "todo"
  /\ seen = [product |-> 0, control |-> [ext |-> 0, own |-> 0]]
  /\ ws = NoExec /\ dirty = FALSE /\ branch = NoExec
  /\ workers = {} /\ reports = {}
  /\ pc = "loop"
  /\ auth = "none" /\ pend = FALSE /\ recovering = FALSE /\ aborted = FALSE
  /\ held = "none"
  /\ intent = "none" /\ stop = FALSE /\ snap = NoSnap
  /\ launches = [e \in Execs |-> NoLaunch]
  /\ results = [e \in Execs |-> "none"]
  /\ retired = {}
  /\ changes = 0 /\ crashes = 0 /\ requests = 0

-----------------------------------------------------------------------------
(* Building blocks. *)

\* _save_state("idle", ...) also drops the report, the interruption kind and
\* the worker identity.
Idle(s) == [s EXCEPT !.phase = "idle", !.report = "none", !.kind = "none",
                     !.identity = FALSE]

Goto(from, to) == pc = from /\ pc' = to

\* The iteration returns or raises an error the polling loop absorbs.
BackToLoop ==
  /\ pc' = "loop"
  /\ auth' = "none" /\ pend' = FALSE /\ recovering' = FALSE
  /\ aborted' = FALSE /\ held' = "none"

\* The checks for a drain take the lifecycle lock, which request_lifecycle
\* holds until it has saved its marker; a set stop event comes first.
MayStop == stop \/ (Draining /\ snap = NoSnap)

\* The process is gone; the lifecycle intent and the stop event with it.
ProcessEnds ==
  /\ pc' = "down"
  /\ auth' = "none" /\ pend' = FALSE /\ recovering' = FALSE
  /\ aborted' = FALSE /\ held' = "none"
  /\ intent' = "none" /\ stop' = FALSE /\ snap' = NoSnap

\* Mutant: the recovery dispatch forgets an interrupted push.
RecoverableStagesWithoutPublishing ==
  {"checkpointing", "post-checkpoint", "post-publication", "lifecycle"}

RecoverableStages == {"checkpointing", "post-checkpoint", "publishing",
                      "post-publication", "lifecycle"}

FailureAt(e, kind, gen) ==
  [exec |-> e, interrupted |-> kind # "none", kind |-> kind,
   generation |-> TRUE, at |-> gen]

Resumable(kind) == kind \in {"operator_abort", "process_loss"}

-----------------------------------------------------------------------------
(* Start of an iteration. *)

\* run_iteration finds nothing to recover and goes on to synchronize.
IterationPlans ==
  /\ pc = "loop" /\ ~StopBeforeAdmission
  /\ st.phase # "agent_running"
  /\ pc' = "plan"
  /\ pend' = (st.phase = "agent_pending")
  /\ UNCHANGED <<persistent, auth, recovering, aborted, held, signals,
                 history, bounds>>

\* _recover_checkpoint_publication / _recover_lifecycle_report: go on from
\* the persisted stage.
IterationRecovers ==
  /\ pc = "loop" /\ ~stop
  /\ st.phase = "agent_running" /\ st.stage \in RecoverableStages
  /\ pc' = IF st.stage \in {"publishing", "post-publication"}
           THEN "post-checkpoint" ELSE st.stage
  /\ recovering' = TRUE
  /\ held' = st.report
  /\ UNCHANGED <<persistent, auth, pend, aborted, signals, history, bounds>>

LostKind == IF st.kind = "none" THEN "process_loss" ELSE st.kind

Absent == st.exec \notin workers

\* Mutant: normalization does not observe the worker's containment.
NormalizableUnobserved ==
  /\ st.stage \in {"worker-running", "post-worker"}
  /\ product = st.local
  /\ ticket = "todo"
  /\ ws = st.start

Normalizable ==
  /\ \/ st.stage = "worker-running" /\ Absent
     \/ st.stage = "post-worker"
  /\ product = st.local
  /\ ticket = "todo"
  /\ ws = st.start

Stranded == st.phase = "agent_running" /\ st.stage \notin RecoverableStages

\* _reconcile_stranded_execution, _normalize_stranded_execution: the lost
\* execution becomes an interrupted failure and its ticket is resumed, by
\* the operator's retry or automatically.
Normalize ==
  /\ pc \in {"loop", "retry"} /\ ~stop
  /\ Stranded /\ Normalizable
  /\ st' = [Idle(st) EXCEPT !.failed = FailureAt(st.exec, LostKind, Current),
                            !.handled = Current]
  /\ seen' = Current
  /\ pc' = "plan"
  /\ auth' = IF pc = "retry" THEN "retry" ELSE "resume"
  /\ retired' = retired \cup {st.exec}
  /\ UNCHANGED <<product, control, ticket, ws, dirty, branch, workers,
                 reports, pend, recovering, aborted, held, signals,
                 launches, results, bounds>>

\* Ownership or the generation is not proven, or git fails; the kind is
\* saved first.  The service stays up, blocked, except that a post-worker
\* stage is missing from _has_blocked_execution_stage: there the error ends
\* the service.
StrandedBlocked ==
  /\ pc \in {"loop", "retry"} /\ ~stop /\ Stranded
  /\ st' = [st EXCEPT !.kind = LostKind]
  /\ IF pc = "loop" /\ st.stage = "post-worker"
     THEN ProcessEnds ELSE BackToLoop /\ UNCHANGED signals
  /\ UNCHANGED <<world, history, bounds>>

\* What `retry` may be admitted for: a failure of exactly the generation of
\* the local checkouts, or a stranded execution without a worker.
Retryable ==
  \/ /\ st.phase = "idle" /\ ~st.reconciliation /\ ticket = "todo"
     /\ st.failed.exec # NoExec /\ st.failed.at = seen
  \/ /\ st.phase = "agent_running"
     /\ st.stage \in {"worker-running", "post-worker"} /\ Absent

\* _validate_retry_admission and _record_operator_admission, which clears
\* the manual-retry marker of the execution.
AdmitRetry ==
  /\ Goto("loop", "retry") /\ ~StopBeforeAdmission /\ Retryable
  /\ st' = [st EXCEPT !.marker = IF @ = st.exec THEN NoExec ELSE @]
  /\ UNCHANGED <<world, task, signals, history, bounds>>

\* _retry_owned for a failed execution; it does nothing after a stop.
DispatchRetry ==
  /\ pc = "retry"
  /\ IF stop
     THEN BackToLoop
     ELSE /\ st.phase = "idle"
          /\ pc' = "plan" /\ auth' = "retry"
          /\ UNCHANGED <<pend, recovering, aborted, held>>
  /\ UNCHANGED <<persistent, signals, history, bounds>>

-----------------------------------------------------------------------------
(* Selection and admission. *)

\* A stop or drain before admission, a pending reconciliation, or a failed
\* fetch.
PlanStops ==
  /\ pc = "plan" /\ (MayStop \/ ~Draining)
  /\ BackToLoop
  /\ UNCHANGED <<persistent, signals, history, bounds>>

CanPlan == pc = "plan" /\ ~StopBeforeAdmission /\ ~st.reconciliation

\* Synchronization finds the ticket in review: nothing to run.
PlanNothing ==
  /\ CanPlan /\ ticket = "review" /\ ~pend /\ auth = "none"
  /\ st' = [Idle(st) EXCEPT !.handled = Current]
  /\ seen' = Current
  /\ BackToLoop
  /\ UNCHANGED <<product, control, ticket, ws, dirty, branch, workers,
                 reports, signals, history, bounds>>

PlanSelects ==
  /\ CanPlan
  /\ IF pend THEN ws = st.start /\ ~dirty ELSE ticket = "todo"
  /\ seen' = Current
  /\ pc' = "select"
  /\ UNCHANGED <<st, product, control, ticket, ws, dirty, branch, workers,
                 reports, task, signals, history, bounds>>

\* The workspace head is the checkpoint of exactly one report.
OlderGeneration == Cardinality({r \in reports : r.head = ws}) = 1

\* _inspect_bound_execution_workspace for a pending execution whose
\* workspace is not clean at execution_start_head.  That field is written at
\* launch, so for a later execution of a lineage it still is its
\* predecessor's.  A head that is a reported checkpoint passes for an older
\* generation: _repair_bound_execution_workspace moves the branch back to
\* the base, which is reusable only if the predecessor had started there.
PlanRepairs ==
  /\ CanPlan /\ pend /\ ~dirty /\ ws # st.start /\ OlderGeneration
  /\ seen' = Current
  /\ ws' = NoExec
  /\ IF st.start = NoExec
     THEN pc' = "select" /\ UNCHANGED task
     ELSE BackToLoop
  /\ UNCHANGED <<st, product, control, ticket, dirty, branch, workers,
                 reports, signals, history, bounds>>

\* Anything else is unsafe and waits for `recover`; but a dirty workspace at
\* a reported checkpoint is a repair that fails, which ends the service.
PlanUnsafe ==
  /\ CanPlan /\ pend /\ (dirty \/ ws # st.start)
  /\ dirty \/ ~OlderGeneration
  /\ seen' = Current
  /\ IF OlderGeneration THEN ProcessEnds ELSE BackToLoop /\ UNCHANGED signals
  /\ UNCHANGED <<st, product, control, ticket, ws, dirty, branch, workers,
                 reports, history, bounds>>

MarkerMatches ==
  st.failed.exec = st.marker /\ st.failed.generation

\* A manual-retry marker for anything but the recorded failure is dropped;
\* the save sets the phase to idle, also for a pending execution.
DropMarker ==
  /\ pc = "select" /\ st.marker # NoExec /\ ~MarkerMatches
  /\ st' = [Idle(st) EXCEPT !.marker = NoExec]
  /\ UNCHANGED <<world, local, signals, history, bounds>>

MarkerSettled == st.marker = NoExec \/ MarkerMatches

SameGeneration == st.handled = seen

AutoResume ==
  /\ auth = "none" /\ ~pend /\ st.failed.interrupted
  /\ Resumable(st.failed.kind) /\ SameGeneration /\ st.marker = NoExec

\* An interrupted failure that may not resume, a failure of this generation
\* and a lineage whose generation is handled all wait for something new.
Suppressed ==
  /\ auth = "none" /\ ~pend
  /\ \/ st.failed.interrupted /\ ~AutoResume
     \/ ~st.failed.interrupted /\ SameGeneration
          /\ (st.failed.exec # NoExec \/ st.exec # NoExec)

SelectSuppresses ==
  /\ pc = "select" /\ MarkerSettled /\ Suppressed
  /\ BackToLoop
  /\ UNCHANGED <<persistent, signals, history, bounds>>

Authorization == IF AutoResume THEN "resume" ELSE auth

\* An authorization whose failure no longer is the current generation.  An
\* operator's retry is answered with the error; an automatic resume raises
\* it out of the polling loop, which ends the service.
SelectStale ==
  /\ pc = "select" /\ MarkerSettled
  /\ Authorization # "none" /\ st.failed.at # seen
  /\ IF auth = "retry" THEN BackToLoop /\ UNCHANGED signals ELSE ProcessEnds
  /\ UNCHANGED <<persistent, history, bounds>>

NextExec == Cardinality({e \in Execs : launches[e] # NoLaunch}) + 1

\* Save agent_pending.  A fresh execution gets a new id; the lineage's base
\* is kept.
Admit ==
  /\ pc = "select" /\ MarkerSettled /\ ~Suppressed
  /\ Authorization # "none" => st.failed.at = seen
  /\ ~pend => NextExec \in Execs
  /\ LET e == IF pend THEN st.exec ELSE NextExec
     IN /\ st' = [st EXCEPT
                    !.phase = "agent_pending", !.exec = e,
                    !.base = IF st.exec # NoExec THEN @ ELSE seen.product,
                    !.local = seen.product,
                    !.bound = IF pend THEN @ ELSE seen.control,
                    !.remote = IF pend THEN @ ELSE branch,
                    !.identity = FALSE, !.handled = seen]
        /\ auth' = Authorization
        /\ launches' = IF pend THEN launches
                       ELSE [launches EXCEPT
                               ![e] = [auth |-> Authorization, at |-> seen]]
  /\ pc' = "pending"
  /\ UNCHANGED <<world, pend, recovering, aborted, held, signals, results,
                 retired, bounds>>

\* The two gates between admission and the launch.
GateStops ==
  /\ pc \in {"pending", "prepared"} /\ MayStop
  /\ BackToLoop
  /\ UNCHANGED <<persistent, signals, history, bounds>>

\* _prepare_execution_workspace: a pending execution whose control revision
\* is not the one just synchronized raises ExecutionWorkspaceError, which
\* ends the service.
PrepareWorkspace ==
  /\ pc = "pending" /\ ~StopBeforeAdmission
  /\ IF st.bound = seen.control
     THEN pc' = "prepared" /\ UNCHANGED <<task, signals>>
     ELSE ProcessEnds
  /\ UNCHANGED <<persistent, history, bounds>>

CommitLaunch ==
  /\ pc = "prepared" /\ ~StopBeforeAdmission
  /\ st' = [st EXCEPT !.phase = "agent_running", !.stage = "worker-launch",
                      !.start = ws, !.identity = FALSE]
  /\ pc' = "launch"
  /\ UNCHANGED <<world, task, signals, history, bounds>>

-----------------------------------------------------------------------------
(* The worker. *)

\* Mutant: a refused launch also forgets the handled generation.
LaunchRefusedUnhandled ==
  /\ pc = "launch" /\ Draining
  /\ st' = [Idle(st) EXCEPT !.stage = "none", !.handled = NoGeneration]
  /\ BackToLoop
  /\ UNCHANGED <<world, signals, history, bounds>>

\* workers.run refuses: WorkerAdmissionClosed.
LaunchRefused ==
  /\ pc = "launch" /\ Draining
  /\ st' = [Idle(st) EXCEPT !.stage = "none"]
  /\ BackToLoop
  /\ UNCHANGED <<world, signals, history, bounds>>

Spawn ==
  /\ pc = "launch" /\ ~Draining
  /\ workers' = workers \cup {st.exec}
  /\ dirty' = TRUE
  /\ pc' = "spawned"
  /\ UNCHANGED <<st, product, control, ticket, seen, ws, branch, reports,
                 task, signals, history, bounds>>

\* No process: the containment cannot be created (a failed result) or the
\* spawn fails, which leaves worker-launch behind as unproven.
SpawnFails ==
  /\ pc = "launch" /\ ~Draining
  /\ \/ /\ st' = [st EXCEPT !.stage = "post-worker"]
        /\ results' = [results EXCEPT ![st.exec] = "failed"]
        /\ pc' = "post-worker"
        /\ UNCHANGED task
     \/ BackToLoop /\ UNCHANGED <<st, results>>
  /\ UNCHANGED <<world, signals, launches, retired, bounds>>

\* _record_worker_identity, unless the process has already exited.
RecordIdentity ==
  /\ Goto("spawned", "running")
  /\ st' = IF Absent THEN st
           ELSE [st EXCEPT !.stage = "worker-running", !.identity = TRUE]
  /\ UNCHANGED <<world, task, signals, history, bounds>>

\* The worker ends by itself, with or without an owner watching.
WorkerEnds ==
  /\ \E e \in workers, r \in {"failed", "done"} :
       /\ workers' = workers \ {e}
       /\ results' = [results EXCEPT ![e] = r]
  /\ UNCHANGED <<st, product, control, ticket, seen, ws, dirty, branch,
                 reports, local, signals, launches, retired, bounds>>

\* interrupt("operator_abort"): the signal goes out before it is recorded.
\* What the worker makes of it is its own business (WorkerEnds).
Interrupt ==
  /\ Goto("running", "signalled") /\ stop /\ ~aborted /\ ~Absent
  /\ aborted' = TRUE
  /\ UNCHANGED <<persistent, auth, pend, recovering, held, signals, history,
                 bounds>>

RecordInterruption ==
  /\ Goto("signalled", "running")
  /\ st' = [st EXCEPT !.kind = "operator_abort"]
  /\ UNCHANGED <<world, task, signals, history, bounds>>

\* The group is empty: save post-worker.
WorkerRetired ==
  /\ Goto("running", "post-worker") /\ Absent
  /\ st' = [st EXCEPT !.stage = "post-worker", !.identity = FALSE]
  /\ UNCHANGED <<world, task, signals, history, bounds>>

\* Mutant: an unproven retirement is saved as idle.
WorkerUnretiredIdle ==
  /\ pc = "running" /\ ~Absent
  /\ st' = Idle(st)
  /\ BackToLoop
  /\ UNCHANGED <<world, signals, history, bounds>>

\* The process ended but its group is still populated: retirement unproven.
WorkerUnretired ==
  /\ pc = "running" /\ ~Absent
  /\ BackToLoop
  /\ UNCHANGED <<persistent, signals, history, bounds>>

\* Submodule integrity fails: recorded as a failure without a report, and
\* the error ends the service.
IntegrityFails ==
  /\ pc = "post-worker"
  /\ st' = [Idle(st) EXCEPT
              !.failed = [FailureAt(st.exec, "none",
                                    [product |-> st.local,
                                     control |-> st.bound])
                          EXCEPT !.generation = FALSE],
              !.handled = [product |-> st.local, control |-> st.bound]]
  /\ retired' = retired \cup {st.exec}
  /\ ProcessEnds
  /\ UNCHANGED <<world, launches, results, bounds>>

SaveCheckpointing ==
  /\ Goto("post-worker", "checkpointing")
  /\ st' = [st EXCEPT !.stage = "checkpointing", !.report = results[st.exec]]
  /\ held' = results[st.exec]
  /\ UNCHANGED <<world, auth, pend, recovering, aborted, signals, history,
                 bounds>>

-----------------------------------------------------------------------------
(* Checkpoint and publication. *)

\* The commit in the execution worktree; recovery first proves that the
\* product did not move and recognizes a commit that is already there.
Checkpoint ==
  /\ Goto("checkpointing", "checkpointed")
  /\ recovering => product = st.local
  /\ ws' = IF dirty THEN st.exec ELSE ws
  /\ dirty' = FALSE
  /\ UNCHANGED <<st, product, control, ticket, seen, branch, workers,
                 reports, task, signals, history, bounds>>

\* Mutant: a failed checkpoint gives the execution up.
CheckpointBlockedIdle ==
  /\ pc = "checkpointing"
  /\ st' = Idle(st)
  /\ BackToLoop
  /\ UNCHANGED <<world, signals, history, bounds>>

\* Blocked by a product that moved, or a git failure.
CheckpointBlocked ==
  /\ pc = "checkpointing"
  /\ BackToLoop
  /\ UNCHANGED <<persistent, signals, history, bounds>>

\* The saves of a stage also write the report the owner has in hand, and so
\* repair a record that was saved over.
SaveCheckpoint ==
  /\ pc = "checkpointed"
  /\ st' = [st EXCEPT !.stage = "post-checkpoint", !.report = held]
  /\ pc' = IF recovering THEN "post-checkpoint" ELSE "drain"
  /\ UNCHANGED <<world, task, signals, history, bounds>>

\* The first owner leaves the rest to the next process when it drains.
DrainCheck ==
  /\ pc = "drain" /\ snap = NoSnap
  /\ IF Draining THEN BackToLoop
                 ELSE pc' = "post-checkpoint" /\ UNCHANGED task
  /\ UNCHANGED <<persistent, signals, history, bounds>>

ProductStable == product = st.base

\* Nothing was changed, nothing is published, and the product moved: left to
\* the automatic retry.
ZeroDeltaDrift == ~ProductStable /\ ws = NoExec /\ st.remote = NoExec

\* A moved product: pin the checkpoint as evidence, record the pending
\* reconciliation, and leave the execution.  Handled are the product just
\* observed and the control head of the last synchronization.
ReconciliationRequired ==
  /\ pc = "post-checkpoint" /\ ~ProductStable /\ ~ZeroDeltaDrift
  /\ st' = [Idle(st) EXCEPT !.reconciliation = TRUE,
              !.handled = [product |-> product, control |-> seen.control]]
  /\ retired' = retired \cup {st.exec}
  /\ BackToLoop
  /\ UNCHANGED <<world, signals, launches, results, bounds>>

ProductUnobservable ==
  /\ pc = "post-checkpoint"
  /\ BackToLoop
  /\ UNCHANGED <<persistent, signals, history, bounds>>

\* The first owner saves publishing; recovery goes on with what it has.
SavePublishing ==
  /\ pc = "post-checkpoint" /\ ProductStable
  /\ st' = IF recovering THEN st ELSE [st EXCEPT !.stage = "publishing"]
  /\ pc' = IF st.stage = "post-publication" THEN "post-publication"
                                            ELSE "publishing"
  /\ UNCHANGED <<world, task, signals, history, bounds>>

\* Push with a lease on the expected head, which must be an ancestor of the
\* checkpoint (in one lineage: the head the execution started from), or
\* recognize the own push.
Push ==
  /\ Goto("publishing", "pushed")
  /\ \/ branch = st.remote /\ st.remote \in {NoExec, st.start}
     \/ recovering /\ branch = ws
  /\ branch' = ws
  /\ UNCHANGED <<st, product, control, ticket, seen, ws, dirty, workers,
                 reports, task, signals, history, bounds>>

\* Mutant: the result of the push is not looked at.
PushFailsUnnoticed ==
  /\ Goto("publishing", "pushed")
  /\ UNCHANGED <<persistent, task, signals, history, bounds>>

PushFails ==
  /\ pc = "publishing"
  /\ BackToLoop
  /\ UNCHANGED <<persistent, signals, history, bounds>>

SavePublished ==
  /\ Goto("pushed", "post-publication")
  /\ st' = [st EXCEPT !.stage = "post-publication",
                      !.report = IF recovering THEN held ELSE @]
  /\ UNCHANGED <<world, task, signals, history, bounds>>

\* The first owner also saves the interruption kind its worker run reported.
SaveLifecycle ==
  /\ Goto("post-publication", "lifecycle")
  /\ recovering => branch = ws
  /\ st' = [st EXCEPT !.stage = "lifecycle", !.report = held,
                      !.kind = IF recovering THEN @
                               ELSE IF aborted THEN "operator_abort"
                               ELSE "none"]
  /\ UNCHANGED <<world, task, signals, history, bounds>>

\* _apply_execution_lifecycle (module ControlLifecycle): one commit with the
\* report and, for a result that is not failed, the move to review.
ApplyLifecycle ==
  /\ Goto("lifecycle", "applied")
  /\ recovering => product = st.local /\ branch = ws
  /\ IF \E r \in reports : r.exec = st.exec
     THEN UNCHANGED <<reports, control, ticket>>
     ELSE /\ ticket = "todo"
          /\ reports' = reports \cup {[exec |-> st.exec, head |-> ws]}
          /\ control' = [control EXCEPT !.own = @ + 1]
          /\ ticket' = IF held = "done" THEN "review" ELSE "todo"
  /\ seen' = [seen EXCEPT !.control = control']
  /\ UNCHANGED <<st, product, ws, dirty, branch, workers, task, signals,
                 history, bounds>>

LifecycleBlocked ==
  /\ pc = "lifecycle"
  /\ BackToLoop
  /\ UNCHANGED <<persistent, signals, history, bounds>>

\* _finalize_execution_lifecycle.
Finalize ==
  /\ pc = "applied"
  /\ LET gen == [product |-> st.local, control |-> seen.control]
     IN st' = [Idle(st) EXCEPT
                 !.failed = IF held = "failed"
                            THEN FailureAt(st.exec,
                                   IF st.kind = "operator_abort"
                                   THEN st.kind ELSE "none", gen)
                            ELSE NoFailure,
                 !.handled = gen,
                 !.bound = seen.control,
                 !.marker = IF @ = st.exec THEN NoExec ELSE @]
  /\ retired' = retired \cup {st.exec}
  /\ BackToLoop
  /\ UNCHANGED <<world, signals, launches, results, bounds>>

-----------------------------------------------------------------------------
(* Lifecycle requests, signals, crashes, and the outside world. *)

CanRequest == pc # "down" /\ requests < MaxRequests

ActiveExecution == st.phase # "idle" /\ st.exec # NoExec

\* request_lifecycle, up to the read of the state it saves a marker into.
LifecycleRequest(i, force) ==
  /\ CanRequest /\ intent = "none"
  /\ requests' = requests + 1
  /\ intent' = i
  /\ IF i = "stop" /\ force /\ ActiveExecution
     THEN snap' = st /\ UNCHANGED stop
     ELSE stop' = (stop \/ force) /\ UNCHANGED snap
  /\ UNCHANGED <<persistent, local, history, changes, crashes>>

\* The save of the manual-retry marker runs on the connection thread and
\* shares no lock with the owner's saves: whatever the owner saved since the
\* read is overwritten, or the marker is.
SaveMarker ==
  /\ snap # NoSnap
  /\ \/ st' = [snap EXCEPT !.marker = snap.exec]
     \/ st # snap /\ UNCHANGED st
  /\ snap' = NoSnap
  /\ stop' = TRUE
  /\ UNCHANGED <<world, local, intent, history, bounds>>

\* A second, forced request for the accepted intent only aborts.
ForceAccepted ==
  /\ CanRequest /\ intent # "none" /\ snap = NoSnap /\ ~stop
  /\ requests' = requests + 1
  /\ stop' = TRUE
  /\ UNCHANGED <<persistent, local, intent, snap, history, changes, crashes>>

Sigint ==
  /\ CanRequest /\ ~stop
  /\ requests' = requests + 1
  /\ stop' = TRUE
  /\ UNCHANGED <<persistent, local, intent, snap, history, changes, crashes>>

\* The polling loop ends between iterations (module ServiceOwner).
ServiceExits ==
  /\ pc = "loop" /\ MayStop
  /\ ProcessEnds
  /\ UNCHANGED <<persistent, history, bounds>>

Crash ==
  /\ pc # "down" /\ crashes < MaxCrashes
  /\ crashes' = crashes + 1
  /\ ProcessEnds
  /\ UNCHANGED <<persistent, history, changes, requests>>

Start ==
  /\ Goto("down", "loop")
  /\ UNCHANGED <<persistent, task, signals, history, bounds>>

\* Commits by others: to the product, to other parts of the control branch,
\* and a reviewer who sends the ticket back.
ProductMoves ==
  /\ changes < MaxChanges /\ changes' = changes + 1
  /\ product' = product + 1
  /\ UNCHANGED <<st, control, ticket, seen, ws, dirty, branch, workers,
                 reports, local, signals, history, crashes, requests>>

ControlMoves ==
  /\ changes < MaxChanges /\ changes' = changes + 1
  /\ control' = [control EXCEPT !.ext = @ + 1]
  /\ ticket' \in {ticket, "todo"}
  /\ UNCHANGED <<st, product, seen, ws, dirty, branch, workers, reports,
                 local, signals, history, crashes, requests>>

-----------------------------------------------------------------------------
StartIteration ==
  \/ IterationPlans \/ IterationRecovers \/ Normalize
  \/ StrandedBlocked

Selection ==
  \/ PlanStops \/ PlanNothing \/ PlanSelects \/ PlanRepairs \/ PlanUnsafe
  \/ DropMarker \/ SelectSuppresses
  \/ SelectStale \/ Admit \/ GateStops \/ PrepareWorkspace \/ CommitLaunch

WorkerRun ==
  \/ LaunchRefused \/ Spawn \/ SpawnFails \/ RecordIdentity \/ Interrupt
  \/ RecordInterruption \/ WorkerRetired \/ WorkerUnretired
  \/ IntegrityFails \/ SaveCheckpointing

Publication ==
  \/ Checkpoint \/ CheckpointBlocked \/ SaveCheckpoint \/ DrainCheck
  \/ ReconciliationRequired \/ ProductUnobservable \/ SavePublishing
  \/ Push \/ PushFails \/ SavePublished \/ SaveLifecycle \/ ApplyLifecycle
  \/ LifecycleBlocked \/ Finalize

OwnerStep == StartIteration \/ Selection \/ WorkerRun \/ Publication

OperatorStep ==
  \/ AdmitRetry \/ DispatchRetry
  \/ \E i \in {"stop", "restart"}, f \in BOOLEAN : LifecycleRequest(i, f)
  \/ SaveMarker \/ ForceAccepted \/ Sigint

EnvironmentStep ==
  \/ WorkerEnds \/ ServiceExits \/ Crash \/ Start \/ ProductMoves
  \/ ControlMoves

Next == OwnerStep \/ OperatorStep \/ EnvironmentStep

Spec == Init /\ [][Next]_vars

\* The owner thread is scheduled, a stopped or crashed service is started
\* again, a worker ends, and git operations that are tried again and again
\* succeed at last.  Nothing is assumed of operators or of other committers.
FairSpec ==
  /\ Spec
  /\ WF_vars(OwnerStep)
  /\ WF_vars(SaveMarker)
  /\ WF_vars(ServiceExits)
  /\ WF_vars(Start)
  /\ WF_vars(WorkerEnds)
  /\ SF_vars(Checkpoint)
  /\ SF_vars(SavePublishing \/ ReconciliationRequired)
  /\ SF_vars(Push)
  /\ SF_vars(ApplyLifecycle)

-----------------------------------------------------------------------------
(* Safety. *)

\* A worker is started only while no other worker is alive, and only for an
\* execution that never had one: not after a crash at any point, a stop, a
\* retry, an automatic resume or a state saved over by a forced stop
\* (CommitLaunch before Spawn, worker-launch blocked, observe before
\* normalization).
WorkerStartsOnce ==
  [][\A e \in workers' \ workers : workers = {} /\ results[e] = "none"]_vars

\* A live worker always is the one the persisted record speaks of, so that a
\* new process finds it: it is never hidden behind an idle record or a later
\* execution.
LiveWorkerIsRecorded ==
  \A e \in workers : st.phase = "agent_running" /\ st.exec = e

\* The record moves on from an execution whose worker ran only after that
\* execution was put away: finalized, reconciled, normalized or recorded as
\* an integrity failure.
NoExecutionForgotten ==
  \A e \in Execs :
    (e \in workers \/ results[e] # "none") => e = st.exec \/ e \in retired

\* A lifecycle commit tells the truth whichever process writes it: the worker
\* ended, with the reported conclusion, and the checkpoint it names is the
\* workspace's and is published; one commit per execution; and only a
\* finished result sends the ticket to review.
ReportIsTrue ==
  [][/\ \A r \in reports' \ reports :
          /\ results[r.exec] \notin {"none", "failed"} => ws = r.exec
          /\ results[r.exec] # "none" /\ held = results[r.exec]
          /\ r.head = ws /\ branch = ws
     /\ control'.own # control.own => reports' # reports
     /\ ticket # ticket' /\ ticket' = "review" => results[st.exec] = "done"
    ]_vars

\* A generation of product and control is run without a retry or a resume at
\* most once, whatever is dropped, refused, crashed or overwritten between
\* (handled_remote_head, handled_control_head).
NoSilentRerun ==
  \A e, f \in Execs :
    e < f /\ launches[f].auth = "none" => launches[e].at # launches[f].at

-----------------------------------------------------------------------------
(* Liveness, under FairSpec. *)

InPublication ==
  /\ st.phase = "agent_running"
  /\ st.stage \in {"checkpointing", "post-checkpoint", "publishing",
                   "post-publication", "lifecycle"}

\* An execution whose result is durable leaves the publication stages, over
\* any number of stops and crashes, unless the product moved or its branch
\* cannot be fast-forwarded to the checkpoint.
PublicationEnds ==
  InPublication ~> \/ ~InPublication
                   \/ product # st.local \/ ZeroDeltaDrift
                   \/ st.remote \notin {NoExec, st.start}

-----------------------------------------------------------------------------
(* What the documentation says and the code does not keep. *)

\* tests/RECOVERY_MATRIX.md:12: a pending execution resumes the workspace it
\* was admitted with.
PendingKeepsWorkspace ==
  [][st.phase = "agent_pending" => ws' = ws]_vars
-----------------------------------------------------------------------------
(* The inductive invariant of the proofs, in named parts. *)

Ran(e) == e \in workers \/ results[e] # "none"
Launched(e) == launches[e] # NoLaunch

AfterWorker == {"post-worker", "checkpointing", "checkpointed", "drain",
                "post-checkpoint", "publishing", "pushed",
                "post-publication", "lifecycle", "applied"}

\* The heads are counted by the bounds.
CountsFit ==
  /\ product <= changes /\ control.ext <= changes
  /\ control.own = Cardinality({r.exec : r \in reports})

\* What a record says of the execution it names, whether it is the persisted
\* one or a forced stop's copy that may still be saved over it.
RecordFits(s) ==
  /\ s.phase # "idle" => s.exec \in Execs
  /\ s.phase = "agent_pending" => ~Ran(s.exec)
  /\ workers # {} => /\ workers = {s.exec} /\ s.phase = "agent_running"
                     /\ s.stage \in {"worker-launch", "worker-running"}
  /\ s.phase = "agent_running" /\ s.stage \in RecoverableStages =>
       s.report = results[s.exec] /\ results[s.exec] # "none"
  /\ s.phase = "agent_running" /\ s.stage \in RecoverableStages \ {"checkpointing"} =>
       ~dirty

\* A copy is in hand only while the service drains, and then no other
\* execution is admitted.
CopyFits == snap # NoSnap => /\ Draining /\ snap.exec = st.exec
                             /\ snap.phase # "idle" /\ RecordFits(snap)

\* The record moves on from an execution that ran only after it was retired.
PutAway ==
  \A e \in Execs :
    Ran(e) => e \in retired \/ (e = st.exec /\ st.phase = "agent_running")

\* Executions are numbered in the order of their admission, and run only
\* after it.
LaunchOrder ==
  /\ \A e \in Execs : Launched(e) <=> e <= st.exec
  /\ \A e \in Execs : Ran(e) => Launched(e)

\* What a worker left behind is in the workspace, committed or not.
WorkKept ==
  st.exec \in Execs /\ (st.exec \in workers \/ results[st.exec] = "done") =>
    dirty \/ ws = st.exec

\* Where the owner is says what the record is about: up to the launch,
AdmissionPlaces ==
  /\ pc \in {"down", "loop", "retry"} => ~pend
  /\ pc = "plan" /\ ~StopBeforeAdmission =>
       st.phase = IF pend THEN "agent_pending" ELSE "idle"
  /\ pc = "select" =>
       IF pend
       THEN /\ st.phase # "agent_running" /\ st.exec \in Execs /\ ~Ran(st.exec)
       ELSE st.phase = "idle" /\ snap = NoSnap
  /\ pc \in {"pending", "prepared"} => st.phase = "agent_pending"
  /\ pc \in {"select", "pending", "prepared"} /\ snap # NoSnap =>
       snap.phase = "agent_pending"
  /\ pc = "launch" =>
       /\ ~Ran(st.exec)
       /\ \A s \in {st, snap} \ {NoSnap} :
            s.phase = "agent_running" /\ s.stage = "worker-launch"

\* and from the launch to the end of the execution.
WorkerPlaces ==
  /\ pc \in {"spawned", "running", "signalled"} =>
       st.exec \in Execs /\ Ran(st.exec)
  /\ pc \in AfterWorker =>
       st.exec \in Execs /\ workers = {} /\ results[st.exec] # "none"
  /\ pc \in AfterWorker \ {"post-worker"} => held = results[st.exec]
  /\ pc \in AfterWorker \ {"post-worker", "checkpointing"} => ~dirty

\* The first owner of an execution publishes from a record that nothing was
\* saved over since its drain check.
FirstOwner ==
  ~recovering =>
    /\ pc = "drain" /\ ~Draining =>
         st.stage = "post-checkpoint" /\ st.report = held
    /\ pc = "post-checkpoint" =>
         \A s \in {st, snap} \ {NoSnap} : s.stage = "post-checkpoint"
    /\ pc \in {"post-checkpoint", "publishing", "pushed"} =>
         \A s \in {st, snap} \ {NoSnap} : s.report = held
    /\ pc \in {"pushed", "post-publication", "lifecycle"} => branch = ws

\* Generations only grow, and a record never forgets that one was handled.
UpTo(g, h) == /\ g.product <= h.product
              /\ g.control.ext <= h.control.ext
              /\ g.control.own <= h.control.own

Admitted(s) == [product |-> s.local, control |-> s.bound]

HandledFits(s) ==
  /\ \A e \in Execs : Launched(e) =>
       /\ s.handled # NoGeneration
       /\ UpTo(launches[e].at, s.handled)
       /\ UpTo(launches[e].at, Admitted(s))
  /\ s.handled # NoGeneration => UpTo(s.handled, Current)
  /\ UpTo(Admitted(s), Current)

GenerationOrder ==
  /\ UpTo(seen, Current)
  /\ \A e \in Execs : Launched(e) => UpTo(launches[e].at, seen)
  /\ HandledFits(st) /\ (snap # NoSnap => HandledFits(snap))
  /\ pc = "select" /\ ~pend =>
       st.handled = NoGeneration \/ UpTo(st.handled, seen)

IInv ==
  /\ TypeOK /\ CountsFit
  /\ RecordFits(st) /\ CopyFits /\ PutAway /\ LaunchOrder /\ WorkKept
  /\ AdmissionPlaces /\ WorkerPlaces /\ FirstOwner
  /\ GenerationOrder /\ NoSilentRerun
=============================================================================
