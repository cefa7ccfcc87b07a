# A TLA+ model of devlegate

Devlegate is a service that takes tickets from a *control* branch, runs a coding
agent (the *worker*) on each one in a git worktree, checkpoints and publishes the
result as an *execution branch*, and records what happened in a commit on the
control branch. One process serves one project. It is driven by a polling loop,
by an operator over a local socket, and by signals; it keeps its state in one
record that is replaced at every save, and is meant to survive a crash between
any two saves.

This directory holds TLA+ modules of the parts where that is hard, TLC
configurations that check them on small instances, and TLAPS proofs.
`PROJECT.json` lists the components, the runs, the code lines each definition
models, the hazards and the theorems. Paths below are relative to the repository;
`runtime.py` is `src/devlegate/runtime.py`.

## Inventory

| Component | State it keeps | Operations | What makes it correct |
| --- | --- | --- | --- |
| Command admission and owner loop (`runtime.py`: `_submit_operator_command`, `_admit_operator_command`, `_run_polling`) | the one-place command slot, the active command, the wake event, lifecycle intent; mutable receipts on disk | submit, join, time out, admit, record, acknowledge, dispatch, wait, drain, abort | an acknowledgement is durable, an id is dispatched at most once, nobody waits for ever, admission closes when a drain begins |
| Execution of a ticket (`runtime.py`: `_run_iteration_body`, `_recover_checkpoint_publication`, `_normalize_stranded_execution`) | persisted phase, stage, execution binding, failures, handled generation, manual-retry marker | select, admit, launch, checkpoint, publish, finalize, resume, retry, normalize | one worker at a time and one per execution, no result is lost or reported falsely, an interrupted publication ends |
| Control-plane lifecycle (`runtime.py`: `_apply_execution_lifecycle`) | the control worktree | fetch, fast-forward, reset, commit, push, retry | one record per execution on a history that still holds the admitted ticket; other people's commits stay |
| Worker supervision, containment (`worker_supervisor.py`, `execution_containment.py`) | worker process group, its cgroup, closed flag | spawn, identify, interrupt, retire | no worker outlives its record unnoticed |
| Execution workspace (`execution_workspace.py`) | worktree, execution branch | inspect, prepare, checkpoint, merge | work is never discarded |
| Product synchronization (`runtime.py`, `merge_pending`) | local and remote heads | observe, fast-forward, finish | exactly the observed head is adopted, once |
| Accepted integration (`runtime.py`) | pair of heads to integrate | prepare, push product, push control, finish | product and control agree after any crash |
| Drop, recover, forced retry, repair (`runtime.py`, `execution_workspace.py`) | disposition, operator recovery, evidence refs | drop, recover, retry, retire, repair | no commit is lost, a dropped execution stays out, what was begun is finished |
| Reconciliation (`runtime.py`) | pending reconciliation, evidence refs | resume, update base, adopt control | exactly what the operator authorized, nothing of others overwritten |
| Service host (`daemon.py`, `lifecycle_receipt.py`, `runtime_locator.py`) | service lock, endpoint, lifecycle receipt | acquire, serve, drain, hand off, signal | one service per project, clients are told the truth |
| IPC (`ipc_server.py`, `ipc_client.py`, `ipc_protocol.py`) | connections | accept, read, answer, close, replay | every request answered or closed |
| Runtime store (`runtime_store.py`) | the SQLite file | replace, load, migrate | a save is atomic |
| Tickets (`tickets.py`) | ticket files | load, check dependencies, select | an acyclic graph, a deterministic choice |
| Agent protocol, egress (`agent_protocol.py`, `worker_egress.py`) | output buffer | capture, parse a result | bounded, one result |
| Command line, systemd (`cli.py`, `systemd_supervisor.py`) | units | start, stop, restart and their waits | every wait ends |
| Registry, logs, build tools | files, log cursor | add, remove, read, build | see `PROJECT.json` |

How they interact: connection threads of the IPC server call into the engine and
share with the owner thread the command slot (under `_operator_command_lock`),
events and, for `stop --force`, the persisted record (under no common lock). The
owner thread is the process's main thread, so signal handlers run on it, between
any two of its steps. The worker, git servers and other committers are outside.
The hard behaviours are the interleavings of connection threads with the owner,
crashes between a save and the effect it announces, lost answers and races on the
control branch, and what a new process concludes from the record of the old one.
`PROJECT.json` lists them at their lines.

## Modules

### `ServiceOwner`: command admission and the owner loop

A *call* is a connection thread in `_submit_operator_command`; the
`OperatorCommand` it may create is named by it. `slot`, `active` and `sched` are
`_operator_command`, `_operator_active_command` and `_scheduler_active`; `wake`
is the event `_service_wake`; `receipts` is `mutable_receipts` in the record.
`owner` is the place of the owner thread in `_run_polling`, split at each point
where another thread can get in: the lock is held across `validate`, `drop` and
`record`, released before the answer, and `_wait_for_service_event` is four
steps (clear, look, look again, sleep), because the order of the first two is
what prevents a lost wake-up. A timeout is two steps, `Expire` and `Withdraw`,
because the owner may act between the end of the wait and the lock. A SIGTERM
runs on the owner's thread and re-enters the lock; an IPC lifecycle request has
to wait for it. A SIGINT that kills a git command of an admission leaves the loop
without the refusals at its end (`AdmissionInterrupted`). A crash ends all threads and keeps the disk. An iteration of the
scheduler, and what a command does after dispatch, are single steps.

### `Execution`: a ticket's executions

`st` is the persisted record (the fields the code's decisions read); every save
is a step, every effect between two saves is a step, and a crash may come between
any two. Heads are numbers: the product head counts commits, the control head
counts other people's commits and the service's lifecycle commits, and the
workspace and branch heads are named by the execution whose checkpoint they are.
`auth` is the `ExecutionAuthorization` of the iteration: none, an automatic
resume or an operator's retry. `LifecycleRequest` and `SaveMarker` are the two
halves of a forced stop on its connection thread: it reads the record, and later
saves all of it with the marker added, so either save may be overwritten by the
other. The record of the old process is interpreted by `IterationRecovers`
(publication stages), `Normalize` (a worker that is provably gone) and
`StrandedBlocked` (everything else), as in `_run_iteration_body`.

Not in it: the `merge_pending` transaction and the resolution of a pending
reconciliation (`Reconcile`), drop, recover, forced retry and repair
(`WorkspaceExits`), and what happens between spawn and retirement of a worker
(`WorkerSupervisor`).

### `ControlHistory`, `LifecycleRecord`, `ControlLifecycle`: the record on the control branch

`Execution` has one action `ApplyLifecycle`; this is its inside. A history is
the sequence of its commits, so ancestry is the prefix relation; a commit is told
apart by what it does to the ticket. `ControlLifecycle` is
`_apply_execution_lifecycle` with its three attempts; a push is a message that can
arrive after the process that sent it is gone, and whose answer can be lost.
Others commit, rewrite the branch, change or restore the ticket, or put another
ticket under review. `LifecycleRecord` is the abstract specification: the
published branch gains one lifecycle commit at a time, only on a compatible
history, and the service is done only after that. `RecordedOnce` is the refinement, with
`log <- remote, recorded <- published # {}, settled <- Settled`.

Once the execution is settled the worktree follows the branch (`SyncControl`),
and a branch that others rewrote can be adopted with `reconcile-control`:
`AdmitAdoption`, `Reobserve`, `PinDisplaced` and `Adopt` are
`_reconcile_control_owned`, which validates twice, keeps the displaced head under
a recovery ref and then resets. The two heads the operator names are the ones the
admission sees; any other pair is refused without a change.

### `AcceptedIntegration`: the accepted result on both branches

The intent (`accepted_integration`) is saved with the control head R it is bound
to; then the checkpoint H is pushed to the product, proven to be there, and the
ticket's move to done, C, is committed on R and pushed to control. Histories are
sequences as above. `Classify` is `_observe_accepted_control_integration`,
`Exact` the test of C, `Evidence` what `_accepted_execution_report` can still
derive from the control history, and `Known` says for which product heads the
repository has the objects that `git merge-base` needs. Others commit to both
branches, take the ticket back, or make the move themselves; every git operation
can fail, with or without its effect. A zero-delta result has nothing to push and
its workspace is retired instead (one step; done again it finds nothing to do).
The ticket is accepted once: a new execution of a reopened ticket is a new
behaviour.

### `WorkerSupervisor`: a worker from admission to retirement

The owner thread runs `WorkerSupervisor.run`: admission under the supervisor's
lock, the cgroup, the spawn of a joiner that enters the cgroup before it becomes
the worker, the saved identity, the wait, the interruption with its kill, the
join of the reader threads, retirement and the removal of the cgroup. Beside it
run connection threads in `request_lifecycle` (`conn`), the SIGTERM handler on the
owner's own thread (`handler`), the reader of the worker's output, the leader and
a descendant that may outlive it and keep its pipe open. A cgroup operation can
fail at each use. `ObserveAbsent` and its neighbours are what the next process
concludes from the record and the cgroup of the one before. The worker's output
is a few `devlegate_report` events, each well-formed or not; all others change
nothing.

### `ProductSync`, `Reconcile`: product moves and the execution that is in the way

`ProductSync` is the `merge_pending` transaction of `_run_iteration_body`: record
the target, fast-forward, save. `Reconcile` extends it with one checkpointed
execution whose product has moved: the pin of its checkpoint, the pending
reconciliation, and the operator's `resume` and `update-base` with their
write-ahead records (`resolving`, `local_rewrite_pending`,
`remote_rewrite_pending`), rebase, evidence refs, leased push and recovery. A
commit of the execution is the worker's work on a base; others move the product,
push to the execution branch and commit to control; the operator may fetch in the
shared checkout. A rebase may go through, fail with a conflict, or end with
commits lost or a dirty tree (`SpoilRebase`, the head `Spoiled`); the last is taken
back by a reset and a save. That reset, and the one that takes an interrupted
rewrite back (`Restore`), are steps before their saves, and can fail. The history
variable `authorized` keeps the bases for which the operator allowed a rewrite of
what is published; no action reads it.

### `WorkspaceExits`: the ways an execution leaves its workspace

Drop, operator recover, forced retry and the automatic repair of a workspace of
an older generation, each step by step: evidence ref, disposition, remote branch,
worktree, local branch, record. Heads are sequences of contributions, so that "no work is
lost" is reachability. A failed step and a crash with restart both lead back to
the loop, which continues from the disposition or the recorded recovery, so one
action (`Interrupted`) stands for both. The check and the removal of a worktree
are one step; others act locally only through the worktree; the publication of
evidence refs to the server is not modelled; the product moves between executions
only.

### `ServiceHost`: the process, its authority and the commands that end it

An instance is one image of the service. `host` is its place in
`ServiceHost.run`, `lock` the exclusive flock, `path` the inode at the socket
path, `receipt` the lifecycle receipt file, which each writer replaces. Handler
threads record a lifecycle intent and write its acceptance in two steps; SIGTERM
does both on the owner's thread while `_signal_ownership` lasts and kills the
process outside it. A hand-off (`_reexec`) keeps lock and process and ends every
thread. Clients deliver a request at most twice with the same id and then wait as
`_wait_for_service_stop`, `_wait_for_service_restart`, `_wait_for_runtime_stop`
and `wait_ready` do. An attempt to take the authority can always be refused,
because a poll (`daemon_authority_present`) or a direct read (`absence_guard`)
holds the same lock shared for an instant. SIGINT and `once` are a fault that ends
serving; a forced stop is a stop that finds no worker; the drain of the engine
ends (`ServiceOwner`, `WorkerSupervisor`). Images are started only while a command
is outstanding, one at a time.

## Runs

| Run | Checks | Bounds |
| --- | --- | --- |
| `owner_safety` | `OneOwnerWork`, `AckedHasReceipt`, `AckedDropDone`, `DispatchedAtMostOnce`, `NobodyStrandedByShutdown`, `CancelledNeverAdmitted`, `NoAdmissionAfterIpcDrain` | two calls that may use the same id or two, a retry and a drop, three starts: the second call can join the first, repeat it, contradict it, or resubmit it after a crash; 1.3 million states. The proofs cover more calls |
| `owner_live` | `CommandTaken`, `EveryCallAnswered`, `ServiceStops` | two calls, two ids, one start; no symmetry |
| `execution_safety` | `LiveWorkerIsRecorded`, `NoExecutionForgotten`, `NoSilentRerun`, `WorkerStartsOnce`, `ReportIsTrue` | two executions, one crash, one outside change, two requests or signals: enough for a crashed execution, its resume and a forced stop that races either; 1.9 million states |
| `execution_live` | `PublicationEnds` | two executions, one crash, one request |
| `pending_workspace` | `PendingKeepsWorkspace` is violated | one crash |
| `control_lifecycle` | `RecordedOnce`, `NothingDiscarded`, `LifecycleSettles` | two commits of others, two failures: a lost race and an interruption in either order, and a rewrite that is adopted |
| `accepted_integration` | `DoneImpliesIntegrated`, `RootedAtIntent`, `IntentKeptUntilDone`, `IntegrationSettles` | three changes by others, three crashes or failed git operations, so that each effect can be interrupted and raced in the same behaviour |
| `supervision` | `IdleLeavesNoWorker`, `ClaimIsWhole`, `WorkersNeverOverlap`, `AbortEnds`, `OnlySelfDeadlock` | two executions, one connection, two events of output per worker, two starts, two incidents (SIGTERMs, requests, failed system calls, crashes) and a SIGINT per process: the second worker meets what the first left; 0.9 million states |
| `retirement` | `RetiredOnlyWhenEmpty` is violated | as `supervision` |
| `reconcile` | `CheckpointHeld`, `ResolvedIsExact`, `AdoptsOnlyRecorded`, `BranchNeverClobbered`, `InterruptedEnds` | three moves of others, two crashes or failed steps, two commands: a command, its interruption, and the next command on what is left. The second failure is for the recovery: a crash between its reset and its save, or a reset that fails; 1.3 million states |
| `exits` | `NothingLost`, `DroppedStaysOut`, `GivenUpEnds` | three executions, two moves of others, two interruptions, two commands; 0.3 million states |
| `host` | `EndpointIsHolders`, `ToldIsTrue`, `GracefulStopReported`, `WaitsEnd` | three images, two clients, all three hostings; a load of four, where a command weighs two and a crash, failed write, signal or timeout one: two commands, or one with two faults; 0.4 million states. Two commands with a fault were checked for safety on three images (2.2 million states) and with liveness on two |

Each module has a type invariant `TypeOK`, to be added to a cfg as `INVARIANT
TypeOK` when its module is changed. The modules with proofs also have an inductive
invariant `IInv`, which implies it. The runs keep to properties that say more.

Deadlock is not checked: a service that was stopped, a finalized execution and a
bound that is used up are all ends.

**Fairness.** `ServiceOwner`: the owner thread, the threads that set the wake
event and the threads whose answer is there are scheduled; neither the poll
interval nor a client's timeout is assumed to end, so the runs show that
neither is needed. `Execution`: the owner is scheduled, a stopped service is
started again, a worker ends, and git operations that the loop repeats at every
iteration succeed at last (strong fairness, since each failure leads back to the
loop). `ControlLifecycle`: the same for the fetch, and the server answers.
`AcceptedIntegration`: the owner is scheduled and started again; failures of git
are bounded in number. `WorkerSupervisor`: threads run, the worker and its
descendants owe nothing. `Reconcile`, `WorkspaceExits`: the owner takes its next
step and the loop comes round; in `Reconcile` a process that ended is started
again. `ServiceHost`: owner, handlers and clients run, and the ten seconds of the
restart's deadline pass (strong fairness, because the deadline is looked at in
every round).
That a service which ended is started again is the operator's part: the unit says
`Restart=no`, so liveness over crashes means "once it is started again".
Nothing else is assumed of operators or of other committers.

### What the violations show

- `pending_workspace`: `execution_start_head` is written only when a launch is
  committed. A retry that is pending when the process ends is compared with the
  start head of the execution before it, taken for an older generation, and its
  workspace is reset to the base.
- `retirement`: a `ContainmentError` or `OSError` that escapes after the spawn
  becomes a `WorkerRunResult` made of defaults, and the default says that the
  group is retired. The worker may be alive.

### What the passing properties except, and why

Where the code has a state it does not leave, or a promise with a hole, the
property names the exception instead of leaving the behaviour out of the model.

*Commands and executions.* A client whose wait ends while the owner is recording
its command is told "request was not admitted", and the command runs
(`runtime.py:1146`). The barrier of `stop --force` is not read on the path that
normalizes a lost execution: when the process ends before the interruption was
recorded, the next start resumes by itself (`runtime.py:3689`). An
`operator_abort` of the current generation is resumed without a retry
(`runtime.py:4257`), which `docs/ARCHITECTURE.md:359` denies and
`tests/test_daemon_recovery.py` confirms.

*Accepted integration.* A zero-delta integration compares the control branch with
the head it has just observed, not with R, so that after a lost answer C is
compared with itself and the intent is never cleared (`runtime.py:5435`). After
C, the parent of C is taken for the commit that accepted the ticket: if another
control commit came between, the evidence is not found again (`runtime.py:5313`).
`IntegrationSettles` leaves both out.

*Supervision.* `deceived`: the escaped exception above. `late`: a joiner that
enters its cgroup after the next process found the cgroup empty. `SelfDeadlock`:
SIGTERM arrives while the owner thread holds the supervisor's lock, which is not
reentrant, and its handler asks for it (`worker_supervisor.py:616`).
`OutputHeld`: a descendant keeps the worker's output open while the readers are
joined, where the stop request is not looked at.

*Reconciliation* (`MergeObstructed`, `ResumeObstructed`, and no liveness for an
update of the base). The evidence ref of a rewrite is created once, so that after
a crash or failed push between the pin and the save every retry is refused. A
resume that was admitted when the product has moved stays `resolving`, and its
error ends the service at each start. A product that moves after an interrupted
rewrite never matches the persisted target again. A crash inside the rebase leaves
HEAD detached, and recovery refuses. A crash before a rebase that lost commits is
taken back, or a failure of the reset that takes it back, leaves a head that is
neither the checkpoint nor the whole work, and every later attempt is refused
(`runtime.py:8757`). A crash after the lifecycle commit of a
resumed execution, or after its publication and a move of the product, is refused
at every later attempt. A `git fetch` by the operator between the observation and
`merge --ff-only <tracking ref>` makes the checkout overshoot the recorded target,
and `merge_pending` does not end. A crash in a `merge_pending` that superseded a
pending execution ends idle: that execution is forgotten, though none of its
workers had started.

*Exits* (`DropObstructed`, `RecoveryObstructed`). The evidence ref of a recover is
created once, so a second recover of another head is refused. A repair leaves the
remote branch at the old generation, and the next publication is refused. A crash
between the creation of the branch and of its worktree waits for the operator's
recover. An execution without a change cannot be dropped in its lifecycle stage.

*Service host* (`joined`, `Overtaken`). The receipt file has room for one request:
the acceptance of a second stop, or of a SIGTERM, written after the completion
hides it, and a graceful stop is reported as "authority disappeared without
graceful stop completion". The waits look for any authority, so that a service
started meanwhile keeps them waiting. The SIGTERM of a managed stop can arrive
when the handlers are already restored, and kills the host before it has removed
its socket; the next start finds it stale and removes it.

## Proofs

Every proof has the same shape: the component's module ends with an inductive
invariant `IInv` in named parts, the proof module shows that `Init` establishes it
and that every action preserves it (one lemma per action or group of actions,
`NextIInv` over them), `Invariance` is `Spec => []IInv`, and the theorems about the
properties of the runs follow from it: invariants because `IInv` implies them, action
properties because they hold of every step from a state of `IInv`. TLC checked each
`IInv` on the bounds of the runs before it was proved. None of the properties is
inductive by itself.

`ServiceOwnerProofs`: all sets of calls, ids and bodies, any number of starts.
Assumptions: the null values are not calls or bodies, the drops are bodies, and
`MaxStarts` is positive. `DispatchedAtMostOnce`, for one, needs to know that a
command in the slot or before `record` has no receipt, which depends on the
one-place slot and on the lock. `IInv` adds:

- `OwnerShape`: the owner's place says what it has in hand and whether it holds
  the lock;
- `LockedAdmission`: what `AdmitBegin` saw of the cancellation and the intent
  stays true while the lock is held, which is why `Withdraw` and
  `LifecycleRequest` have to take it;
- `ReceiptOrder`: no receipt for a pending command, a receipt for an answered
  one, and no dispatch before it;
- `DropOrder`: a drop's receipt follows the drop;
- `Waiters`: who waits, waits for the command in the slot, in the owner's hands,
  or answered.

`TypeCorrect`, `OneOwner`, `Acknowledged`, `AcknowledgedDrop`, `DispatchOnce` and
`NobodyStranded` are invariants; `CancelIsFinal` and `DrainClosesAdmission` are
action properties.

`WorkerSupervisorProofs`: any number of executions, output events, incidents and
starts, any connections (`SupervisorAssumption`: the numbers are natural, and no
connection is called "free" or "owner"). `IInv` adds `FutureIsEmpty`,
`PastIsAccounted` and `RecordCoversLast` (which executions can have a process, seen
from the record: without the last one a worker could be launched beside one the
record has given up), `RunIsRecorded` and `LeaderShape` (what the owner's place in
`run()` says about the record and the leader), `RunShape` (a claimed retirement is
true), and for `ClaimIsWhole` `ParserShape` and `OutputRead`. Theorems:
`TypeCorrect`, `NoWorkerLeft`, `ClaimWhole`, and the action property `NoOverlap`.

`ServiceHostProofs`: any images and clients, hosted by systemd or not
(`HostAssumption`: images are numbers, and `None` is not one). The invariant has four
groups:

- authority: `HolderHolds` ties the lock to the places of the images, in both
  directions, and `BoundAtPath` the socket's name;
- images: `OneProcess` under systemd, `EndFollowsIntent` (an image ends the way
  its one recorded intent says), `ParentIsGone`;
- handlers: `CallsHandled`, and `OneWriter`: until a second request joins, at most
  one handler has an acceptance still to write, which is what keeps the acceptance
  from overwriting the completion;
- outcomes: `RestartReceipt`, `AnswersOwed` and `ClientsKnow` (what the image owes
  a client that was answered, and what the client may conclude from it at each
  place), `ToldStays`.

Theorems: `TypeCorrect`, `EndpointHeld`, `ToldTrue`, `StopReported`.

`AcceptedIntegrationProofs`: any number of commits by others and of failures
(`BoundsAssumption`). `BaseKept` and `ProductFirst` say that the product only grows
and is published before a move to done exists anywhere, `MoveOnIntent` and
`PushIsExact` what a push carries, `FinishIsEarned` that the published move was
observed before `Finish`, `PlanIsFree` that an intent is never overwritten. Lemmas
about prefixes, `Last` and `Front` carry it from one history to the next. Theorems:
`DoneIntegrated`, and the action properties `Rooted` and `IntentKept`.

`ExecutionProofs`: any number of executions, commits by others, crashes and requests
(`BoundsAssumption`). The hard part is the forced stop, whose save runs beside the
owner's: `snap`, the copy it has read, may be saved over the record at any later
step. So what a record says of its execution is stated once, as `RecordFits(s)`, and
kept for the record and for the copy (`CopyFits`), together with the reason that
makes it possible: a copy is in hand only while the service drains, and then no
other execution is admitted and no worker started. The other parts:

- `PutAway`, `LaunchOrder`, `WorkKept`: executions that ran are retired or current,
  are numbered in the order of their admission, and left their work in the
  workspace;
- `AdmissionPlaces`, `WorkerPlaces`: what the owner's place says about the record;
- `FirstOwner`: from its drain check on, an owner that is not recovering publishes
  from a record nothing older was saved over, which is why `DrainCheck` has to wait
  for the copy's save;
- `GenerationOrder`: generations grow, and every record, the copy included, has a
  handled generation not behind any that was run. `NoSilentRerun` follows, since a
  generation equal to an old one would then also be the handled one;
- `CountsFit`: lifecycle commits are counted by the executions they report, which
  bounds them.

Theorems: `TypeCorrect`, `LiveRecorded`, `NothingForgotten`, `NoRerun`, and the
action properties `StartsOnce` and `ReportTrue`.

`ReconcileProofs`: any product commits, any number of moves by others, of faults and
of commands (`ProductAssumption`, `CommandsAssumption`: commits are non-empty
sequences of numbers). `SyncInv` says which phase the synchronization may find and
that an execution once begun is not admitted again; `RunInv` that the worktree stands
on the checkpoint until the execution is over, and what the stage says of the
publication; `ReconInv` that a reconciliation is about that checkpoint and that its
evidence ref holds it until it is resolved; `CommandInv` what a command has observed,
authorized and done at each of its places. Somebody else may push at any step, so
what the service knows of the branch after its own push is only "mine or another's"
(`PushedTo`). That an authorization was given is not in `IInv`: `AuthInv` follows it
from the command to the record and from the record of an interrupted rewrite to the
command that continues it, which is where the comparison of the two targets is
needed. Theorems: `TypeCorrect`, `WorkIsHeld`, `ResolutionExact`,
`AuthorizationGiven`, and the action properties `BranchSafe` (from `IInv` and
`AuthInv`) and `AdoptionRecorded`.

`ControlLifecycleProofs`: any number of changes by others and of failures
(`BoundsAssumption`). `ProposalInv` says that everything on its way to the server has
one lifecycle commit on top of a history that permits it, judged where it was made,
and that what the service takes for published has been. `BudgetInv` bounds the
lifecycle commits: one is made again only after a failure or a change by others,
which `TypeOK` needs, since it numbers them. Theorems: `TypeCorrect`; `Implements`,
the refinement of `LifecycleRecord` (the initial state maps to an initial state, each
step to a step or a stutter; the abstract specification states safety only); and the action property `WorktreeKeeps`.

`WorkspaceExitsProofs`: any number of executions, changes by others, faults and
commands (`BoundsAssumption`: there is at least one execution). `NothingLost` is a
part of its own invariant; it needs `HeldInv`, that from the pin on the commit about
to be removed or moved is held by a ref, at every place until it is gone, and
`PlaceInv`, that the owner's place agrees with the recorded phase. `DroppedStaysOut`
needs `FreeInv` (a finished drop has left no commit of its execution on the branch,
on the server, in the base or in the report, so nothing later can be built on one)
and `RetiredInv` (what the drop has removed at each place), which is what establishes
it. That others commit and push between any two steps is covered by one lemma each
for heads that move where a ref holds them (`StillReachable`) and for heads that only
go forward (`Grown`). Theorems: `TypeCorrect`, `CommitsKept`, and the action property
`DropIsFinal`.

Every invariant and action property of the passing runs is stated by a theorem.
Only model-checked are the temporal properties (`CommandTaken`,
`EveryCallAnswered`, `ServiceStops`, `PublicationEnds`, `LifecycleSettles`,
`IntegrationSettles`, `AbortEnds`, `OnlySelfDeadlock`,
`InterruptedEnds`, `GivenUpEnds`, `WaitsEnd`), because
fairness and `ENABLED` are out of the prover's reach, and what needs induction over
histories (what the folds and filters of `ControlHistory` compute).

## Grain

Steps of the code that are one step of a model, and cases left out at the edge of
an action, where no property told them apart:

- `ServiceOwner`: the mode `once`, which returns after its first round.
- `Execution`: the record in memory and on disk are one. `LifecycleRequest` reads
  phase and state together (`runtime.py:833`), and `CommitLaunch` looks at the gate
  and saves in one step (`runtime.py:4483`); a stop between the two is met by the
  next check, in the supervisor's admission.
- `AcceptedIntegration`: the observed control head is always known locally. For one
  that was not fetched `git rev-list` fails and the code calls it ambiguous
  (`runtime.py:5637`), which ends the attempt as a failed git operation does. A
  repeated publication observes the control branch again in the same step
  (`runtime.py:5547`), and nobody else pushes to the execution branch
  (`runtime.py:5363`; `Reconcile` and `WorkspaceExits` have such pushes).
- `ProductSync`: dirt in the checkout may or may not obstruct the fast-forward
  (`Merge`, `MergeFails`); that the operator switches its branch during the
  transaction is not modelled.
- `Reconcile`: a resume of a record without `execution_report`, written by an older
  version (`runtime.py:9156`), is left out, as are the records of older versions
  everywhere.
- `WorkerSupervisor`: a kill takes its members away at once, the escalation to
  SIGKILL included; a second SIGTERM to the same process and an `OSError` of
  `destroy()` are not modelled.
- `WorkspaceExits`: the comparison of start and expected head during inspection
  (`runtime.py:8063`) belongs to `Execution`, where `pending_workspace` is about
  it. The check of the local branch and its `branch -D` (`runtime.py:6009`, `6013`) are
  one step: others commit through the worktree, which is gone by then.
- `ServiceHost`: one image starts at a time, so that two starts do not race for the
  flock (which one gets it decides nothing the properties read). The intent is read
  once after serving (`daemon.py:213`, `214`). The receipt of a restart, the ready
  mark and the readiness report (`daemon.py:188`, `200`, `202`) are one step. Handler
  threads end with the authority; in the code one could still replace the receipt
  between `authority.close()` (`daemon.py:314`) and the end of the process, so
  `GracefulStopReported` says nothing of that instant.

## Not modelled

Formatting, wording, parsing of arguments and files, the text of prompts, units
and commit messages, the schema of the store and its migration, the framing of
IPC messages and the limit on connections. The runtime store is assumed to
replace the record atomically (SQLite in a transaction), and the git server to
accept a push only as a fast-forward unless it carries a lease. Of the tickets
there is one; the dependency graph, its cycle check and the selection order are
pure functions of files. The project registry, the log reader and the build and
packaging tools (`tools/`) are left out: short critical sections, text, and
scripts that are not part of the running system. Evidence refs are modelled
locally; that they are also pushed, and that a failed push of one is not repeated,
is not.

## Plan

The modules and the proofs of their safety properties are there. What could follow:
the commits a server rejects and repeats in `WorkspaceExits` (the publication of
evidence refs), and more than one ticket in `Execution`.
