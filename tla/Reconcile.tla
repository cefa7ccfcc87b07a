----------------------------- MODULE Reconcile -----------------------------
(***************************************************************************)
(* An execution whose product moved while its worker ran, and the three    *)
(* operator commands that resolve it (runtime.py): update-base rebases the *)
(* retained work onto the current product, resume publishes it on its old  *)
(* base, and auto chooses between the two.  The module composes            *)
(* ProductSync with one execution, from its admission on the product that  *)
(* ProductSync synchronized to its publication or reconciliation.          *)
(*                                                                         *)
(* The execution's work is one commit: on the base the worker had, or the  *)
(* result of the n-th rebase.  A rebase onto another base makes a new      *)
(* commit each time it runs, even onto the same target.  The worker itself *)
(* is module Execution's, and the lifecycle commit ControlLifecycle's.     *)
(***************************************************************************)
EXTENDS ProductSync

CONSTANT MaxCommands   \* bound: operator commands

ASSUME CommandsAssumption == MaxCommands \in Nat /\ <<>> \notin Commits

VARIABLES
  run,         \* the persisted execution fields
  recon,       \* state["reconciliation"]
  ws,          \* the execution worktree: its HEAD, and a rebase under way
  branch,      \* the execution branch on the server
  evidence,    \* refs/devlegate/reconciliation/<ticket>/<execution>
  rewritten,   \* the same with the suffix -rewritten
  control,     \* the history of the control worktree
  cmd,         \* volatile: local variables of the command in hand
  commands,    \* bound: operator commands issued
  authorized   \* history: the bases that the operator allowed a published
               \* branch to be rewritten onto

work == <<run, recon, ws, branch, evidence, rewritten, control>>
issued == <<commands, authorized>>
vars == <<product, rec, pc, vol, bounds, work, cmd, issued>>

Work(b, n) == [base |-> b, n |-> n]
Works == [base : Commits, n : 0..MaxCommands]

None == Work(<<>>, 0)
Prior == Work(<<>>, 1)    \* an earlier checkpoint of the branch, published
Alien == Work(<<>>, 2)    \* what somebody else pushed to the execution branch
Spoiled == Work(<<>>, 3)  \* what a rebase leaves that lost commits or is dirty
Refs == Works \cup {None, Prior, Alien}

Controls == {<<>>, <<"own">>, <<"other">>, <<"other", "own">>, <<"own", "other">>}

Stages == {"none", "post-checkpoint", "post-publication", "lifecycle", "over"}
NoRun == [stage |-> "none", base |-> First, head |-> None, remote |-> None,
          control |-> <<>>]

Statuses == {"none", "pending", "resolving", "resolved"}
NoRecon == [status |-> "none", base |-> First, head |-> None, remote |-> None,
            control |-> <<>>, rewrite |-> "none", target |-> First,
            result |-> None, auth |-> FALSE]

NoCmd == [by |-> "scheduler", resume |-> FALSE, was |-> FALSE, auth |-> FALSE,
          onto |-> First, saw |-> None]

ProductPcs == {"off", "ready", "fetched", "merging", "merged", "synced"}
RunPcs == {"observe", "pin", "push", "pushed", "lifecycle", "finalize",
           "resolve"}
ResumePcs == {"resume", "resuming"}
UpdatePcs == {"update", "restored", "prove", "rebase", "rebasing", "spoiled",
              "undone", "rebased", "record", "publish", "published", "pinned"}

TypeOK ==
  /\ {origin, seen, local} \subseteq Commits /\ tidy \in BOOLEAN
  /\ rec \in [phase : Phases, local : Commits, remote : Commits]
  /\ pc \in ProductPcs \cup RunPcs \cup ResumePcs \cup UpdatePcs
  /\ vol \in [lh : Commits, th : Commits, seen : Commits, was : Phases]
  /\ moves \in 0..MaxMoves /\ faults \in 0..MaxFaults
  /\ run \in [stage : Stages, base : Commits, head : Works \cup {None},
              remote : Refs, control : Controls]
  /\ recon \in [status : Statuses, base : Commits, head : Works \cup {None},
                remote : Refs, control : Controls,
                rewrite : {"none", "local-pending", "remote-pending"},
                target : Commits, result : Works \cup {None}, auth : BOOLEAN]
  /\ ws \in [head : Works \cup {None, Spoiled}, rebasing : BOOLEAN]
  /\ branch \in Refs /\ evidence \in Refs /\ rewritten \in Refs
  /\ control \in Controls
  /\ commands \in 0..MaxCommands /\ authorized \subseteq Commits
  /\ cmd \in [by : {"scheduler", "operator"}, resume : BOOLEAN, was : BOOLEAN,
              auth : BOOLEAN, onto : Commits, saw : Refs]

Init ==
  /\ InitProduct
  /\ run = NoRun /\ recon = NoRecon
  /\ ws = [head |-> None, rebasing |-> FALSE]
  /\ branch \in {None, Prior} /\ evidence = None /\ rewritten = None
  /\ control = <<>> /\ cmd = NoCmd /\ commands = 0 /\ authorized = {}

Goto(p) == pc' = p /\ UNCHANGED <<vol, cmd>>
Return == pc' = "ready" /\ vol' = Home /\ cmd' = NoCmd

\* The error of an iteration is absorbed while a reconciliation is pending
\* (_has_pending_reconciliation); one that is resolving does not count.  The
\* error of a command is answered.
Absorbed == recon.status = "pending"

Raise ==
  /\ Fail(cmd.by = "operator" \/ Absorbed)
  /\ cmd' = NoCmd

\* _observe_product_generation fetches, and compares both heads.
StableAt(b) == tidy /\ local = b /\ origin = b
Observe == seen' = origin /\ UNCHANGED <<origin, local, tidy>>

(***************************************************************************)
(* The scheduler: one execution, and the continuation of a resume.         *)
(***************************************************************************)
Synchronize ==
  /\ rec.phase = "idle" => recon.status # "resolving"
  /\ SyncStep(Absorbed)
  /\ UNCHANGED <<work, cmd, issued>>

Admit ==
  /\ pc = "synced" /\ rec.phase = "idle" /\ run.stage = "none"
  /\ rec' = [phase |-> "agent_pending", local |-> vol.lh, remote |-> vol.th]
  /\ UNCHANGED <<product, pc, vol, bounds, work, cmd, issued>>

\* From the launch to the save of the checkpoint (module Execution).
RunWorker ==
  /\ pc = "synced" /\ rec.phase = "agent_pending"
  /\ rec' = [rec EXCEPT !.phase = "agent_running"]
  /\ run' = [stage |-> "post-checkpoint", base |-> rec.local,
             head |-> Work(rec.local, 0), remote |-> branch,
             control |-> control]
  /\ ws' = [ws EXCEPT !.head = Work(rec.local, 0)]
  /\ pc' = "observe" /\ vol' = Home
  /\ UNCHANGED <<product, bounds, recon, branch, evidence, rewritten, control,
                 cmd, issued>>

PlanNothing ==
  /\ pc = "synced" /\ rec.phase = "idle" /\ run.stage # "none"
  /\ Return
  /\ UNCHANGED <<product, rec, bounds, work, issued>>

\* _recover_checkpoint_publication, from an iteration that finds the
\* execution running.
RecoverPublication ==
  /\ pc = "ready" /\ rec.phase = "agent_running"
  /\ Goto(IF run.stage = "lifecycle" THEN "lifecycle" ELSE "observe")
  /\ UNCHANGED <<product, rec, bounds, work, issued>>

ObserveStable ==
  /\ pc = "observe" /\ StableAt(run.base) /\ Observe
  /\ Goto("push")
  /\ UNCHANGED <<rec, bounds, work, issued>>

ObserveChanged ==
  /\ pc = "observe" /\ ~StableAt(run.base) /\ Observe
  /\ evidence \in {None, run.head}
  /\ Goto("pin")
  /\ UNCHANGED <<rec, bounds, work, issued>>

\* update-ref before the save: the checkpoint outlives the worktree.
PinCheckpoint ==
  /\ pc = "pin" /\ evidence # run.head
  /\ evidence' = run.head
  /\ UNCHANGED <<product, rec, pc, vol, bounds, run, recon, ws, branch,
                 rewritten, control, cmd, issued>>

Reconciliation ==
  [NoRecon EXCEPT !.status = "pending", !.base = run.base, !.head = run.head,
                  !.remote = run.remote, !.control = run.control]

\* Mutant: the reconciliation is saved before its evidence is pinned.
SaveReconciliationUnpinned ==
  /\ pc = "pin"
  /\ recon' = Reconciliation
  /\ rec' = [rec EXCEPT !.phase = "idle"]
  /\ run' = [run EXCEPT !.stage = "over"]
  /\ Return
  /\ UNCHANGED <<product, bounds, ws, branch, evidence, rewritten, control,
                 issued>>

\* _persist_product_reconciliation.  It replaces a resolving reconciliation,
\* too, when the product moves under a resumed publication.
SaveReconciliation ==
  /\ pc = "pin" /\ evidence = run.head
  /\ recon' = Reconciliation
  /\ rec' = [rec EXCEPT !.phase = "idle"]
  /\ run' = [run EXCEPT !.stage = "over"]
  /\ Return
  /\ UNCHANGED <<product, bounds, ws, branch, evidence, rewritten, control,
                 issued>>

\* Where the branch may be: before the first publication, or published.
\* What others pushed is no ancestor of the checkpoint.
Publishable ==
  \/ branch = run.head
  \/ run.stage = "post-checkpoint" /\ branch = run.remote /\ branch # Alien

\* What a lease or the observation before it finds in the way blocks the
\* publication; the stages are recoverable and the service stays.
PublicationBlocked ==
  /\ pc = "push" /\ ~Publishable
  /\ Return
  /\ UNCHANGED <<product, rec, bounds, work, issued>>

\* _publish_execution_branch; an answer that is lost is made good by the
\* observation that follows.
Publish ==
  /\ pc = "push" /\ Publishable
  /\ branch' = run.head
  /\ Goto("pushed")
  /\ UNCHANGED <<product, rec, bounds, run, recon, ws, evidence, rewritten,
                 control, issued>>

SavePublished ==
  /\ pc = "pushed"
  /\ run' = [run EXCEPT !.stage =
       IF run.stage = "post-checkpoint" THEN "post-publication" ELSE "lifecycle"]
  /\ Goto(IF run.stage = "post-checkpoint" THEN "pushed" ELSE "lifecycle")
  /\ UNCHANGED <<product, rec, bounds, recon, ws, branch, evidence, rewritten,
                 control, issued>>

\* _apply_execution_lifecycle is module ControlLifecycle; a commit that is
\* there already is recognized.
ApplyLifecycle ==
  /\ pc = "lifecycle"
  /\ control' = IF "own" \in Range(control) THEN control
                ELSE Append(control, "own")
  /\ Goto("finalize")
  /\ UNCHANGED <<product, rec, bounds, run, recon, ws, branch, evidence,
                 rewritten, issued>>

\* _finalize_execution_lifecycle: the phase is idle again.  A reconciliation
\* is not touched here; the command that resumed it resolves it next.
Finalize ==
  /\ pc = "finalize"
  /\ rec' = [rec EXCEPT !.phase = "idle"]
  /\ run' = [run EXCEPT !.stage = "over"]
  /\ IF cmd.resume THEN Goto("resolve") ELSE Return
  /\ UNCHANGED <<product, bounds, recon, ws, branch, evidence, rewritten,
                 control, issued>>

(***************************************************************************)
(* Resume: publish the retained checkpoint on the base it has.             *)
(***************************************************************************)
Command ==
  /\ pc = "ready" /\ commands < MaxCommands /\ commands' = commands + 1

\* reconcile-resume is admitted without a look at the product, and its
\* receipt makes the reconciliation resolving.
AdmitResume ==
  /\ Command /\ recon.status \in {"pending", "resolving"}
  /\ recon' = [recon EXCEPT !.status = "resolving"]
  /\ cmd' = [NoCmd EXCEPT !.by = "operator", !.resume = TRUE, !.was = TRUE]
  /\ pc' = "resume"
  /\ UNCHANGED <<product, rec, vol, bounds, run, ws, branch, evidence,
                 rewritten, control, authorized>>

\* reconcile-auto on an unchanged product resumes, and leaves it pending.
AdmitAutoResume ==
  /\ Command /\ recon.status = "pending" /\ StableAt(recon.base) /\ Observe
  /\ cmd' = [NoCmd EXCEPT !.by = "operator", !.resume = TRUE]
  /\ pc' = "resume"
  /\ UNCHANGED <<rec, vol, bounds, work, authorized>>

\* Mutant: a continued resume is treated as a new one.
ContinueResumeAnew ==
  /\ pc = "ready" /\ rec.phase = "idle" /\ recon.status = "resolving"
  /\ cmd' = [NoCmd EXCEPT !.resume = TRUE]
  /\ pc' = "resume"
  /\ UNCHANGED <<product, rec, vol, bounds, work, issued>>

\* _run_iteration_body continues a resolving reconciliation before anything
\* else.
ContinueResume ==
  /\ pc = "ready" /\ rec.phase = "idle" /\ recon.status = "resolving"
  /\ cmd' = [NoCmd EXCEPT !.resume = TRUE, !.was = TRUE]
  /\ pc' = "resume"
  /\ UNCHANGED <<product, rec, vol, bounds, work, issued>>

\* The published branch is what it was, or what an interrupted resume made it.
ResumableBranch ==
  /\ recon.remote # Alien
  /\ branch = recon.remote \/ (cmd.was /\ branch = recon.head)

Resumable ==
  /\ StableAt(recon.base)
  /\ control = recon.control
  /\ ws = [head |-> recon.head, rebasing |-> FALSE]
  /\ evidence = recon.head
  /\ ResumableBranch

BeginResume ==
  /\ pc = "resume" /\ Resumable /\ Observe
  /\ recon' = [recon EXCEPT !.status = "resolving"]
  /\ rec' = [rec EXCEPT !.phase = "idle"]
  /\ cmd' = [cmd EXCEPT !.saw = branch]
  /\ pc' = "resuming"
  /\ UNCHANGED <<vol, bounds, run, ws, branch, evidence, rewritten, control,
                 issued>>

\* Everything is observed again after the save.
Reobserved ==
  /\ StableAt(recon.base)
  /\ branch = cmd.saw \/ (cmd.was /\ branch = recon.head)

\* The execution is running again, as after a crash behind its checkpoint.
ResumePublication ==
  /\ pc = "resuming" /\ Reobserved /\ Observe
  /\ rec' = [phase |-> "agent_running", local |-> recon.base,
             remote |-> recon.base]
  /\ run' = [stage |-> "post-checkpoint", base |-> recon.base,
             head |-> recon.head, remote |-> recon.remote,
             control |-> recon.control]
  /\ Goto("observe")
  /\ UNCHANGED <<bounds, recon, ws, branch, evidence, rewritten, control,
                 issued>>

\* A worktree in the middle of a rebase blocks the workflow; the other
\* refusals are errors.
ResumeRefused ==
  /\ \/ pc = "resume" /\ ~Resumable
     \/ pc = "resuming" /\ ~Reobserved
  /\ Observe
  /\ IF pc = "resume" /\ ws.rebasing /\ StableAt(recon.base) THEN Return
     ELSE Raise
  /\ UNCHANGED <<rec, bounds, work, issued>>

SaveResumed ==
  /\ pc = "resolve"
  /\ recon' = [recon EXCEPT !.status = "resolved"]
  /\ run' = [run EXCEPT !.remote = recon.head]
  /\ Return
  /\ UNCHANGED <<product, rec, bounds, ws, branch, evidence, rewritten,
                 control, issued>>

(***************************************************************************)
(* Update-base: rebase the retained work onto the current product.         *)
(***************************************************************************)
\* reconcile-update-base, with or without --rewrite-published, and
\* reconcile-auto on a changed product, which brings the authorization.
AdmitUpdate ==
  /\ Command /\ recon.status = "pending"
  /\ tidy /\ local = origin /\ Observe
  /\ \E auth \in BOOLEAN :
       /\ cmd' = [NoCmd EXCEPT !.by = "operator", !.auth = auth, !.onto = local]
       /\ authorized' = IF auth THEN authorized \cup {local} ELSE authorized
  /\ pc' = "update"
  /\ UNCHANGED <<rec, vol, bounds, work>>

Eligible ==
  /\ StableAt(cmd.onto)
  /\ Ancestor(recon.base, cmd.onto) \/ SameParent(recon.base, cmd.onto)
  /\ evidence = recon.head
  /\ ~ws.rebasing
  /\ recon.rewrite # "none" => recon.target = cmd.onto

Refuse == Return /\ UNCHANGED <<rec, bounds, work, issued>>

UpdateRefused ==
  /\ pc = "update" /\ ~Eligible /\ Observe
  /\ Refuse

BeginUpdate ==
  /\ pc = "update" /\ Eligible /\ recon.rewrite = "none" /\ Observe
  /\ Goto("prove")
  /\ UNCHANGED <<rec, bounds, work, issued>>

\* An interrupted rewrite, not yet published, is taken back and done again,
\* with the authorization it had.  What the rebase made of the work is only
\* thrown away if it is the whole work, on the target.
WholeWork == ws.head = recon.head \/ ws.head.base = recon.target

RestorableLocal == recon.rewrite = "local-pending" /\ WholeWork

RestorableUnpublished ==
  recon.rewrite = "remote-pending" /\ branch = recon.remote

Restore ==
  /\ pc = "update" /\ Eligible /\ Observe
  /\ RestorableLocal \/ RestorableUnpublished
  /\ ws' = [ws EXCEPT !.head = recon.head]
  /\ cmd' = [cmd EXCEPT !.auth = @ \/ recon.auth]
  /\ pc' = "restored"
  /\ UNCHANGED <<rec, vol, bounds, run, recon, branch, evidence, rewritten,
                 control, issued>>

RestoreRefused ==
  /\ pc = "update" /\ Eligible /\ Observe
  /\ recon.rewrite = "local-pending" /\ ~WholeWork
  /\ Refuse

\* The record is that of a reconciliation without a rewrite again.  The
\* authorization stays in it, and is not read without a rewrite.
Unrewritten ==
  /\ recon' = [recon EXCEPT !.rewrite = "none", !.target = First,
                            !.result = None]
  /\ rec' = [rec EXCEPT !.phase = "idle"]
  /\ UNCHANGED <<product, bounds, run, ws, branch, evidence, rewritten,
                 control, issued>>

SaveRestored == pc = "restored" /\ Unrewritten /\ Goto("prove")

\* One that was published is recognized, with all its evidence.
RewriteExact ==
  /\ branch = recon.result /\ ws.head = recon.result
  /\ rewritten = recon.result

\* Mutant: the record keeps the original base.
ResolveKeepsBase(head, base, published) ==
  LET remote == IF published THEN head ELSE None IN
  /\ recon' = [recon EXCEPT !.status = "resolved", !.head = head,
                 !.remote = remote, !.rewrite = "none", !.result = None]
  /\ run' = [run EXCEPT !.head = head, !.remote = remote]
  /\ rec' = [rec EXCEPT !.phase = "idle"]

\* The work on its new base, published or not, replaces the old.
Resolve(head, base, published) ==
  LET remote == IF published THEN head ELSE None IN
  /\ recon' = [recon EXCEPT !.status = "resolved", !.base = base,
                 !.head = head, !.remote = remote, !.rewrite = "none",
                 !.result = None]
  /\ run' = [run EXCEPT !.base = base, !.head = head, !.remote = remote]
  /\ rec' = [rec EXCEPT !.phase = "idle"]

RecognizeRewrite ==
  /\ pc = "update" /\ Eligible /\ Observe
  /\ recon.rewrite = "remote-pending" /\ branch # recon.remote /\ RewriteExact
  /\ Resolve(recon.result, recon.target, TRUE)
  /\ Return
  /\ UNCHANGED <<bounds, ws, branch, evidence, rewritten, control,
                 issued>>

RewriteAmbiguous ==
  /\ pc = "update" /\ Eligible /\ Observe
  /\ recon.rewrite = "remote-pending" /\ branch # recon.remote /\ ~RewriteExact
  /\ Refuse

\* Mutant: a published branch is rewritten unasked.
RewritableUnasked ==
  /\ ws.head = recon.head
  /\ branch = recon.remote
  /\ branch # None => branch \in {Prior, recon.head}

\* A published branch is only rewritten on request, and only if what is
\* published belongs to the work.
Rewritable ==
  /\ ws.head = recon.head
  /\ branch = recon.remote
  /\ branch # None => cmd.auth /\ branch \in {Prior, recon.head}

ProveRefused ==
  /\ pc = "prove" /\ ~Rewritable
  /\ UNCHANGED product /\ Refuse

SaveLocalPending ==
  /\ pc = "prove" /\ Rewritable
  /\ recon' = [recon EXCEPT !.rewrite = "local-pending", !.target = cmd.onto,
                            !.auth = cmd.auth]
  /\ rec' = [rec EXCEPT !.phase = "idle"]
  /\ cmd' = [cmd EXCEPT !.saw = branch] /\ pc' = "rebase"
  /\ UNCHANGED <<product, vol, bounds, run, ws, branch, evidence, rewritten,
                 control, issued>>

\* git rebase detaches HEAD until it is through.
BeginRebase ==
  /\ pc = "rebase" /\ ws' = [ws EXCEPT !.rebasing = TRUE]
  /\ Goto("rebasing")
  /\ UNCHANGED <<product, rec, bounds, run, recon, branch, evidence, rewritten,
                 control, issued>>

\* Onto its own base the work is up to date and keeps its commits.
EndRebase ==
  /\ pc = "rebasing"
  /\ ws' = [rebasing |-> FALSE,
            head |-> IF cmd.onto = recon.base THEN recon.head
                     ELSE Work(cmd.onto, commands)]
  /\ Goto("rebased")
  /\ UNCHANGED <<product, rec, bounds, run, recon, branch, evidence, rewritten,
                 control, issued>>

\* One that went through, but not with the whole work or a clean worktree,
\* is taken back at once.
SpoilRebase ==
  /\ pc = "rebasing" /\ cmd.onto # recon.base
  /\ ws' = [rebasing |-> FALSE, head |-> Spoiled]
  /\ Goto("spoiled")
  /\ UNCHANGED <<product, rec, bounds, run, recon, branch, evidence, rewritten,
                 control, issued>>

UndoRebase ==
  /\ pc = "spoiled"
  /\ ws' = [ws EXCEPT !.head = recon.head]
  /\ Goto("undone")
  /\ UNCHANGED <<product, rec, bounds, run, recon, branch, evidence, rewritten,
                 control, issued>>

SaveUndone == pc = "undone" /\ Unrewritten /\ Return

\* git reset --hard fails.
ResetFails ==
  /\ \/ pc = "spoiled"
     \/ pc = "update" /\ Eligible /\ (RestorableLocal \/ RestorableUnpublished)
  /\ faults < MaxFaults /\ faults' = faults + 1
  /\ Return
  /\ UNCHANGED <<product, rec, moves, work, issued>>

RebaseConflict ==
  /\ pc = "rebasing" /\ cmd.onto # recon.base
  /\ faults < MaxFaults /\ faults' = faults + 1
  /\ ws' = [ws EXCEPT !.rebasing = FALSE]
  /\ Return
  /\ UNCHANGED <<product, rec, moves, run, recon, branch, evidence, rewritten,
                 control, issued>>

\* The reference for the rewritten work is only ever created here.
PinRewritten ==
  /\ pc = "rebased" /\ cmd.saw # None /\ rewritten = None
  /\ rewritten' = ws.head
  /\ Goto("record")
  /\ UNCHANGED <<product, rec, bounds, run, recon, ws, branch, evidence,
                 control, issued>>

PinRefused ==
  /\ pc = "rebased" /\ cmd.saw # None /\ rewritten # None
  /\ UNCHANGED product /\ Refuse

SaveRemotePending ==
  /\ pc = "record"
  /\ recon' = [recon EXCEPT !.rewrite = "remote-pending", !.result = ws.head]
  /\ Goto("publish")
  /\ UNCHANGED <<product, rec, bounds, run, ws, branch, evidence, rewritten,
                 control, issued>>

\* push --force-with-lease: on the branch that was observed, or not at all.
PushRewritten ==
  /\ pc = "publish" /\ branch = cmd.saw
  /\ branch' = ws.head
  /\ Goto("published")
  /\ UNCHANGED <<product, rec, bounds, run, recon, ws, evidence, rewritten,
                 control, issued>>

PushRewrittenFails ==
  /\ pc = "publish"
  /\ \/ branch # cmd.saw /\ UNCHANGED faults
     \/ faults < MaxFaults /\ faults' = faults + 1
  /\ Return
  /\ UNCHANGED <<product, rec, moves, work, issued>>

\* An unpublished rewrite goes straight to its evidence and its save.
Effective ==
  \/ pc = "rebased" /\ cmd.saw = None
  \/ pc = "published" /\ branch = ws.head

PinResult ==
  /\ Effective /\ rewritten \in {None, ws.head}
  /\ rewritten' = ws.head
  /\ Goto("pinned")
  /\ UNCHANGED <<product, rec, bounds, run, recon, ws, branch, evidence,
                 control, issued>>

PinResultRefused ==
  /\ \/ Effective /\ rewritten \notin {None, ws.head}
     \/ pc = "published" /\ branch # ws.head
  /\ UNCHANGED product /\ Refuse

SaveUpdated ==
  /\ pc = "pinned"
  /\ Resolve(ws.head, cmd.onto, cmd.saw # None)
  /\ Return
  /\ UNCHANGED <<product, bounds, ws, branch, evidence, rewritten,
                 control, issued>>

(***************************************************************************)
(* The others, crashes, and the specification.                             *)
(***************************************************************************)
ProductEnvironment == ProductChanges /\ UNCHANGED <<work, cmd, issued>>

\* Somebody pushes to the execution branch.
OthersBranch ==
  /\ branch # Alien /\ moves < MaxMoves /\ moves' = moves + 1
  /\ branch' = Alien
  /\ UNCHANGED <<product, rec, pc, vol, faults, run, recon, ws, evidence,
                 rewritten, control, cmd, issued>>

\* _sync_control takes over a commit of others at the start of an iteration.
SyncControl ==
  /\ pc = "ready" /\ rec.phase # "agent_running"
  /\ rec.phase = "idle" => recon.status # "resolving"
  /\ "other" \notin Range(control) /\ moves < MaxMoves /\ moves' = moves + 1
  /\ control' = Append(control, "other")
  /\ UNCHANGED <<product, rec, pc, vol, faults, run, recon, ws, branch,
                 evidence, rewritten, cmd, issued>>

ProcessEnds == Crash /\ cmd' = NoCmd /\ UNCHANGED <<work, issued>>
ProcessStarts == Start /\ UNCHANGED <<work, cmd, issued>>
ServiceStops == StopBeforeMerge /\ UNCHANGED <<work, cmd, issued>>

RunStep ==
  \/ Admit \/ RunWorker \/ PlanNothing \/ RecoverPublication
  \/ ObserveStable \/ ObserveChanged \/ PinCheckpoint \/ SaveReconciliation
  \/ PublicationBlocked \/ Publish \/ SavePublished \/ ApplyLifecycle
  \/ Finalize

ResumeStep ==
  \/ ContinueResume \/ BeginResume \/ ResumePublication \/ ResumeRefused
  \/ SaveResumed

UpdateStep ==
  \/ UpdateRefused \/ BeginUpdate \/ Restore \/ RestoreRefused \/ SaveRestored
  \/ RecognizeRewrite \/ RewriteAmbiguous \/ ProveRefused
  \/ SaveLocalPending \/ BeginRebase \/ EndRebase
  \/ SpoilRebase \/ UndoRebase \/ SaveUndone \/ PinRewritten \/ PinRefused \/ SaveRemotePending
  \/ PushRewritten \/ PinResult \/ PinResultRefused \/ SaveUpdated

Refused ==
  \/ pc = "publish" /\ branch # cmd.saw /\ PushRewrittenFails

ServiceStep == Synchronize \/ RunStep \/ ResumeStep \/ UpdateStep \/ Refused

Operator == AdmitResume \/ AdmitAutoResume \/ AdmitUpdate

Next ==
  \/ ServiceStep \/ Operator
  \/ PushRewrittenFails \/ RebaseConflict \/ ResetFails \/ ServiceStops
  \/ ProductEnvironment \/ OthersBranch \/ SyncControl
  \/ ProcessEnds \/ ProcessStarts

\* The owner thread takes its next step, an iteration comes after each poll
\* interval, and the service manager starts the service again.  Operator and
\* others owe nothing.
Spec ==
  /\ Init /\ [][Next]_vars
  /\ WF_vars(ServiceStep) /\ WF_vars(ProcessStarts)

(***************************************************************************)
(* Properties                                                              *)
(***************************************************************************)
\* _run_iteration_body: a step of the service moves the operator's checkout
\* only inside a recorded transaction, only forward, and never to a commit
\* the remote branch did not have when it was last fetched.
AdoptsOnlyRecorded ==
  [][local' # local /\ pc' # pc =>
       /\ rec.phase = "merge_pending"
       /\ Ancestor(local, local') /\ local' = seen]_vars

\* _persist_product_reconciliation, _reconcile_update_base_owned: once the
\* execution has its checkpoint and until it is published, the worker's own
\* commit is held by the worktree or by an evidence ref, whatever rewrite,
\* crash or push of others happens.
CheckpointHeld ==
  /\ run.head # None => run.head \in {evidence, branch, ws.head}
  /\ recon.status \in {"pending", "resolving"} => recon.head = evidence

\* _reconcile_update_base_owned, _reconcile_resume_owned: a resolved
\* reconciliation describes one commit: the worktree's HEAD, on the base it
\* says, held by evidence, and published exactly if it says so (unless others
\* pushed since).
ResolvedIsExact ==
  recon.status = "resolved" =>
    /\ ws = [head |-> recon.head, rebasing |-> FALSE]
    /\ recon.head.base = recon.base
    /\ recon.head \in {evidence, rewritten}
    /\ branch \in {run.remote, Alien}

\* _publish_execution_branch, the leases of update-base: the service never
\* replaces what somebody else pushed to the execution branch.  A rewrite
\* replaces what is published there only with an authorization in the record
\* that the operator gave for this very base: one of an interrupted rewrite
\* is inherited, over any crash, and never by a rewrite onto another base.
BranchNeverClobbered ==
  [][branch' # branch /\ branch' # Alien =>
       /\ branch # Alien
       /\ pc = "publish" /\ branch # None =>
            recon.auth /\ recon.target \in authorized]_vars

\* _run_iteration_body, _reconcile_resume_owned: a transaction left pending
\* and a resume under way end, over crashes, unless something they depend on
\* has moved: the product, the control branch or the execution branch.
ResumeObstructed ==
  \/ rec.phase = "merge_pending" /\ MergeObstructed
  \/ ~StableAt(recon.base)
  \/ control # recon.control
  \/ recon.remote = Alien \/ branch \notin {recon.remote, recon.head}
  \/ ws # [head |-> recon.head, rebasing |-> FALSE]

InterruptedEnds ==
  /\ rec.phase = "merge_pending" ~> rec.phase # "merge_pending" \/ MergeObstructed
  /\ recon.status = "resolving" ~> recon.status # "resolving" \/ ResumeObstructed


(***************************************************************************)
(* The inductive invariant (module ReconcileProofs).                       *)
(***************************************************************************)
AtHead == ws.head = run.head /\ ~ws.rebasing
PushedTo(c) == branch \in {c, Alien}

\* The synchronization works on a phase that is not a running execution's,
\* and an execution once begun is never admitted again.
SyncInv ==
  /\ pc = "fetched" => vol.was = rec.phase
  /\ pc \in {"merging", "merged"} => rec.phase = "merge_pending"
  /\ pc \in {"fetched", "merging", "merged", "synced"} =>
       rec.phase # "agent_running"
  /\ run.stage # "none" =>
       rec.phase # "agent_pending" /\ vol.was # "agent_pending"
  /\ pc \in ProductPcs => ~cmd.resume

\* The publication of an execution: the worktree stands on the checkpoint
\* until the execution is over, and the stage tells what is published.
RunInv ==
  /\ run.stage = "none" =>
       /\ recon.status = "none" /\ rec.phase # "agent_running"
       /\ run.head = None /\ ~ws.rebasing /\ branch \notin Works
  /\ run.stage # "none" => run.head \in Works /\ run.head.base = run.base
  /\ run.stage \in {"post-publication", "lifecycle"} => PushedTo(run.head)
  /\ rec.phase = "agent_running" =>
       /\ run.stage \in {"post-checkpoint", "post-publication", "lifecycle"}
       /\ recon.status \in {"none", "resolving"} /\ AtHead
  /\ pc \in RunPcs =>
       /\ pc # "resolve" => rec.phase = "agent_running"
       /\ cmd.resume => recon.status = "resolving"
  /\ pc \in {"observe", "pin", "push", "pushed"} =>
       run.stage \in {"post-checkpoint", "post-publication"}
  /\ pc \in {"lifecycle", "finalize"} => run.stage = "lifecycle"
  /\ pc = "pushed" => PushedTo(run.head)
  /\ pc = "resolve" =>
       cmd.resume /\ run.stage = "over" /\ AtHead /\ PushedTo(run.head)
         /\ rec.phase # "agent_running"

\* A reconciliation is about the checkpoint of the execution, which its
\* evidence holds until it is resolved, and which no publication has had
\* before.
ReconInv ==
  /\ recon.status # "none" =>
       run.stage # "none" /\ recon.head = run.head /\ recon.base = run.base
  /\ recon.status = "none" /\ run.stage # "none" => AtHead
  /\ recon.status \in {"pending", "resolved"} =>
       run.stage = "over" /\ rec.phase # "agent_running"
  /\ recon.status \in {"pending", "resolving"} => recon.head = evidence
  /\ recon.status = "resolved" =>
       /\ AtHead /\ run.head \in {evidence, rewritten}
       /\ PushedTo(run.remote)
  /\ recon.status # "resolved" =>
       run.remote \notin Works /\ recon.remote \notin Works
  /\ recon.rewrite = "remote-pending" =>
       recon.result \in Works /\ recon.result.base = recon.target

\* A command under way: what it has observed, authorized and done so far.
CommandInv ==
  /\ pc \in ResumePcs => recon.status \in {"pending", "resolving"}
  /\ pc = "resuming" => recon.status = "resolving" /\ AtHead
  /\ pc \in UpdatePcs => recon.status = "pending"
  /\ pc \in UpdatePcs \ {"update", "prove"} => recon.target = cmd.onto
  /\ pc \in UpdatePcs \ {"update", "restored", "prove"} =>
       /\ cmd.saw = None => PushedTo(None)
       /\ cmd.saw \in {None, Prior, recon.head} /\ (cmd.saw # None => recon.auth)
  /\ pc \in {"record", "publish", "published"} => cmd.saw # None
  /\ pc \in {"rebased", "record", "publish", "published", "pinned"} =>
       ~ws.rebasing /\ ws.head \in Works /\ ws.head.base = cmd.onto
  /\ pc = "pinned" =>
       rewritten = ws.head /\ (cmd.saw # None => PushedTo(ws.head))

IInv == TypeOK /\ SyncInv /\ RunInv /\ ReconInv /\ CommandInv

\* Where an authorization comes from: the operator gave it for the base that
\* the command or the rewrite on record is about.
AuthInv ==
  /\ pc \in UpdatePcs \ {"update", "prove"} => recon.rewrite # "none"
  /\ recon.rewrite # "none" /\ recon.auth => recon.target \in authorized
  /\ pc \in UpdatePcs /\ cmd.auth => cmd.onto \in authorized
=============================================================================
