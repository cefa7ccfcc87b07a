-------------------------- MODULE WorkspaceExits ---------------------------
(***************************************************************************)
(* The ways out of an execution that cannot go on, each of which gives up  *)
(* part of its workspace: `drop` retires a blocked execution, `recover`    *)
(* and the automatic repair take a branch away from an older generation,   *)
(* and a forced retry hands the progress of a lost worker to a successor   *)
(* (runtime.py, over execution_workspace.py).  Successive executions of    *)
(* one ticket share the branch devlegate/work/<ticket>, here and on the    *)
(* server, and the worktree that has it checked out.                       *)
(*                                                                         *)
(* A commit is the sequence of its ancestors: 0 is the product's, e the    *)
(* work of execution e, Others everybody else's.  HEAD of the worktree is  *)
(* the branch.  A step that fails, and a process that ends and is started  *)
(* again, both lead back to the owner's loop: nothing else of the owner    *)
(* survives in memory.  What an execution does in between is module        *)
(* Execution's, and is taken in big steps here.                            *)
(***************************************************************************)
EXTENDS Naturals, FiniteSets, SequencesExt

CONSTANTS
  MaxExecs,      \* bound: executions of the ticket
  MaxMoves,      \* bound: changes by others
  MaxFaults,     \* bound: crashes and failed git commands
  MaxCommands    \* bound: operator commands

ASSUME BoundsAssumption ==
  /\ MaxExecs \in Nat \ {0}
  /\ MaxMoves \in Nat /\ MaxFaults \in Nat /\ MaxCommands \in Nat

VARIABLES
  st,            \* the persisted record
  product,       \* head of the product
  branch, tree,  \* local branch, and the worktree: none, clean or dirty
  remote,        \* the branch on the server
  refs,          \* local refs under refs/devlegate that keep a commit
  disposition,   \* refs/devlegate/dispositions/<ticket>/<execution>
  reports,       \* reports on the control branch
  made,          \* history: every commit of the ticket's branch
  pc, mem,       \* volatile: the owner, and its local variables
  bounds         \* counters of the bounds

world == <<branch, tree, remote, refs, disposition, reports, made>>
vars == <<st, product, world, pc, mem, bounds>>

Execs == 1..MaxExecs
Others == MaxExecs + 1
None == <<>>

RefNames == {"drop", "recover", "workspace", "retry"} \X Execs
Phases == {"idle", "pending", "running", "stranded", "publishing", "lifecycle"}
NoMem == [saw |-> None, replay |-> FALSE]

Pcs == {"loop", "prepare", "attach", "launch",
        "intent", "pin", "dispose", "unpublish", "untree", "unbranch", "forget",
        "recover", "rivals", "retire", "vacate", "move", "rebuild", "recovered",
        "repair", "clear", "reset", "remake",
        "checkpoint", "keep", "authorize"}

\* The commits there are.
Known == {None, <<0>>, product} \cup made

TypeOK ==
  /\ st \in [phase : Phases, exec : 0..MaxExecs, base : Known, start : Known,
             remote : Known, report : Known, recovery : Known, resume : BOOLEAN]
  /\ product \in {<<0>>, <<0, 0>>}
  /\ branch \in Known /\ tree \in {"none", "clean", "dirty"} /\ remote \in Known
  /\ refs \in [RefNames -> Known]
  /\ disposition \in [Execs -> {"none", "dropping", "dropped"}]
  /\ reports \subseteq [exec : Execs, head : Known]
  /\ made \subseteq Seq(0..Others)
  /\ \A c \in made : c # None /\ Head(c) = 0 /\ Last(c) \in 1..Others
  /\ pc \in Pcs /\ mem \in [saw : Known, replay : BOOLEAN]
  /\ bounds \in [moves : 0..MaxMoves, faults : 0..MaxFaults,
                 commands : 0..MaxCommands]

NoRecord == [phase |-> "idle", exec |-> 0, base |-> None, start |-> None,
             remote |-> None, report |-> None, recovery |-> None,
             resume |-> FALSE]

Init ==
  /\ st = NoRecord /\ product = <<0>>
  /\ branch = None /\ tree = "none" /\ remote = None
  /\ refs = [r \in RefNames |-> None]
  /\ disposition = [e \in Execs |-> "none"]
  /\ reports = {} /\ made = {} /\ pc = "loop" /\ mem = NoMem
  /\ bounds = [moves |-> 0, faults |-> 0, commands |-> 0]

Goto(p) == pc' = p /\ UNCHANGED <<mem, bounds>>
Return == pc' = "loop" /\ mem' = NoMem /\ UNCHANGED bounds

\* A step whose checks hold goes on to p; an error leaves everything as it is.
Check(cond, p) == IF cond THEN Goto(p) ELSE Return
Same(v, cond, new) == IF cond THEN new ELSE v

\* _validate_existing finds the branch checked out at this commit, and nothing
\* changed in the worktree.
Exact(c) == tree = "clean" /\ branch = c

\* A submodule that is changed, or not at the commit of its superproject, is
\* an uncommitted change like any other.
Intact == tree # "dirty"

Active(e) == st.phase # "idle" /\ st.exec = e
Idle == [NoRecord EXCEPT !.exec = st.exec]
Descends(c) == IsPrefix(st.base, c)

\* update-ref with an empty old value, or the ref has the value already.
Pinnable(r, c) == refs[r] \in {None, c}
Pinned(r, c) == [refs EXCEPT ![r] = c]

(***************************************************************************)
(* An execution, up to its lifecycle.                                      *)
(***************************************************************************)
\* A new execution starts from the product, or after a forced retry from the
\* base and the published branch of its predecessor.
Begin ==
  /\ pc = "loop" /\ st.phase = "idle" /\ st.exec < MaxExecs
  /\ st' = [NoRecord EXCEPT
              !.phase = "pending", !.exec = st.exec + 1,
              !.base = IF st.resume THEN st.base ELSE product,
              !.remote = IF st.resume THEN st.remote ELSE remote]
  /\ Goto("prepare")
  /\ UNCHANGED <<product, world>>

\* ExecutionReports of other executions whose checkpoint is this commit.
Prior(c) == {r \in reports : r.exec # st.exec /\ r.head = c}
Proven(c) == Cardinality(Prior(c)) = 1
PriorExec(c) == (CHOOSE r \in Prior(c) : TRUE).exec

\* manager.inspect and the proof of _inspect_bound_execution_workspace.
Inspection ==
  IF branch # None /\ Descends(branch) /\ tree = "clean" THEN "REUSABLE"
  ELSE IF (branch = None /\ tree = "none") \/ Proven(branch) THEN "RECOVERABLE"
  ELSE "UNSAFE"

\* An iteration that finds a pending execution; what is unsafe waits.
ResumePending ==
  /\ pc = "loop" /\ st.phase = "pending" /\ st.recovery = None
  /\ \/ Inspection = "REUSABLE" /\ Goto("prepare")
     \/ Inspection = "RECOVERABLE" /\ branch = None /\ Goto("prepare")
     \/ Inspection = "RECOVERABLE" /\ branch # None /\ Goto("repair")
  /\ UNCHANGED <<st, product, world>>

\* manager.prepare: _ensure_branch, then the worktree.
EnsureBranch ==
  /\ pc = "prepare"
  /\ branch' = IF branch = None THEN st.base ELSE branch
  /\ Check(Descends(branch'), "attach")
  /\ UNCHANGED <<st, product, tree, remote, refs, disposition, reports, made>>

AddWorktree ==
  /\ pc = "attach"
  /\ tree' = IF tree = "none" THEN "clean" ELSE tree
  /\ Goto("launch")
  /\ UNCHANGED <<st, product, branch, remote, refs, disposition, reports, made>>

Launch ==
  /\ pc = "launch"
  /\ st' = [st EXCEPT !.phase = "running", !.start = branch]
  /\ Return
  /\ UNCHANGED <<product, world>>

WorkerWorks ==
  /\ pc = "loop" /\ st.phase = "running" /\ tree' = "dirty"
  /\ UNCHANGED <<st, product, branch, remote, refs, disposition, reports, made,
                 pc, mem, bounds>>

WorkerLost ==
  /\ pc = "loop" /\ st.phase = "running"
  /\ st' = [st EXCEPT !.phase = "stranded"]
  /\ UNCHANGED <<product, world, pc, mem, bounds>>

\* manager.checkpoint: everything in the worktree in one commit, or none.
Committed == IF tree = "dirty" THEN Append(branch, st.exec) ELSE branch
CommitTree ==
  /\ branch' = Committed /\ tree' = "clean"
  /\ made' = IF tree = "dirty" THEN made \cup {Committed} ELSE made

Checkpoint ==
  /\ pc = "loop" /\ st.phase = "running" /\ branch = st.start /\ tree # "none"
  /\ CommitTree
  /\ st' = [st EXCEPT !.phase = "publishing", !.report = Committed]
  /\ UNCHANGED <<product, remote, refs, disposition, reports, pc, mem, bounds>>

\* _publish_execution_branch: from the predecessor admitted, an ancestor.
Publish ==
  /\ pc = "loop" /\ st.phase = "publishing" /\ branch = st.report
  /\ remote = st.remote /\ IsPrefix(st.remote, st.report)
  /\ remote' = st.report
  /\ st' = [st EXCEPT !.phase = "lifecycle"]
  /\ UNCHANGED <<product, branch, tree, refs, disposition, reports, made, pc, mem,
                 bounds>>

\* Mutant: only a finished drop is looked for.
ApplyUnlessDropped ==
  /\ pc = "loop" /\ st.phase = "lifecycle" /\ disposition[st.exec] # "dropped"
  /\ reports' = reports \cup {[exec |-> st.exec, head |-> st.report]}
  /\ st' = Idle
  /\ UNCHANGED <<product, branch, tree, remote, refs, disposition, made, pc, mem,
                 bounds>>

\* The lifecycle is applied, if the control branch still permits it, unless
\* there is a disposition: then the iteration goes on with the drop.
ApplyLifecycle ==
  /\ pc = "loop" /\ st.phase = "lifecycle" /\ disposition[st.exec] = "none"
  /\ reports' = reports \cup {[exec |-> st.exec, head |-> st.report]}
  /\ st' = Idle
  /\ UNCHANGED <<product, branch, tree, remote, refs, disposition, made, pc, mem,
                 bounds>>

(***************************************************************************)
(* drop                                                                    *)
(***************************************************************************)
Command ==
  /\ pc = "loop" /\ bounds.commands < MaxCommands
  /\ bounds' = [bounds EXCEPT !.commands = @ + 1]
  /\ UNCHANGED mem

\* _validate_drop_admission and _validate_drop_evidence: the workspace and
\* the server have exactly the checkpoint, one commit of this execution, or
\* an earlier attempt has begun to remove them.
DropAdmissible(e) ==
  LET begun == disposition[e] # "none" IN
  /\ Active(e) /\ st.phase = "lifecycle"
  /\ IF tree # "none"
     THEN /\ Exact(st.report)
          /\ st.report # st.start /\ Front(st.report) = st.start
     ELSE begun /\ refs[<<"drop", e>>] = st.report
  /\ remote = st.report \/ (begun /\ remote = None)

\* A drop already completed is acknowledged again and does nothing.
Drop(e) ==
  /\ Command
  /\ DropAdmissible(e) /\ pc' = "intent"
  /\ UNCHANGED <<st, product, world>>

\* An iteration that finds a disposition goes on with the drop.
ResumeDrop ==
  /\ pc = "loop" /\ st.phase = "lifecycle" /\ disposition[st.exec] # "none"
  /\ DropAdmissible(st.exec)
  /\ Goto("intent")
  /\ UNCHANGED <<st, product, world>>

PersistDropIntent ==
  /\ pc = "intent"
  /\ disposition' =
       [disposition EXCEPT ![st.exec] = IF @ = "none" THEN "dropping" ELSE @]
  /\ Goto("pin")
  /\ UNCHANGED <<st, product, branch, tree, remote, refs, reports, made>>

PinDropEvidence ==
  /\ pc = "pin"
  /\ LET r == <<"drop", st.exec>> IN
       /\ refs' = Same(refs, Pinnable(r, st.report), Pinned(r, st.report))
       /\ Check(Pinnable(r, st.report), "dispose")
  /\ UNCHANGED <<st, product, branch, tree, remote, disposition, reports, made>>

Dispose ==
  /\ pc = "dispose"
  /\ disposition' = [disposition EXCEPT ![st.exec] = "dropped"]
  /\ Goto("unpublish")
  /\ UNCHANGED <<st, product, branch, tree, remote, refs, reports, made>>

\* Delete the branch on the server with a lease.
RetireRemote ==
  /\ pc = "unpublish"
  /\ LET ok == remote \in {None, st.report} IN
       remote' = Same(remote, ok, None) /\ Check(ok, "untree")
  /\ UNCHANGED <<st, product, branch, tree, refs, disposition, reports, made>>

\* manager.retire.
RetireTree ==
  /\ pc = "untree"
  /\ LET ok == tree = "none" \/ Exact(st.report) IN
       tree' = Same(tree, ok, "none") /\ Check(ok, "unbranch")
  /\ UNCHANGED <<st, product, branch, remote, refs, disposition, reports, made>>

RetireBranch ==
  /\ pc = "unbranch"
  /\ LET ok == branch \in {None, st.report} IN
       branch' = Same(branch, ok, None) /\ Check(ok, "forget")
  /\ UNCHANGED <<st, product, tree, remote, refs, disposition, reports, made>>

ForgetDropped ==
  /\ pc = "forget" /\ st' = Idle /\ Return
  /\ UNCHANGED <<product, world>>

(***************************************************************************)
(* recover                                                                 *)
(***************************************************************************)
Replay(h) == refs[<<"recover", st.exec>>] = h /\ branch = st.base

\* The operator names the head to give up.
Recover(h) ==
  /\ Command
  /\ st.phase = "pending" /\ Inspection = "UNSAFE" /\ branch # None
  /\ branch = h \/ Replay(h)
  /\ st' = [st EXCEPT !.recovery = h] /\ pc' = "recover"
  /\ UNCHANGED <<product, world>>

ResumeRecovery ==
  /\ pc = "loop" /\ st.phase = "pending" /\ st.recovery # None
  /\ Goto("recover")
  /\ UNCHANGED <<st, product, world>>

PinRecovered ==
  /\ pc = "recover"
  /\ LET h == st.recovery
         r == <<"recover", st.exec>>
         ok == (branch = h \/ Replay(h)) /\ Pinnable(r, h) IN
       /\ refs' = Same(refs, ok, Pinned(r, h))
       /\ pc' = IF ok THEN "rivals" ELSE "loop"
       /\ mem' = IF ok THEN [NoMem EXCEPT !.replay = Replay(h)] ELSE NoMem
       /\ UNCHANGED bounds
  /\ UNCHANGED <<st, product, branch, tree, remote, disposition, reports, made>>

\* What the server has is kept under the execution whose report names it, or
\* else where the authorized head is kept, which must then be the same.  (It
\* is also published under that name, which no property here is about.)
RivalRef(c) ==
  IF Proven(c) THEN <<"workspace", PriorExec(c)>> ELSE <<"recover", st.exec>>

PinRemote ==
  /\ pc = "rivals"
  /\ IF remote \in {None, st.base}
     THEN Goto("vacate") /\ UNCHANGED refs
     ELSE LET r == RivalRef(remote) ok == Pinnable(r, remote) IN
       /\ refs' = Same(refs, ok, Pinned(r, remote))
       /\ pc' = IF ok THEN "retire" ELSE "loop"
       /\ mem' = IF ok THEN [mem EXCEPT !.saw = remote] ELSE NoMem
       /\ UNCHANGED bounds
  /\ UNCHANGED <<st, product, branch, tree, remote, disposition, reports, made>>

\* Mutant: the push to the base has no lease.
PushBaseForced ==
  /\ pc = "retire"
  /\ remote' = st.base /\ Goto("vacate")
  /\ UNCHANGED <<st, product, branch, tree, refs, disposition, reports, made>>

PushBase ==
  /\ pc = "retire"
  /\ LET ok == remote = mem.saw IN
       remote' = Same(remote, ok, st.base) /\ Check(ok, "vacate")
  /\ UNCHANGED <<st, product, branch, tree, refs, disposition, reports, made>>

VacateTree ==
  /\ pc = "vacate"
  /\ LET h == IF mem.replay THEN st.base ELSE st.recovery
         ok == tree = "none" \/ Exact(h) IN
       tree' = Same(tree, ok, "none") /\ Check(ok, "move")
  /\ UNCHANGED <<st, product, branch, remote, refs, disposition, reports, made>>

\* Mutant: a replay finds the branch where it left it only if it had not
\* moved it.
MoveBranchOnce ==
  /\ pc = "move"
  /\ LET ok == branch = st.recovery IN
       branch' = Same(branch, ok, st.base) /\ Check(ok, "rebuild")
  /\ UNCHANGED <<st, product, tree, remote, refs, disposition, reports, made>>

MoveBranch ==
  /\ pc = "move"
  /\ LET ok == branch = st.recovery \/ (mem.replay /\ branch = st.base) IN
       branch' = Same(branch, ok, st.base) /\ Check(ok, "rebuild")
  /\ UNCHANGED <<st, product, tree, remote, refs, disposition, reports, made>>

Rebuild ==
  /\ pc = "rebuild"
  /\ LET ok == Descends(branch) /\ Intact IN
       /\ tree' = IF tree = "none" THEN "clean" ELSE tree
       /\ Check(ok, "recovered")
  /\ UNCHANGED <<st, product, branch, remote, refs, disposition, reports, made>>

Recovered ==
  /\ pc = "recovered"
  /\ st' = Same(st, remote \in {None, st.base},
                [st EXCEPT !.recovery = None, !.start = None, !.remote = remote])
  /\ Return
  /\ UNCHANGED <<product, world>>

(***************************************************************************)
(* The automatic repair of a branch proven to be an older generation's.    *)
(***************************************************************************)
PinPrior ==
  /\ pc = "repair"
  /\ LET ok == Proven(branch) /\ Pinnable(RivalRef(branch), branch) IN
       /\ refs' = Same(refs, ok, Pinned(RivalRef(branch), branch))
       /\ pc' = IF ok THEN "clear" ELSE "loop"
       /\ mem' = IF ok THEN [NoMem EXCEPT !.saw = branch] ELSE NoMem
       /\ UNCHANGED bounds
  /\ UNCHANGED <<st, product, branch, tree, remote, disposition, reports, made>>

ClearTree ==
  /\ pc = "clear"
  /\ LET ok == branch = mem.saw /\ Intact IN
       tree' = Same(tree, ok, "none") /\ Check(ok, "reset")
  /\ UNCHANGED <<st, product, branch, remote, refs, disposition, reports, made>>

ResetBranch ==
  /\ pc = "reset"
  /\ LET ok == branch = mem.saw IN
       branch' = Same(branch, ok, st.base) /\ Check(ok, "remake")
  /\ UNCHANGED <<st, product, tree, remote, refs, disposition, reports, made>>

Remake ==
  /\ pc = "remake"
  /\ tree' = IF tree = "none" THEN "clean" ELSE tree
  /\ Check(Descends(branch) /\ Intact, "prepare")
  /\ UNCHANGED <<st, product, branch, remote, refs, disposition, reports, made>>

(***************************************************************************)
(* The forced retry of a stranded execution whose ticket changed.          *)
(***************************************************************************)
ForceRetry ==
  /\ Command
  /\ st.phase = "stranded" /\ tree # "none" /\ Descends(branch)
  /\ pc' = "checkpoint"
  /\ UNCHANGED <<st, product, world>>

KeepProgress ==
  /\ pc = "checkpoint" /\ tree # "none"
  /\ CommitTree
  /\ pc' = "keep" /\ mem' = [NoMem EXCEPT !.saw = Committed]
  /\ UNCHANGED <<st, product, remote, refs, disposition, reports, bounds>>

PinProgress ==
  /\ pc = "keep"
  /\ LET r == <<"retry", st.exec>> ok == Pinnable(r, mem.saw) IN
       /\ refs' = Same(refs, ok, Pinned(r, mem.saw))
       /\ Check(ok, "authorize")
  /\ UNCHANGED <<st, product, branch, tree, remote, disposition, reports, made>>

\* One save gives the execution up and admits its successor.
Authorize ==
  /\ pc = "authorize"
  /\ st' = [Idle EXCEPT !.resume = TRUE, !.base = st.base, !.remote = st.remote]
  /\ Return
  /\ UNCHANGED <<product, world>>

(***************************************************************************)
(* Everybody else.                                                         *)
(***************************************************************************)
Interrupted ==
  /\ pc # "loop" /\ bounds.faults < MaxFaults
  /\ pc' = "loop" /\ mem' = NoMem
  /\ bounds' = [bounds EXCEPT !.faults = @ + 1]
  /\ UNCHANGED <<st, product, world>>

Moves ==
  /\ bounds.moves < MaxMoves
  /\ bounds' = [bounds EXCEPT !.moves = @ + 1]
  /\ UNCHANGED <<st, refs, disposition, reports, pc, mem>>

\* A product that moves under an execution is module Reconcile's.
ProductMoves ==
  /\ Moves /\ pc = "loop" /\ st.phase = "idle" /\ product = <<0>>
  /\ product' = <<0, 0>>
  /\ UNCHANGED <<branch, tree, remote, made>>

OthersPush ==
  /\ Moves /\ remote # None
  /\ remote' = Append(remote, Others) /\ made' = made \cup {remote'}
  /\ UNCHANGED <<product, branch, tree>>

\* Somebody works in the worktree.
OthersEdit ==
  /\ Moves /\ tree = "clean" /\ tree' = "dirty"
  /\ UNCHANGED <<product, branch, remote, made>>

OthersCommit ==
  /\ Moves /\ tree # "none" /\ tree' = "clean"
  /\ branch' = Append(branch, Others) /\ made' = made \cup {branch'}
  /\ UNCHANGED <<product, remote>>

(***************************************************************************)
(* The specification.                                                      *)
(***************************************************************************)
ExecutionStep ==
  \/ ResumePending \/ EnsureBranch \/ AddWorktree \/ Launch

DropStep ==
  \/ ResumeDrop \/ PersistDropIntent \/ PinDropEvidence \/ Dispose
  \/ RetireRemote \/ RetireTree \/ RetireBranch \/ ForgetDropped

RecoverStep ==
  \/ ResumeRecovery \/ PinRecovered \/ PinRemote \/ PushBase \/ VacateTree
  \/ MoveBranch \/ Rebuild \/ Recovered

RepairStep == PinPrior \/ ClearTree \/ ResetBranch \/ Remake

RetryStep == KeepProgress \/ PinProgress \/ Authorize

ServiceStep ==
  ExecutionStep \/ DropStep \/ RecoverStep \/ RepairStep \/ RetryStep

Progress ==
  \/ Begin \/ WorkerWorks \/ WorkerLost \/ Checkpoint \/ Publish
  \/ ApplyLifecycle

OperatorStep ==
  \/ \E e \in Execs : Drop(e)
  \/ \E h \in {branch} \cup {refs[<<"recover", e>>] : e \in Execs} : Recover(h)
  \/ ForceRetry

OthersStep ==
  ProductMoves \/ OthersPush \/ OthersEdit \/ OthersCommit \/ Interrupted

Next == ServiceStep \/ Progress \/ OperatorStep \/ OthersStep

\* The owner takes its next step, and an iteration comes after each poll
\* interval.  Worker, operator and others owe nothing.
Spec == Init /\ [][Next]_vars /\ WF_vars(ServiceStep)

(***************************************************************************)
(* Properties                                                              *)
(***************************************************************************)
\* _drop_owned, _recover_unsafe_bound_execution_workspace,
\* _repair_bound_execution_workspace, _force_retry_transition: whatever is
\* removed or moved, here and on the server, no commit anybody made on the
\* execution branch becomes unreachable.
NothingLost ==
  \A c \in made :
    \E h \in {branch, remote} \cup {refs[r] : r \in RefNames} : IsPrefix(c, h)

\* _drop_owned, _run_iteration_body: from the first trace of a drop on, the
\* result of the execution is neither applied nor built upon by a worker.
DroppedStaysOut ==
  [][\A e \in Execs : disposition[e] # "none" =>
       /\ \A r \in reports' \ reports : r.exec # e
       /\ (st'.phase = "running" /\ st.phase = "pending") =>
            \A i \in DOMAIN st'.start : st'.start[i] # e]_vars

\* _run_iteration_body: a drop or a recovery once admitted ends, over crashes
\* and failed git commands, unless somebody has changed what it is about.
DropObstructed ==
  \/ remote \notin {None, st.report}
  \/ branch \notin {None, st.report} \/ tree = "dirty"

RecoveryObstructed ==
  \/ tree = "dirty" \/ branch \notin {st.recovery, st.base}
  \/ refs[<<"recover", st.exec>>] \notin {None, st.recovery}
  \/ (remote \notin {None, st.base}) /\ ~Pinnable(RivalRef(remote), remote)

GivenUpEnds ==
  /\ \A e \in Execs :
       Active(e) /\ disposition[e] # "none" ~> ~Active(e) \/ DropObstructed
  /\ st.recovery # None ~> st.recovery = None \/ RecoveryObstructed

(***************************************************************************)
(* The inductive invariant (module WorkspaceExitsProofs).                  *)
(***************************************************************************)
DropPcs == {"intent", "pin", "dispose", "unpublish", "untree", "unbranch", "forget"}
PendingPcs == {"prepare", "attach", "launch", "recover", "rivals", "retire",
               "vacate", "move", "rebuild", "recovered", "repair", "clear",
               "reset", "remake"}
RetryPcs == {"checkpoint", "keep", "authorize"}

\* The owner's position agrees with the phase, and where there is a worktree
\* there is a branch.
PlaceInv ==
  /\ st.phase # "idle" => st.exec \in Execs /\ st.base # None
  /\ st.resume => st.base # None
  /\ pc \in DropPcs => st.phase = "lifecycle"
  /\ pc \in PendingPcs => st.phase = "pending"
  /\ pc \in RetryPcs => st.phase = "stranded"
  /\ tree # "none" => branch # None
  /\ pc \in {"attach", "launch", "rebuild", "remake"} => branch # None
  /\ st.phase = "running" => branch # None

\* What is about to be removed is held by a ref.
Held(c) == c = None \/ \E r \in RefNames : refs[r] = c

HeldInv ==
  /\ pc \in {"dispose", "unpublish", "untree", "unbranch"} => Held(st.report)
  /\ pc \in {"rivals", "retire", "vacate", "move"} => Held(st.recovery)
  /\ pc \in {"retire", "clear", "reset"} => Held(mem.saw)

\* A drop leaves nothing behind: once it is over, no commit of the execution
\* is on the branch, on the server or in the record.
Dropped(e) == disposition[e] # "none" /\ ~Active(e)
Free(c) == \A e \in Execs : Dropped(e) => \A i \in DOMAIN c : c[i] # e

FreeInv ==
  /\ \A e \in Execs : disposition[e] # "none" =>
       e <= st.exec /\ (Active(e) => st.phase = "lifecycle")
  /\ Free(branch) /\ Free(remote) /\ Free(st.base) /\ Free(st.report)

RetiredInv ==
  /\ pc \in {"untree", "unbranch", "forget"} => remote = None
  /\ pc \in {"unbranch", "forget"} => tree = "none"
  /\ pc = "forget" => branch = None

IInv ==
  /\ TypeOK /\ NothingLost /\ PlaceInv /\ HeldInv
  /\ FreeInv /\ RetiredInv
=============================================================================
