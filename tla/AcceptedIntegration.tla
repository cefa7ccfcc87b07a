------------------------ MODULE AcceptedIntegration ------------------------
(***************************************************************************)
(* The integration of an accepted ticket (runtime.py: the "integrate" plan *)
(* of _run_iteration_body, _recover_accepted_integration,                  *)
(* _integrate_accepted and _complete_accepted): the accepted checkpoint is *)
(* pushed to the product branch, and then the ticket's move from accepted  *)
(* to done is committed and pushed to the control branch.  The intent is   *)
(* saved first, with the control head R it is bound to, so that a new      *)
(* process can tell which of the effects took place.                       *)
(*                                                                         *)
(* A history is the sequence of its commits, so ancestry is the prefix     *)
(* relation.  tests/RECOVERY_MATRIX.md calls the persisted control head R, *)
(* the checkpoint H and the accepted-to-done commit C.                     *)
(***************************************************************************)
EXTENDS Naturals, Sequences, SequencesExt

CONSTANTS
  MaxChanges,    \* bound: commits by others, to product and control together
  MaxFailures    \* bound: crashes and failed git operations

ASSUME BoundsAssumption == MaxChanges \in Nat /\ MaxFailures \in Nat

VARIABLES
  pending,     \* state["accepted_integration"]: the control head R, or NoHead
  remote,      \* the control branch on the server
  local,       \* HEAD of the control worktree
  dirty,       \* the control worktree holds the uncommitted move
  product,     \* the product branch on the server
  zero,        \* the accepted checkpoint is its own base: nothing to publish
  branch,      \* a zero-delta execution's branch and workspace still exist
  \* volatile
  pc,          \* where the owner thread is
  known,       \* the product history whose objects were fetched
  \* history and bounds
  made,        \* accepted-to-done commits this service created
  changes, failures

persistent == <<pending, remote, local, dirty, product, zero, branch>>
counts == <<made, changes, failures>>
vars == <<persistent, pc, known, counts>>

Commit(k, n) == [kind |-> k, n |-> n]

\* What others commit to control: something unrelated, the ticket taken out
\* of accepted or done, and the same move to done that the service makes.
OtherKinds == {"other", "reopen", "done"}

Commits ==
  [kind : {"accept", "base", "result"}, n : {0}]
    \cup [kind : OtherKinds, n : 1..MaxChanges]
    \cup [kind : {"integration"}, n : Nat]

NoHead == <<>>
Accepted == <<Commit("accept", 0)>>
Base == <<Commit("base", 0)>>

\* report.workspace_head.
Checkpoint == IF zero THEN Base ELSE Append(Base, Commit("result", 0))

Pcs == {"idle", "fetch", "plan", "integrate", "retire", "push", "prove",
        "checkout", "complete", "moved", "publish", "republish", "finish",
        "down"}

TypeOK ==
  /\ pending \in Seq(Commits)
  /\ remote \in Seq(Commits)
  /\ local \in Seq(Commits)
  /\ dirty \in BOOLEAN
  /\ product \in Seq(Commits)
  /\ zero \in BOOLEAN
  /\ branch \in BOOLEAN
  /\ pc \in Pcs
  /\ known \in Seq(Commits)
  /\ made \in Nat
  /\ changes \in 0..MaxChanges
  /\ failures \in 0..MaxFailures

Init ==
  /\ pending = NoHead
  /\ remote = Accepted /\ local = Accepted /\ dirty = FALSE
  /\ product = Base
  /\ zero \in BOOLEAN /\ branch = TRUE
  /\ pc = "idle" /\ known = Base
  /\ made = 0 /\ changes = 0 /\ failures = 0

-----------------------------------------------------------------------------
(* What the code reads off a history. *)

\* The ticket's directory at a control head.
TicketAt(h) ==
  LET k == Last(SelectSeq(h, LAMBDA c : c.kind # "other")).kind
  IN CASE k = "accept" -> "accepted"
       [] k = "reopen" -> "todo"
       [] OTHER -> "done"

\* _accepted_execution_report finds the execution that was reviewed: from
\* the commit that accepted the ticket or, when the ticket has left accepted,
\* from the parent of the commit that took it out, which is taken for the
\* accepting one.
Evidence(h) ==
  \A i \in DOMAIN h :
    /\ h[i].kind \in {"integration", "done", "reopen"}
    /\ \A j \in 1..(i - 1) : h[j].kind \in {"accept", "other"}
    => h[i - 1].kind = "accept"

\* _accepted_integration_commit_is_exact: the head of h is the move to done,
\* directly on top of parent.
Exact(h, parent) ==
  h # <<>> /\ Front(h) = parent /\ Last(h).kind \in {"integration", "done"}

\* _observe_accepted_control_integration.
Classify(parent, here, there) ==
  IF there = parent
  THEN IF here # parent /\ Exact(here, parent)
       THEN "unpublished" ELSE "ambiguous"
  ELSE IF /\ IsPrefix(parent, there)
          /\ Exact(SubSeq(there, 1, Len(parent) + 1), parent)
       THEN "published" ELSE "ambiguous"

\* git merge-base --is-ancestor fails for objects that were not fetched.
Known(h) == IsPrefix(h, known) \/ IsPrefix(h, Checkpoint)

IsAncestor(older, newer) ==
  Known(older) /\ Known(newer) /\ IsPrefix(older, newer)

\* The control head that _complete_accepted is called with: the persisted
\* one, but the observed one for a zero-delta result.
ExpectedHead == IF zero THEN local ELSE pending

-----------------------------------------------------------------------------
(* The owner thread.  A synchronization that cannot go on leaves everything *)
(* as it is and is no step of the model.                                    *)

\* Any error: what is saved stays and the next iteration begins again.
Blocked == pc' = "idle" /\ UNCHANGED known

Goto(from, to) == pc = from /\ pc' = to

\* Mutant: a worktree ahead of the server is always refused.
CanSyncAncestor == ~dirty /\ IsPrefix(local, remote)

\* Where _sync_control may go on.
CanSync ==
  /\ ~dirty
  /\ \/ IsPrefix(local, remote)
     \/ pending # NoHead /\ Classify(pending, local, remote) = "unpublished"

SyncControl ==
  /\ Goto("idle", "fetch") /\ CanSync
  /\ local' = IF IsPrefix(local, remote) THEN remote ELSE local
  /\ UNCHANGED <<pending, remote, dirty, product, zero, branch, known, counts>>

\* product fetch, in the planning iteration and in recovery.
FetchProduct ==
  /\ Goto("fetch", IF pending = NoHead THEN "plan" ELSE "integrate")
  /\ known' = product
  /\ UNCHANGED <<persistent, counts>>

PlanOther ==
  /\ Goto("plan", "idle") /\ TicketAt(local) # "accepted"
  /\ UNCHANGED <<persistent, known, counts>>

\* Save the intent before the first effect.
Admit ==
  /\ Goto("plan", "integrate") /\ TicketAt(local) = "accepted"
  /\ pending' = local
  /\ UNCHANGED <<remote, local, dirty, product, zero, branch, known, counts>>

\* _integrate_accepted: what to do with the product.
ObserveZeroDelta ==
  /\ Goto("integrate", "retire")
  /\ zero /\ Evidence(local) /\ product = Base
  /\ UNCHANGED <<persistent, known, counts>>

\* _retire_zero_delta_execution; done again, it finds nothing to do.
Retire ==
  /\ Goto("retire", "complete")
  /\ branch' = FALSE
  /\ UNCHANGED <<pending, remote, local, dirty, product, zero, known, counts>>

ObserveProduct ==
  /\ pc = "integrate" /\ ~zero /\ Evidence(local)
  /\ \/ IsAncestor(Checkpoint, product) /\ pc' = "prove"
     \/ /\ product # Checkpoint /\ IsAncestor(product, Checkpoint)
        /\ pc' = "push"
  /\ UNCHANGED <<persistent, known, counts>>

ProductAccepts ==
  product' = IF IsPrefix(product, Checkpoint) THEN Checkpoint ELSE product

\* Mutant: a failed push is taken for a success.
PushProductUnchecked ==
  /\ Goto("push", "checkout")
  /\ ProductAccepts
  /\ UNCHANGED <<pending, remote, local, dirty, zero, branch, known, counts>>

PushProduct ==
  /\ Goto("push", "prove")
  /\ IsPrefix(product, Checkpoint)
  /\ ProductAccepts
  /\ UNCHANGED <<pending, remote, local, dirty, zero, branch, known, counts>>

\* Rejected by the server, or unanswered with or without its effect.
PushProductFails ==
  /\ pc = "push"
  /\ \/ ~IsPrefix(product, Checkpoint) /\ UNCHANGED <<product, failures>>
     \/ /\ failures < MaxFailures /\ failures' = failures + 1
        /\ ProductAccepts \/ UNCHANGED product
  /\ Blocked
  /\ UNCHANGED <<pending, remote, local, dirty, zero, branch, made, changes>>

\* The product branch, observed again, holds the checkpoint.
ProveProduct ==
  /\ Goto("prove", "checkout") /\ IsAncestor(Checkpoint, product)
  /\ UNCHANGED <<persistent, known, counts>>

\* Fast-forward the product checkout.
SyncCheckout ==
  /\ Goto("checkout", "complete")
  /\ known' \in {known, product}
  /\ UNCHANGED <<persistent, counts>>

\* "accepted ticket has ambiguous or missing completed execution evidence",
\* "zero-delta accepted result is stale", "product history diverged",
\* "published product checkpoint could not be proven".
ProductBlocked ==
  /\ \/ pc = "integrate" /\ ~Evidence(local)
     \/ pc = "integrate" /\ zero /\ product # Base
     \/ /\ pc = "integrate" /\ ~zero
        /\ ~IsAncestor(Checkpoint, product) /\ ~IsAncestor(product, Checkpoint)
     \/ pc = "prove" /\ ~IsAncestor(Checkpoint, product)
  /\ Blocked
  /\ UNCHANGED <<persistent, counts>>

\* Mutant: the move is committed on whatever head the worktree has.
MayMoveAnywhere == TicketAt(local) = "accepted"

MayMove == TicketAt(local) = "accepted" /\ local = ExpectedHead

\* _complete_accepted for a ticket that is still accepted.
MoveTicket ==
  /\ Goto("complete", "moved") /\ MayMove
  /\ dirty' = TRUE
  /\ UNCHANGED <<pending, remote, local, product, zero, branch, known, counts>>

CommitMove ==
  /\ Goto("moved", "publish")
  /\ dirty' = FALSE
  /\ made' = made + 1
  /\ local' = Append(local, Commit("integration", made'))
  /\ UNCHANGED <<pending, remote, product, zero, branch, known, changes,
                 failures>>

\* _complete_accepted for a ticket that is done: an earlier process, or
\* somebody else, has made the commit.
RecognizePublished ==
  /\ Goto("complete", "finish") /\ TicketAt(local) = "done"
  /\ Classify(ExpectedHead, local, remote) = "published"
  /\ UNCHANGED <<persistent, known, counts>>

RecognizeUnpublished ==
  /\ Goto("complete", "republish") /\ TicketAt(local) = "done"
  /\ Classify(ExpectedHead, local, remote) = "unpublished"
  /\ UNCHANGED <<persistent, known, counts>>

CompleteBlocked ==
  /\ pc = "complete" /\ ~MayMove
  /\ TicketAt(local) = "done" =>
       Classify(ExpectedHead, local, remote) = "ambiguous"
  /\ Blocked
  /\ UNCHANGED <<persistent, counts>>

ControlAccepts ==
  remote' = IF IsPrefix(remote, local) THEN local ELSE remote

\* Push the exact commit; the second time the server is asked again.
PublishControl ==
  /\ pc \in {"publish", "republish"}
  /\ pc' = "finish"
  /\ IsPrefix(remote, local)
  /\ ControlAccepts
  /\ UNCHANGED <<pending, local, dirty, product, zero, branch, known, counts>>

\* Mutant: the rejected push is followed by the save.
PublishControlFailsUnnoticed ==
  /\ pc \in {"publish", "republish"}
  /\ \/ ~IsPrefix(remote, local) /\ UNCHANGED <<remote, failures>>
     \/ /\ failures < MaxFailures /\ failures' = failures + 1
        /\ ControlAccepts \/ UNCHANGED remote
  /\ pc' = "finish"
  /\ UNCHANGED <<pending, local, dirty, product, zero, branch, known, made,
                 changes>>

PublishControlFails ==
  /\ pc \in {"publish", "republish"}
  /\ \/ ~IsPrefix(remote, local) /\ UNCHANGED <<remote, failures>>
     \/ /\ failures < MaxFailures /\ failures' = failures + 1
        /\ ControlAccepts \/ UNCHANGED remote
  /\ Blocked
  /\ UNCHANGED <<pending, local, dirty, product, zero, branch, made, changes>>

\* Save that nothing is pending.
Finish ==
  /\ Goto("finish", "idle")
  /\ pending' = NoHead
  /\ UNCHANGED <<remote, local, dirty, product, zero, branch, known, counts>>

\* A fetch, an observation, a retirement or a commit that git refuses.
GitFails ==
  /\ pc \in Pcs \ {"idle", "down", "plan", "push", "publish", "republish",
                   "finish"}
  /\ failures < MaxFailures /\ failures' = failures + 1
  /\ Blocked
  /\ UNCHANGED <<persistent, made, changes>>

-----------------------------------------------------------------------------
(* Others, the operator, and the process. *)

CanChange == changes < MaxChanges /\ changes' = changes + 1

OthersControl ==
  /\ CanChange
  /\ \E k \in OtherKinds :
       /\ k = "done" => TicketAt(remote) = "accepted"
       /\ k = "reopen" => TicketAt(remote) # "todo"
       /\ remote' = Append(remote, Commit(k, changes'))
  /\ UNCHANGED <<pending, local, dirty, product, zero, branch, pc, known,
                 made, failures>>

OthersProduct ==
  /\ CanChange
  /\ product' = Append(product, Commit("other", changes'))
  /\ UNCHANGED <<pending, remote, local, dirty, zero, branch, pc, known, made,
                 failures>>

OperatorCleans ==
  /\ pc = "idle" /\ dirty
  /\ dirty' = FALSE
  /\ UNCHANGED <<pending, remote, local, product, zero, branch, pc, known,
                 counts>>

Crash ==
  /\ pc # "down" /\ failures < MaxFailures
  /\ failures' = failures + 1
  /\ pc' = "down"
  /\ UNCHANGED <<persistent, known, made, changes>>

Start ==
  /\ Goto("down", "idle")
  /\ UNCHANGED <<persistent, known, counts>>

-----------------------------------------------------------------------------
OwnerStep ==
  \/ SyncControl \/ FetchProduct \/ PlanOther \/ Admit
  \/ ObserveZeroDelta \/ Retire \/ ObserveProduct \/ PushProduct
  \/ PushProductFails \/ ProveProduct \/ SyncCheckout \/ ProductBlocked
  \/ MoveTicket \/ CommitMove \/ RecognizePublished \/ RecognizeUnpublished
  \/ CompleteBlocked \/ PublishControl \/ PublishControlFails \/ Finish
  \/ GitFails

EnvironmentStep ==
  \/ OthersControl \/ OthersProduct \/ OperatorCleans \/ Crash \/ Start

Next == OwnerStep \/ EnvironmentStep

Spec == Init /\ [][Next]_vars

\* The owner is scheduled and a stopped service is started again.
FairSpec == Spec /\ WF_vars(OwnerStep) /\ WF_vars(Start)

-----------------------------------------------------------------------------
(* Properties. *)

\* The service's own move to done is published only when the product branch
\* holds the accepted checkpoint, over crashes between the two pushes and
\* answers that were lost.
DoneImpliesIntegrated ==
  (\E i \in DOMAIN remote : remote[i].kind = "integration") =>
    IsPrefix(Checkpoint, product)

\* The move to done that the service publishes for a changed product sits
\* directly on R, whatever was pushed to control, recovered or repeated since
\* the intent was saved.
RootedAtIntent ==
  [][~zero /\ remote' # remote /\ Last(remote').kind = "integration" =>
       Front(remote') = pending]_vars

\* The intent is given up only when both effects are published: the product
\* holds the checkpoint and the control branch goes on from R with the move
\* to done.  A zero-delta result is not bound to R: its move is published,
\* wherever.
IntentKeptUntilDone ==
  [][pending # NoHead /\ pending' = NoHead =>
       IF zero
       THEN \E i \in DOMAIN remote : remote[i].kind \in {"integration", "done"}
       ELSE /\ IsPrefix(Checkpoint, product)
            /\ Classify(pending, local, remote) = "published"]_vars

\* What stops an integration for good, or until the operator acts: files of
\* an interrupted move, a control branch that went on from R without the
\* move or with somebody else's beside the service's own, a ticket that was
\* taken back, a move whose evidence is not found again, a product that
\* diverged.
Obstructed ==
  \/ dirty /\ pc # "moved"
  \/ /\ remote # pending
     /\ \/ Classify(pending, local, remote) # "published"
        \/ ~IsPrefix(local, remote)
  \/ TicketAt(remote) = "todo" \/ ~Evidence(local)
  \/ ~IsPrefix(Checkpoint, product) /\ ~IsPrefix(product, Checkpoint)

Unobstructed == <>[](pending = NoHead \/ ~Obstructed)

\* An admitted integration of a changed product is completed once nothing
\* obstructs it for good.  A zero-delta result is left out: once an answer is
\* lost its published move to done is compared with the wrong head and never
\* recognized (runtime.py:5435).
IntegrationSettles ==
  Unobstructed => (pending # NoHead /\ ~zero ~> pending = NoHead)

-----------------------------------------------------------------------------
(* The inductive invariant of the proofs, in named parts. *)

Integrated(h) == \E i \in DOMAIN h : h[i].kind = "integration"

\* Past the last look at the product branch.
AfterProduct ==
  {"retire", "checkout", "complete", "moved", "publish", "republish", "finish"}

\* The product only grows; it is published before the move to done is made.
BaseKept == IsPrefix(Base, product)
ProductFirst ==
  pc \in AfterProduct \/ Integrated(local) \/ Integrated(remote) =>
    IsPrefix(Checkpoint, product)

\* What a move is made on, and what is pushed.
MoveOnIntent == pc = "moved" /\ ~zero => local = pending
PushIsExact ==
  pc \in {"publish", "republish"} =>
    /\ local # <<>> /\ Last(local).kind \in {"integration", "done"}
    /\ ~zero => Front(local) = pending

\* The move to done is on the server before the intent is given up.
Published ==
  IF zero
  THEN \E i \in DOMAIN remote : remote[i].kind \in {"integration", "done"}
  ELSE Classify(pending, local, remote) = "published"
FinishIsEarned == pc = "finish" => Published

PlanIsFree == pc = "plan" => pending = NoHead

IInv ==
  /\ TypeOK /\ BaseKept /\ ProductFirst /\ MoveOnIntent /\ PushIsExact
  /\ FinishIsEarned /\ PlanIsFree
=============================================================================
