-------------------------- MODULE ControlLifecycle --------------------------
(***************************************************************************)
(* The control-plane lifecycle of one published execution (runtime.py:     *)
(* _apply_execution_lifecycle and _apply_lifecycle_once): a commit with    *)
(* the execution's report, and the ticket's move to review, is put on top  *)
(* of a control branch that others push to, and is tried again over lost   *)
(* races, lost answers and crashes.  Module Execution takes all of it as   *)
(* its action ApplyLifecycle.  Once the execution is over the worktree     *)
(* follows the branch, and `reconcile-control` adopts a branch that others *)
(* have rewritten (_reconcile_control_owned).                              *)
(*                                                                         *)
(* A push is a message: the git process that carries it may outlive the    *)
(* service that started it, and the server's answer may be lost.           *)
(***************************************************************************)
EXTENDS ControlHistory

VARIABLES
  remote,      \* the control branch on the server
  local,       \* HEAD of the control worktree
  dirty,       \* the control worktree holds uncommitted files
  inflight,    \* heads on their way to the server
  pinned,      \* refs/devlegate/recovery/control/<from>-<to>
  moves,       \* apply_conclusion and a conclusion that is not "failed"
  \* volatile
  pc,          \* where the owner thread is
  seen,        \* the remote head of the last fetch, or the one to adopt
  tries,       \* _attempt
  \* history and bounds
  published,   \* numbers of the lifecycle commits the server accepted
  made, changes, failures

owner == <<pc, seen, tries>>
counts == <<made, changes, failures>>
vars == <<remote, local, dirty, inflight, pinned, moves, owner, published,
          counts>>

Attempts == 3

Pcs == {"idle", "start", "observed", "aligned", "written", "committed",
        "pushing", "done", "down"}
         \cup {"finalized", "authorized", "reobserved", "pinned", "halted"}

\* The execution is over; "halted" is a process that ended after that.
Settled ==
  pc \in {"finalized", "authorized", "reobserved", "pinned", "halted"}

TypeOK ==
  /\ remote \in Seq(Commits)
  /\ local \in Seq(Commits)
  /\ dirty \in BOOLEAN
  /\ inflight \subseteq Seq(Commits)
  /\ \A p \in pinned : p.from \in Seq(Commits) /\ p.to \in Seq(Commits)
  /\ moves \in BOOLEAN
  /\ pc \in Pcs
  /\ seen \in Seq(Commits)
  /\ tries \in 0..Attempts
  /\ published \subseteq 1..MaxCommits
  /\ made \in 0..MaxCommits
  /\ changes \in 0..MaxChanges
  /\ failures \in 0..MaxFailures

Init ==
  /\ remote = Admitted
  /\ local = Admitted
  /\ dirty = FALSE
  /\ inflight = {}
  /\ pinned = {}
  /\ moves \in BOOLEAN
  /\ pc = "idle"
  /\ seen = <<>>
  /\ tries = 0
  /\ published = {}
  /\ made = 0 /\ changes = 0 /\ failures = 0

-----------------------------------------------------------------------------
(* The owner thread. *)

\* WorkflowBlockedError or DevlegateError: the stage stays lifecycle and the
\* next iteration begins again.
Blocked == pc' = "idle" /\ seen' = <<>> /\ tries' = 0

Begin ==
  /\ pc = "idle"
  /\ pc' = "start"
  /\ tries' = 1
  /\ UNCHANGED <<remote, local, dirty, inflight, pinned, moves, seen,
                 published, counts>>

Fetch ==
  /\ pc = "start" /\ ~dirty
  /\ seen' = remote
  /\ pc' = "observed"
  /\ UNCHANGED <<remote, local, dirty, inflight, pinned, moves, tries,
                 published, counts>>

\* A dirty control worktree, or a fetch that fails.
FetchBlocked ==
  /\ pc = "start"
  /\ Blocked
  /\ UNCHANGED <<remote, local, dirty, inflight, pinned, moves, published,
                 counts>>

\* Mutant: a worktree behind the published commit is taken for a divergence.
CanReuseExact ==
  /\ TicketKept(OwnParent(seen), moves)
  /\ local = seen

CanReuse ==
  /\ TicketKept(OwnParent(seen), moves)
  /\ Ancestor(local, seen)

\* The commit is on the server: fast-forward to it and be done.
Reuse ==
  /\ pc = "observed" /\ HasOwn(seen) /\ CanReuse
  /\ local' = seen
  /\ pc' = "done"
  /\ UNCHANGED <<remote, dirty, inflight, pinned, moves, seen, tries,
                 published, counts>>

\* Mutant: any single commit on top of the server's lineage is given up.
ReplayableAnything ==
  /\ Ancestor(Front(local), seen)
  /\ Ancestor(Admitted, Front(local))

\* _prove_unpublished_lifecycle_lineage: the local head is one lifecycle
\* commit on top of the server's lineage.
Replayable ==
  /\ Last(local).kind = "lifecycle"
  /\ Ancestor(Front(local), seen)
  /\ Ancestor(Admitted, Front(local))

\* Mutant: the ticket is not compared with the one that was admitted.
CanAlignUnproven == Ancestor(local, seen) \/ Replayable

CanAlign ==
  /\ TicketKept(seen, moves)
  /\ Ancestor(local, seen) \/ Replayable

\* Bring the worktree to the server's head: by a fast-forward, or by a hard
\* reset that gives up the unpublished lifecycle commit.
Align ==
  /\ pc = "observed" /\ ~HasOwn(seen) /\ CanAlign
  /\ local' = seen
  /\ pc' = "aligned"
  /\ UNCHANGED <<remote, dirty, inflight, pinned, moves, seen, tries,
                 published, counts>>

ObservedBlocked ==
  /\ pc = "observed"
  /\ IF HasOwn(seen) THEN ~CanReuse ELSE ~CanAlign
  /\ Blocked
  /\ UNCHANGED <<remote, local, dirty, inflight, pinned, moves, published,
                 counts>>

\* _apply_lifecycle_once up to the commit.
WriteReport ==
  /\ pc = "aligned" /\ ~(moves /\ Boundary(local))
  /\ dirty' = TRUE
  /\ pc' = "written"
  /\ UNCHANGED <<remote, local, inflight, pinned, moves, seen, tries,
                 published, counts>>

BoundaryBlocked ==
  /\ pc = "aligned" /\ moves /\ Boundary(local)
  /\ Blocked
  /\ UNCHANGED <<remote, local, dirty, inflight, pinned, moves, published,
                 counts>>

Commit ==
  /\ pc = "written"
  /\ made' = made + 1
  /\ local' = Append(local, [kind |-> "lifecycle", n |-> made'])
  /\ dirty' = FALSE
  /\ pc' = "committed"
  /\ UNCHANGED <<remote, inflight, pinned, moves, seen, tries, published,
                 changes, failures>>

\* The resulting ticket store is invalid, or git commit fails; the files
\* stay behind.
CommitFails ==
  /\ pc = "written" /\ failures < MaxFailures
  /\ failures' = failures + 1
  /\ Blocked
  /\ UNCHANGED <<remote, local, dirty, inflight, pinned, moves, published,
                 made, changes>>

Push ==
  /\ pc = "committed"
  /\ inflight' = inflight \cup {local}
  /\ pc' = "pushing"
  /\ UNCHANGED <<remote, local, dirty, pinned, moves, seen, tries, published,
                 counts>>

PushAccepted ==
  /\ pc = "pushing" /\ local \notin inflight /\ Last(local).n \in published
  /\ pc' = "done"
  /\ UNCHANGED <<remote, local, dirty, inflight, pinned, moves, seen, tries,
                 published, counts>>

\* "lifecycle push raced with control update; retrying"
Retry ==
  IF tries < Attempts
  THEN pc' = "start" /\ tries' = tries + 1 /\ UNCHANGED seen
  ELSE Blocked

PushRejected ==
  /\ pc = "pushing" /\ local \notin inflight /\ Last(local).n \notin published
  /\ Retry
  /\ UNCHANGED <<remote, local, dirty, inflight, pinned, moves, published,
                 counts>>

\* git push fails, before or after the server has acted, or it never will.
PushUnanswered ==
  /\ pc = "pushing" /\ failures < MaxFailures
  /\ failures' = failures + 1
  /\ Retry
  /\ UNCHANGED <<remote, local, dirty, inflight, pinned, moves, published,
                 made, changes>>

\* _finalize_execution_lifecycle saves that the execution is over.
Finalize ==
  /\ pc = "done"
  /\ pc' = "finalized" /\ seen' = <<>> /\ tries' = 0
  /\ UNCHANGED <<remote, local, dirty, inflight, pinned, moves, published,
                 counts>>

-----------------------------------------------------------------------------
(* The idle service. *)

\* _sync_control: a fast-forward, or nothing when the histories diverged.
SyncControl ==
  /\ pc = "finalized" /\ local # remote /\ Ancestor(local, remote)
  /\ local' = remote
  /\ UNCHANGED <<remote, dirty, inflight, pinned, moves, owner, published,
                 counts>>

Divergent(h, g) == ~Ancestor(h, g) /\ ~Ancestor(g, h)

\* The operator names both heads of a divergence and the command is
\* admitted; the owner does nothing else until it is carried out.
AdmitAdoption ==
  /\ pc = "finalized" /\ Divergent(local, remote)
  /\ seen' = remote
  /\ pc' = "authorized"
  /\ UNCHANGED <<remote, local, dirty, inflight, pinned, moves, tries,
                 published, counts>>

\* The command validates again: the branch must still be where it was.
Reobserve ==
  /\ pc = "authorized"
  /\ IF seen = remote THEN pc' = "reobserved" /\ UNCHANGED seen
     ELSE pc' = "finalized" /\ seen' = <<>>
  /\ UNCHANGED <<remote, local, dirty, inflight, pinned, moves, tries,
                 published, counts>>

PinDisplaced ==
  /\ pc = "reobserved"
  /\ pinned' = pinned \cup {[from |-> local, to |-> seen]}
  /\ pc' = "pinned"
  /\ UNCHANGED <<remote, local, dirty, inflight, moves, seen, tries,
                 published, counts>>

\* reset --hard to the authorized head, wherever the branch is by now.
Adopt ==
  /\ pc = "pinned"
  /\ local' = seen
  /\ pc' = "finalized" /\ seen' = <<>>
  /\ UNCHANGED <<remote, dirty, inflight, pinned, moves, tries, published,
                 counts>>

AdoptionFails ==
  /\ pc \in {"authorized", "reobserved", "pinned"} /\ failures < MaxFailures
  /\ failures' = failures + 1
  /\ pc' = "finalized" /\ seen' = <<>>
  /\ UNCHANGED <<remote, local, dirty, inflight, pinned, moves, tries,
                 published, made, changes>>

-----------------------------------------------------------------------------
(* The server, others, and the process. *)

\* A push without force: accepted when it adds to the server's head.
Deliver(h) ==
  /\ inflight' = inflight \ {h}
  /\ IF remote = Front(h)
     THEN remote' = h /\ published' = published \cup {Last(h).n}
     ELSE UNCHANGED <<remote, published>>
  /\ UNCHANGED <<local, dirty, pinned, moves, owner, counts>>

\* A push nobody waits for never arrives.
Lose(h) ==
  /\ ~(pc = "pushing" /\ h = local)
  /\ inflight' = inflight \ {h}
  /\ UNCHANGED <<remote, local, dirty, pinned, moves, owner, published,
                 counts>>

OthersCommit ==
  /\ changes < MaxChanges /\ changes' = changes + 1
  /\ \E k \in OtherKinds :
       remote' = Append(remote, [kind |-> k, n |-> changes'])
  /\ UNCHANGED <<local, dirty, inflight, pinned, moves, owner, published,
                 made, failures>>

OthersRewrite ==
  /\ changes < MaxChanges /\ changes' = changes + 1
  /\ remote' = Append(Front(remote), [kind |-> "other", n |-> changes'])
  /\ UNCHANGED <<local, dirty, inflight, pinned, moves, owner, published,
                 made, failures>>

OperatorCleans ==
  /\ pc = "idle" /\ dirty
  /\ dirty' = FALSE
  /\ UNCHANGED <<remote, local, inflight, pinned, moves, owner, published,
                 counts>>

Crash ==
  /\ pc \notin {"finalized", "down", "halted"} /\ failures < MaxFailures
  /\ failures' = failures + 1
  /\ pc' = (IF Settled THEN "halted" ELSE "down") /\ seen' = <<>> /\ tries' = 0
  /\ UNCHANGED <<remote, local, dirty, inflight, pinned, moves, published,
                 made, changes>>

Start ==
  /\ pc \in {"down", "halted"}
  /\ pc' = IF Settled THEN "finalized" ELSE "idle"
  /\ UNCHANGED <<remote, local, dirty, inflight, pinned, moves, seen, tries,
                 published, counts>>

-----------------------------------------------------------------------------
OwnerStep ==
  \/ Begin \/ Fetch \/ FetchBlocked \/ Reuse \/ Align \/ ObservedBlocked
  \/ WriteReport \/ BoundaryBlocked \/ Commit \/ CommitFails \/ Push
  \/ PushAccepted \/ PushRejected \/ PushUnanswered \/ Finalize

ServerStep == \E h \in inflight : Deliver(h) \/ Lose(h)

EnvironmentStep ==
  \/ OthersCommit \/ OthersRewrite \/ OperatorCleans \/ Crash \/ Start

IdleStep ==
  \/ SyncControl \/ AdmitAdoption \/ Reobserve \/ PinDisplaced \/ Adopt
  \/ AdoptionFails

Next == OwnerStep \/ IdleStep \/ ServerStep \/ EnvironmentStep

Spec == Init /\ [][Next]_vars

\* The owner is scheduled, the service is started again, the server answers,
\* and a fetch that is tried again and again succeeds at last.
FairSpec ==
  /\ Spec
  /\ WF_vars(OwnerStep)
  /\ WF_vars(Start)
  /\ WF_vars(ServerStep)
  /\ SF_vars(Fetch)

-----------------------------------------------------------------------------
(* Properties. *)

Record == INSTANCE LifecycleRecord WITH
            log <- remote, recorded <- published # {},
            settled <- Settled

\* What is published is what LifecycleRecord promises: one lifecycle commit
\* at a time, on a history whose ticket is the admitted one and, for a move
\* to review, that has no other ticket under review; commits of others stay;
\* and the execution is given up only after its record was published.
RecordedOnce == Record!Spec

\* The control worktree loses nothing but the service's own unpublished
\* commit: fast-forwards and the hard reset of the lifecycle keep every
\* other commit, also when others rewrote the branch; and a history that an
\* adoption displaces, published lifecycle commits included, stays under its
\* recovery ref, which is there before the reset.
NothingDiscarded ==
  [][\A i \in DOMAIN local :
       \/ local[i] \in Range(local')
       \/ \E p \in pinned : local[i] \in Range(p.from)
       \/ ~Settled /\ local[i].kind = "lifecycle"]_vars

\* What keeps the lifecycle from being applied, each for the operator to
\* resolve: files left by a failed commit, a ticket changed since admission,
\* another ticket under review, and a worktree that is neither behind the
\* server nor one lifecycle commit ahead of its lineage.
Obstructed ==
  \/ dirty /\ pc # "written"
  \/ HasOwn(remote) /\ ~Ancestor(local, remote)
  \/ ~HasOwn(remote) /\ ~Compatible(remote, moves)
  \/ /\ ~HasOwn(remote) /\ ~Ancestor(local, remote)
     /\ ~(/\ Last(local).kind = "lifecycle"
          /\ Ancestor(Front(local), remote))

\* An execution in the lifecycle stage is settled once nothing obstructs it
\* for good, over crashes, races and lost answers.
LifecycleSettles == <>[]~Obstructed => <>Settled

-----------------------------------------------------------------------------
(* The inductive invariant (module ControlLifecycleProofs). *)

\* A history with a lifecycle commit on top of one it may be put on.
Proposal(h) ==
  /\ h # <<>> /\ Last(h).kind = "lifecycle" /\ Last(h).n \in 1..made
  /\ ~HasOwn(Front(h)) /\ Compatible(Front(h), moves)

\* What is under way to the server was admissible where it was made, and what
\* the service believes to be published has been.
ProposalInv ==
  /\ remote # <<>> /\ (HasOwn(remote) => published # {})
  /\ \A h \in inflight : Proposal(h)
  /\ pc = "observed" => (HasOwn(seen) => published # {})
  /\ pc \in {"aligned", "written"} => ~HasOwn(local) /\ TicketKept(local, moves)
  /\ pc = "written" => Compatible(local, moves)
  /\ pc \in {"committed", "pushing"} => Proposal(local)
  /\ pc = "done" \/ Settled => published # {}
  /\ pc = "pinned" => [from |-> local, to |-> seen] \in pinned

\* A lifecycle commit is made again only after something failed or others
\* changed the branch.
Budget == changes + failures

BudgetInv ==
  /\ made <= Budget + 1
  /\ pc \in {"idle", "start", "observed", "aligned", "written", "down"} =>
       HasOwn(remote) \/ made <= Budget
  /\ pc = "observed" /\ ~HasOwn(seen) =>
       made <= Budget /\ (remote = seen \/ HasOwn(remote) \/ made < Budget)
  /\ pc \in {"aligned", "written"} =>
       made <= Budget /\ (remote = local \/ HasOwn(remote) \/ made < Budget)
  /\ pc = "committed" =>
       remote = Front(local) \/ HasOwn(remote) \/ made <= Budget
  /\ pc = "pushing" =>
       \/ local \in inflight /\ remote = Front(local)
       \/ HasOwn(remote) \/ made <= Budget

IInv == TypeOK /\ ProposalInv /\ BudgetInv
=============================================================================
