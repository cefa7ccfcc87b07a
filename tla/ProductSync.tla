---------------------------- MODULE ProductSync ----------------------------
(***************************************************************************)
(* Synchronization of the product checkout with its remote branch, the     *)
(* middle of _run_iteration_body (runtime.py:3690-3984).  Every iteration  *)
(* that is not in the middle of an execution fetches the branch, and       *)
(* fast-forwards the checkout inside a transaction: the record says        *)
(* merge_pending with the head before and the head after, git moves the    *)
(* checkout, and a second save ends it.  The operator works in the same    *)
(* checkout meanwhile, and others push to the branch or rewrite it.        *)
(*                                                                         *)
(* A commit is its path from the root, so ancestry is the prefix relation. *)
(* Module Reconcile composes this module with the executions that stand on *)
(* the product.                                                            *)
(***************************************************************************)
EXTENDS Naturals, Sequences, SequencesExt

CONSTANTS
  Commits,     \* product commits, paths from a common root
  First,       \* the commit the branch starts at
  MaxMoves,    \* bound: changes of product, control and branches by others
  MaxFaults    \* bound: crashes and failed operations

ASSUME ProductAssumption ==
  /\ Commits \subseteq Seq(Nat) /\ First \in Commits
  /\ MaxMoves \in Nat /\ MaxFaults \in Nat

VARIABLES
  origin,      \* the product branch on the server
  seen,        \* refs/remotes/<remote>/<branch> of the product checkout
  local,       \* HEAD of the product checkout
  tidy,        \* the checkout is clean and on its branch
  rec,         \* the persisted phase and product heads
  \* volatile
  pc,          \* where the owner thread is
  vol,         \* local variables of the synchronization
  \* bounds
  moves, faults

product == <<origin, seen, local, tidy>>
bounds == <<moves, faults>>

Ancestor(a, b) == IsPrefix(a, b)

\* _is_same_parent_replacement.
SameParent(a, b) == a # b /\ Len(a) > 0 /\ Len(b) > 0 /\ Front(a) = Front(b)

Phases == {"idle", "merge_pending", "agent_pending", "agent_running"}

InitialRec == [phase |-> "idle", local |-> First, remote |-> First]

(***************************************************************************)
(* One iteration: local_head is read, the branch is fetched, and from the  *)
(* record and the three heads the iteration decides what it will do.       *)
(***************************************************************************)
Pending == vol.was \in {"agent_pending", "merge_pending"}

\* The persisted target is superseded by a descendant.
Target(r, s) ==
  IF r.phase # "idle" /\ ~Ancestor(r.remote, s) THEN r.remote ELSE s

\* The checkout or the branch is not what the pending record says.
Conflicts ==
  \/ vol.was = "merge_pending" /\ vol.lh \notin {rec.local, rec.remote}
  \/ /\ vol.was = "agent_pending" /\ vol.lh # rec.local
     /\ ~Ancestor(rec.local, vol.lh)
  \/ Pending /\ ~Ancestor(rec.remote, vol.seen)

Diverged ==
  /\ vol.was # "merge_pending"
  /\ ~Ancestor(vol.lh, vol.th) /\ ~Ancestor(vol.th, vol.lh)

\* A checkout that is ahead of its branch is kept, whatever the phase.
KeepsLocal == vol.was # "merge_pending" /\ Ancestor(vol.th, vol.lh)

MustMerge == ~Conflicts /\ ~Diverged /\ vol.lh # vol.th /\ ~KeepsLocal

Fetch ==
  /\ pc = "ready" /\ tidy /\ rec.phase # "agent_running"
  /\ seen' = origin
  /\ vol' = [was |-> rec.phase, lh |-> local, seen |-> origin,
              th |-> Target(rec, origin)]
  /\ pc' = "fetched"
  /\ UNCHANGED <<origin, local, tidy, rec, bounds>>

Home == [lh |-> First, th |-> First, seen |-> First, was |-> "idle"]

\* An error of a scheduler iteration ends the service, unless the loop has a
\* reason to stay (_run_polling).
Fail(absorbed) ==
  /\ vol' = Home
  /\ pc' \in (IF absorbed THEN {"ready"} ELSE {"off"})

\* An unsafe workspace of a pending execution keeps the service alive
\* (_has_operator_recovery_required); whether it is unsafe is not modelled.
SyncRefused(absorbed) ==
  /\ pc = "fetched" /\ Conflicts
  /\ \/ Fail(absorbed)
     \/ vol.was = "agent_pending" /\ Fail(TRUE)
  /\ UNCHANGED <<product, rec, bounds>>

SyncDiverged ==
  /\ pc = "fetched" /\ ~Conflicts /\ Diverged
  /\ vol' = Home /\ pc' = "ready"
  /\ UNCHANGED <<product, rec, bounds>>

\* _stop_before_admission: a stop is obeyed before the transaction begins,
\* and never inside it.
StopBeforeMerge ==
  /\ pc = "fetched" /\ MustMerge /\ vol.was # "merge_pending"
  /\ faults < MaxFaults /\ faults' = faults + 1
  /\ vol' = Home /\ pc' = "off"
  /\ UNCHANGED <<product, rec, moves>>

SaveMerge ==
  /\ pc = "fetched" /\ MustMerge
  /\ rec' = [phase |-> "merge_pending", local |-> vol.lh, remote |-> vol.th]
  /\ pc' = "merging"
  /\ UNCHANGED <<product, vol, bounds>>

\* Mutant: git reset --hard.
MergeResets ==
  /\ pc = "merging"
  /\ local' = seen
  /\ pc' = "merged"
  /\ UNCHANGED <<origin, seen, tidy, rec, vol, bounds>>

\* git merge --ff-only takes the tracking ref, not the recorded commit; a
\* checkout that already has it is up to date.  Changes in the checkout obstruct
\* it only if they overlap with the commits it takes.
Merge ==
  /\ pc = "merging"
  /\ Ancestor(local, seen) \/ Ancestor(seen, local)
  /\ local' = IF Ancestor(local, seen) THEN seen ELSE local
  /\ pc' = "merged"
  /\ UNCHANGED <<origin, seen, tidy, rec, vol, bounds>>

MergeFails ==
  /\ pc = "merging"
  /\ ~tidy \/ ~(Ancestor(local, seen) \/ Ancestor(seen, local))
  /\ vol' = Home /\ pc' = "ready"
  /\ UNCHANGED <<product, rec, bounds>>

\* The phase the iteration found decides the one it leaves: a pending
\* execution stays pending only while the iteration that superseded its
\* product lives.
Synchronized ==
  IF vol.was = "agent_pending" THEN "agent_pending" ELSE "idle"

EndMerge ==
  /\ pc = "merged" /\ local = vol.th
  /\ rec' = [phase |-> Synchronized, local |-> local, remote |-> vol.th]
  /\ vol' = [vol EXCEPT !.lh = local] /\ pc' = "synced"
  /\ UNCHANGED <<product, bounds>>

\* "fast-forward completed without reaching the target revision".
EndMergeRefused(absorbed) ==
  /\ pc = "merged" /\ local # vol.th
  /\ Fail(absorbed)
  /\ UNCHANGED <<product, rec, bounds>>

\* Nothing to merge.  A pending phase is saved again with what was seen.
EndSync ==
  /\ pc = "fetched" /\ ~Conflicts /\ ~Diverged /\ ~MustMerge
  /\ rec' = IF Pending
            THEN [phase |-> Synchronized, local |-> vol.lh, remote |-> vol.th]
            ELSE rec
  /\ pc' = "synced"
  /\ UNCHANGED <<product, vol, bounds>>

SyncStep(absorbed) ==
  \/ Fetch \/ SyncRefused(absorbed) \/ SyncDiverged
  \/ SaveMerge \/ Merge \/ MergeFails \/ EndMerge
  \/ EndMergeRefused(absorbed) \/ EndSync

(***************************************************************************)
(* The others: pushes and rewrites of the branch, and an operator who      *)
(* commits, resets, fetches and edits in the checkout the service uses.    *)
(***************************************************************************)
Meddle == moves < MaxMoves /\ moves' = moves + 1 /\ UNCHANGED <<pc, vol, rec, faults>>

OthersPush ==
  /\ Meddle /\ \E c \in Commits \ {origin} : origin' = c
  /\ UNCHANGED <<seen, local, tidy>>

OperatorMoves ==
  /\ Meddle /\ tidy /\ \E c \in Commits \ {local} : local' = c
  /\ UNCHANGED <<origin, seen, tidy>>

OperatorFetches ==
  /\ Meddle /\ seen # origin /\ seen' = origin
  /\ UNCHANGED <<origin, local, tidy>>

OperatorEdits ==
  /\ Meddle /\ tidy /\ tidy' = FALSE
  /\ UNCHANGED <<origin, seen, local>>

OperatorTidies ==
  /\ ~tidy /\ tidy' = TRUE
  /\ UNCHANGED <<origin, seen, local, rec, pc, vol, bounds>>

ProductChanges ==
  OthersPush \/ OperatorMoves \/ OperatorFetches \/ OperatorEdits
    \/ OperatorTidies

Crash ==
  /\ pc # "off" /\ faults < MaxFaults /\ faults' = faults + 1
  /\ vol' = Home /\ pc' = "off"
  /\ UNCHANGED <<product, rec, moves>>

Start ==
  /\ pc = "off" /\ pc' = "ready"
  /\ UNCHANGED <<product, rec, vol, bounds>>

InitProduct ==
  /\ origin = First /\ seen = First /\ local = First /\ tidy = TRUE
  /\ rec = InitialRec /\ pc = "ready" /\ vol = Home
  /\ moves = 0 /\ faults = 0

\* The transaction can end: what it recorded still is what git has.
MergeObstructed ==
  \/ ~tidy
  \/ local \notin {rec.local, rec.remote}
  \/ ~Ancestor(rec.remote, origin)

=============================================================================
