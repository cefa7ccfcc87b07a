--------------------------- MODULE ControlHistory ---------------------------
(***************************************************************************)
(* Histories of the control branch as the lifecycle code compares them: a  *)
(* history is the sequence of its commits, the root first, so that git's   *)
(* --is-ancestor is the prefix relation.  A commit is told apart by what   *)
(* it does to the active ticket and by a number that stands for its id.    *)
(***************************************************************************)
EXTENDS Naturals, Sequences, FiniteSetsExt, SequencesExt

CONSTANTS
  MaxChanges,    \* bound: commits by others
  MaxFailures    \* bound: crashes, lost answers and failed commits

ASSUME BoundsAssumption == MaxChanges \in Nat /\ MaxFailures \in Nat

\* What others commit: something unrelated, a change or move of the active
\* ticket's file, the original file put back, another ticket under review.
OtherKinds == {"other", "edit", "restore", "boundary"}

\* Commits of the lifecycle: each but the first follows a failure or a push
\* that lost against a commit of others.
MaxCommits == MaxChanges + MaxFailures + 1

Commits ==
  [kind : {"admitted"}, n : {0}]
    \cup [kind : OtherKinds, n : 1..MaxChanges]
    \cup [kind : {"lifecycle"}, n : 1..MaxCommits]

\* report.control_head: the generation the execution was admitted with.
Admitted == <<[kind |-> "admitted", n |-> 0]>>

Ancestor(h, g) == IsPrefix(h, g)

OwnPlaces(h) == {i \in DOMAIN h : h[i].kind = "lifecycle"}

\* _remote_lifecycle_commit: the history holds the exact lifecycle commit.
HasOwn(h) == OwnPlaces(h) # {}

\* The history below its lifecycle commit.
OwnParent(h) == SubSeq(h, 1, Max(OwnPlaces(h)) - 1)

TicketPlaces(h, moves) ==
  {i \in DOMAIN h : \/ h[i].kind \in {"edit", "restore"}
                    \/ h[i].kind = "lifecycle" /\ moves}

\* _prove_bound_ticket_descendant: the history descends from the admitted
\* one and its todo directory holds the same file for the ticket.
TicketKept(h, moves) ==
  /\ Ancestor(Admitted, h)
  /\ LET places == TicketPlaces(h, moves)
     IN \A i \in places :
          (\A j \in places : j <= i) => h[i].kind = "restore"

\* Another ticket is under review or accepted.
Boundary(h) == \E i \in DOMAIN h : h[i].kind = "boundary"

\* A history that a lifecycle commit may be put on; moves says whether the
\* commit also moves the ticket to review.
Compatible(h, moves) == TicketKept(h, moves) /\ ~(moves /\ Boundary(h))
=============================================================================
