-------------------------- MODULE LifecycleRecord --------------------------
(***************************************************************************)
(* What the control-plane lifecycle of an execution promises, as seen on   *)
(* the published control branch: the execution is recorded in one commit,  *)
(* on a history whose ticket is still the admitted one, the commits of     *)
(* others stay, and the service is done with the execution only after its  *)
(* record was published.                                                   *)
(***************************************************************************)
EXTENDS ControlHistory

VARIABLES
  log,        \* the published control branch
  moves,      \* the record also moves the ticket to review
  recorded,   \* the record has been published
  settled     \* the service is done with the execution

vars == <<log, moves, recorded, settled>>

Init ==
  /\ log = Admitted
  /\ moves \in BOOLEAN
  /\ recorded = FALSE
  /\ settled = FALSE

OthersCommit ==
  /\ \E c \in Commits : c.kind \in OtherKinds /\ log' = Append(log, c)
  /\ UNCHANGED <<moves, recorded, settled>>

\* Someone else's forced push.
OthersRewrite ==
  /\ \E c \in Commits : c.kind = "other" /\ log' = Append(Front(log), c)
  /\ UNCHANGED <<moves, recorded, settled>>

Record ==
  /\ ~HasOwn(log) /\ Compatible(log, moves)
  /\ \E c \in Commits : c.kind = "lifecycle" /\ log' = Append(log, c)
  /\ recorded' = TRUE
  /\ UNCHANGED <<moves, settled>>

Settle ==
  /\ recorded
  /\ settled' = TRUE
  /\ UNCHANGED <<log, moves, recorded>>

Next == OthersCommit \/ OthersRewrite \/ Record \/ Settle

Spec == Init /\ [][Next]_vars
=============================================================================
