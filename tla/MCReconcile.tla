---------------------------- MODULE MCReconcile ----------------------------
(***************************************************************************)
(* Reconcile for TLC: a product branch with a commit that can grow by one  *)
(* and be replaced by a sibling.                                           *)
(***************************************************************************)
EXTENDS Reconcile

MCCommits == {<<1>>, <<1, 1>>, <<1, 1, 1>>, <<2>>}
MCFirst == <<1>>
=============================================================================
