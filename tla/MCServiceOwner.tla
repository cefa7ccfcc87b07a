--------------------------- MODULE MCServiceOwner ---------------------------
(***************************************************************************)
(* ServiceOwner for TLC.  Calls and request ids are interchangeable.       *)
(***************************************************************************)
EXTENDS ServiceOwner, TLC

Symmetry == Permutations(Calls) \cup Permutations(Ids)
=============================================================================
