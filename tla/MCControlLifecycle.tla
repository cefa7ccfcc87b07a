------------------------- MODULE MCControlLifecycle -------------------------
(***************************************************************************)
(* ControlLifecycle for TLC.                                               *)
(***************************************************************************)
EXTENDS ControlLifecycle
=============================================================================
