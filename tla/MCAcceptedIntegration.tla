----------------------- MODULE MCAcceptedIntegration -----------------------
(***************************************************************************)
(* AcceptedIntegration for TLC, which needs no more than its bounds.       *)
(***************************************************************************)
EXTENDS AcceptedIntegration
=============================================================================
