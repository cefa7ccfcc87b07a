--------------------------- MODULE MCServiceHost ---------------------------
(* The host on three images and two commands.                              *)
EXTENDS ServiceHost

MCInstances == 1..3
=============================================================================
