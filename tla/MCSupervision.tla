---------------------------- MODULE MCSupervision ----------------------------
(* TLC instance of Supervision. *)
EXTENDS Supervision
=============================================================================
