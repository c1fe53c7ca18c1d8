----------------------------- MODULE MCTargetCache -----------------------------
(* TLC instances of TargetCache: two or three invocations of one target. *)
EXTENDS TargetCache, TLC

\* Invocations and inputs are interchangeable: nothing orders or names them.
RunSymmetry == Permutations(Run)
Symmetry == RunSymmetry \cup Permutations(Input)
=============================================================================
