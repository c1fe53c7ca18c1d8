----------------------------- MODULE MCResolution -----------------------------
(* TLC instances of Resolution. *)
EXTENDS Resolution, TLC

Symmetry == Permutations(Resolver) \cup Permutations(Lock)
=============================================================================
