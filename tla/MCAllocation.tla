----------------------------- MODULE MCAllocation -----------------------------
(* TLC instance of Allocation. *)
EXTENDS Allocation

Amounts == 0..4
Readings == 0..8
=============================================================================
