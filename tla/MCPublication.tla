----------------------------- MODULE MCPublication -----------------------------
(* The TLC instance of Publication: two runners share a journal root, the other
   has one of its own. *)
EXTENDS Publication, TLC

CONSTANTS r1, r2, r3, rootA, rootB

Sharing == (r1 :> rootA) @@ (r2 :> rootA) @@ (r3 :> rootB)
=============================================================================
