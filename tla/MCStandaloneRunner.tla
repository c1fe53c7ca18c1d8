--------------------------- MODULE MCStandaloneRunner ---------------------------
(* TLC instance of StandaloneRunner. *)
EXTENDS StandaloneRunner

CONSTANTS i1, i2

Invocations == {i1, i2}
MCCommands == [i \in Invocations |-> IF i = i1 THEN 2 ELSE 1]
=============================================================================
