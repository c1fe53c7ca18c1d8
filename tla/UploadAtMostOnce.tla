---------------------------- MODULE UploadAtMostOnce ----------------------------
(***************************************************************************)
(* What publication promises about one package unit, without saying how    *)
(* (adapters/registry-publish.md): there is one upload request at a time,  *)
(* a further one only after every earlier one was definitely rejected, and *)
(* never another one once the registry accepted or may have accepted.      *)
(***************************************************************************)
EXTENDS Naturals

CONSTANT MaxAttempt   \* bound on the attempt number, a natural number

VARIABLES
  fate,      \* what became of the upload request of each attempt
  visible    \* the registry serves the exact bytes

Attempt == 0..MaxAttempt

\* unsent: no request was made; inflight: the registry has not decided;
\* rejected: a definite HTTP 429; dropped: not taken for any other reason.
Fate == {"unsent", "inflight", "accepted", "rejected", "dropped"}

Init ==
  /\ fate = [a \in Attempt |-> "unsent"]
  /\ visible = FALSE

Send(a) ==
  /\ fate[a] = "unsent"
  /\ \A b \in Attempt: b < a => fate[b] = "rejected"
  /\ \A b \in Attempt: b > a => fate[b] = "unsent"
  /\ fate' = [fate EXCEPT ![a] = "inflight"]
  /\ UNCHANGED visible

Decide(a) ==
  /\ fate[a] = "inflight"
  /\ \E f \in {"accepted", "rejected", "dropped"}: fate' = [fate EXCEPT ![a] = f]
  /\ UNCHANGED visible

Appear ==
  /\ \E a \in Attempt: fate[a] = "accepted"
  /\ visible' = TRUE
  /\ UNCHANGED fate

Next == Appear \/ \E a \in Attempt: Send(a) \/ Decide(a)

Spec == Init /\ [][Next]_<<fate, visible>>
=============================================================================
