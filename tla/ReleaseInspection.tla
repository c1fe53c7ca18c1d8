--------------------------- MODULE ReleaseInspection ---------------------------
(***************************************************************************)
(* Bundle inspects the channels of a release one after the other, and a    *)
(* failure ends it (adapters/registry_publish.py Bundle): of a crate the   *)
(* lock (inspect_cargo, module PackagedLock), of a package for JSR the     *)
(* imports (inspect_javascript, module ImportRewriting).  The rest of an   *)
(* inspection are comparisons of bytes.                                    *)
(***************************************************************************)
EXTENDS PackagedLock, ImportRewriting

CONSTANT Release  \* the releases there are: their channels, two locks, text and the
                  \* version of its dependency

ASSUME TextsAreSequences == \A release \in Release : release.text \in Seq(STRING)

VARIABLE channels  \* the channels of the one inspected, chosen in Init for ever

textVars == <<inputs, published, pass, covered>>
releaseVars == <<channels, lockVars, textVars>>

ReleaseInit ==
  /\ \E release \in Release :
       /\ channels = release.channels
       /\ source = release.source /\ packaged = release.packaged
       /\ text = release.text /\ version = release.version
  /\ Start /\ RewriteStart

\* inspect_cargo: a lock with the committed bytes is not inspected, nor is a crate
\* without one looked at further ...
KeptLock ==
  /\ stage = "parse" /\ packaged \in {source, Absent}
  /\ stage' = "same"
  /\ UNCHANGED <<locks, reachable, pending>>

\* ... and a lock of which the source has none is refused.
NewLock ==
  /\ stage = "parse" /\ packaged # Absent /\ source = Absent
  /\ stage' = "refused"
  /\ UNCHANGED <<locks, reachable, pending>>

InspectCargo ==
  /\ "cargo" \in channels
  /\ \/ KeptLock
     \/ NewLock
     \/ packaged \notin {source, Absent} /\ source # Absent /\ LockNext
  /\ UNCHANGED textVars

\* A release comes to JSR when its crate, if it has one, is accepted.
InspectJsr ==
  /\ "jsr" \in channels
  /\ "cargo" \in channels => stage \in {"same", "accepted"}
  /\ RewriteNext
  /\ UNCHANGED lockVars

ReleaseNext == UNCHANGED channels /\ (InspectCargo \/ InspectJsr)

ReleaseSpec == ReleaseInit /\ [][ReleaseNext]_releaseVars

-----------------------------------------------------------------------------
Inspected ==
  /\ "cargo" \in channels => stage \in {"same", "accepted"}
  /\ "jsr" \in channels => pass = "published"

\* A crate that may be published has no lock, the committed one, or the exact part of
\* it that the crate needs: no dependency was added, upgraded, swapped or lost
\* (registry-publish.md, "Every retained package identity, checksum, metadata field
\* and resolved dependency edge must match").
OnlyExactLocks ==
  Inspected /\ "cargo" \in channels => packaged \in {source, Absent} \/ Exact
=============================================================================
