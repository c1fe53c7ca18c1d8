------------------------------- MODULE ReleaseRun -------------------------------
(***************************************************************************)
(* The publisher at work on a reviewed bundle (adapters/registry_publish.py *)
(* main, fetch_bundle, Publisher.execute and what it calls of Remote): it  *)
(* gets the bundle, verifies it, and takes registry after registry and,    *)
(* within one, unit after unit, each with a credential of its own.         *)
(*                                                                         *)
(* Module Publication has all that can happen to the journal and the       *)
(* upload of one unit; here these are a claim and an upload, of many units, *)
(* by runners that have one bundle path and a journal root each.           *)
(***************************************************************************)
EXTENDS ReleaseBundle, Sequences

CONSTANTS
  Runner,      \* invocations of the publisher
  Units,       \* the units of the release, in the order they are taken
  RegistryOf,  \* the registry each is for
  Foreign      \* bytes nobody here has prepared

Registry == {RegistryOf[Units[k]] : k \in DOMAIN Units}

ASSUME ReleaseAssumption ==
  /\ Units \in Seq(DOMAIN RegistryOf) \ {<<>>}
  /\ Foreign \notin Preparation \cup {None}

VARIABLES
  operation,  \* status or publish, chosen in Init for ever
  auth,       \* RELEASE_*_AUTH of each registry, chosen in Init for ever
  staged,     \* the bundle at RELEASE_BUNDLE, and whether all of it is written
  running,    \* where each runner is
  job,        \* the bundle it works with, the unit it has come to, the units it
              \* has seen at the unit's registry, and the token it has: the mode
              \* it came by and the unit it was for
  claim,      \* the remote intent of each unit: its owner and the owner's token
  served      \* what the registries serve of each unit, by preparation

runVars == <<operation, auth, staged, running, job, claim, served>>
given == <<importVars, operation, auth>>

Idle == [bundle |-> None, at |-> 1, present |-> {}, token |-> None]

RunInit ==
  /\ operation \in [Runner -> {"status", "publish"}]
  /\ auth \in [Registry -> {"token", "trusted"}]
  /\ staged = None
  /\ running = [r \in Runner |-> "fetch"]
  /\ job = [r \in Runner |-> Idle]
  /\ claim = [k \in DOMAIN Units |-> None]
  /\ served = [k \in DOMAIN Units |-> None]

Goto(r, place) == running' = [running EXCEPT ![r] = place] /\ UNCHANGED job
With(r, place, known) ==
  /\ running' = [running EXCEPT ![r] = place]
  /\ job' = [job EXCEPT ![r] = known]

\* A Failure is the end of the run.
Refuse(r) == With(r, "refused", Idle)

Other == [Nothing EXCEPT !.artifact = Foreign]

-----------------------------------------------------------------------------
\* fetch_bundle: a file that is there has to be the reviewed one.
Fetch(r) ==
  /\ running[r] = "fetch" /\ reviewed # None
  /\ IF staged = None THEN Goto(r, "download")
     ELSE IF staged = Whole(reviewed) THEN Goto(r, "read") ELSE Refuse(r)
  /\ UNCHANGED <<given, staged, claim, served>>

\* What is downloaded has the reviewed digest, and the file must be new.
Download(r) ==
  /\ running[r] = "download"
  /\ \/ staged = None /\ staged' = Part(reviewed) /\ Goto(r, "store")
     \/ UNCHANGED staged /\ Refuse(r)
  /\ UNCHANGED <<given, claim, served>>

Store(r) ==
  /\ running[r] = "store"
  /\ staged' = Whole(reviewed)
  /\ Goto(r, "read")
  /\ UNCHANGED <<given, claim, served>>

\* External: where no download is asked for somebody stages a file, maybe not the
\* right one.
Stage ==
  /\ staged = None /\ reviewed # None
  /\ \E bytes \in {reviewed, Other} : staged' = Whole(bytes)
  /\ UNCHANGED <<given, running, job, claim, served>>

\* Bundle, after fetch_bundle or without it: the digest of what is read now is the
\* reviewed one.
Read(r) ==
  /\ running[r] \in {"fetch", "read"} /\ staged # None
  /\ IF staged = Whole(reviewed)
     THEN With(r, "tag", [Idle EXCEPT !.bundle = staged.bundle]) ELSE Refuse(r)
  /\ UNCHANGED <<given, staged, claim, served>>

\* verify_tag, of a tag and a release that are external.
VerifyTag(r) ==
  /\ running[r] = "tag"
  /\ Goto(r, "look") \/ Refuse(r)
  /\ UNCHANGED <<given, staged, claim, served>>

Unit(r) == job[r].at
RegistryAt(k) == RegistryOf[Units[k]]

\* The units served where a unit goes, and those that are not the bundle's.
Seen(k) == {j \in DOMAIN Units : RegistryAt(j) = RegistryAt(k) /\ served[j] # None}
Conflicts(r) == {j \in Seen(Unit(r)) : served[j] # job[r].bundle.artifact}

\* Remote.present, before the first unit of a registry and then only after an
\* upload: it downloads all there is, and other bytes are a conflict.
Look(r) ==
  /\ running[r] = "look"
  /\ IF Conflicts(r) # {} THEN Refuse(r)
     ELSE With(r, "unit", [job[r] EXCEPT !.present = Seen(Unit(r))])
  /\ UNCHANGED <<given, staged, claim, served>>

\* To the next unit, the next registry or the end, with what was seen.
Proceed(r, present) ==
  LET k == Unit(r) + 1
  IN IF k > Len(Units) THEN With(r, "success", Idle)
     ELSE With(r, IF RegistryAt(k) = RegistryAt(Unit(r)) THEN "unit" ELSE "look",
               [job[r] EXCEPT !.at = k, !.present = present])

\* A unit that is there needs no credential; a status changes nothing.
Skip(r) ==
  /\ running[r] = "unit"
  /\ operation[r] = "status" \/ Unit(r) \in job[r].present
  /\ Proceed(r, job[r].present)
  /\ UNCHANGED <<given, staged, claim, served>>

\* An intent of anybody forbids an upload.
CheckJournal(r) ==
  /\ running[r] = "unit"
  /\ operation[r] = "publish" /\ Unit(r) \notin job[r].present
  /\ IF claim[Unit(r)] = None THEN Goto(r, "credentials") ELSE Refuse(r)
  /\ UNCHANGED <<given, staged, claim, served>>

\* Mutant: where a trusted credential is refused, the token of the environment is
\* used.
Credentials_FallBack(r) ==
  /\ running[r] = "credentials"
  /\ \E mode \in {auth[RegistryAt(Unit(r))], "token"} :
       With(r, "claim", [job[r] EXCEPT !.token = [mode |-> mode, unit |-> Unit(r)]])
  /\ UNCHANGED <<given, staged, claim, served>>

\* credentials: the token of the environment, or an ID token, which JSR binds to
\* the body and npm and PyPI exchange.  Any of it may be missing or refused.
Credentials(r) ==
  /\ running[r] = "credentials"
  /\ \/ With(r, "claim", [job[r] EXCEPT !.token =
                            [mode |-> auth[RegistryAt(Unit(r))], unit |-> Unit(r)]])
     \/ Refuse(r)
  /\ UNCHANGED <<given, staged, claim, served>>

\* The intents; the release takes the first remote one.
Claim(r) ==
  /\ running[r] = "claim"
  /\ IF claim[Unit(r)] = None
     THEN /\ claim' = [claim EXCEPT ![Unit(r)] = [owner |-> r, token |-> job[r].token]]
          /\ Goto(r, "upload")
     ELSE UNCHANGED claim /\ Refuse(r)
  /\ UNCHANGED <<given, staged, served>>

\* The registry takes the upload unless it has the unit; the answer may be lost.
Upload(r) ==
  /\ running[r] = "upload"
  /\ \/ /\ served[Unit(r)] = None
        /\ served' = [served EXCEPT ![Unit(r)] = job[r].bundle.artifact]
     \/ UNCHANGED served
  /\ Goto(r, "verify") \/ Refuse(r)
  /\ UNCHANGED <<given, staged, claim>>

\* Mutant: what the registry answered is enough.
Verify_Trusting(r) ==
  /\ running[r] = "verify"
  /\ Proceed(r, Seen(Unit(r)) \cup {Unit(r)})
  /\ UNCHANGED <<given, staged, claim, served>>

\* The exact bytes are downloaded before the next unit has its turn.
Verify(r) ==
  /\ running[r] = "verify"
  /\ IF Conflicts(r) # {} \/ Unit(r) \notin Seen(Unit(r)) THEN Refuse(r)
     ELSE Proceed(r, Seen(Unit(r)))
  /\ UNCHANGED <<given, staged, claim, served>>

\* It is killed: an interrupted download leaves a part of the file.
Kill(r) ==
  /\ running[r] \notin {"fetch", "success", "refused"}
  /\ Refuse(r)
  /\ UNCHANGED <<given, staged, claim, served>>

\* External: somebody else publishes this version of the package.
Publish(k) ==
  /\ reviewed # None /\ served[k] = None
  /\ served' = [served EXCEPT ![k] = Foreign]
  /\ UNCHANGED <<given, staged, running, job, claim>>

RunStep(r) ==
  \/ Fetch(r) \/ Download(r) \/ Store(r) \/ Read(r) \/ VerifyTag(r)
  \/ Look(r) \/ Skip(r) \/ CheckJournal(r) \/ Credentials(r) \/ Claim(r)
  \/ Upload(r) \/ Verify(r) \/ Kill(r)

RunNext ==
  \/ Stage
  \/ \E k \in DOMAIN Units : Publish(k)
  \/ \E r \in Runner : RunStep(r)

Init == ImportInit /\ RunInit
Next == (ImportNext /\ UNCHANGED runVars) \/ RunNext
Spec == Init /\ [][Next]_<<importVars, runVars>>

-----------------------------------------------------------------------------
\* Whatever these runs put on a registry was prepared: it is the artifact of one
\* preparation, whose receipt and source archive are those in the bundle that was
\* reviewed, although the prepared files, the bundle and the staged file may be
\* replaced, cut short or raced for on the way.
PublishedIsPrepared ==
  \A k \in DOMAIN Units : served[k] \notin {None, Foreign} =>
    /\ reviewed.artifact = served[k] /\ reviewed.receipt = served[k]
    /\ reviewed.source = CommitOf[served[k]]

\* Who has a claim had a credential first, for that very unit and obtained in the
\* mode selected: what is refused leaves no journal and uploads nothing, and nothing
\* falls back from a trusted credential to a token (registry-publish.md).
ClaimHasCredential ==
  \A k \in DOMAIN Units : claim[k] # None =>
    claim[k].token = [mode |-> auth[RegistryOf[Units[k]]], unit |-> k]

\* A publication that succeeds leaves every unit public with the reviewed bytes,
\* whoever uploaded which; one unit that fails is the end of the run.
SuccessIsVerified ==
  \A r \in Runner : running[r] = "success" /\ operation[r] = "publish" =>
    \A k \in DOMAIN Units : served[k] = reviewed.artifact

-----------------------------------------------------------------------------
\* The parts of the inductive invariant.

Working == {"tag", "look", "unit", "credentials", "claim", "upload", "verify"}
RunPlace == {"fetch", "download", "store", "read", "success", "refused"} \cup Working

Token == [mode: {"token", "trusted"}, unit: DOMAIN Units]
Work ==
  [bundle: Reading \cup {None}, at: DOMAIN Units, present: SUBSET DOMAIN Units,
   token: Token \cup {None}]

\* The type of every variable that matters.
RunTypeOK ==
  /\ operation \in [Runner -> {"status", "publish"}]
  /\ auth \in [Registry -> {"token", "trusted"}]
  /\ running \in [Runner -> RunPlace]
  /\ job \in [Runner -> Work]
  /\ claim \in [DOMAIN Units -> {None} \cup [owner: Runner, token: Token \cup {None}]]
  /\ served \in [DOMAIN Units -> Preparation \cup {None, Foreign}]

\* At a place, with what it knows there, a publisher works with the reviewed bundle;
\* behind it, and among the units that it has seen, everything is served as reviewed.
Knows(r, place, known) ==
  /\ place \in {"download", "store", "read"} \cup Working => reviewed # None
  /\ place \in Working => known.bundle = reviewed
  /\ place = "tag" => known.at = 1
  /\ operation[r] = "publish" =>
       /\ place \in Working =>
            \A k \in DOMAIN Units : k < known.at => served[k] = reviewed.artifact
       /\ place \in Working \ {"tag", "look"} =>
            \A k \in known.present : served[k] = reviewed.artifact
       /\ place = "success" =>
            reviewed # None /\ \A k \in DOMAIN Units : served[k] = reviewed.artifact
  /\ place = "claim" =>
       known.token = [mode |-> auth[RegistryOf[Units[known.at]]], unit |-> known.at]

RunnerInv == \A r \in Runner : Knows(r, running[r], job[r])

\* Nothing is staged before the review, and nothing else is served by these runs.
ServedInv ==
  /\ staged # None => reviewed # None
  /\ \A k \in DOMAIN Units :
       served[k] \notin {None, Foreign} => reviewed # None /\ served[k] = reviewed.artifact
  /\ ClaimHasCredential

IInv == ImportInv /\ RunTypeOK /\ RunnerInv /\ ServedInv
=============================================================================
