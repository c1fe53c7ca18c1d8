------------------------------ MODULE ReleaseProofs ------------------------------
(***************************************************************************)
(* For any imports, preparations, publishers and units: what is published  *)
(* was prepared as a whole and reviewed, every claim had its credential,   *)
(* and a success is verified.  For any locks and texts: the inspection of  *)
(* a bundle passes the exact locks and no others, and rewrites the         *)
(* documented declarations and nothing else.                               *)
(*                                                                         *)
(* The inductive invariant IInv of import and publication has two halves.  *)
(* Up to the review it follows one bundle through the importers            *)
(* (ImportInv): inspected bundles are genuine, and the output belongs to   *)
(* the one importer that writes it.  From the review on that bundle does   *)
(* not change, nor does anything that a registry serves (ServedInv), so    *)
(* what a publisher has seen of it stays true (RunnerInv).  The            *)
(* inspection has the invariants LockInv, about the walk through the lock, *)
(* and RewriteInv, about the passes over a text.                           *)
(***************************************************************************)
EXTENDS ReleaseRun, ReleaseInspection, SequenceTheorems, WellFoundedInduction, TLAPS

LEMMA InitEstablishes == Init => IInv
<1> SUFFICES ASSUME Init PROVE IInv
  OBVIOUS
<1> USE BundleAssumption, ReleaseAssumption DEF BundleAssumption, ReleaseAssumption
<1>1. ImportInv
  <2>1. 1 \in Preparation
    BY DEF Preparation
  <2>2. Nothing \in Reading
    BY DEF Nothing, Reading
  <2> QED
    BY <2>1, <2>2 DEF Init, ImportInit, ImportInv, ImportTypeOK, ImportPlace
<1>2. RunTypeOK
  <2>1. 1 \in DOMAIN Units
    OBVIOUS
  <2>2. Idle \in Work
    BY <2>1 DEF Idle, Work
  <2> QED
    BY <2>2 DEF Init, RunInit, RunTypeOK, RunPlace
<1>3. RunnerInv
  BY DEF Init, RunInit, RunnerInv, Knows, Working
<1>4. ServedInv
  BY DEF Init, RunInit, ServedInv, ClaimHasCredential
<1> QED
  BY <1>1, <1>2, <1>3, <1>4 DEF IInv

-----------------------------------------------------------------------------
\* The imports.

\* A step that adds to what an importer has read, and touches nothing else.
LEMMA StepPreserves ==
  ASSUME ImportInv, NEW i \in Importer, NEW from, NEW to \in ImportPlace,
         NEW holds \in BOOLEAN, NEW got \in Reading,
         Step(i, from, to, holds, got),
         to # "write",
         holds => /\ to = "inspect" => got.artifact \in Preparation
                  /\ to \in {"create", "reported"} => Genuine(got)
                  /\ to = "reported" => output = Whole(got)
  PROVE  ImportInv'
<1> DEFINE place == IF holds THEN to ELSE "refused"
           known == IF holds THEN got ELSE Nothing
<1>1. /\ importing' = [importing EXCEPT ![i] = place]
      /\ read' = [read EXCEPT ![i] = known]
      /\ UNCHANGED <<directory, output, reviewed>>
  BY DEF Step
<1>2. place \in ImportPlace /\ known \in Reading /\ place # "write"
  BY DEF Nothing, Reading, ImportPlace
<1>3. /\ place = "inspect" => known.artifact \in Preparation
      /\ place \in {"create", "reported"} => Genuine(known)
      /\ place = "reported" => output = Whole(known)
  OBVIOUS
<1> HIDE DEF place, known
<1>4. ImportTypeOK'
  BY <1>1, <1>2 DEF ImportInv, ImportTypeOK
<1>5. ASSUME NEW j \in Importer
      PROVE  /\ importing'[j] = IF j = i THEN place ELSE importing[j]
             /\ read'[j] = IF j = i THEN known ELSE read[j]
  BY <1>1 DEF ImportInv, ImportTypeOK
<1>6. ASSUME NEW j \in Importer
      PROVE  /\ importing'[j] = "inspect" => read'[j].artifact \in Preparation
             /\ importing'[j] \in {"create", "write", "reported"} => Genuine(read'[j])
             /\ importing'[j] = "write" => output' = Part(read'[j])
             /\ importing'[j] = "reported" => output' = Whole(read'[j])
  BY <1>1, <1>2, <1>3, <1>5 DEF ImportInv, Genuine
<1>7. \A j, k \in Importer : importing'[j] = "write" /\ importing'[k] = "write" => j = k
  BY <1>2, <1>5 DEF ImportInv
<1>8. reviewed' # None => Genuine(reviewed')
  BY <1>1 DEF ImportInv, Genuine
<1> QED
  BY <1>4, <1>6, <1>7, <1>8 DEF ImportInv, Genuine

LEMMA ReadsPreserve ==
  ASSUME ImportInv, NEW i \in Importer,
         ReadSource(i) \/ ReadCommit(i) \/ ReadReceipt(i) \/ ReadSums(i) \/ ReadArtifact(i)
  PROVE  ImportInv'
<1>1. /\ read[i] \in Reading
      /\ \A file \in Prepared : directory[file] \in Preparation
  BY DEF ImportInv, ImportTypeOK
<1>2. /\ [read[i] EXCEPT !.source = CommitOf[directory["source"]]] \in Reading
      /\ [read[i] EXCEPT !.receipt = directory["receipt"]] \in Reading
      /\ [read[i] EXCEPT !.sums = directory["SHA256SUMS"]] \in Reading
      /\ [read[i] EXCEPT !.artifact = directory["artifact"]] \in Reading
      /\ [read[i] EXCEPT !.artifact = directory["artifact"]].artifact = directory["artifact"]
  BY <1>1 DEF Reading, Prepared
<1>3. directory["artifact"] \in Preparation
  BY <1>1 DEF Prepared
<1> USE DEF ImportPlace
<1>4. CASE ReadSource(i)
  BY <1>2, <1>4, StepPreserves DEF ReadSource
<1>5. CASE ReadCommit(i)
  BY <1>1, <1>5, StepPreserves DEF ReadCommit
<1>6. CASE ReadReceipt(i)
  BY <1>2, <1>6, StepPreserves DEF ReadReceipt
<1>7. CASE ReadSums(i)
  BY <1>2, <1>7, StepPreserves DEF ReadSums
<1>8. CASE ReadArtifact(i)
  BY <1>2, <1>3, <1>8, StepPreserves DEF ReadArtifact
<1> QED
  BY <1>4, <1>5, <1>6, <1>7, <1>8

\* What passes the inspection is genuine.
LEMMA InspectPreserves ==
  ASSUME ImportInv, NEW i \in Importer, Inspect(i)
  PROVE  ImportInv'
<1>1. read[i] \in Reading /\ importing[i] = "inspect"
  BY DEF ImportInv, ImportTypeOK, Inspect, Step
<1>2. CommitOf[read[i].receipt] = read[i].source /\ read[i].receipt = read[i].artifact
        => Genuine(read[i])
  BY <1>1 DEF ImportInv, Genuine
<1> QED
  BY <1>1, <1>2, StepPreserves DEF Inspect, ImportPlace

\* An output that is there is compared, and one that is not is the creator's.
LEMMA CreatePreserves ==
  ASSUME ImportInv, NEW i \in Importer, Create(i)
  PROVE  ImportInv'
<1>1. /\ read[i] \in Reading /\ importing[i] = "create" /\ Genuine(read[i])
  BY DEF ImportInv, ImportTypeOK, Create
<1>2. CASE output # None
  BY <1>1, <1>2, StepPreserves DEF Create, ImportPlace
<1>3. CASE output = None
  <2>1. /\ output' = Part(read[i])
        /\ importing' = [importing EXCEPT ![i] = "write"]
        /\ UNCHANGED <<directory, read, reviewed>>
    BY <1>3 DEF Create
  <2>2. \A j \in Importer : importing[j] \notin {"write", "reported"}
    <3>1. \A bundle \in Reading : Part(bundle) # None /\ Whole(bundle) # None
      <4>1. \A bundle \in Reading : /\ Part(bundle) \in [bundle: Reading, whole: BOOLEAN]
                                    /\ Whole(bundle) \in [bundle: Reading, whole: BOOLEAN]
        BY DEF Part, Whole
      <4>2. None \notin [bundle: Reading, whole: BOOLEAN]
        BY BundleAssumption DEF BundleAssumption
      <4> HIDE DEF Part, Whole
      <4> QED
        BY ONLY <4>1, <4>2
    <3> QED
      BY <1>3, <3>1 DEF ImportInv, ImportTypeOK
  <2> QED
    BY <1>1, <2>1, <2>2 DEF ImportInv, ImportTypeOK, ImportPlace, Genuine
<1> QED
  BY <1>2, <1>3

LEMMA WritePreserves ==
  ASSUME ImportInv, NEW i \in Importer, Write(i)
  PROVE  ImportInv'
<1>1. /\ importing[i] = "write" /\ output = Part(read[i]) /\ Genuine(read[i])
      /\ output' = Whole(read[i])
      /\ importing' = [importing EXCEPT ![i] = "reported"]
      /\ UNCHANGED <<directory, read, reviewed>>
  BY DEF ImportInv, Write
<1>2. \A j \in Importer : importing[j] # "reported" /\ (importing[j] = "write" => j = i)
  BY <1>1 DEF ImportInv, Part, Whole
<1> QED
  BY <1>1, <1>2 DEF ImportInv, ImportTypeOK, ImportPlace, Genuine

LEMMA ImportStepPreserves ==
  ASSUME ImportInv, NEW i \in Importer, ImportStep(i)
  PROVE  ImportInv'
<1>1. CASE CrashImport(i)
  <2>1. Nothing \in Reading
    BY DEF Nothing, Reading
  <2>2. Step(i, importing[i], "refused", FALSE, Nothing)
    BY <1>1 DEF CrashImport
  <2> QED
    BY <2>1, <2>2, StepPreserves DEF ImportPlace
<1> QED
  BY <1>1, ReadsPreserve, InspectPreserves, CreatePreserves, WritePreserves DEF ImportStep

LEMMA PreparePreserves ==
  ASSUME ImportInv, Prepare
  PROVE  ImportInv'
<1>1. directory' \in [Prepared -> Preparation]
  <2>1. PICK file \in Prepared :
          /\ directory[file] < MaxPreparation
          /\ directory' = [directory EXCEPT ![file] = @ + 1]
    BY DEF Prepare
  <2>2. directory \in [Prepared -> Preparation]
    BY DEF ImportInv, ImportTypeOK
  <2>3. directory[file] + 1 \in Preparation
    BY <2>1, <2>2, BundleAssumption DEF BundleAssumption, Preparation
  <2> QED
    BY <2>1, <2>2, <2>3
<1>2. UNCHANGED <<importing, read, output, reviewed>>
  BY DEF Prepare
<1> QED
  BY <1>1, <1>2 DEF ImportInv, ImportTypeOK, Genuine

LEMMA ReviewPreserves ==
  ASSUME ImportInv, Review
  PROVE  ImportInv' /\ reviewed = None
<1>1. PICK i \in Importer : importing[i] = "reported" /\ reviewed' = read[i]
  BY DEF Review
<1>2. /\ directory' = [file \in Prepared |-> MaxPreparation]
      /\ UNCHANGED <<importing, read, output>> /\ reviewed = None
  BY DEF Review
<1>3. directory' \in [Prepared -> Preparation]
  BY <1>2, BundleAssumption DEF BundleAssumption, Preparation
<1> QED
  BY <1>1, <1>2, <1>3 DEF ImportInv, ImportTypeOK, Genuine

\* The publishers begin with the review.
LEMMA ImportNextPreserves ==
  ASSUME IInv, ImportNext, UNCHANGED runVars
  PROVE  IInv'
<1>1. ImportInv'
  BY ImportStepPreserves, PreparePreserves, ReviewPreserves DEF IInv, ImportNext
<1>2. UNCHANGED <<operation, auth, staged, running, job, claim, served>>
  BY DEF runVars
<1>3. RunTypeOK'
  BY <1>2 DEF IInv, RunTypeOK
<1>4. UNCHANGED reviewed \/ reviewed = None
  <2>1. Prepare => UNCHANGED reviewed
    BY DEF Prepare
  <2>2. Review => reviewed = None
    BY DEF Review
  <2>3. \A i \in Importer : ImportStep(i) => UNCHANGED reviewed
    BY DEF ImportStep, ReadSource, ReadCommit, ReadReceipt, ReadSums, ReadArtifact,
           Inspect, Create, Write, CrashImport, Step
  <2> QED
    BY <2>1, <2>2, <2>3 DEF ImportNext
<1>5. RunnerInv'
  BY <1>2, <1>4 DEF IInv, RunnerInv, Knows, Working
<1>6. ServedInv'
  BY <1>2, <1>4 DEF IInv, ServedInv, ClaimHasCredential
<1> QED
  BY <1>1, <1>3, <1>5, <1>6 DEF IInv

-----------------------------------------------------------------------------
\* The publishers.

\* A step of one publisher, or of somebody else: what is served stays, and what is
\* new comes from the reviewed bundle or from strangers.
LEMMA RunnersPreserve ==
  ASSUME IInv, UNCHANGED <<importVars, operation, auth>>,
         RunTypeOK', ClaimHasCredential', staged' # None => reviewed # None,
         \A k \in DOMAIN Units : served[k] # None => served'[k] = served[k],
         \A k \in DOMAIN Units :
           \/ served'[k] \in {served[k], Foreign}
           \/ reviewed # None /\ served'[k] = reviewed.artifact,
         \A r \in Runner :
           \/ running'[r] = running[r] /\ job'[r] = job[r]
           \/ Knows(r, running[r], job[r])'
  PROVE  IInv'
<1>1. UNCHANGED <<directory, importing, read, output, reviewed>>
  BY DEF importVars
<1>2. ImportInv'
  BY <1>1 DEF IInv, ImportInv, ImportTypeOK, Genuine
<1>3. ServedInv'
  BY <1>1 DEF IInv, ServedInv
<1>4. reviewed # None => reviewed.artifact # None
  BY BundleAssumption DEF BundleAssumption, IInv, ImportInv, Genuine
<1>5. \A k \in DOMAIN Units :
        reviewed # None /\ served[k] = reviewed.artifact => served'[k] = reviewed.artifact
  BY <1>4
<1>6. ASSUME NEW r \in Runner, running'[r] = running[r], job'[r] = job[r]
      PROVE  Knows(r, running[r], job[r])'
  <2>1. job[r].present \subseteq DOMAIN Units
    BY DEF IInv, RunTypeOK, Work
  <2>2. Knows(r, running[r], job[r])
    BY DEF IInv, RunnerInv
  <2> QED
    BY <1>1, <1>5, <1>6, <2>1, <2>2 DEF Knows, Working
<1> QED
  BY <1>2, <1>3, <1>6 DEF IInv, RunnerInv

\* A step of one publisher that touches nothing but its own memory.
LEMMA QuietPreserves ==
  ASSUME IInv, NEW r \in Runner, NEW place \in RunPlace, NEW known \in Work,
         With(r, place, known), Knows(r, place, known),
         UNCHANGED <<given, staged, claim, served>>
  PROVE  IInv'
<1>1. UNCHANGED <<importVars, operation, auth, staged, claim, served>>
  BY DEF given
<1>2. /\ running' = [running EXCEPT ![r] = place]
      /\ job' = [job EXCEPT ![r] = known]
  BY DEF With
<1>3. RunTypeOK'
  BY <1>1, <1>2 DEF IInv, RunTypeOK
<1>4. ClaimHasCredential'
  BY <1>1 DEF IInv, ServedInv, ClaimHasCredential
<1>5. reviewed' = reviewed /\ (staged' # None => reviewed # None)
  BY <1>1 DEF importVars, IInv, ServedInv
<1>6. /\ running'[r] = place /\ job'[r] = known
      /\ \A s \in Runner : s # r => running'[s] = running[s] /\ job'[s] = job[s]
  BY <1>2 DEF IInv, RunTypeOK
<1>7. Knows(r, running[r], job[r])'
  BY <1>1, <1>5, <1>6 DEF Knows
<1> QED
  BY <1>1, <1>3, <1>4, <1>5, <1>6, <1>7, RunnersPreserve

\* What holds of a publisher wherever it is; to go on is to know the same.
LEMMA AtWork ==
  ASSUME IInv, NEW r \in Runner
  PROVE  /\ job[r] \in Work /\ job[r].at \in DOMAIN Units
         /\ job[r].present \subseteq DOMAIN Units
         /\ Knows(r, running[r], job[r])
         /\ \A place : Goto(r, place) => With(r, place, job[r])
BY DEF IInv, RunTypeOK, RunnerInv, Work, Goto, With

LEMMA RefusePreserves ==
  ASSUME IInv, NEW r \in Runner, Refuse(r), UNCHANGED <<given, staged, claim, served>>
  PROVE  IInv'
<1>1. Idle \in Work
  BY ReleaseAssumption DEF ReleaseAssumption, Idle, Work
<1>2. Knows(r, "refused", Idle)
  BY DEF Knows, Working
<1> QED
  BY <1>1, <1>2, QuietPreserves DEF Refuse, RunPlace

\* To the next unit, when this one is among those that are served as reviewed.
LEMMA ProceedPreserves ==
  ASSUME IInv, NEW r \in Runner, NEW present \in SUBSET DOMAIN Units,
         Proceed(r, present), UNCHANGED <<given, staged, claim, served>>,
         running[r] \in Working,
         operation[r] = "publish" =>
           /\ \A k \in present : served[k] = reviewed.artifact
           /\ served[job[r].at] = reviewed.artifact
  PROVE  IInv'
<1> DEFINE k == job[r].at + 1
           next == [job[r] EXCEPT !.at = k, !.present = present]
<1>1. /\ job[r] \in Work /\ job[r].at \in DOMAIN Units
      /\ Knows(r, running[r], job[r])
  BY AtWork
<1>2. Len(Units) \in Nat /\ DOMAIN Units = 1..Len(Units)
  BY ReleaseAssumption DEF ReleaseAssumption
<1>3. \A j \in DOMAIN Units : j < k => j < job[r].at \/ j = job[r].at
  BY <1>1, <1>2
<1>4. /\ reviewed # None
      /\ operation[r] = "publish" =>
           \A j \in DOMAIN Units : j < k => served[j] = reviewed.artifact
  BY <1>1, <1>3 DEF Knows
<1>5. CASE k > Len(Units)
  <2>1. With(r, "success", Idle)
    BY <1>5 DEF Proceed, Unit
  <2>2. Idle \in Work
    BY ReleaseAssumption DEF ReleaseAssumption, Idle, Work
  <2>3. \A j \in DOMAIN Units : j < k
    BY <1>1, <1>2, <1>5
  <2>4. Knows(r, "success", Idle)
    BY <1>4, <2>3 DEF Knows, Working
  <2> QED
    BY <2>1, <2>2, <2>4, QuietPreserves DEF RunPlace
<1>6. CASE ~(k > Len(Units))
  <2> DEFINE place == IF RegistryAt(k) = RegistryAt(job[r].at) THEN "unit" ELSE "look"
  <2>1. With(r, place, next)
    BY <1>6 DEF Proceed, Unit
  <2>2. k \in DOMAIN Units
    BY <1>1, <1>2, <1>6
  <2>3. /\ next \in Work /\ next.at = k /\ next.present = present
        /\ next.bundle = job[r].bundle
    BY <1>1, <2>2 DEF Work
  <2>4. place \in {"unit", "look"}
    OBVIOUS
  <2>5. job[r].bundle = reviewed
    BY <1>1 DEF Knows
  <2> HIDE DEF place, next, k
  <2>6. Knows(r, place, next)
    BY <1>4, <2>3, <2>4, <2>5 DEF Knows, Working
  <2> QED
    BY <2>1, <2>3, <2>4, <2>6, QuietPreserves DEF RunPlace, Working
<1> QED
  BY <1>5, <1>6

\* Getting the bundle.
LEMMA FetchingPreserves ==
  ASSUME IInv, NEW r \in Runner, Fetch(r) \/ Download(r) \/ Store(r) \/ Read(r)
  PROVE  IInv'
<1>1. /\ job[r] \in Work /\ Knows(r, running[r], job[r])
      /\ \A place : Goto(r, place) => With(r, place, job[r])
      /\ staged # None => reviewed # None
  BY AtWork DEF IInv, ServedInv
<1>2. reviewed # None => /\ Knows(r, "download", job[r])
                         /\ Knows(r, "read", job[r]) /\ Knows(r, "store", job[r])
  BY DEF Knows, Working
<1>3. {"download", "store", "read", "tag"} \subseteq RunPlace
  BY DEF RunPlace, Working
<1>4. CASE Fetch(r)
  BY <1>1, <1>2, <1>3, <1>4, QuietPreserves, RefusePreserves DEF Fetch
<1>5. ASSUME NEW place \in {"read", "store"}, Goto(r, place), reviewed # None,
             UNCHANGED <<given, claim, served>>
      PROVE  IInv'
  <2>1. UNCHANGED <<importVars, operation, auth, claim, served>>
    BY <1>5 DEF given
  <2>2. UNCHANGED job /\ running' = [running EXCEPT ![r] = place]
    BY <1>5 DEF Goto
  <2>3. RunTypeOK'
    BY <1>3, <2>1, <2>2 DEF IInv, RunTypeOK
  <2>4. ClaimHasCredential'
    BY <2>1 DEF IInv, ServedInv, ClaimHasCredential
  <2>5. /\ running'[r] = place
        /\ \A s \in Runner : s # r => running'[s] = running[s] /\ job'[s] = job[s]
    BY <2>2 DEF IInv, RunTypeOK
  <2>6. reviewed' = reviewed
    BY <2>1 DEF importVars
  <2>7. Knows(r, running[r], job[r])'
    BY <1>5, <2>5, <2>6 DEF Knows, Working
  <2> QED
    BY <1>5, <2>1, <2>3, <2>4, <2>5, <2>7, RunnersPreserve
<1>6. CASE Download(r)
  <2>1. reviewed # None
    BY <1>1, <1>6 DEF Download, Knows
  <2>2. CASE Goto(r, "store")
    BY <1>5, <1>6, <2>1, <2>2 DEF Download
  <2> QED
    BY <1>6, <2>2, RefusePreserves DEF Download
<1>7. CASE Store(r)
  <2>1. reviewed # None
    BY <1>1, <1>7 DEF Store, Knows
  <2> QED
    BY <1>5, <1>7, <2>1 DEF Store
<1>8. CASE Read(r)
  <2> DEFINE known == [Idle EXCEPT !.bundle = staged.bundle]
  <2>1. CASE staged = Whole(reviewed)
    <3>1. reviewed # None /\ With(r, "tag", known)
      BY <1>1, <1>8, <2>1 DEF Read
    <3>2. known = [bundle |-> reviewed, at |-> 1, present |-> {}, token |-> None]
      BY <2>1 DEF Idle, Whole
    <3>3. reviewed \in Reading /\ 1 \in DOMAIN Units
      BY <3>1, ReleaseAssumption DEF ReleaseAssumption, IInv, ImportInv, ImportTypeOK
    <3> HIDE DEF known
    <3>4. known \in Work
      BY <3>2, <3>3 DEF Work
    <3>5. \A k \in DOMAIN Units : ~(k < 1)
      BY ReleaseAssumption DEF ReleaseAssumption
    <3>6. Knows(r, "tag", known)
      BY <3>1, <3>2, <3>5 DEF Knows, Working
    <3> QED
      BY <1>3, <1>8, <3>1, <3>4, <3>6, QuietPreserves DEF Read
  <2>2. CASE staged # Whole(reviewed)
    BY <1>8, <2>2, RefusePreserves DEF Read
  <2> QED
    BY <2>1, <2>2
<1> QED
  BY <1>4, <1>6, <1>7, <1>8

\* The steps on one unit that only look.
LEMMA LookingPreserves ==
  ASSUME IInv, NEW r \in Runner,
         VerifyTag(r) \/ Look(r) \/ Skip(r) \/ CheckJournal(r) \/ Verify(r) \/ Kill(r)
  PROVE  IInv'
<1>1. /\ job[r] \in Work /\ job[r].at \in DOMAIN Units
      /\ job[r].present \subseteq DOMAIN Units
      /\ Knows(r, running[r], job[r])
      /\ \A place : Goto(r, place) => With(r, place, job[r])
  BY AtWork
<1>2. {"look", "unit", "credentials"} \subseteq RunPlace
  BY DEF RunPlace, Working
<1>3. Seen(Unit(r)) \subseteq DOMAIN Units
  BY DEF Seen
<1>4. job[r].bundle = reviewed /\ Conflicts(r) = {} =>
        \A k \in Seen(Unit(r)) : served[k] = reviewed.artifact
  BY DEF Conflicts
<1>5. CASE VerifyTag(r)
  <2>1. CASE Goto(r, "look")
    <3>1. Knows(r, "look", job[r])
      BY <1>1, <1>5 DEF VerifyTag, Knows, Working
    <3> QED
      BY <1>1, <1>2, <1>5, <2>1, <3>1, QuietPreserves DEF VerifyTag
  <2> QED
    BY <1>5, <2>1, RefusePreserves DEF VerifyTag
<1>6. CASE Look(r)
  <2> DEFINE known == [job[r] EXCEPT !.present = Seen(Unit(r))]
  <2>1. CASE Conflicts(r) = {}
    <3>1. /\ known \in Work /\ known.bundle = job[r].bundle /\ known.at = job[r].at
          /\ known.present = Seen(Unit(r))
      BY <1>1, <1>3 DEF Work
    <3>2. With(r, "unit", known)
      BY <1>6, <2>1 DEF Look
    <3> HIDE DEF known
    <3>3. Knows(r, "unit", known)
      BY <1>1, <1>4, <1>6, <2>1, <3>1 DEF Look, Knows, Working
    <3> QED
      BY <1>2, <1>6, <3>1, <3>2, <3>3, QuietPreserves DEF Look
  <2>2. CASE Conflicts(r) # {}
    BY <1>6, <2>2, RefusePreserves DEF Look
  <2> QED
    BY <2>1, <2>2
<1>7. CASE Skip(r)
  <2>1. running[r] \in Working /\ running[r] \notin {"tag", "look"}
    BY <1>7 DEF Skip, Working
  <2>2. operation[r] = "publish" =>
          /\ \A k \in job[r].present : served[k] = reviewed.artifact
          /\ served[job[r].at] = reviewed.artifact
    BY <1>1, <1>7, <2>1 DEF Skip, Knows, Unit
  <2> QED
    BY <1>1, <1>7, <2>1, <2>2, ProceedPreserves DEF Skip
<1>8. CASE CheckJournal(r)
  <2>1. CASE Goto(r, "credentials")
    <3>1. Knows(r, "credentials", job[r])
      BY <1>1, <1>8 DEF CheckJournal, Knows, Working
    <3> QED
      BY <1>1, <1>2, <1>8, <2>1, <3>1, QuietPreserves DEF CheckJournal
  <2> QED
    BY <1>8, <2>1, RefusePreserves DEF CheckJournal
<1>9. CASE Verify(r)
  <2>1. CASE Conflicts(r) = {} /\ Unit(r) \in Seen(Unit(r))
    <3>1. running[r] \in Working /\ job[r].bundle = reviewed
      BY <1>1, <1>9 DEF Verify, Knows, Working
    <3>2. /\ \A k \in Seen(Unit(r)) : served[k] = reviewed.artifact
          /\ served[job[r].at] = reviewed.artifact
      BY <1>4, <2>1, <3>1 DEF Unit
    <3> QED
      BY <1>3, <1>9, <2>1, <3>1, <3>2, ProceedPreserves DEF Verify
  <2> QED
    BY <1>9, <2>1, RefusePreserves DEF Verify
<1>10. CASE Kill(r)
  BY <1>10, RefusePreserves DEF Kill
<1> QED
  BY <1>5, <1>6, <1>7, <1>8, <1>9, <1>10

\* A token is of the selected mode, and for the unit.
LEMMA CredentialsPreserves ==
  ASSUME IInv, NEW r \in Runner, Credentials(r)
  PROVE  IInv'
<1> DEFINE token == [mode |-> auth[RegistryAt(Unit(r))], unit |-> Unit(r)]
           known == [job[r] EXCEPT !.token = token]
<1>1. /\ job[r] \in Work /\ job[r].at \in DOMAIN Units
      /\ Knows(r, running[r], job[r]) /\ running[r] = "credentials"
  BY AtWork DEF Credentials
<1>2. token \in Token
  BY <1>1 DEF IInv, RunTypeOK, Token, Registry, RegistryAt, Unit
<1>3. CASE With(r, "claim", known)
  <2>1. token = [mode |-> auth[RegistryOf[Units[job[r].at]]], unit |-> job[r].at]
    BY DEF RegistryAt, Unit
  <2> HIDE DEF token
  <2>2. /\ known \in Work /\ known.bundle = job[r].bundle /\ known.at = job[r].at
        /\ known.present = job[r].present /\ known.token = token
    BY <1>1, <1>2 DEF Work
  <2> HIDE DEF known
  <2>3. Knows(r, "claim", known)
    BY <1>1, <2>1, <2>2 DEF Knows, Working
  <2>4. "claim" \in RunPlace
    BY DEF RunPlace, Working
  <2> QED
    BY <1>3, <2>2, <2>3, <2>4, QuietPreserves DEF Credentials
<1> QED
  BY <1>3, RefusePreserves DEF Credentials

\* A claim is made with the token, and once.
LEMMA ClaimPreserves ==
  ASSUME IInv, NEW r \in Runner, Claim(r)
  PROVE  IInv'
<1>1. /\ job[r] \in Work /\ job[r].at \in DOMAIN Units
      /\ Knows(r, running[r], job[r]) /\ running[r] = "claim"
  BY AtWork DEF Claim
<1>2. CASE claim[Unit(r)] # None
  BY <1>2, RefusePreserves DEF Claim
<1>3. CASE claim[Unit(r)] = None
  <2> DEFINE made == [owner |-> r, token |-> job[r].token]
  <2>1. /\ claim' = [claim EXCEPT ![job[r].at] = made]
        /\ running' = [running EXCEPT ![r] = "upload"]
        /\ UNCHANGED <<importVars, operation, auth, job, staged, served>>
    BY <1>3 DEF Claim, Goto, Unit, given
  <2>2. made \in [owner: Runner, token: Token \cup {None}] /\ made.token = job[r].token
    BY <1>1 DEF Work
  <2> HIDE DEF made
  <2>3. "upload" \in RunPlace
    BY DEF RunPlace, Working
  <2>4. RunTypeOK'
    BY <2>1, <2>2, <2>3 DEF IInv, RunTypeOK
  <2>5. ClaimHasCredential'
    <3>1. claim \in [DOMAIN Units -> {None} \cup [owner: Runner, token: Token \cup {None}]]
      BY DEF IInv, RunTypeOK
    <3>2. job[r].token = [mode |-> auth[RegistryOf[Units[job[r].at]]], unit |-> job[r].at]
      BY <1>1 DEF Knows
    <3>3. ASSUME NEW k \in DOMAIN Units, claim'[k] # None
          PROVE  claim'[k].token = [mode |-> auth[RegistryOf[Units[k]]], unit |-> k]
      <4>1. CASE k = job[r].at
        BY <2>1, <2>2, <3>1, <3>2, <4>1
      <4>2. CASE k # job[r].at
        BY <2>1, <3>1, <3>3, <4>2 DEF IInv, ServedInv, ClaimHasCredential
      <4> QED
        BY <4>1, <4>2
    <3> QED
      BY <2>1, <3>3 DEF ClaimHasCredential
  <2>6. reviewed' = reviewed /\ (staged' # None => reviewed # None)
    BY <2>1 DEF importVars, IInv, ServedInv
  <2>7. /\ running'[r] = "upload" /\ job'[r] = job[r]
        /\ \A s \in Runner : s # r => running'[s] = running[s] /\ job'[s] = job[s]
    BY <2>1 DEF IInv, RunTypeOK
  <2>8. Knows(r, running[r], job[r])'
    BY <1>1, <2>1, <2>6, <2>7 DEF Knows, Working
  <2> QED
    BY <2>1, <2>4, <2>5, <2>6, <2>7, <2>8, RunnersPreserve
<1> QED
  BY <1>2, <1>3

\* An upload is of the reviewed artifact, and replaces nothing.
LEMMA UploadPreserves ==
  ASSUME IInv, NEW r \in Runner, Upload(r)
  PROVE  IInv'
<1>1. /\ job[r] \in Work /\ job[r].at \in DOMAIN Units
      /\ Knows(r, running[r], job[r]) /\ running[r] = "upload"
  BY AtWork DEF Upload
<1>2. /\ reviewed # None /\ job[r].bundle = reviewed
      /\ reviewed.artifact \in Preparation /\ reviewed.artifact # None
  BY <1>1, BundleAssumption
     DEF BundleAssumption, Knows, Working, IInv, ImportInv, Genuine
<1>3. /\ served' \in [DOMAIN Units -> Preparation \cup {None, Foreign}]
      /\ \A k \in DOMAIN Units : served[k] # None => served'[k] = served[k]
      /\ \A k \in DOMAIN Units : served'[k] \in {served[k], reviewed.artifact}
  <2>1. served \in [DOMAIN Units -> Preparation \cup {None, Foreign}]
    BY DEF IInv, RunTypeOK
  <2>2. \/ UNCHANGED served
        \/ /\ served[job[r].at] = None
           /\ served' = [served EXCEPT ![job[r].at] = reviewed.artifact]
    BY <1>2 DEF Upload, Unit
  <2> QED
    BY <1>1, <1>2, <2>1, <2>2
<1>4. UNCHANGED <<importVars, operation, auth, staged, claim>>
  BY DEF Upload, given
<1>5. reviewed' = reviewed /\ (staged' # None => reviewed # None)
  BY <1>4 DEF importVars, IInv, ServedInv
<1>6. Idle \in Work
  BY ReleaseAssumption DEF ReleaseAssumption, Idle, Work
<1>7. PICK place \in {"verify", "refused"}, known \in {job[r], Idle} :
        /\ running' = [running EXCEPT ![r] = place]
        /\ job' = [job EXCEPT ![r] = known]
        /\ place = "verify" => known = job[r]
  <2>1. CASE Goto(r, "verify")
    <3>1. running' = [running EXCEPT ![r] = "verify"] /\ job' = [job EXCEPT ![r] = job[r]]
      BY <2>1 DEF Goto, IInv, RunTypeOK
    <3> QED
      BY <3>1
  <2>2. CASE Refuse(r)
    BY <2>2 DEF Refuse, With
  <2> QED
    BY <2>1, <2>2 DEF Upload
<1>8. place \in RunPlace /\ known \in Work
  BY <1>1, <1>6 DEF RunPlace, Working
<1>9. /\ RunTypeOK' /\ running'[r] = place /\ job'[r] = known
      /\ \A s \in Runner : s # r => running'[s] = running[s] /\ job'[s] = job[s]
  BY <1>3, <1>4, <1>7, <1>8 DEF IInv, RunTypeOK
<1>10. ClaimHasCredential'
  BY <1>4 DEF IInv, ServedInv, ClaimHasCredential
<1>11. Knows(r, running[r], job[r])'
  <2>1. CASE place = "refused"
    BY <1>9, <2>1 DEF Knows, Working
  <2>2. CASE place = "verify"
    <3>1. known = job[r] /\ job[r].present \subseteq DOMAIN Units
      BY <1>1, <1>7, <2>2 DEF Work
    <3> QED
      BY <1>1, <1>2, <1>3, <1>4, <1>5, <1>9, <2>2, <3>1 DEF Knows, Working
  <2> QED
    BY <1>7, <2>1, <2>2
<1> QED
  BY <1>2, <1>3, <1>4, <1>5, <1>9, <1>10, <1>11, RunnersPreserve

\* Strangers stage and publish what they like.
LEMMA StrangersPreserve ==
  ASSUME IInv, Stage \/ \E k \in DOMAIN Units : Publish(k)
  PROVE  IInv'
<1>1. UNCHANGED <<importVars, operation, auth, running, job, claim>>
  BY DEF Stage, Publish, given
<1>2. ClaimHasCredential'
  BY <1>1 DEF IInv, ServedInv, ClaimHasCredential
<1>3. staged' # None => reviewed # None
  BY DEF Stage, Publish, IInv, ServedInv
<1>4. /\ served' \in [DOMAIN Units -> Preparation \cup {None, Foreign}]
      /\ \A k \in DOMAIN Units : served[k] # None => served'[k] = served[k]
      /\ \A k \in DOMAIN Units : served'[k] \in {served[k], Foreign}
  <2>1. served \in [DOMAIN Units -> Preparation \cup {None, Foreign}]
    BY DEF IInv, RunTypeOK
  <2>2. CASE Stage
    BY <2>1, <2>2 DEF Stage
  <2>3. ASSUME NEW k \in DOMAIN Units, Publish(k)
        PROVE  /\ served' = [served EXCEPT ![k] = Foreign] /\ served[k] = None
    BY <2>3 DEF Publish
  <2> QED
    BY <2>1, <2>2, <2>3
<1>5. RunTypeOK'
  BY <1>1, <1>4 DEF IInv, RunTypeOK
<1> QED
  BY <1>1, <1>2, <1>3, <1>4, <1>5, RunnersPreserve

LEMMA NextPreserves == IInv /\ [Next]_<<importVars, runVars>> => IInv'
<1> SUFFICES ASSUME IInv, [Next]_<<importVars, runVars>> PROVE IInv'
  OBVIOUS
<1>1. CASE UNCHANGED <<importVars, runVars>>
  <2>1. UNCHANGED <<importVars, operation, auth, staged, running, job, claim, served>>
    BY <1>1 DEF runVars
  <2>2. RunTypeOK' /\ ClaimHasCredential' /\ (staged' # None => reviewed # None)
    BY <2>1 DEF IInv, RunTypeOK, ServedInv, ClaimHasCredential
  <2> QED
    BY <2>1, <2>2, RunnersPreserve
<1>2. CASE ImportNext /\ UNCHANGED runVars
  BY <1>2, ImportNextPreserves
<1>3. ASSUME NEW r \in Runner, RunStep(r) PROVE IInv'
  BY <1>3, FetchingPreserves, LookingPreserves, CredentialsPreserves, ClaimPreserves,
     UploadPreserves DEF RunStep
<1>4. CASE RunNext
  BY <1>3, <1>4, StrangersPreserve DEF RunNext
<1> QED
  BY <1>1, <1>2, <1>4 DEF Next

-----------------------------------------------------------------------------
\* The invariant holds for any importers, preparations, publishers and units.
THEOREM Invariance == Spec => []IInv
<1>1. Init => IInv
  BY InitEstablishes
<1>2. IInv /\ [Next]_<<importVars, runVars>> => IInv'
  BY NextPreserves
<1> QED
  BY <1>1, <1>2, PTL DEF Spec

\* A bundle that was reported with its digest is at the output, whole, for good.
THEOREM ReportedBundlesStay == Spec => []ReportedBundleStays
<1>1. IInv => ReportedBundleStays
  BY DEF IInv, ImportInv, ReportedBundleStays
<1> QED
  BY <1>1, Invariance, PTL

\* What these runs publish is the reviewed bundle of one preparation.
THEOREM PublishedBytesArePrepared == Spec => []PublishedIsPrepared
<1>1. IInv => PublishedIsPrepared
  BY DEF IInv, ImportInv, ServedInv, Genuine, PublishedIsPrepared
<1> QED
  BY <1>1, Invariance, PTL

\* Every claim is preceded by a credential for its unit, in the selected mode.
THEOREM ClaimsHaveCredentials == Spec => []ClaimHasCredential
<1>1. IInv => ClaimHasCredential
  BY DEF IInv, ServedInv
<1> QED
  BY <1>1, Invariance, PTL

\* A publication that succeeds leaves every unit public with the reviewed bytes.
THEOREM SuccessesAreVerified == Spec => []SuccessIsVerified
<1>1. IInv => SuccessIsVerified
  BY DEF IInv, RunnerInv, Knows, SuccessIsVerified
<1> QED
  BY <1>1, Invariance, PTL

-----------------------------------------------------------------------------
\* The lock inside a crate.

\* What the walk has visited and has yet to visit: it holds the root and the
\* dependencies of all that was visited, and nothing that a closed set with the
\* root in it can do without.
Walked(seen, left) ==
  /\ Root \in seen \cup left
  /\ \A identity \in seen : Edges(source, identity) \subseteq seen \cup left
  /\ \A other \in SUBSET Packages(source) :
       Root \in other /\ Closed(other) => seen \cup left \subseteq other

WalkInv ==
  stage = "walk" =>
    /\ packaged.metadata = source.metadata
    /\ Root \in Packages(source)
    /\ Walked(reachable, pending)

LockInv ==
  /\ stage \in {"parse", "walk", "same", "accepted", "refused"}
  /\ stage = "parse" => reachable = {}
  /\ WalkInv
  /\ stage = "same" => packaged \in {source, Absent}
  /\ LockSound
  /\ LockComplete

\* LockComplete depends on the two locks and the stage only.
LEMMA CompleteStays ==
  ASSUME LockComplete, UNCHANGED locks, stage' = "refused" => stage = "refused"
  PROVE  LockComplete'
<1>1. source' = source /\ packaged' = packaged
  BY DEF locks
<1>2. Exact' <=> Exact
  BY <1>1 DEF Exact, Needed, Closed
<1>3. (Resolves(source)' <=> Resolves(source)) /\ (Resolves(packaged)' <=> Resolves(packaged))
  BY <1>1
<1> QED
  BY <1>1, <1>2, <1>3 DEF LockComplete

\* The dependencies of a lock's packages are packages of that lock.
LEMMA EdgesInside ==
  ASSUME NEW lock, NEW identity
  PROVE  Edges(lock, identity) \subseteq Packages(lock)
BY DEF Edges, Candidates

\* Thus the whole committed lock is closed.
LEMMA SourceClosed == Closed(Packages(source))
BY EdgesInside DEF Closed

LEMMA ParsePreserves == LockInv /\ Parse => LockInv'
<1> SUFFICES ASSUME LockInv, Parse PROVE LockInv'
  OBVIOUS
<1>0. stage = "parse" /\ reachable' = {} /\ source' = source /\ packaged' = packaged
  BY DEF Parse, LockInv, locks
<1>1. CASE stage' = "walk"
  <2>1. /\ packaged.metadata = source.metadata
        /\ Root \in Packages(source)
        /\ pending' = {Root}
    BY <1>1 DEF Parse
  <2>2. Walked(reachable, pending)'
    BY <1>0, <2>1 DEF Walked
  <2>3. LockComplete'
    BY <1>1 DEF LockComplete
  <2> QED
    BY <1>0, <1>1, <2>1, <2>2, <2>3 DEF LockInv, WalkInv, LockSound
<1>2. CASE stage' = "refused"
  <2>1. ~ (/\ Resolves(source) /\ Resolves(packaged)
           /\ packaged.metadata = source.metadata
           /\ Root \in Packages(source))
    BY <1>2 DEF Parse
  <2>2. Exact => packaged.metadata = source.metadata /\ Root \in Packages(source)
    BY DEF Exact, Needed
  <2>3. LockComplete'
    <3>1. Exact' <=> Exact
      BY <1>0 DEF Exact, Needed, Closed
    <3>2. /\ Resolves(source)' <=> Resolves(source)
          /\ Resolves(packaged)' <=> Resolves(packaged)
      BY <1>0
    <3> QED
      BY <2>1, <2>2, <3>1, <3>2 DEF LockComplete
  <2> QED
    BY <1>0, <1>2, <2>3 DEF LockInv, WalkInv, LockSound
<1> QED
  BY <1>1, <1>2 DEF Parse

\* A visited package leaves what is pending for what was seen, and its
\* dependencies are in every closed set that it is in.
LEMMA VisitPreserves == LockInv /\ Visit => LockInv'
<1> SUFFICES ASSUME LockInv,
                    stage = "walk",
                    UNCHANGED <<locks, stage>>,
                    NEW identity \in pending,
                    reachable' = reachable \cup {identity},
                    pending' = IF identity \in reachable THEN pending \ {identity}
                               ELSE (pending \ {identity}) \cup Edges(source, identity)
             PROVE  LockInv'
  BY DEF Visit
<1>1. source' = source /\ packaged' = packaged /\ stage' = "walk"
  BY DEF locks
<1>2. Walked(reachable, pending)
  BY DEF LockInv, WalkInv
<1>3. reachable' \cup pending' =
        IF identity \in reachable THEN reachable \cup pending
        ELSE reachable \cup pending \cup Edges(source, identity)
  OBVIOUS
<1>4. Edges(source, identity) \subseteq reachable' \cup pending'
  BY <1>2, <1>3 DEF Walked
<1>5. \A other \in SUBSET Packages(source) :
        Root \in other /\ Closed(other) => reachable' \cup pending' \subseteq other
  <2> SUFFICES ASSUME NEW other \in SUBSET Packages(source), Root \in other, Closed(other)
               PROVE  reachable' \cup pending' \subseteq other
    OBVIOUS
  <2>1. reachable \cup pending \subseteq other
    BY <1>2 DEF Walked
  <2>2. Edges(source, identity) \subseteq other
    BY <2>1 DEF Closed
  <2> QED
    BY <1>3, <2>1, <2>2
<1>6. Walked(reachable', pending')
  BY <1>2, <1>3, <1>4, <1>5 DEF Walked
<1>7. Walked(reachable, pending)'
  BY <1>1, <1>6 DEF Walked, Closed
<1>8. LockComplete'
  BY <1>1 DEF LockComplete
<1> QED
  BY <1>1, <1>7, <1>8 DEF LockInv, WalkInv, LockSound

\* With nothing pending, what was reached is the least closed set.
LEMMA ReachedIsNeeded ==
  ASSUME Walked(reachable, {}), Root \in Packages(source)
  PROVE  Needed(reachable) /\ reachable \subseteq Packages(source)
<1>1. Root \in reachable /\ Closed(reachable)
  BY DEF Walked, Closed
<1>2. \A other \in SUBSET Packages(source) :
        Root \in other /\ Closed(other) => reachable \subseteq other
  BY DEF Walked
<1>3. reachable \subseteq Packages(source)
  BY <1>2, SourceClosed
<1> QED
  BY <1>1, <1>2, <1>3 DEF Needed

LEMMA ComparePreserves == LockInv /\ Compare => LockInv'
<1> SUFFICES ASSUME LockInv, Compare PROVE LockInv'
  OBVIOUS
<1>1. /\ source' = source /\ packaged' = packaged
      /\ stage = "walk" /\ pending = {} /\ stage' \in {"accepted", "refused"}
  BY DEF Compare, locks
<1>2. ASSUME stage' = "accepted" PROVE Exact
  <2>1. /\ Packages(packaged) = reachable
        /\ \A identity \in reachable :
             /\ packaged.packages[identity].metadata =
                  source.packages[identity].metadata
             /\ Edges(packaged, identity) = Edges(source, identity)
    BY <1>2 DEF Compare
  <2>2. /\ packaged.metadata = source.metadata
        /\ Root \in Packages(source)
        /\ Walked(reachable, {})
    BY <1>1 DEF LockInv, WalkInv
  <2>3. Needed(reachable) /\ reachable \subseteq Packages(source)
    BY <2>2, ReachedIsNeeded
  <2> QED
    BY <2>1, <2>2, <2>3 DEF Exact
<1>3. Exact <=> Exact'
  BY <1>1 DEF Exact, Needed, Closed
<1>4. ASSUME Exact PROVE stage' = "accepted"
  <2>1. Needed(reachable) /\ reachable \subseteq Packages(source)
    BY <1>1, <1>4, ReachedIsNeeded DEF LockInv, WalkInv
  <2>2. Needed(Packages(packaged)) /\ Packages(packaged) \subseteq Packages(source)
    BY <1>4 DEF Exact
  <2>3. Packages(packaged) = reachable
    BY <2>1, <2>2 DEF Needed
  <2> QED
    BY <1>4, <2>3 DEF Compare, Exact
<1>5. LockComplete'
  BY <1>3, <1>4 DEF LockComplete
<1> QED
  BY <1>1, <1>2, <1>3, <1>5 DEF LockInv, WalkInv, LockSound

LEMMA KeptPreserves == LockInv /\ KeptLock => LockInv'
BY DEF LockInv, WalkInv, LockSound, LockComplete, KeptLock, locks

LEMMA NewPreserves == LockInv /\ NewLock => LockInv'
BY DEF LockInv, WalkInv, LockSound, LockComplete, NewLock, locks

LEMMA LockUnchanged == LockInv /\ UNCHANGED lockVars => LockInv'
<1> SUFFICES ASSUME LockInv, UNCHANGED lockVars PROVE LockInv'
  OBVIOUS
<1>1. LockComplete'
  BY CompleteStays DEF LockInv, lockVars, locks
<1> QED
  BY <1>1 DEF LockInv, WalkInv, LockSound, Walked, Exact, Needed, Closed, lockVars, locks

LEMMA LockNextPreserves == LockInv /\ [LockNext]_lockVars => LockInv'
BY ParsePreserves, VisitPreserves, ComparePreserves, LockUnchanged DEF LockNext

\* Every lock that the walk accepts is exactly what the producing package needs of
\* the committed lock, for any two locks and any order of the walk.
THEOREM LockIsSound == LockSpec => []LockSound
<1>1. LockInit => LockInv
  BY DEF LockInit, Start, LockInv, WalkInv, LockSound, LockComplete
<1>2. LockInv /\ [LockNext]_lockVars => LockInv'
  BY LockNextPreserves
<1>3. LockInv => LockSound
  BY DEF LockInv
<1> QED
  BY <1>1, <1>2, <1>3, PTL DEF LockSpec

\* The inspection of a release keeps the invariant of the walk.
LEMMA InspectionKeepsLock == ReleaseSpec => []LockInv
<1>1. ReleaseInit => LockInv
  BY DEF ReleaseInit, Start, LockInv, WalkInv, LockSound, LockComplete
<1>2. LockInv /\ [ReleaseNext]_releaseVars => LockInv'
  <2> SUFFICES ASSUME LockInv, [ReleaseNext]_releaseVars PROVE LockInv'
    OBVIOUS
  <2>1. CASE InspectCargo
    BY <2>1, KeptPreserves, NewPreserves, LockNextPreserves DEF InspectCargo
  <2>2. CASE InspectJsr
    BY <2>2, LockUnchanged DEF InspectJsr
  <2>3. CASE UNCHANGED releaseVars
    BY <2>3, LockUnchanged DEF releaseVars
  <2> QED
    BY <2>1, <2>2, <2>3 DEF ReleaseNext
<1> QED
  BY <1>1, <1>2, PTL DEF ReleaseSpec

\* A release whose inspection was passed carries a crate with no lock, the committed
\* one, or exactly the part of it that the crate needs.
THEOREM ReleaseHasExactLock == ReleaseSpec => []OnlyExactLocks
<1>1. LockInv => OnlyExactLocks
  BY DEF LockInv, LockSound, OnlyExactLocks, Inspected
<1> QED
  BY <1>1, InspectionKeepsLock, PTL

\* No lock that is exactly that is refused, however its unambiguous references are
\* shortened and in whatever order the walk takes the packages.
THEOREM LockIsComplete == ReleaseSpec => []LockComplete
<1>1. LockInv => LockComplete
  BY DEF LockInv
<1> QED
  BY <1>1, InspectionKeepsLock, PTL

-----------------------------------------------------------------------------
\* The imports of a text.

\* Every set of numbers has a least member.
LEMMA LeastNumber ==
  ASSUME NEW S \in SUBSET Nat, S # {}
  PROVE  \E n \in S : \A m \in S : n <= m
<1>1. PICK n \in S : \A m \in S : ~(<<m, n>> \in OpToRel(<,Nat))
  BY WFMin, NatLessThanWellFounded, Zenon
<1>2. \A m \in S : ~(m < n)
  BY <1>1 DEF OpToRel
<1> QED
  BY <1>2

LEMMA MarksDiffer ==
  /\ Open # Close /\ Open # "*" /\ Open # "end" /\ Open # "type" /\ Open # "from"
  /\ Close # "end" /\ Comma # "end" /\ Comma # Close
  BY Zenon DEF Open, Close, Comma

\* What may be in the braces of a declaration.
Names == Identifier \cup {Comma}

\* The list of names that starts at i ends at j.
NamesEnd(i, j) ==
  /\ j \in i..(Len(text) + 1) /\ TokenAt(j) \notin Names
  /\ \A k \in i..(j - 1) : TokenAt(k) \in Names

\* Every list of names has an end, the end of the text if there is no other.
LEMMA NamesHaveEnd ==
  ASSUME text \in Seq(STRING), NEW i \in Nat, i <= Len(text) + 1
  PROVE  NamesEnd(i, AfterNames(i))
<1> DEFINE S == {j \in i..(Len(text) + 1) : TokenAt(j) \notin Names}
<1> Len(text) \in Nat
  BY LenProperties
<1>1. TokenAt(Len(text) + 1) = "end"
  BY LenProperties DEF TokenAt
<1>2. Len(text) + 1 \in S
  <2>1. "end" \notin Names
    BY MarksAreNoNames, MarksDiffer DEF Names
  <2> QED
    BY <1>1, <2>1
<1>3. PICK j \in S : \A k \in S : j <= k
  <2>1. S \in SUBSET Nat /\ S # {}
    BY <1>2
  <2> QED
    BY <2>1, LeastNumber
<1>4. \A k \in i..(j - 1) : TokenAt(k) \in Names
  BY <1>3
<1>5. NamesEnd(i, j)
  BY <1>3, <1>4 DEF NamesEnd
<1> QED
  BY <1>5 DEF NamesEnd, AfterNames, Names

LEMMA NamesEndOnce ==
  ASSUME text \in Seq(STRING), NEW i \in Nat, NEW j, NamesEnd(i, j)
  PROVE  AfterNames(i) = j
<1>1. i <= Len(text) + 1 /\ j \in Nat
  BY DEF NamesEnd
<1>2. NamesEnd(i, AfterNames(i))
  BY <1>1, NamesHaveEnd
<1> QED
  BY <1>1, <1>2 DEF NamesEnd

\* What is between two places of a text.
LEMMA SliceOf ==
  ASSUME text \in Seq(STRING), NEW m \in 1..Len(text), NEW n \in 0..Len(text)
  PROVE  /\ SubSeq(text, m, n) \in Seq(STRING)
         /\ Len(SubSeq(text, m, n)) = IF m <= n THEN n - m + 1 ELSE 0
         /\ \A k \in 1..(n - m + 1) : SubSeq(text, m, n)[k] = text[m + k - 1]
  BY SubSeqProperties

LEMMA OneToken ==
  ASSUME NEW S, NEW tokens \in Seq(S), Len(tokens) = 1
  PROVE  tokens = <<tokens[1]>>
<1>1. tokens \in [1..1 -> S]
  BY LenProperties, Zenon
<1>2. <<tokens[1]>> \in Seq(S)
  BY <1>1
<1>3. Len(<<tokens[1]>>) = 1 /\ <<tokens[1]>>[1] = tokens[1]
  OBVIOUS
<1> QED
  BY <1>2, <1>3, SeqEqual

\* Where the clause of the declaration at i starts, after its modifier.
ClauseStart(i) == IF TokenAt(i + 1) = "type" THEN i + 2 ELSE i + 1

\* The clause is what is left when the modifier is taken away.
LEMMA Unmodified ==
  ASSUME text \in Seq(STRING), NEW i \in DOMAIN text, NEW s \in DOMAIN text, i + 2 < s
  PROVE  LET clause == SubSeq(text, ClauseStart(i), s - 2)
         IN /\ clause \in WithoutType(Between(i, s - 1))
            /\ \A tokens \in WithoutType(Between(i, s - 1)) :
                 (Named(tokens) \/ Namespace(tokens)) => tokens = clause
<1> i \in 1..Len(text) /\ s \in 1..Len(text) /\ Len(text) \in Nat /\ DOMAIN text = 1..Len(text)
  BY LenProperties
<1> DEFINE between == SubSeq(text, i + 1, s - 2)
<1>0. (s - 1) - 1 = s - 2 /\ (i + 1) + 1 = i + 2
  OBVIOUS
<1>1. i + 1 \in 1..Len(text) /\ s - 2 \in (i + 1)..Len(text) /\ s - 2 \in 0..Len(text)
  OBVIOUS
<1>b. between = Between(i, s - 1)
  BY <1>0, Zenon DEF Between
<1>c. Head(between) = text[i + 1] /\ Tail(between) = SubSeq(text, i + 2, s - 2)
  <2>1. Tail(between) = SubSeq(text, (i + 1) + 1, s - 2)
    BY <1>1, HeadTailOfSubSeq, Zenon
  <2>2. Head(between) = text[i + 1]
    BY <1>1, HeadTailOfSubSeq, Zenon
  <2> QED
    BY <1>0, <2>1, <2>2, Zenon
<1>d. /\ between \in Seq(STRING)
      /\ Len(between) = IF i + 1 <= s - 2 THEN (s - 2) - (i + 1) + 1 ELSE 0
      /\ \A k \in 1..((s - 2) - (i + 1) + 1) : between[k] = text[(i + 1) + k - 1]
  BY <1>1, SliceOf, Zenon
<1> HIDE DEF between
<1>2. between \in Seq(STRING) /\ Len(between) >= 1 /\ between[1] = text[i + 1]
  <2>1. 1 \in 1..((s - 2) - (i + 1) + 1) /\ (i + 1) + 1 - 1 = i + 1
    BY <1>1
  <2> QED
    BY <1>1, <1>d, <2>1
<1>e. between # <<>>
  BY <1>2
<1>3. TokenAt(i + 1) = text[i + 1]
  BY <1>1 DEF TokenAt
<1>4. CASE text[i + 1] = "type"
  <2>1. WithoutType(between) = {between, Tail(between)}
    BY <1>c, <1>e, <1>4 DEF WithoutType
  <2>2. ~Named(between) /\ ~Namespace(between)
    BY <1>2, <1>4, MarksDiffer DEF Named, Namespace
  <2> QED
    BY <1>b, <1>c, <1>3, <1>4, <2>1, <2>2 DEF ClauseStart
<1>5. CASE text[i + 1] # "type"
  <2>1. WithoutType(between) = {between}
    BY <1>c, <1>5, Zenon DEF WithoutType
  <2>2. between = SubSeq(text, ClauseStart(i), s - 2)
    BY <1>3, <1>5 DEF between, ClauseStart
  <2> QED
    BY <1>b, <2>1, <2>2
<1> QED
  BY <1>4, <1>5

\* The shapes that rewrite_imports knows are the documented ones, read from left to
\* right: the clause of a declaration ends where its "from" is.
LEMMA ClauseIsRight ==
  ASSUME text \in Seq(STRING), NEW i \in DOMAIN text, NEW s \in DOMAIN text,
         text[i] \in {"import", "export"}, TokenAt(s - 1) = "from"
  PROVE  Declares(i, s) <=> Clause(i) = s - 1
<1> i \in 1..Len(text) /\ s \in 1..Len(text) /\ Len(text) \in Nat /\ DOMAIN text = 1..Len(text)
  BY LenProperties
<1> DEFINE start == ClauseStart(i)
           clause == SubSeq(text, start, s - 2)
<1>1. /\ start \in Nat /\ start > i /\ start <= i + 2
      /\ s - 1 \in DOMAIN text /\ text[s - 1] = "from"
  BY DEF ClauseStart, TokenAt
<1>2. \A k \in DOMAIN text : TokenAt(k) = text[k]
  BY DEF TokenAt
<1>3. ASSUME start <= s - 1
      PROVE  /\ clause \in Seq(STRING) /\ Len(clause) = s - 1 - start
             /\ \A k \in 1..(s - 1 - start) : clause[k] = text[start + k - 1]
  <2>1. start \in 1..Len(text) /\ s - 2 \in 0..Len(text)
    BY <1>1, <1>3
  <2>2. /\ clause \in Seq(STRING)
        /\ Len(clause) = IF start <= s - 2 THEN s - 2 - start + 1 ELSE 0
        /\ \A k \in 1..(s - 2 - start + 1) : clause[k] = text[start + k - 1]
    BY <2>1, SliceOf, Zenon
  <2>3. s - 2 - start + 1 = s - 1 - start
    BY <1>1
  <2>4. (IF start <= s - 2 THEN s - 2 - start + 1 ELSE 0) = s - 1 - start
    BY <1>1, <1>3
  <2> QED
    BY <2>2, <2>3, <2>4, Zenon
<1>4. ASSUME i + 2 < s
      PROVE  /\ clause \in WithoutType(Between(i, s - 1))
             /\ \A tokens \in WithoutType(Between(i, s - 1)) :
                  (Named(tokens) \/ Namespace(tokens)) => tokens = clause
  BY <1>4, Unmodified, Zenon
<1>5. Declares(i, s) <=> i + 2 < s /\ (Named(clause) \/ Namespace(clause))
  <2>1. ASSUME Declares(i, s) PROVE i + 2 < s /\ (Named(clause) \/ Namespace(clause))
    <3>1. /\ i + 2 < s
          /\ \E tokens \in WithoutType(Between(i, s - 1)) : Named(tokens) \/ Namespace(tokens)
      BY <2>1, Zenon DEF Declares
    <3> QED
      BY <1>4, <3>1, Zenon
  <2>2. ASSUME i + 2 < s, Named(clause) \/ Namespace(clause) PROVE Declares(i, s)
    BY <1>1, <1>4, <2>2, Zenon DEF Declares
  <2> QED
    BY <2>1, <2>2
<1>6. Clause(i) =
        CASE TokenAt(start) = Open /\ TokenAt(AfterNames(start + 1)) = Close ->
               AfterNames(start + 1) + 1
          [] TokenAt(start) = "*" /\ TokenAt(start + 1) = "as" -> start + 3
          [] TokenAt(start) = "*" /\ TokenAt(start + 1) # "as" -> start + 1
          [] OTHER -> 0
  BY DEF Clause, ClauseStart
<1> HIDE DEF clause, start
<1>7. ASSUME i + 2 < s, Named(clause) PROVE Clause(i) = s - 1
  <2>1. /\ start \in DOMAIN text /\ start <= s - 1
        /\ Len(clause) = s - 1 - start
        /\ \A k \in 1..(s - 1 - start) : clause[k] = text[start + k - 1]
    BY <1>1, <1>3, <1>7
  <2>2. /\ Len(clause) >= 2 /\ clause[1] = Open /\ clause[Len(clause)] = Close
        /\ \A k \in 2..(Len(clause) - 1) : clause[k] \in Names
    BY <1>7 DEF Named, Names
  <2>3. text[start] = Open /\ text[s - 2] = Close
    <3>1. 1 \in 1..(s - 1 - start) /\ s - 1 - start \in 1..(s - 1 - start)
      BY <1>1, <2>1, <2>2
    <3>2. start + 1 - 1 = start /\ start + (s - 1 - start) - 1 = s - 2
      BY <1>1
    <3> QED
      BY <2>1, <2>2, <3>1, <3>2
  <2>4. \A k \in (start + 1)..(s - 3) : text[k] \in Names
    <3> SUFFICES ASSUME NEW k \in (start + 1)..(s - 3) PROVE text[k] \in Names
      OBVIOUS
    <3>1. /\ k - start + 1 \in 2..(Len(clause) - 1) /\ k - start + 1 \in 1..(s - 1 - start)
          /\ start + (k - start + 1) - 1 = k
      BY <1>1, <2>1
    <3> QED
      BY <2>1, <2>2, <3>1
  <2>5. NamesEnd(start + 1, s - 2)
    <3>1. s - 2 \in (start + 1)..(Len(text) + 1) /\ s - 2 \in DOMAIN text /\ s - 2 - 1 = s - 3
      BY <1>1, <2>1, <2>2
    <3>2. Close \notin Names
      BY MarksAreNoNames, MarksDiffer DEF Names
    <3>3. \A k \in (start + 1)..(s - 3) : k \in DOMAIN text
      BY <1>1
    <3> QED
      BY <1>2, <2>3, <2>4, <3>1, <3>2, <3>3 DEF NamesEnd
  <2>6. AfterNames(start + 1) = s - 2
    BY <1>1, <2>5, NamesEndOnce
  <2>7. TokenAt(start) = Open /\ TokenAt(AfterNames(start + 1)) = Close
    BY <1>1, <1>2, <2>1, <2>2, <2>3, <2>6
  <2>8. s - 2 + 1 = s - 1
    OBVIOUS
  <2> QED
    BY <1>6, <2>6, <2>7, <2>8, MarksDiffer
<1>8. ASSUME i + 2 < s, Namespace(clause) PROVE Clause(i) = s - 1
  <2>1. /\ start \in DOMAIN text /\ start <= s - 1
        /\ Len(clause) = s - 1 - start
        /\ \A k \in 1..(s - 1 - start) : clause[k] = text[start + k - 1]
    BY <1>1, <1>3, <1>8
  <2>2. CASE clause = <<"*">>
    <3>1. s - 1 = start + 1 /\ text[start] = "*"
      BY <1>1, <2>1, <2>2
    <3> QED
      BY <1>1, <1>2, <1>6, <2>1, <3>1, MarksDiffer
  <2>3. CASE Len(clause) = 3 /\ clause[1] = "*" /\ clause[2] = "as"
    <3>0. s - 1 - start = 3
      BY <2>1, <2>3
    <3>1. s - 1 = start + 3 /\ 1 \in 1..(s - 1 - start) /\ 2 \in 1..(s - 1 - start)
          /\ start + 1 - 1 = start /\ start + 2 - 1 = start + 1
      BY <1>1, <3>0
    <3>2. text[start] = "*" /\ text[start + 1] = "as"
      BY <2>1, <2>3, <3>1
    <3>3. start + 1 \in DOMAIN text
      BY <1>1, <3>1
    <3> QED
      BY <1>2, <1>6, <2>1, <3>1, <3>2, <3>3, MarksDiffer
  <2> QED
    BY <1>8, <2>2, <2>3 DEF Namespace
<1>9. ASSUME Clause(i) = s - 1 PROVE i + 2 < s /\ (Named(clause) \/ Namespace(clause))
  <2>1. s - 1 # 0
    BY <1>1
  <2>2. \/ /\ TokenAt(start) = Open /\ TokenAt(AfterNames(start + 1)) = Close
           /\ s - 1 = AfterNames(start + 1) + 1
        \/ TokenAt(start) = "*" /\ TokenAt(start + 1) = "as" /\ s - 1 = start + 3
        \/ TokenAt(start) = "*" /\ TokenAt(start + 1) # "as" /\ s - 1 = start + 1
    BY <1>6, <1>9, <2>1
  <2>3. start \in DOMAIN text /\ text[start] = TokenAt(start)
    BY <2>2, MarksDiffer DEF TokenAt
  <2>4. CASE TokenAt(start) = Open
    <3>1. NamesEnd(start + 1, AfterNames(start + 1))
      BY <1>1, <2>3, NamesHaveEnd
    <3>2. AfterNames(start + 1) = s - 2 /\ text[s - 2] = Close
      <4>1. s - 1 = AfterNames(start + 1) + 1 /\ TokenAt(AfterNames(start + 1)) = Close
        BY <2>2, <2>4, MarksDiffer
      <4>2. AfterNames(start + 1) \in Nat
        BY <1>1, <3>1 DEF NamesEnd
      <4>3. AfterNames(start + 1) = s - 2
        BY <4>1, <4>2
      <4> QED
        BY <1>1, <4>1, <4>3, MarksDiffer DEF TokenAt
    <3>3. i + 2 < s /\ start <= s - 1 /\ s - 2 >= start + 1
      BY <1>1, <3>1, <3>2 DEF NamesEnd
    <3>4. /\ Len(clause) = s - 1 - start
          /\ \A k \in 1..(s - 1 - start) : clause[k] = text[start + k - 1]
      BY <1>3, <3>3
    <3>5. clause[1] = Open /\ clause[Len(clause)] = Close /\ Len(clause) >= 2
      <4>1. 1 \in 1..(s - 1 - start) /\ s - 1 - start \in 1..(s - 1 - start) /\ s - 1 - start >= 2
        BY <1>1, <3>3
      <4>2. start + 1 - 1 = start /\ start + (s - 1 - start) - 1 = s - 2
        BY <1>1
      <4> QED
        BY <2>3, <2>4, <3>2, <3>4, <4>1, <4>2
    <3>6. \A k \in 2..(Len(clause) - 1) : clause[k] \in Names
      <4> SUFFICES ASSUME NEW k \in 2..(s - 1 - start - 1) PROVE clause[k] \in Names
        BY <3>4
      <4>1. /\ k \in 1..(s - 1 - start)
            /\ start + k - 1 \in (start + 1)..(s - 2 - 1) /\ start + k - 1 \in DOMAIN text
        BY <1>1
      <4>2. TokenAt(start + k - 1) \in Names
        BY <3>1, <3>2, <4>1 DEF NamesEnd
      <4> QED
        BY <1>2, <3>4, <4>1, <4>2
    <3>7. Named(clause)
      BY <3>5, <3>6 DEF Named, Names
    <3> QED
      BY <3>3, <3>7
  <2>5. CASE TokenAt(start) = "*" /\ s - 1 = start + 1
    <3>1. start <= s - 1 /\ i + 2 < s
      BY <1>1, <2>5
    <3>2. /\ clause \in Seq(STRING) /\ Len(clause) = s - 1 - start
          /\ \A k \in 1..(s - 1 - start) : clause[k] = text[start + k - 1]
      BY <1>3, <3>1
    <3>3. Len(clause) = 1 /\ clause[1] = "*"
      BY <1>1, <2>3, <2>5, <3>2
    <3>4. clause = <<"*">>
      BY <3>2, <3>3, OneToken, Zenon
    <3> QED
      BY <3>1, <3>4 DEF Namespace
  <2>6. CASE TokenAt(start) = "*" /\ TokenAt(start + 1) = "as" /\ s - 1 = start + 3
    <3>1. start <= s - 1 /\ i + 2 < s
      BY <1>1, <2>6
    <3>2. /\ Len(clause) = s - 1 - start
          /\ \A k \in 1..(s - 1 - start) : clause[k] = text[start + k - 1]
      BY <1>3, <3>1
    <3>3. Len(clause) = 3 /\ clause[1] = "*" /\ clause[2] = text[start + 1]
      BY <1>1, <2>3, <2>6, <3>2
    <3>4. text[start + 1] = "as"
      BY <1>1, <1>2, <2>6
    <3> QED
      BY <3>1, <3>3, <3>4 DEF Namespace
  <2> QED
    BY <2>2, <2>4, <2>5, <2>6
<1> QED
  BY <1>5, <1>7, <1>8, <1>9

\* The specifiers of the documented declarations, and what loads a module in
\* another way, as DocumentedAreRewritten has them.
Declared == {s \in DOMAIN text : text[s] = "dep" /\ \E i \in 1..s : Declares(i, s)}
Loaded == {s \in DOMAIN text : text[s] = "dep" /\ \E i \in 1..s : Loads(i, s)}

\* What the second pass covers.
Covers ==
  {Clause(i) + 1 : i \in
     {j \in DOMAIN text : /\ text[j] \in {"import", "export"}
                          /\ Clause(j) # 0
                          /\ TokenAt(Clause(j)) = "from"
                          /\ TokenAt(Clause(j) + 1) = "dep"}}

LEMMA CoversDeclared ==
  ASSUME text \in Seq(STRING)
  PROVE  Covers = Declared
<1> Len(text) \in Nat /\ DOMAIN text = 1..Len(text)
  BY LenProperties
<1>1. ASSUME NEW s \in Covers PROVE s \in Declared
  <2>1. PICK i \in DOMAIN text :
          /\ text[i] \in {"import", "export"} /\ s = Clause(i) + 1
          /\ TokenAt(Clause(i)) = "from" /\ TokenAt(s) = "dep"
    BY <1>1 DEF Covers
  <2>2. s \in DOMAIN text /\ text[s] = "dep" /\ Clause(i) \in DOMAIN text
    BY <2>1 DEF TokenAt
  <2>3. s - 1 = Clause(i)
    BY <2>1, <2>2
  <2>4. Declares(i, s)
    BY <2>1, <2>2, <2>3, ClauseIsRight
  <2>5. i \in 1..s
    BY <2>2, <2>4 DEF Declares
  <2> QED
    BY <2>2, <2>4, <2>5 DEF Declared
<1>2. ASSUME NEW s \in Declared PROVE s \in Covers
  <2>1. PICK i \in 1..s : Declares(i, s)
    BY <1>2 DEF Declared
  <2>2. s \in DOMAIN text /\ text[s] = "dep" /\ i \in DOMAIN text
    BY <1>2 DEF Declared
  <2>3. /\ i + 2 < s /\ text[i] \in {"import", "export"} /\ text[s - 1] = "from"
    BY <2>1 DEF Declares
  <2>4. s - 1 \in DOMAIN text /\ TokenAt(s - 1) = "from" /\ s - 1 # 0 /\ s - 1 + 1 = s
    BY <2>2, <2>3 DEF TokenAt
  <2>5. Clause(i) = s - 1
    BY <2>1, <2>2, <2>3, <2>4, ClauseIsRight
  <2>6. TokenAt(s) = "dep"
    BY <2>2 DEF TokenAt
  <2> QED
    BY <2>2, <2>3, <2>4, <2>5, <2>6 DEF Covers
<1> QED
  BY <1>1, <1>2

\* A dependency that is left over is one that is loaded but not declared, or one
\* after a "from" that belongs to no documented declaration.
LEMMA LeftoverIsOther ==
  ASSUME text \in Seq(STRING), covered = Covers, NEW i \in DOMAIN text, Leftover(i)
  PROVE  \E s \in DOMAIN text \ Declared :
           text[s] = "dep" /\ (s \in Loaded \/ TokenAt(s - 1) = "from")
<1> Len(text) \in Nat /\ DOMAIN text = 1..Len(text)
  BY LenProperties
<1>0. covered = Declared
  BY CoversDeclared
<1>1. CASE TokenAt(i) = "from" /\ TokenAt(i + 1) = "dep" /\ i + 1 \notin covered
  <2>1. i + 1 \in DOMAIN text /\ text[i + 1] = "dep" /\ i + 1 - 1 = i
    BY <1>1 DEF TokenAt
  <2> QED
    BY <1>0, <1>1, <2>1
<1>2. CASE /\ TokenAt(i) = "import"
           /\ TokenAt(IF TokenAt(i + 1) = "(" THEN i + 2 ELSE i + 1) = "dep"
  <2> DEFINE s == IF TokenAt(i + 1) = "(" THEN i + 2 ELSE i + 1
  <2>1. s \in DOMAIN text /\ text[s] = "dep" /\ text[i] = "import" /\ i \in 1..s
    BY <1>2 DEF TokenAt
  <2>2. Between(i, s) \in {<<>>, <<"(">>}
    <3>1. CASE TokenAt(i + 1) = "("
      <4>1. s = i + 2 /\ i + 1 \in 1..Len(text) /\ i + 1 \in 0..Len(text) /\ s - 1 = i + 1
            /\ text[i + 1] = "("
        BY <2>1, <3>1 DEF TokenAt
      <4>2. Between(i, s) = SubSeq(text, i + 1, i + 1)
        BY <4>1, Zenon DEF Between
      <4>3. /\ SubSeq(text, i + 1, i + 1) \in Seq(STRING)
            /\ Len(SubSeq(text, i + 1, i + 1)) =
                 IF i + 1 <= i + 1 THEN (i + 1) - (i + 1) + 1 ELSE 0
            /\ \A k \in 1..((i + 1) - (i + 1) + 1) :
                 SubSeq(text, i + 1, i + 1)[k] = text[(i + 1) + k - 1]
        BY <4>1, SliceOf, Zenon
      <4> DEFINE slice == SubSeq(text, i + 1, i + 1)
      <4>4. (i + 1) - (i + 1) + 1 = 1 /\ (i + 1) + 1 - 1 = i + 1 /\ i + 1 <= i + 1
        OBVIOUS
      <4>5. slice \in Seq(STRING) /\ Len(slice) = 1 /\ slice[1] = text[i + 1]
        <5>1. 1 \in 1..1
          OBVIOUS
        <5> QED
          BY <4>3, <4>4, <5>1, Zenon
      <4> HIDE DEF slice
      <4>6. slice = <<"(">>
        BY <4>1, <4>5, OneToken, Zenon
      <4> QED
        BY <4>2, <4>6 DEF slice
    <3>2. CASE TokenAt(i + 1) # "("
      <4>1. s - 1 < i + 1 /\ s - 1 \in Int /\ i + 1 \in Int
        BY <3>2
      <4> QED
        BY <4>1, SubSeqEmpty, Zenon DEF Between
    <3> QED
      BY <3>1, <3>2
  <2>3. Loads(i, s)
    BY <2>1, <2>2, Zenon DEF Loads
  <2>4. s \in Loaded
    BY <2>1, <2>3 DEF Loaded
  <2>5. text[s - 1] # "from"
    BY <1>2, <2>1 DEF TokenAt
  <2>6. s \notin Declared
    BY <2>5 DEF Declared, Declares
  <2> QED
    BY <2>1, <2>4, <2>6
<1> QED
  BY <1>1, <1>2 DEF Leftover

\* What the passes of rewrite_imports have found out.
RewriteInv ==
  /\ text \in Seq(STRING)
  /\ pass \in {"slashes", "declarations", "leftovers", "replace", "published", "refused"}
  /\ version = "none" => pass \in {"slashes", "published"} /\ published = text
  /\ version # "none" =>
       /\ pass \in {"leftovers", "replace", "published"} =>
            covered = Covers /\ (covered # {} => version # "range")
       /\ pass \in {"replace", "published"} => \A i \in DOMAIN text : ~Leftover(i)
       /\ pass = "published" =>
            published = [i \in DOMAIN text |-> IF i \in covered THEN "npm:dep" ELSE text[i]]
  /\ pass = "slashes" => published = text
  /\ pass = "refused" =>
       \/ \E i \in DOMAIN text : Ambiguous(i)
       \/ \E s \in DOMAIN text \ Declared :
            text[s] = "dep" /\ (s \in Loaded \/ TokenAt(s - 1) = "from")
       \/ Declared # {} /\ version = "range"

\* They depend on the text only.
LEMMA CoversStay == text' = text => Covers' = Covers
  BY DEF Covers, Clause, AfterNames, TokenAt

LEMMA SlashesPreserve == RewriteInv /\ (Slashes \/ NoDependencies) => RewriteInv'
  BY DEF RewriteInv, Slashes, NoDependencies, inputs, TokenAt, Ambiguous

LEMMA DeclarationsPreserve == RewriteInv /\ Declarations => RewriteInv'
<1> SUFFICES ASSUME RewriteInv, Declarations PROVE RewriteInv'
  OBVIOUS
<1>1. /\ covered' = Covers /\ UNCHANGED <<text, version, published>>
      /\ pass = "declarations" /\ version # "none" /\ text \in Seq(STRING)
      /\ pass' = IF covered' # {} /\ version = "range" THEN "refused" ELSE "leftovers"
  BY DEF Declarations, Covers, inputs, RewriteInv
<1>2. Covers' = Covers
  BY <1>1, CoversStay
<1>3. Covers = Declared /\ Declared' = Declared
  <2>1. Declared' = Declared
    BY <1>1, Zenon DEF Declared, Declares, Between
  <2> QED
    BY <1>1, <2>1, CoversDeclared
<1> QED
  BY <1>1, <1>2, <1>3 DEF RewriteInv

LEMMA LeftoversPreserve == RewriteInv /\ Leftovers => RewriteInv'
<1> SUFFICES ASSUME RewriteInv, Leftovers PROVE RewriteInv'
  OBVIOUS
<1>1. /\ UNCHANGED <<text, version, published, covered>> /\ pass = "leftovers"
      /\ text \in Seq(STRING) /\ version # "none"
  BY DEF Leftovers, RewriteInv, inputs
<1>2. covered = Covers /\ Covers' = Covers /\ (covered # {} => version # "range")
  BY <1>1, CoversStay DEF RewriteInv
<1>3. Declared' = Declared /\ Loaded' = Loaded
  BY <1>1, Zenon DEF Declared, Loaded, Declares, Loads, Between
<1>4. CASE \E i \in DOMAIN text : Leftover(i)
  <2>1. pass' = "refused"
    BY <1>4 DEF Leftovers
  <2>2. \E s \in DOMAIN text \ Declared :
          text[s] = "dep" /\ (s \in Loaded \/ TokenAt(s - 1) = "from")
    BY <1>1, <1>2, <1>4, LeftoverIsOther
  <2> QED
    BY <1>1, <1>3, <2>1, <2>2 DEF RewriteInv, TokenAt
<1>5. CASE \A i \in DOMAIN text : ~Leftover(i)
  <2>1. pass' = "replace"
    BY <1>5 DEF Leftovers
  <2> QED
    BY <1>1, <1>2, <1>5, <2>1 DEF RewriteInv, Leftover, TokenAt
<1> QED
  BY <1>4, <1>5

LEMMA ReplacePreserves == RewriteInv /\ Replace => RewriteInv'
<1> SUFFICES ASSUME RewriteInv, Replace PROVE RewriteInv'
  OBVIOUS
<1>1. /\ UNCHANGED <<text, version, covered>> /\ pass = "replace" /\ pass' = "published"
      /\ published' = [i \in DOMAIN text |-> IF i \in covered THEN "npm:dep" ELSE text[i]]
      /\ version # "none"
  BY DEF Replace, inputs, RewriteInv
<1>2. covered = Covers /\ Covers' = Covers /\ (covered # {} => version # "range")
  BY <1>1, CoversStay DEF RewriteInv
<1> QED
  BY <1>1, <1>2 DEF RewriteInv, Leftover, TokenAt

LEMMA RewriteUnchanged == RewriteInv /\ UNCHANGED textVars => RewriteInv'
<1> SUFFICES ASSUME RewriteInv, UNCHANGED textVars PROVE RewriteInv'
  OBVIOUS
<1>1. UNCHANGED <<text, version, published, pass, covered>>
  BY DEF textVars, inputs
<1>2. Covers' = Covers
  BY <1>1, CoversStay
<1>3. Declared' = Declared /\ Loaded' = Loaded
  BY <1>1, Zenon DEF Declared, Loaded, Declares, Loads, Between
<1>4. \A i : (Leftover(i)' <=> Leftover(i)) /\ (Ambiguous(i)' <=> Ambiguous(i))
             /\ TokenAt(i)' = TokenAt(i)
  BY <1>1 DEF Leftover, Ambiguous, TokenAt
<1> QED
  BY <1>1, <1>2, <1>3, <1>4 DEF RewriteInv

LEMMA InspectionKeepsText == ReleaseSpec => []RewriteInv
<1>1. ReleaseInit => RewriteInv
  BY TextsAreSequences DEF ReleaseInit, RewriteStart, RewriteInv
<1>2. RewriteInv /\ [ReleaseNext]_releaseVars => RewriteInv'
  <2> SUFFICES ASSUME RewriteInv, [ReleaseNext]_releaseVars PROVE RewriteInv'
    OBVIOUS
  <2>1. CASE InspectJsr
    BY <2>1, SlashesPreserve, DeclarationsPreserve, LeftoversPreserve, ReplacePreserves
       DEF InspectJsr, RewriteNext
  <2>2. CASE UNCHANGED textVars
    BY <2>2, RewriteUnchanged
  <2> QED
    BY <2>1, <2>2 DEF ReleaseNext, InspectCargo, releaseVars
<1> QED
  BY <1>1, <1>2, PTL DEF ReleaseSpec

\* What is not replaced is not a dependency that a module would load.
LEMMA PublishedIsClean == RewriteInv => NoBareDependency
<1> SUFFICES ASSUME RewriteInv, pass = "published", version # "none",
                    NEW i \in DOMAIN published, NEW s \in DOMAIN published,
                    i < s, published[s] = "dep", Declares(i, s) \/ Loads(i, s)
             PROVE  FALSE
  BY DEF NoBareDependency
<1>1. /\ text \in Seq(STRING) /\ DOMAIN published = DOMAIN text
      /\ s \notin covered /\ text[s] = "dep"
      /\ \A k \in DOMAIN text : ~Leftover(k)
  BY DEF RewriteInv
<1>2. i \in 1..Len(text) /\ s \in 1..Len(text) /\ Len(text) \in Nat /\ DOMAIN text = 1..Len(text)
  BY <1>1, LenProperties
<1>3. CASE text[s - 1] = "from"
  <2>1. s - 1 \in DOMAIN text /\ s - 1 + 1 = s
    BY <1>2
  <2>2. TokenAt(s - 1) = "from" /\ TokenAt(s - 1 + 1) = "dep"
    BY <1>1, <1>3, <2>1 DEF TokenAt
  <2>3. Leftover(s - 1)
    BY <1>1, <2>1, <2>2 DEF Leftover
  <2> QED
    BY <1>1, <2>1, <2>3
<1>4. CASE text[i] = "import" /\ Between(i, s) \in {<<>>, <<"(">>}
  <2> DEFINE slice == SubSeq(text, i + 1, s - 1)
  <2>1. slice = <<>> \/ slice = <<"(">>
    BY <1>4, Zenon DEF Between
  <2>2. /\ Len(slice) = IF i + 1 <= s - 1 THEN s - 1 - (i + 1) + 1 ELSE 0
        /\ \A k \in 1..(s - 1 - (i + 1) + 1) : slice[k] = text[i + 1 + k - 1]
    <3>1. i + 1 \in 1..Len(text) /\ s - 1 \in 0..Len(text)
      BY <1>2
    <3> QED
      BY <1>1, <3>1, SliceOf, Zenon
  <2> HIDE DEF slice
  <2>3. CASE slice = <<>>
    <3>1. s = i + 1
      BY <1>2, <2>2, <2>3
    <3> QED
      BY <1>1, <1>2, <1>4, <3>1 DEF Leftover, TokenAt
  <2>4. CASE slice = <<"(">>
    <3>1. Len(slice) = 1 /\ slice[1] = "("
      BY <2>4
    <3>2. s = i + 2
      <4>1. (IF i + 1 <= s - 1 THEN s - 1 - (i + 1) + 1 ELSE 0) = 1
        BY <2>2, <3>1, Zenon
      <4>2. s - 1 - (i + 1) + 1 = 1
        BY <4>1
      <4> QED
        BY <1>2, <4>2
    <3>3. 1 \in 1..(s - 1 - (i + 1) + 1) /\ i + 1 + 1 - 1 = i + 1
      BY <1>2, <3>2
    <3>4. text[i + 1] = "("
      BY <2>2, <3>1, <3>3
    <3> QED
      BY <1>1, <1>2, <1>4, <3>2, <3>4 DEF Leftover, TokenAt
  <2> QED
    BY <2>1, <2>3, <2>4
<1> QED
  BY <1>3, <1>4, Zenon DEF Declares, Loads

LEMMA ReplacedAreDeclared == RewriteInv => DocumentedAreRewritten
<1> SUFFICES ASSUME RewriteInv PROVE DocumentedAreRewritten
  OBVIOUS
<1>1. ASSUME pass = "published", version # "none"
      PROVE  /\ {s \in DOMAIN text : published[s] # text[s]} = Declared
             /\ Declared # {} => version # "range"
  <2>1. /\ covered = Declared /\ (covered # {} => version # "range")
        /\ published = [i \in DOMAIN text |-> IF i \in covered THEN "npm:dep" ELSE text[i]]
    BY <1>1, CoversDeclared DEF RewriteInv
  <2>2. Declared \subseteq DOMAIN text /\ \A s \in Declared : text[s] = "dep"
    BY DEF Declared
  <2> QED
    BY <2>1, <2>2
<1>2. ASSUME pass = "published", version = "none"
      PROVE  {s \in DOMAIN text : published[s] # text[s]} = {}
  BY <1>2 DEF RewriteInv
<1>3. ASSUME pass = "refused"
      PROVE  \/ \E i \in DOMAIN text : Ambiguous(i)
             \/ \E s \in DOMAIN text \ Declared :
                  text[s] = "dep" /\ (s \in Loaded \/ TokenAt(s - 1) = "from")
             \/ Declared # {} /\ version = "range"
  BY <1>3 DEF RewriteInv
<1> QED
  BY <1>1, <1>2, <1>3 DEF DocumentedAreRewritten, Declared, Loaded

\* No published text loads a dependency by its quoted bare name, neither in a
\* declaration of any form, nor for its side effects, nor by import() of that string,
\* for any text (rewrite_imports).  Subpaths, templates and expressions are not such.
THEOREM NoBareDependencies == ReleaseSpec => []NoBareDependency
  BY InspectionKeepsText, PublishedIsClean, PTL

\* The specifiers of the documented declarations are rewritten, to an exact version,
\* and nothing else is; a text is refused only for ambiguous syntax, a dependency loaded
\* in another way, or one declared without an exact version.
THEOREM DocumentedRewritten == ReleaseSpec => []DocumentedAreRewritten
  BY InspectionKeepsText, ReplacedAreDeclared, PTL
=============================================================================
