----------------------------- MODULE ReleaseBundle -----------------------------
(***************************************************************************)
(* A release bundle is imported from the directory a preparation left      *)
(* (adapters/registry_publish.py import_bundle, and what Bundle inspects of *)
(* every channel), printed with its digest, and reviewed by an operator.   *)
(*                                                                         *)
(* The directory is the output of a check somewhere else, which may run    *)
(* again at any time.  Of the files only their preparation is kept, so two *)
(* contents are the same when their digests are.                           *)
(***************************************************************************)
EXTENDS Naturals

CONSTANTS
  Importer,        \* invocations of "bundle" with one --output
  MaxPreparation,  \* bound on the preparations
  CommitOf,        \* the commit each preparation is of
  None

Preparation == 1..MaxPreparation

\* What an importer has read in: preparations, the source archive as its commit.
Reading ==
  [source: {CommitOf[p] : p \in Preparation} \cup {None},
   receipt: Preparation \cup {None}, sums: Preparation \cup {None},
   artifact: Preparation \cup {None}]

ASSUME BundleAssumption ==
  /\ MaxPreparation \in Nat \ {0}
  /\ None \notin Preparation \cup Reading \cup [bundle: Reading, whole: BOOLEAN]

VARIABLES
  directory,  \* the preparation that wrote each of the prepared files
  importing,  \* where each importer is
  read,       \* what it has read so far; then the bundle it has made
  output,     \* the bundle at --output, and whether all of it is written
  reviewed    \* the bundle whose digest an operator has reviewed

importVars == <<directory, importing, read, output, reviewed>>

Prepared == {"source", "SOURCE_COMMIT", "receipt", "SHA256SUMS", "artifact"}

Nothing == [source |-> None, receipt |-> None, sums |-> None, artifact |-> None]

ImportInit ==
  /\ directory = [file \in Prepared |-> 1]
  /\ importing = [i \in Importer |-> "source"]
  /\ read = [i \in Importer |-> Nothing]
  /\ output = None
  /\ reviewed = None

\* External: a preparation that runs again replaces file after file.
Prepare ==
  /\ reviewed = None
  /\ \E file \in Prepared :
       /\ directory[file] < MaxPreparation
       /\ directory' = [directory EXCEPT ![file] = @ + 1]
  /\ UNCHANGED <<importing, read, output, reviewed>>

\* A step of an importer, to which it adds what it has read.  A Failure or another
\* exception ends it.
Step(i, from, to, holds, got) ==
  /\ importing[i] = from
  /\ importing' = [importing EXCEPT ![i] = IF holds THEN to ELSE "refused"]
  /\ read' = [read EXCEPT ![i] = IF holds THEN got ELSE Nothing]
  /\ UNCHANGED <<directory, output, reviewed>>

ReadSource(i) ==
  Step(i, "source", "SOURCE_COMMIT", TRUE,
       [read[i] EXCEPT !.source = CommitOf[directory["source"]]])

ReadCommit(i) ==
  Step(i, "SOURCE_COMMIT", "receipt",
       CommitOf[directory["SOURCE_COMMIT"]] = read[i].source, read[i])

ReadReceipt(i) ==
  Step(i, "receipt", "SHA256SUMS", TRUE, [read[i] EXCEPT !.receipt = directory["receipt"]])

ReadSums(i) ==
  Step(i, "SHA256SUMS", "artifact", TRUE, [read[i] EXCEPT !.sums = directory["SHA256SUMS"]])

\* The receipt and the checksums name the artifact's digest.
ReadArtifact(i) ==
  Step(i, "artifact", "inspect",
       directory["artifact"] = read[i].receipt /\ directory["artifact"] = read[i].sums,
       [read[i] EXCEPT !.artifact = directory["artifact"]])

\* Mutant: it is enough that the artifact is that of the receipt.
Inspect_NotSource(i) ==
  Step(i, "inspect", "create", read[i].receipt = read[i].artifact, read[i])

\* Bundle: the receipt is of this commit and this source archive, and it records
\* this artifact.
Inspect(i) ==
  Step(i, "inspect", "create",
       CommitOf[read[i].receipt] = read[i].source /\ read[i].receipt = read[i].artifact,
       read[i])

Whole(bundle) == [bundle |-> bundle, whole |-> TRUE]
Part(bundle) == [bundle |-> bundle, whole |-> FALSE]

\* Mutant: an existing output is opened and written again.
Create_Truncates(i) ==
  /\ importing[i] = "create"
  /\ output' = Part(read[i])
  /\ importing' = [importing EXCEPT ![i] = "write"]
  /\ UNCHANGED <<directory, read, reviewed>>

\* open("xb"); an existing output has to have the same bytes.
Create(i) ==
  /\ importing[i] = "create"
  /\ IF output = None
     THEN /\ output' = Part(read[i])
          /\ importing' = [importing EXCEPT ![i] = "write"]
          /\ UNCHANGED <<directory, read, reviewed>>
     ELSE Step(i, "create", "reported", output = Whole(read[i]), read[i])

Write(i) ==
  /\ importing[i] = "write"
  /\ output' = Whole(read[i])
  /\ importing' = [importing EXCEPT ![i] = "reported"]
  /\ UNCHANGED <<directory, read, reviewed>>

\* It is killed, or a disk is full: what it has written stays.
CrashImport(i) ==
  /\ importing[i] \notin {"reported", "refused"}
  /\ Step(i, importing[i], "refused", FALSE, Nothing)

\* External: an operator reviews what an import printed.  All imports and
\* preparations that matter come before: a bound.
Review ==
  /\ reviewed = None
  /\ \A i \in Importer : importing[i] \in {"reported", "refused"}
  /\ \E i \in Importer : importing[i] = "reported" /\ reviewed' = read[i]
  /\ directory' = [file \in Prepared |-> MaxPreparation]
  /\ UNCHANGED <<importing, read, output>>

ImportStep(i) ==
  \/ ReadSource(i) \/ ReadCommit(i) \/ ReadReceipt(i) \/ ReadSums(i)
  \/ ReadArtifact(i) \/ Inspect(i) \/ Create(i) \/ Write(i) \/ CrashImport(i)

ImportNext ==
  \/ Prepare \/ Review
  \/ \E i \in Importer : ImportStep(i)

-----------------------------------------------------------------------------
\* The bundle that an import has reported, with its digest, is the one at the
\* output, whole, from then on: whatever other imports do there and wherever they
\* are killed (registry-publish.md, "Existing output files are reused only when
\* byte-identical").
ReportedBundleStays ==
  \A i \in Importer : importing[i] = "reported" => output = Whole(read[i])

-----------------------------------------------------------------------------
\* The parts of the inductive invariant.

ImportPlace ==
  {"source", "SOURCE_COMMIT", "receipt", "SHA256SUMS", "artifact", "inspect", "create",
   "write", "reported", "refused"}

\* The type of every variable that matters.
ImportTypeOK ==
  /\ directory \in [Prepared -> Preparation]
  /\ importing \in [Importer -> ImportPlace]
  /\ read \in [Importer -> Reading]
  /\ reviewed \in Reading \cup {None}

\* A bundle of one preparation: its artifact, the receipt of it, and the source of
\* both.
Genuine(bundle) ==
  /\ bundle.artifact \in Preparation
  /\ bundle.receipt = bundle.artifact
  /\ bundle.source = CommitOf[bundle.artifact]

\* Bundles that have passed the inspection are genuine; one importer has the output
\* to itself until the bundle is whole.
ImportInv ==
  /\ ImportTypeOK
  /\ \A i \in Importer :
       /\ importing[i] = "inspect" => read[i].artifact \in Preparation
       /\ importing[i] \in {"create", "write", "reported"} => Genuine(read[i])
       /\ importing[i] = "write" => output = Part(read[i])
       /\ importing[i] = "reported" => output = Whole(read[i])
  /\ \A i, j \in Importer : importing[i] = "write" /\ importing[j] = "write" => i = j
  /\ reviewed # None => Genuine(reviewed)
=============================================================================
