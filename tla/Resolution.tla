------------------------------- MODULE Resolution -------------------------------
(***************************************************************************)
(* `ccid cargo-resolve` (dependency.rs): a candidate Cargo.lock is made in *)
(* an isolated copy of the verified source, judged, perhaps validated by   *)
(* the checks of the manifest, and published with a receipt as files of    *)
(* an output directory which concurrent resolutions may share.             *)
(*                                                                         *)
(* The names of the files hold the second of the publication and a suffix; *)
(* looking for a free suffix and creating the files are separate steps.    *)
(***************************************************************************)
EXTENDS Naturals

CONSTANTS
  Resolver,   \* invocations with the same output directory
  Second,     \* the seconds the clock may show
  Lock,       \* contents of a Cargo.lock
  MaxSuffix,  \* bound on the suffixes that are tried
  None        \* no file, no lock

Suffix == 0..MaxSuffix
Status == {"candidate", "rejected"}

\* The locks and the verdict: candidate_lock_sha256, original_lock_sha256,
\* direct_accepted, whether checks were asked for, and accepted.
Job == [candidate: Lock, original: Lock \cup {None}, compatible: BOOLEAN,
        requested: BOOLEAN, accepted: BOOLEAN]

\* What a receipt says, and of which resolution.
Receipt == [by: Resolver, job: Job, status: Status]

ASSUME ResolutionAssumption ==
  /\ MaxSuffix \in Nat
  /\ None \notin Lock \cup Receipt

VARIABLES
  pc,         \* where each resolution is
  job,        \* what it knows of its candidate
  tree,       \* the isolated source: the lock on disk, and whether another
              \* input (the manifest, a source file) differs
  checks,     \* what became of the requested checks
  name,       \* the second and the suffix it chose
  snapshots,  \* Cargo.lock.<second>.<status><suffix>
  originals,  \* Cargo.lock.<second>.<status><suffix>.original
  receipts    \* cargo-resolution-<second><suffix>.json

files == <<snapshots, originals, receipts>>
vars == <<pc, job, tree, checks, name, files>>

Init ==
  /\ pc = [r \in Resolver |-> "start"]
  /\ job = [r \in Resolver |-> None]
  /\ tree = [r \in Resolver |-> None]
  /\ checks = [r \in Resolver |-> "none"]
  /\ name = [r \in Resolver |-> None]
  /\ snapshots = [n \in Second \X Status \X Suffix |-> None]
  /\ originals = [n \in Second \X Status \X Suffix |-> None]
  /\ receipts = [n \in Second \X Suffix |-> None]

Goto(r, where) == pc' = [pc EXCEPT ![r] = where]
StatusOf(r) == IF job[r].accepted THEN "candidate" ELSE "rejected"

-----------------------------------------------------------------------------
\* The verified source is extracted, Cargo updates (or generates) its lock and
\* the result is compared with the baseline: a generated lock is accepted as it
\* is, an updated one when neither the format nor a direct dependency breaks.
Resolve(r) ==
  /\ pc[r] = "start"
  /\ \E generate, compatible, requested \in BOOLEAN,
        original \in Lock \cup {None}, candidate \in Lock:
       /\ original = None => generate
       /\ generate => compatible
       /\ job' = [job EXCEPT ![r] =
                    [candidate |-> candidate, original |-> original,
                     compatible |-> compatible, requested |-> requested,
                     accepted |-> compatible]]
       /\ tree' = [tree EXCEPT ![r] = [lock |-> candidate, changed |-> FALSE]]
       /\ Goto(r, IF compatible /\ requested THEN "check" ELSE "name")
  /\ UNCHANGED <<checks, name, files>>

\* External: a command of the checks works on the isolated source.
Command(r) ==
  /\ pc[r] = "check"
  /\ \E l \in Lock, c \in BOOLEAN:
       tree' = [tree EXCEPT ![r] = [lock |-> l, changed |-> c]]
  /\ UNCHANGED <<pc, job, checks, name, files>>

\* Mutant: the candidate is as good as its checks.
Validate_ChecksOnly(r) ==
  /\ pc[r] = "check"
  /\ \E passed \in BOOLEAN:
       /\ checks' = [checks EXCEPT ![r] = IF passed THEN "passed" ELSE "failed"]
       /\ job' = [job EXCEPT ![r].accepted = passed]
  /\ Goto(r, "name")
  /\ UNCHANGED <<tree, name, files>>

\* run_checks_with_environment, then candidate_integrity: the lock, the
\* manifest and the source must be what they were before.
Validate(r) ==
  /\ pc[r] = "check"
  /\ \E passed, accepted \in BOOLEAN:
       /\ accepted <=> /\ passed
                       /\ tree[r] = [lock |-> job[r].candidate, changed |-> FALSE]
       /\ checks' = [checks EXCEPT ![r] = IF passed THEN "passed" ELSE "failed"]
       /\ job' = [job EXCEPT ![r].accepted = accepted]
  /\ Goto(r, "name")
  /\ UNCHANGED <<tree, name, files>>

\* artifact_paths: the first suffix of this second under which none of the files
\* exists.  The receipt's name does not hold the status.
Free(r, t) ==
  {x \in Suffix:
     /\ snapshots[<<t, StatusOf(r), x>>] = None
     /\ receipts[<<t, x>>] = None
     /\ job[r].original # None => originals[<<t, StatusOf(r), x>>] = None}

ChooseName(r) ==
  /\ pc[r] = "name"
  /\ \E t \in Second: \E x \in Free(r, t):
       /\ \A y \in Free(r, t): x <= y
       /\ name' = [name EXCEPT ![r] = [second |-> t, suffix |-> x]]
  /\ Goto(r, "snapshot")
  /\ UNCHANGED <<job, tree, checks, files>>

\* Mutant: a taken name is no failure.
WriteSnapshot_Tolerant(r) ==
  /\ pc[r] = "snapshot"
  /\ LET n == <<name[r].second, StatusOf(r), name[r].suffix>>
     IN snapshots' = [snapshots EXCEPT ![n] = IF @ = None THEN job[r].candidate ELSE @]
  /\ Goto(r, IF job[r].original = None THEN "receipt" ELSE "original")
  /\ UNCHANGED <<job, tree, checks, name, originals, receipts>>

\* write_atomic hard-links a synced temporary file: an existing name makes it,
\* and the resolution, fail.
WriteSnapshot(r) ==
  /\ pc[r] = "snapshot"
  /\ LET n == <<name[r].second, StatusOf(r), name[r].suffix>>
     IN IF snapshots[n] = None
        THEN /\ snapshots' = [snapshots EXCEPT ![n] = job[r].candidate]
             /\ Goto(r, IF job[r].original = None THEN "receipt" ELSE "original")
        ELSE Goto(r, "failed") /\ UNCHANGED snapshots
  /\ UNCHANGED <<job, tree, checks, name, originals, receipts>>

WriteOriginal(r) ==
  /\ pc[r] = "original"
  /\ LET n == <<name[r].second, StatusOf(r), name[r].suffix>>
     IN IF originals[n] = None
        THEN /\ originals' = [originals EXCEPT ![n] = job[r].original]
             /\ Goto(r, "receipt")
        ELSE Goto(r, "failed") /\ UNCHANGED originals
  /\ UNCHANGED <<job, tree, checks, name, snapshots, receipts>>

ReceiptOf(r) == [by |-> r, job |-> job[r], status |-> StatusOf(r)]

\* Mutant: an existing receipt is overwritten (rename in place of hard_link).
WriteReceipt_Replaces(r) ==
  /\ pc[r] = "receipt"
  /\ receipts' = [receipts EXCEPT ![<<name[r].second, name[r].suffix>>] = ReceiptOf(r)]
  /\ Goto(r, IF job[r].accepted THEN "accepted" ELSE "failed")
  /\ UNCHANGED <<job, tree, checks, name, snapshots, originals>>

\* Mutant: the receipt's own failure is ignored.
WriteReceipt_Unchecked(r) ==
  /\ pc[r] = "receipt"
  /\ LET n == <<name[r].second, name[r].suffix>>
     IN receipts' = [receipts EXCEPT ![n] = IF @ = None THEN ReceiptOf(r) ELSE @]
  /\ Goto(r, IF job[r].accepted THEN "accepted" ELSE "failed")
  /\ UNCHANGED <<job, tree, checks, name, snapshots, originals>>

\* The receipt comes last; then the exit code tells whether it was accepted.
WriteReceipt(r) ==
  /\ pc[r] = "receipt"
  /\ LET n == <<name[r].second, name[r].suffix>>
     IN IF receipts[n] = None
        THEN /\ receipts' = [receipts EXCEPT ![n] = ReceiptOf(r)]
             /\ Goto(r, IF job[r].accepted THEN "accepted" ELSE "failed")
        ELSE Goto(r, "failed") /\ UNCHANGED receipts
  /\ UNCHANGED <<job, tree, checks, name, snapshots, originals>>

\* A command of Cargo fails, the deadline passes, the process is killed.
Crash(r) ==
  /\ pc[r] \notin {"accepted", "failed"}
  /\ Goto(r, "failed")
  /\ UNCHANGED <<job, tree, checks, name, files>>

Next ==
  \E r \in Resolver:
    \/ Resolve(r) \/ Command(r) \/ Validate(r) \/ ChooseName(r)
    \/ WriteSnapshot(r) \/ WriteOriginal(r) \/ WriteReceipt(r) \/ Crash(r)

Spec == Init /\ [][Next]_vars

-----------------------------------------------------------------------------
Receipts == {receipts[n] : n \in Second \X Suffix} \ {None}

\* A receipt, whoever wrote what around it, is backed by files that hold the very
\* locks it gives the digests of.
ReceiptsAreBacked ==
  \A t \in Second, x \in Suffix:
    LET receipt == receipts[<<t, x>>]
    IN receipt # None =>
         /\ snapshots[<<t, receipt.status, x>>] = receipt.job.candidate
         /\ receipt.job.original # None =>
              originals[<<t, receipt.status, x>>] = receipt.job.original

\* An accepted receipt is of a lock the checks were run on, and passed, with the
\* manifest and the sources they were meant for.
AcceptedWereValidated ==
  \A receipt \in Receipts:
    receipt.job.accepted =>
      /\ receipt.job.compatible
      /\ receipt.job.requested =>
           /\ checks[receipt.by] = "passed"
           /\ tree[receipt.by] = [lock |-> receipt.job.candidate, changed |-> FALSE]

\* A resolution that exits with success has left a receipt that says so, also
\* when another one took the same name first.
SuccessIsOnRecord ==
  \A r \in Resolver:
    pc[r] = "accepted" =>
      \E receipt \in Receipts: receipt.by = r /\ receipt.job.accepted

\* No published file is ever changed or removed.
NothingReplaced ==
  [][/\ \A n \in DOMAIN snapshots: snapshots[n] # None => snapshots'[n] = snapshots[n]
     /\ \A n \in DOMAIN originals: originals[n] # None => originals'[n] = originals[n]
     /\ \A n \in DOMAIN receipts: receipts[n] # None => receipts'[n] = receipts[n]]_vars

-----------------------------------------------------------------------------
\* The parts of the inductive invariant.

Ended == {"accepted", "failed"}
Place == {"start", "check", "name", "snapshot", "original", "receipt"} \cup Ended

\* The type of every variable.
TypeOK ==
  /\ pc \in [Resolver -> Place]
  /\ job \in [Resolver -> Job \cup {None}]
  /\ tree \in [Resolver -> [lock: Lock, changed: BOOLEAN] \cup {None}]
  /\ checks \in [Resolver -> {"none", "passed", "failed"}]
  /\ name \in [Resolver -> [second: Second, suffix: Suffix] \cup {None}]
  /\ snapshots \in [Second \X Status \X Suffix -> Lock \cup {None}]
  /\ originals \in [Second \X Status \X Suffix -> Lock \cup {None}]
  /\ receipts \in [Second \X Suffix -> Receipt \cup {None}]

\* What a receipt of the job of r promises.
Validated(r, promised) ==
  promised.accepted =>
    /\ promised.compatible
    /\ promised.requested =>
         /\ checks[r] = "passed"
         /\ tree[r] = [lock |-> promised.candidate, changed |-> FALSE]

\* A resolution knows its verdict before it has a name, and has its files in place
\* before it comes to the receipt.
Knows(r) ==
  LET n == <<name[r].second, StatusOf(r), name[r].suffix>>
  IN /\ pc[r] \notin {"start", "failed"} => job[r] \in Job
     /\ pc[r] = "check" => job[r].compatible
     /\ pc[r] = "name" => Validated(r, job[r])
     /\ pc[r] \in {"snapshot", "original", "receipt"} =>
          /\ name[r] \in [second: Second, suffix: Suffix]
          /\ Validated(r, job[r])
     /\ pc[r] \in {"original", "receipt"} => snapshots[n] = job[r].candidate
     /\ pc[r] = "original" => job[r].original # None
     /\ pc[r] = "receipt" /\ job[r].original # None => originals[n] = job[r].original

ResolverInv == \A r \in Resolver : Knows(r)

\* Who has left a receipt has ended, so that it stays true.
ReceiptInv == \A receipt \in Receipts :
  pc[receipt.by] \in Ended /\ Validated(receipt.by, receipt.job)

IInv == TypeOK /\ ResolverInv /\ ReceiptInv /\ ReceiptsAreBacked /\ SuccessIsOnRecord
=============================================================================
