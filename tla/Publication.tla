------------------------------ MODULE Publication ------------------------------
(***************************************************************************)
(* Publication of one package unit by adapters/registry_publish.py: the    *)
(* normal route (Publisher.execute), the explicit recovery after a definite *)
(* HTTP 429 (Publisher.recover_rejected) and the part they share           *)
(* (Publisher.finish_upload).                                              *)
(*                                                                         *)
(* A runner is one invocation of the program; several use one journal root *)
(* (serialized by flock) or roots of their own.  The journal of an attempt *)
(* is a set of immutable records, kept locally and as assets of the GitHub *)
(* release, whose unique names make the intent asset the one exclusive     *)
(* claim.  The release and the package registry are external: any call may *)
(* be lost before or after it took effect, an upload may be decided after  *)
(* its client gave up, and accepted bytes may stay invisible.              *)
(***************************************************************************)
EXTENDS Naturals

CONSTANTS
  Runner,      \* invocations of the publisher
  Root,        \* journal roots
  RootOf,      \* the journal root each invocation was given
  Registry,    \* the registries: "pypi" can reject and be retried, "jsr" answers
               \* with a task
  MaxAttempt,  \* bound on the attempt number (the code's own bound is 100)
  None

Attempt == 0..MaxAttempt

ASSUME PublicationAssumption ==
  /\ RootOf \in [Runner -> Root]
  /\ MaxAttempt \in Nat
  /\ None \notin Runner
  /\ None \notin {"rejected", "uncertain", "attested"}

ASSUME RegistryAssumption == Registry \subseteq {"pypi", "jsr"}

VARIABLES
  registry, \* the one the unit is for, chosen in Init for ever
  pc,       \* where each runner is
  flock,    \* the runner that holds publication.lock of each root
  attempt,  \* the attempt the runner works on
  evidence, \* the rejection record an operator handed to it
  result,   \* what its own upload came back with
  local,    \* local[d][a]: the records of attempt a under root d
  remote,   \* remote[a]: the records of attempt a on the release
  fate,     \* what the registry did with the upload of attempt a
  visible   \* the registry serves the exact bytes

vars == <<registry, pc, flock, attempt, evidence, result, local, remote, fate, visible>>

\* <stem>-intent.json (its owner), -error.json (its outcome),
\* -legacy-rejection.json, -response.json and -complete.json.
Records ==
  [intent: Runner \cup {None}, error: {"rejected", "uncertain", None},
   legacy: BOOLEAN, response: BOOLEAN, complete: BOOLEAN]

NoRecords ==
  [intent |-> None, error |-> None, legacy |-> FALSE, response |-> FALSE,
   complete |-> FALSE]

\* The fields of an error record recovery looks at; "attested" is the
\* prior-session report of an operator.
Evidence ==
  [attempt: Attempt, intent: Runner, outcome: {"rejected", "uncertain", "attested"}]

Init ==
  /\ registry \in Registry
  /\ pc = [r \in Runner |-> "start"]
  /\ flock = [d \in Root |-> None]
  /\ attempt = [r \in Runner |-> 0]
  /\ evidence = [r \in Runner |-> None]
  /\ result = [r \in Runner |-> None]
  /\ local = [d \in Root |-> [a \in Attempt |-> NoRecords]]
  /\ remote = [a \in Attempt |-> NoRecords]
  /\ fate = [a \in Attempt |-> "unsent"]
  /\ visible = FALSE

Here(r) == local[RootOf[r]]
Goto(r, where) == pc' = [pc EXCEPT ![r] = where]

\* Mutant: the lock is a file that a run forgets to remove.
End_KeepsLock(r) == Goto(r, "done") /\ UNCHANGED flock

\* A Failure, a crash or the normal return: the kernel drops the flock.
End(r) ==
  /\ Goto(r, "done")
  /\ flock' = [d \in Root |-> IF flock[d] = r THEN None ELSE flock[d]]

-----------------------------------------------------------------------------
\* Mutant: the journal root is not locked.
StartPublish_Unlocked(r) ==
  /\ pc[r] = "start"
  /\ Goto(r, "absent?")
  /\ UNCHANGED <<flock, attempt, evidence, result, local, remote, fate, visible>>

\* Publisher.execute: the flock is taken without a time limit.
StartPublish(r) ==
  /\ pc[r] = "start"
  /\ flock[RootOf[r]] = None
  /\ flock' = [flock EXCEPT ![RootOf[r]] = r]
  /\ Goto(r, "absent?")
  /\ UNCHANGED <<attempt, evidence, result, local, remote, fate, visible>>

\* The unit is present already, or it is not.
LookAtRegistry(r) ==
  /\ pc[r] = "absent?"
  /\ IF visible THEN End(r) ELSE Goto(r, "unclaimed?") /\ UNCHANGED flock
  /\ UNCHANGED <<attempt, evidence, result, local, remote, fate, visible>>

\* Any earlier intent, local or remote, forbids an upload even when the
\* registry still answers 404.  Then the credentials are obtained.
LookAtJournal(r) ==
  /\ pc[r] = "unclaimed?"
  /\ IF Here(r)[0].intent # None \/ remote[0].intent # None
     THEN End(r)
     ELSE Goto(r, "intend") /\ UNCHANGED flock
  /\ UNCHANGED <<attempt, evidence, result, local, remote, fate, visible>>

\* The durable local intent comes before the remote one.  (In recovery
\* immutable_local writes it: that name was found absent under the flock.)
WriteIntent(r) ==
  /\ pc[r] = "intend"
  /\ local' = [local EXCEPT ![RootOf[r]][attempt[r]].intent = r]
  /\ Goto(r, "claim?")
  /\ UNCHANGED <<flock, attempt, evidence, result, remote, fate, visible>>

\* Mutant: persist_asset without claim=True takes an existing intent for its own.
LookForClaim_NotExclusive(r) ==
  /\ pc[r] = "claim?"
  /\ Goto(r, IF remote[attempt[r]].intent # None THEN "upload" ELSE "claim")
  /\ UNCHANGED <<flock, attempt, evidence, result, local, remote, fate, visible>>

\* persist_asset(claim=True) looks first ...
LookForClaim(r) ==
  /\ pc[r] = "claim?"
  /\ IF remote[attempt[r]].intent # None
     THEN End(r)
     ELSE Goto(r, "claim") /\ UNCHANGED flock
  /\ UNCHANGED <<attempt, evidence, result, local, remote, fate, visible>>

\* ... then creates the asset.  GitHub refuses a second asset of that name; the
\* answer may be lost although the asset was created ...
PostClaim(r) ==
  /\ pc[r] = "claim"
  /\ IF remote[attempt[r]].intent = None
     THEN /\ remote' = [remote EXCEPT ![attempt[r]].intent = r]
          /\ \/ Goto(r, "owner?") /\ UNCHANGED flock
             \/ End(r)
     ELSE End(r) /\ UNCHANGED remote
  /\ UNCHANGED <<attempt, evidence, result, local, fate, visible>>

\* ... and downloads it: only the creator of the claim goes on.
VerifyClaim(r) ==
  /\ pc[r] = "owner?"
  /\ IF remote[attempt[r]].intent = r
     THEN Goto(r, "upload") /\ UNCHANGED flock
     ELSE End(r)
  /\ UNCHANGED <<attempt, evidence, result, local, remote, fate, visible>>

\* Remote.upload sends its one request.
Upload(r) ==
  /\ pc[r] = "upload"
  /\ fate' = [fate EXCEPT ![attempt[r]] = "inflight"]
  /\ Goto(r, "sent")
  /\ UNCHANGED <<flock, attempt, evidence, result, local, remote, visible>>

\* An accepting response.  JSR's names a publishing task, recorded at once.
Accepted(r) ==
  /\ pc[r] = "sent"
  /\ fate[attempt[r]] = "accepted"
  /\ Goto(r, IF registry = "jsr" THEN "respond locally" ELSE "visible?")
  /\ UNCHANGED <<flock, attempt, evidence, result, local, remote, fate, visible>>

\* Mutant: every failed upload is reported as a rejection.
Failed_AlwaysRejected(r) ==
  /\ pc[r] = "sent"
  /\ result' = [result EXCEPT ![r] = "rejected"]
  /\ Goto(r, "report locally")
  /\ UNCHANGED <<flock, attempt, evidence, local, remote, fate, visible>>

\* Mutant: whatever became of the request is put on record unclassified.
Failed_Unclassified(r) ==
  /\ pc[r] = "sent"
  /\ result' = [result EXCEPT ![r] = fate[attempt[r]]]
  /\ Goto(r, "report locally")
  /\ UNCHANGED <<flock, attempt, evidence, local, remote, fate, visible>>

\* A Failure: the definite 429, or anything that proves nothing (a timeout
\* while the registry still works, another status, a lost response).
Failed(r) ==
  /\ pc[r] = "sent"
  /\ \/ fate[attempt[r]] = "rejected" /\ result' = [result EXCEPT ![r] = "rejected"]
     \/ result' = [result EXCEPT ![r] = "uncertain"]
  /\ Goto(r, "report locally")
  /\ UNCHANGED <<flock, attempt, evidence, local, remote, fate, visible>>

\* immutable_local(<stem>-error.json).
ReportLocally(r) ==
  /\ pc[r] = "report locally"
  /\ IF Here(r)[attempt[r]].error \in {None, result[r]}
     THEN /\ local' = [local EXCEPT ![RootOf[r]][attempt[r]].error = result[r]]
          /\ Goto(r, "report") /\ UNCHANGED flock
     ELSE End(r) /\ UNCHANGED local
  /\ UNCHANGED <<attempt, evidence, result, remote, fate, visible>>

\* persist_asset(<stem>-error.json); its failure ends the run.
Report(r) ==
  /\ pc[r] = "report"
  /\ \/ /\ remote[attempt[r]].error \in {None, result[r]}
        /\ remote' = [remote EXCEPT ![attempt[r]].error = result[r]]
        /\ \/ Goto(r, "visible now?") /\ UNCHANGED flock
           \/ End(r)
     \/ End(r) /\ UNCHANGED remote
  /\ UNCHANGED <<attempt, evidence, result, local, fate, visible>>

\* Mutant: a failed upload is completed without a look at the registry.
LookAgain_NotLooking(r) ==
  /\ pc[r] = "visible now?"
  /\ Goto(r, "complete locally")
  /\ UNCHANGED <<flock, attempt, evidence, result, local, remote, fate, visible>>

\* After a failure one look at the registry decides.
LookAgain(r) ==
  /\ pc[r] = "visible now?"
  /\ IF visible THEN Goto(r, "complete locally") /\ UNCHANGED flock ELSE End(r)
  /\ UNCHANGED <<attempt, evidence, result, local, remote, fate, visible>>

\* <stem>-response.json, local ...
RespondLocally(r) ==
  /\ pc[r] = "respond locally"
  /\ local' = [local EXCEPT ![RootOf[r]][attempt[r]].response = TRUE]
  /\ Goto(r, "respond")
  /\ UNCHANGED <<flock, attempt, evidence, result, remote, fate, visible>>

\* ... and remote.
Respond(r) ==
  /\ pc[r] = "respond"
  /\ \/ /\ remote' = [remote EXCEPT ![attempt[r]].response = TRUE]
        /\ \/ Goto(r, "visible?") /\ UNCHANGED flock
           \/ End(r)
     \/ End(r) /\ UNCHANGED remote
  /\ UNCHANGED <<attempt, evidence, result, local, fate, visible>>

\* wait_for_visibility: until the exact bytes appear, or for 180 s.
AwaitVisibility(r) ==
  /\ pc[r] = "visible?"
  /\ IF visible THEN Goto(r, "complete locally") /\ UNCHANGED flock ELSE End(r)
  /\ UNCHANGED <<attempt, evidence, result, local, remote, fate, visible>>

\* <stem>-complete.json, local ...
CompleteLocally(r) ==
  /\ pc[r] = "complete locally"
  /\ local' = [local EXCEPT ![RootOf[r]][attempt[r]].complete = TRUE]
  /\ Goto(r, "complete")
  /\ UNCHANGED <<flock, attempt, evidence, result, remote, fate, visible>>

\* ... and remote, unless that call fails; then the run returns.
Complete(r) ==
  /\ pc[r] = "complete"
  /\ \/ remote' = [remote EXCEPT ![attempt[r]].complete = TRUE]
     \/ UNCHANGED remote
  /\ End(r)
  /\ UNCHANGED <<attempt, evidence, result, local, fate, visible>>

-----------------------------------------------------------------------------
\* The error records operators can review: every captured one, and a truthful
\* report that the first attempt was rejected.
Reviewable ==
  {e \in Evidence:
     \/ e.outcome = remote[e.attempt].error /\ e.intent = remote[e.attempt].intent
     \/ \E d \in Root: /\ e.outcome = local[d][e.attempt].error
                       /\ e.intent = local[d][e.attempt].intent
     \/ /\ e.outcome = "attested" /\ e.attempt = 0
        /\ e.intent = remote[0].intent /\ fate[0] = "rejected"}

\* Publisher.recover_rejected: the evidence is of a definite PyPI 429 and of an
\* attempt below the bound; the cooldown is over; the flock is taken.
StartRecovery(r) ==
  /\ pc[r] = "start"
  /\ registry = "pypi"
  /\ flock[RootOf[r]] = None
  /\ \E e \in Reviewable:
       /\ e.outcome \in {"rejected", "attested"}
       /\ e.attempt < MaxAttempt
       /\ evidence' = [evidence EXCEPT ![r] = e]
       /\ attempt' = [attempt EXCEPT ![r] = e.attempt + 1]
  /\ flock' = [flock EXCEPT ![RootOf[r]] = r]
  /\ Goto(r, "same intent?")
  /\ UNCHANGED <<result, local, remote, fate, visible>>

\* The intent of attempt a on the release is the one the evidence is about, and
\* the root's own, if it has one, equals it.
SameIntent(d, a, claim) ==
  remote[a].intent = claim /\ local[d][a].intent \in {None, claim}

CheckOriginal(r) ==
  /\ pc[r] = "same intent?"
  /\ IF SameIntent(RootOf[r], evidence[r].attempt, evidence[r].intent)
     THEN Goto(r, "still absent?") /\ UNCHANGED flock
     ELSE End(r)
  /\ UNCHANGED <<attempt, evidence, result, local, remote, fate, visible>>

\* There is nothing to recover once the registry serves the bytes.
LookBeforeRecovery(r) ==
  /\ pc[r] = "still absent?"
  /\ IF visible THEN End(r) ELSE Goto(r, "completed?") /\ UNCHANGED flock
  /\ UNCHANGED <<attempt, evidence, result, local, remote, fate, visible>>

\* No record of an accepted upload under the root or on the release.
NeverCompleted(d, a) == ~local[d][a].complete /\ ~remote[a].complete
NeverAnswered(d, a) == ~local[d][a].response /\ ~remote[a].response

LookForCompletion(r) ==
  /\ pc[r] = "completed?"
  /\ IF NeverCompleted(RootOf[r], evidence[r].attempt)
     THEN Goto(r, "answered?") /\ UNCHANGED flock
     ELSE End(r)
  /\ UNCHANGED <<attempt, evidence, result, local, remote, fate, visible>>

LookForResponse(r) ==
  /\ pc[r] = "answered?"
  /\ IF NeverAnswered(RootOf[r], evidence[r].attempt)
     THEN Goto(r, "captured?") /\ UNCHANGED flock
     ELSE End(r)
  /\ UNCHANGED <<attempt, evidence, result, local, remote, fate, visible>>

\* A captured rejection is on the release; a report does not stand in for any
\* captured outcome.
RejectionStands(d, a, outcome) ==
  IF outcome = "attested"
  THEN local[d][a].error = None /\ remote[a].error = None
  ELSE remote[a].error = outcome

CheckCaptured(r) ==
  /\ pc[r] = "captured?"
  /\ IF RejectionStands(RootOf[r], evidence[r].attempt, evidence[r].outcome)
     THEN Goto(r, "record locally") /\ UNCHANGED flock
     ELSE End(r)
  /\ UNCHANGED <<attempt, evidence, result, local, remote, fate, visible>>

\* immutable_local: the name is free or holds the same record.
Recordable(d, a, outcome) ==
  outcome = "attested" \/ local[d][a].error \in {None, outcome}

\* The evidence is put on record, locally ...
RecordLocally(r) ==
  /\ pc[r] = "record locally"
  /\ LET a == evidence[r].attempt
         d == RootOf[r]
     IN IF Recordable(d, a, evidence[r].outcome)
        THEN /\ local' = IF evidence[r].outcome = "attested"
                         THEN [local EXCEPT ![d][a].legacy = TRUE]
                         ELSE [local EXCEPT ![d][a].error = evidence[r].outcome]
             /\ Goto(r, "record") /\ UNCHANGED flock
        ELSE End(r) /\ UNCHANGED local
  /\ UNCHANGED <<attempt, evidence, result, remote, fate, visible>>

\* ... and on the release, where a captured one already is.
Record(r) ==
  /\ pc[r] = "record"
  /\ \/ /\ evidence[r].outcome = "attested"
        /\ remote' = [remote EXCEPT ![evidence[r].attempt].legacy = TRUE]
     \/ /\ remote[evidence[r].attempt].error = evidence[r].outcome
        /\ UNCHANGED remote
  /\ \/ Goto(r, "unrecovered?") /\ UNCHANGED flock
     \/ End(r)
  /\ UNCHANGED <<attempt, evidence, result, local, fate, visible>>

\* Nobody has claimed attempt b, here or on the release.
Unclaimed(d, b) == local[d][b].intent = None /\ remote[b].intent = None

LookForRecovery(r) ==
  /\ pc[r] = "unrecovered?"
  /\ IF Unclaimed(RootOf[r], attempt[r])
     THEN Goto(r, "intend") /\ UNCHANGED flock
     ELSE End(r)
  /\ UNCHANGED <<attempt, evidence, result, local, remote, fate, visible>>

-----------------------------------------------------------------------------
\* The process is killed, a call fails, credentials are refused.
Crash(r) ==
  /\ pc[r] \notin {"start", "done"}
  /\ End(r)
  /\ UNCHANGED <<attempt, evidence, result, local, remote, fate, visible>>

\* External: the registry decides about a request, whether or not its client
\* still waits, and may then serve the bytes.
Decide(a) ==
  /\ fate[a] = "inflight"
  /\ \E f \in {"accepted", "rejected", "dropped"}: fate' = [fate EXCEPT ![a] = f]
  /\ UNCHANGED <<pc, flock, attempt, evidence, result, local, remote, visible>>

Appear ==
  /\ ~visible
  /\ \E a \in Attempt: fate[a] = "accepted"
  /\ visible' = TRUE
  /\ UNCHANGED <<pc, flock, attempt, evidence, result, local, remote, fate>>

Step(r) ==
  \/ LookAtRegistry(r) \/ LookAtJournal(r) \/ WriteIntent(r)
  \/ LookForClaim(r) \/ PostClaim(r) \/ VerifyClaim(r) \/ Upload(r)
  \/ Accepted(r) \/ Failed(r) \/ ReportLocally(r) \/ Report(r) \/ LookAgain(r)
  \/ RespondLocally(r) \/ Respond(r) \/ AwaitVisibility(r)
  \/ CompleteLocally(r) \/ Complete(r)
  \/ CheckOriginal(r) \/ LookBeforeRecovery(r) \/ LookForCompletion(r)
  \/ LookForResponse(r) \/ CheckCaptured(r) \/ RecordLocally(r) \/ Record(r)
  \/ LookForRecovery(r)

Next ==
  /\ UNCHANGED registry
  /\ \/ Appear
     \/ \E a \in Attempt: Decide(a)
     \/ \E r \in Runner: StartPublish(r) \/ StartRecovery(r) \/ Step(r) \/ Crash(r)

Spec == Init /\ [][Next]_vars

\* Every call has a timeout and the program no loop without a deadline; the
\* flock is awaited without one.
FairSpec ==
  /\ Spec
  /\ \A r \in Runner: /\ WF_vars(UNCHANGED registry /\ StartPublish(r))
                     /\ WF_vars(UNCHANGED registry /\ Step(r))

-----------------------------------------------------------------------------
\* The places of a runner that owns its claim ...
Owning ==
  {"owner?", "upload", "sent", "report locally", "report", "visible now?",
   "respond locally", "respond", "visible?", "complete locally", "complete"}

\* ... of one that has written its local intent ...
Intending == {"claim?", "claim"} \cup Owning

\* ... and of one that weighs the evidence of a rejection.
Weighing ==
  {"same intent?", "still absent?", "completed?", "answered?", "captured?",
   "record locally", "record"}

Places ==
  {"start", "absent?", "unclaimed?", "intend", "unrecovered?", "done"}
    \cup Weighing \cup Intending

\* The type of every variable that a step may change.
TypeOK ==
  /\ pc \in [Runner -> Places]
  /\ flock \in [Root -> Runner \cup {None}]
  /\ attempt \in [Runner -> Attempt]
  /\ evidence \in [Runner -> Evidence \cup {None}]
  /\ result \in [Runner -> {"rejected", "uncertain", None}]
  /\ local \in [Root -> [Attempt -> Records]]
  /\ remote \in [Attempt -> Records]
  /\ fate \in [Attempt -> {"unsent", "inflight", "accepted", "rejected", "dropped"}]
  /\ visible \in BOOLEAN

\* The refinement mapping: attempts, their fates and the visible bytes are what
\* they are; runners, locks and journals are how the promise is kept.
Promise == INSTANCE UploadAtMostOnce
             WITH MaxAttempt <- MaxAttempt, fate <- fate, visible <- visible

\* All the runners together keep the promise: one upload request per unit, and
\* a further one only after a definite rejection of every earlier one, whatever
\* is lost, late, crashed, repeated or raced for.
AtMostOneUpload == Promise!Spec

\* A request leaves only under a claim that is its sender's own on the release
\* and that the sender's journal root durably holds too.
JournaledBeforeUpload ==
  \A r \in Runner:
    pc[r] \in {"upload", "sent"} =>
      remote[attempt[r]].intent = r /\ Here(r)[attempt[r]].intent = r

\* A recorded rejection is true: whoever acts on it, on any runner and however
\* late, acts on a request the registry did refuse.
RejectionsAreTrue ==
  \A a \in Attempt:
    (\/ remote[a].error = "rejected"
     \/ \E d \in Root: local[d][a].error = "rejected") => fate[a] = "rejected"

\* Every check that recover_rejected makes of the journals, for an operator who
\* hands the rejection of attempt a that is on the release to a run of root d.
Recoverable(d, a) ==
  LET claim == remote[a].intent
  IN /\ claim # None
     /\ SameIntent(d, a, claim)
     /\ NeverCompleted(d, a) /\ NeverAnswered(d, a)
     /\ RejectionStands(d, a, remote[a].error) /\ Recordable(d, a, remote[a].error)
     /\ Unclaimed(d, a + 1)

\* A run of root d wrote its intent for attempt b and does not have the claim: it
\* is about to ask, it lost the race, or it was cut off in between.  The intent
\* stays and bars this root for good ("never retry the upload").
Stopped(d, b) ==
  \E q \in Runner:
    /\ RootOf[q] = d /\ attempt[q] = b /\ pc[q] \in {"claim?", "claim", "done"}
    /\ local[d][b].intent = q /\ remote[b].intent # q

\* While the bytes are absent, a definite rejection on the release can be recovered
\* under every root unless the next attempt is claimed already or a run of that very
\* root stopped between its local intent and its claim: for the next attempt, or,
\* under a root other than the claim's, for the rejected one.  Nothing else that
\* crashes, fails or races leaves records at which recovery would refuse.
RejectionIsRecoverable ==
  \A d \in Root, a \in Attempt:
    a < MaxAttempt /\ remote[a].error = "rejected" /\ ~visible =>
      \/ Recoverable(d, a)
      \/ remote[a + 1].intent # None
      \/ Stopped(d, a + 1)
      \/ d # RootOf[remote[a].intent] /\ Stopped(d, a)

Kept(old, new) ==
  /\ old.intent # None => new.intent = old.intent
  /\ old.error # None => new.error = old.error

\* The records are immutable: an intent or an outcome once written, here or on
\* the release, is never replaced by another.
JournalImmutable ==
  [][\A a \in Attempt: /\ Kept(remote[a], remote'[a])
                       /\ \A d \in Root: Kept(local[d][a], local'[d][a])]_vars

\* No invocation hangs: not on the journal lock, whose holder may be killed,
\* and not on a registry that never answers.
RunnerEnds == \A r \in Runner: <>(pc[r] = "done")

-----------------------------------------------------------------------------
\* The parts of the inductive invariant.

\* A working runner holds the lock of its journal root.
FlockInv ==
  \A r \in Runner: pc[r] \notin {"start", "done"} => flock[RootOf[r]] = r

\* Claims belong to those who own them, and no request precedes its claim.
ClaimInv ==
  /\ \A r \in Runner:
       /\ pc[r] = "intend" => Here(r)[attempt[r]].intent = None
       /\ pc[r] \in Owning => remote[attempt[r]].intent = r
       /\ pc[r] \in {"owner?", "upload"} => fate[attempt[r]] = "unsent"
       /\ pc[r] \in Intending => Here(r)[attempt[r]].intent = r
  /\ \A a \in Attempt: remote[a].intent = None => fate[a] = "unsent"

\* What a runner believes of the registry is so.
TruthInv ==
  /\ \A r \in Runner:
       /\ pc[r] \in {"start", "absent?", "unclaimed?"} => attempt[r] = 0
       /\ pc[r] = "start" => evidence[r] = None /\ result[r] = None
       /\ pc[r] \in Weighing =>
            /\ evidence[r] \in Evidence
            /\ evidence[r].outcome \in {"rejected", "attested"}
            /\ fate[evidence[r].attempt] = "rejected"
       /\ result[r] = "rejected" => fate[attempt[r]] = "rejected"
  /\ RejectionsAreTrue

\* Attempts are claimed and worked on only after all earlier ones were rejected.
ChainInv ==
  /\ \A a, b \in Attempt:
       remote[a].intent # None /\ b < a => fate[b] = "rejected"
  /\ \A r \in Runner, b \in Attempt: b < attempt[r] => fate[b] = "rejected"

IInv == TypeOK /\ FlockInv /\ ClaimInv /\ TruthInv /\ ChainInv

\* What makes rejections recoverable: records of acceptance are true, and what the
\* release has of an attempt is under the root of its claim too.
RecoveryInv ==
  /\ \A r \in Runner:
       /\ pc[r] \in {"complete locally", "complete"} => visible
       /\ pc[r] \in {"respond locally", "respond"} => fate[attempt[r]] = "accepted"
       /\ pc[r] \in {"report locally", "report"} => result[r] # None
       /\ pc[r] = "report" => Here(r)[attempt[r]].error = result[r]
  /\ \A a \in Attempt:
       /\ remote[a].complete => visible
       /\ remote[a].response => fate[a] = "accepted"
       /\ \A d \in Root: /\ local[d][a].complete => visible
                         /\ local[d][a].response => fate[a] = "accepted"
       /\ remote[a].intent # None =>
            local[RootOf[remote[a].intent]][a].intent = remote[a].intent
       /\ remote[a].error # None =>
            /\ remote[a].intent # None
            /\ local[RootOf[remote[a].intent]][a].error = remote[a].error

\* Where the records of a root come from: an intent is of a run that went on from
\* there, and an outcome is the claimant's own or one that is on the release.
OriginInv ==
  /\ \A r \in Runner:
       pc[r] \in {"record locally", "record"} /\ evidence[r].outcome = "rejected" =>
         remote[evidence[r].attempt].error = "rejected"
  /\ \A d \in Root, a \in Attempt:
       LET q == local[d][a].intent
       IN q # None => RootOf[q] = d /\ attempt[q] = a /\ pc[q] \in Intending \cup {"done"}
  /\ \A d \in Root, a \in Attempt:
       local[d][a].error # None =>
         \/ remote[a].intent # None /\ RootOf[remote[a].intent] = d
         \/ local[d][a].error = remote[a].error
=============================================================================
