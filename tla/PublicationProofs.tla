--------------------------- MODULE PublicationProofs ---------------------------
(***************************************************************************)
(* For any number of invocations, any sharing of journal roots and any     *)
(* bound on the attempts: publication keeps its promise.                   *)
(*                                                                         *)
(* The inductive invariant IInv ties four facts together.  The flock       *)
(* (FlockInv) makes the local journal of a root change under one runner at *)
(* a time; the unique remote names make every claim its creator's          *)
(* (ClaimInv); a recorded rejection is a real one (TruthInv); therefore an *)
(* attempt is claimed only after all earlier ones were rejected (ChainInv).*)
(* None of them is inductive alone: ChainInv needs that what recovery      *)
(* believes is so, and that needs that only the owner of a claim reports.  *)
(*                                                                         *)
(* RejectionsStayRecoverable rests on two more facts.  Records of          *)
(* acceptance are true, and what the release has of an attempt is under    *)
(* the root of its claim too (RecoveryInv); every intent of a root is that *)
(* of a run which wrote it there and went on or stopped (OriginInv).       *)
(***************************************************************************)
EXTENDS Publication, TLAPS

LEMMA InitEstablishes ==
  Init => IInv
<1> SUFFICES ASSUME Init PROVE IInv
  OBVIOUS
<1> USE PublicationAssumption DEF PublicationAssumption, Init
<1>1. /\ TypeOK
      /\ \A a \in Attempt: remote[a] = NoRecords /\ fate[a] = "unsent"
      /\ \A d \in Root, a \in Attempt: local[d][a] = NoRecords
  <2>1. 0 \in Attempt
    BY DEF Attempt
  <2>2. NoRecords \in Records
    BY DEF NoRecords, Records
  <2>3. "start" \in Places
    BY DEF Places
  <2> QED
    BY <2>1, <2>2, <2>3 DEF TypeOK
<1>2. FlockInv
  BY DEF FlockInv
<1>3. ClaimInv
  BY <1>1 DEF ClaimInv, Intending, Owning
<1>4. TruthInv
  BY <1>1 DEF TruthInv, RejectionsAreTrue, NoRecords, Weighing
<1>5. ChainInv
  BY <1>1 DEF ChainInv, NoRecords, Attempt
<1> QED
  BY <1>1, <1>2, <1>3, <1>4, <1>5 DEF IInv

\* A step that moves one runner on, keeps its lock and touches nothing else but
\* what the runner itself knows.
LEMMA MovePreserves ==
  ASSUME IInv, NEW r \in Runner, NEW where \in Places,
         Goto(r, where), pc[r] \notin {"start", "done"},
         where # "start",
         where = "intend" => Here(r)[attempt[r]].intent = None,
         where \in Intending => pc[r] \in Intending,
         where \in Owning => remote[attempt[r]].intent = r,
         where \in {"owner?", "upload"} => fate[attempt[r]] = "unsent",
         where \in Weighing => pc[r] \in Weighing,
         where \in {"absent?", "unclaimed?"} => pc[r] \in {"absent?", "unclaimed?"},
         UNCHANGED <<flock, attempt, evidence, result, local, remote, fate, visible>>
  PROVE  IInv'
<1> USE DEF Goto
<1>1. TypeOK'
  BY DEF IInv, TypeOK
<1>2. FlockInv'
  BY DEF IInv, TypeOK, FlockInv
<1>3. ClaimInv'
  BY DEF IInv, TypeOK, ClaimInv, Here
<1>4. TruthInv'
  BY DEF IInv, TypeOK, TruthInv, RejectionsAreTrue, Weighing
<1>5. ChainInv'
  BY DEF IInv, TypeOK, ChainInv
<1> QED
  BY <1>1, <1>2, <1>3, <1>4, <1>5 DEF IInv

\* A run that ends, for whatever reason, lets its lock go.
LEMMA EndPreserves ==
  ASSUME IInv, NEW r \in Runner, End(r), pc[r] \notin {"start", "done"},
         UNCHANGED <<attempt, evidence, result, local, remote, fate, visible>>
  PROVE  IInv'
<1> USE PublicationAssumption DEF PublicationAssumption, End, Goto
<1>1. TypeOK'
  BY DEF IInv, TypeOK, Places
<1>2. FlockInv'
  BY DEF IInv, TypeOK, FlockInv
<1>3. ClaimInv'
  BY DEF IInv, TypeOK, ClaimInv, Here, Intending, Owning
<1>4. TruthInv'
  BY DEF IInv, TypeOK, TruthInv, RejectionsAreTrue, Weighing
<1>5. ChainInv'
  BY DEF IInv, TypeOK, ChainInv
<1> QED
  BY <1>1, <1>2, <1>3, <1>4, <1>5 DEF IInv

\* A runner that is at work is the only one of its root.
LEMMA Exclusive ==
  ASSUME FlockInv, NEW r \in Runner, NEW s \in Runner, r # s,
         pc[r] \notin {"start", "done"}, pc[s] \notin {"start", "done"}
  PROVE  RootOf[r] # RootOf[s]
BY DEF FlockInv

LEMMA StartPublishPreserves ==
  ASSUME IInv, NEW r \in Runner, StartPublish(r)
  PROVE  IInv'
<1> USE PublicationAssumption DEF PublicationAssumption, StartPublish, Goto
<1>1. TypeOK'
  BY DEF IInv, TypeOK, Places
<1>2. FlockInv'
  BY DEF IInv, TypeOK, FlockInv
<1>3. ClaimInv'
  BY DEF IInv, TypeOK, ClaimInv, Here, Intending, Owning
<1>4. TruthInv'
  BY DEF IInv, TypeOK, TruthInv, RejectionsAreTrue, Weighing
<1>5. ChainInv'
  BY DEF IInv, TypeOK, ChainInv
<1> QED
  BY <1>1, <1>2, <1>3, <1>4, <1>5 DEF IInv

\* Whatever record an operator bases recovery on, the attempt it is about and
\* all before it were rejected.
LEMMA EvidenceIsTrue ==
  ASSUME IInv, NEW e \in Reviewable, e.outcome \in {"rejected", "attested"}
  PROVE  /\ e \in Evidence
         /\ \A b \in Attempt: b <= e.attempt => fate[b] = "rejected"
<1> USE PublicationAssumption DEF PublicationAssumption
<1>1. e \in Evidence /\ e.attempt \in Attempt /\ e.intent \in Runner
  BY DEF Reviewable, Evidence
<1>2. fate[e.attempt] = "rejected"
  <2>1. CASE e.outcome = remote[e.attempt].error
    <3>1. remote[e.attempt].error # "attested"
      BY <1>1 DEF IInv, TypeOK, Records
    <3> QED
      BY <1>1, <2>1, <3>1 DEF IInv, TruthInv, RejectionsAreTrue
  <2>2. ASSUME NEW d \in Root, e.outcome = local[d][e.attempt].error
        PROVE  fate[e.attempt] = "rejected"
    <3>1. local[d][e.attempt].error # "attested"
      BY <1>1 DEF IInv, TypeOK, Records
    <3> QED
      BY <1>1, <2>2, <3>1 DEF IInv, TruthInv, RejectionsAreTrue
  <2>3. CASE e.attempt = 0 /\ fate[0] = "rejected"
    BY <2>3
  <2> QED
    BY <2>1, <2>2, <2>3 DEF Reviewable
<1>3. remote[e.attempt].intent # None
  BY <1>1, <1>2 DEF IInv, ClaimInv
<1>4. \A b \in Attempt: b < e.attempt => fate[b] = "rejected"
  BY <1>1, <1>3 DEF IInv, ChainInv
<1> QED
  BY <1>1, <1>2, <1>4 DEF Attempt

LEMMA StartRecoveryPreserves ==
  ASSUME IInv, NEW r \in Runner, StartRecovery(r)
  PROVE  IInv'
<1> USE PublicationAssumption DEF PublicationAssumption, Goto
<1>1. PICK e \in Reviewable:
        /\ e.outcome \in {"rejected", "attested"}
        /\ e.attempt < MaxAttempt
        /\ evidence' = [evidence EXCEPT ![r] = e]
        /\ attempt' = [attempt EXCEPT ![r] = e.attempt + 1]
  BY DEF StartRecovery
<1>2. /\ pc[r] = "start" /\ flock[RootOf[r]] = None
      /\ flock' = [flock EXCEPT ![RootOf[r]] = r]
      /\ pc' = [pc EXCEPT ![r] = "same intent?"]
      /\ UNCHANGED <<result, local, remote, fate, visible>>
  BY DEF StartRecovery
<1>3. /\ e \in Evidence /\ e.attempt \in Attempt /\ e.attempt + 1 \in Attempt
      /\ \A b \in Attempt: b <= e.attempt => fate[b] = "rejected"
  BY <1>1, EvidenceIsTrue DEF Evidence, Attempt
<1>4. TypeOK'
  BY <1>1, <1>2, <1>3 DEF IInv, TypeOK, Places, Weighing
<1>5. FlockInv'
  BY <1>2 DEF IInv, TypeOK, FlockInv
<1>6. ClaimInv'
  BY <1>1, <1>2 DEF IInv, TypeOK, ClaimInv, Here, Intending, Owning
<1>7. TruthInv'
  <2>1. result[r] = None
    BY <1>2 DEF IInv, TruthInv
  <2>2. fate[e.attempt] = "rejected"
    BY <1>3 DEF Attempt
  <2> QED
    BY <1>1, <1>2, <1>3, <2>1, <2>2 DEF IInv, TypeOK, TruthInv, RejectionsAreTrue, Weighing
<1>8. ChainInv'
  <2>1. \A b \in Attempt: b < e.attempt + 1 => b <= e.attempt
    BY <1>3 DEF Attempt
  <2>2. ASSUME NEW s \in Runner, NEW b \in Attempt, b < attempt'[s]
        PROVE  fate[b] = "rejected"
    <3>1. CASE s = r
      BY <1>1, <1>3, <2>1, <2>2, <3>1 DEF IInv, TypeOK
    <3>2. CASE s # r
      BY <1>1, <2>2, <3>2 DEF IInv, TypeOK, ChainInv
    <3> QED
      BY <3>1, <3>2
  <2> QED
    BY <1>2, <2>2 DEF IInv, ChainInv
<1> QED
  BY <1>4, <1>5, <1>6, <1>7, <1>8 DEF IInv

-----------------------------------------------------------------------------
\* The steps that move on or give up.

LEMMA LooksPreserve ==
  ASSUME IInv, NEW r \in Runner,
         \/ LookAtRegistry(r) \/ LookAtJournal(r) \/ LookForClaim(r)
         \/ VerifyClaim(r) \/ Accepted(r) \/ LookAgain(r) \/ AwaitVisibility(r)
         \/ CheckOriginal(r) \/ LookBeforeRecovery(r) \/ LookForCompletion(r)
         \/ LookForResponse(r) \/ CheckCaptured(r) \/ LookForRecovery(r) \/ Crash(r)
  PROVE  IInv'
<1> USE DEF Intending, Owning, Weighing, Places
<1>1. CASE LookAtRegistry(r)
  BY <1>1, EndPreserves, MovePreserves DEF LookAtRegistry
<1>2. CASE LookAtJournal(r)
  <2>1. attempt[r] = 0
    BY <1>2 DEF LookAtJournal, IInv, TruthInv
  <2> QED
    BY <1>2, <2>1, EndPreserves, MovePreserves DEF LookAtJournal
<1>3. CASE LookForClaim(r)
  BY <1>3, EndPreserves, MovePreserves DEF LookForClaim
<1>4. CASE VerifyClaim(r)
  <2>1. fate[attempt[r]] = "unsent"
    BY <1>4 DEF VerifyClaim, IInv, ClaimInv
  <2> QED
    BY <1>4, <2>1, EndPreserves, MovePreserves DEF VerifyClaim
<1>5. CASE Accepted(r)
  <2>1. remote[attempt[r]].intent = r
    BY <1>5 DEF Accepted, IInv, ClaimInv
  <2> QED
    BY <1>5, <2>1, MovePreserves DEF Accepted
<1>6. CASE LookAgain(r)
  <2>1. remote[attempt[r]].intent = r
    BY <1>6 DEF LookAgain, IInv, ClaimInv
  <2> QED
    BY <1>6, <2>1, EndPreserves, MovePreserves DEF LookAgain
<1>7. CASE AwaitVisibility(r)
  <2>1. remote[attempt[r]].intent = r
    BY <1>7 DEF AwaitVisibility, IInv, ClaimInv
  <2> QED
    BY <1>7, <2>1, EndPreserves, MovePreserves DEF AwaitVisibility
<1>8. CASE CheckOriginal(r) \/ LookBeforeRecovery(r)
  BY <1>8, EndPreserves, MovePreserves DEF CheckOriginal, LookBeforeRecovery
<1>9. CASE LookForCompletion(r) \/ LookForResponse(r) \/ CheckCaptured(r)
  BY <1>9, EndPreserves, MovePreserves DEF LookForCompletion, LookForResponse, CheckCaptured
<1>10. CASE LookForRecovery(r)
  BY <1>10, EndPreserves, MovePreserves DEF LookForRecovery, Unclaimed, Here
<1>11. CASE Crash(r)
  BY <1>11, EndPreserves DEF Crash
<1> QED
  BY <1>1, <1>2, <1>3, <1>4, <1>5, <1>6, <1>7, <1>8, <1>9, <1>10, <1>11

-----------------------------------------------------------------------------
\* The steps that write.

LEMMA WriteIntentPreserves ==
  ASSUME IInv, NEW r \in Runner, WriteIntent(r)
  PROVE  IInv'
<1> USE PublicationAssumption DEF PublicationAssumption, WriteIntent, Goto
<1> DEFINE d0 == RootOf[r]
           a0 == attempt[r]
           new == [local[d0][a0] EXCEPT !.intent = r]
<1>1. d0 \in Root /\ a0 \in Attempt
  BY DEF IInv, TypeOK
<1>2. new \in Records /\ new.intent = r /\ new.error = local[d0][a0].error
  <2>1. local[d0][a0] \in Records
    BY <1>1 DEF IInv, TypeOK
  <2> QED
    BY <2>1 DEF Records
<1>3. /\ local' \in [Root -> [Attempt -> Records]]
      /\ local'[d0][a0] = new
      /\ \A d \in Root: d # d0 => local'[d] = local[d]
      /\ \A a \in Attempt: a # a0 => local'[d0][a] = local[d0][a]
  BY <1>1, <1>2 DEF IInv, TypeOK
<1>4. /\ pc' = [pc EXCEPT ![r] = "claim?"]
      /\ UNCHANGED <<flock, attempt, evidence, result, remote, fate, visible>>
      /\ pc[r] = "intend"
  OBVIOUS
<1> HIDE DEF new, WriteIntent, Goto
<1>5. TypeOK'
  BY <1>3, <1>4 DEF IInv, TypeOK, Places, Intending
<1>6. FlockInv'
  BY <1>4 DEF IInv, TypeOK, FlockInv
<1>7. ClaimInv'
  <2>1. \A s \in Runner \ {r}:
          /\ pc'[s] = pc[s]
          /\ pc[s] \notin {"start", "done"} => local'[RootOf[s]] = local[RootOf[s]]
    BY <1>1, <1>3, <1>4, Exclusive DEF IInv, TypeOK
  <2>2. pc'[r] = "claim?" /\ local'[RootOf[r]][attempt[r]].intent = r
    BY <1>2, <1>3, <1>4 DEF IInv, TypeOK
  <2>3. ASSUME NEW s \in Runner
        PROVE  /\ pc'[s] = "intend" => local'[RootOf[s]][attempt[s]].intent = None
               /\ pc'[s] \in Owning => remote[attempt[s]].intent = s
               /\ pc'[s] \in {"owner?", "upload"} => fate[attempt[s]] = "unsent"
               /\ pc'[s] \in Intending => local'[RootOf[s]][attempt[s]].intent = s
    BY <2>1, <2>2 DEF IInv, ClaimInv, Here, Intending, Owning
  <2> QED
    BY <1>4, <2>3 DEF IInv, ClaimInv, Here
<1>8. TruthInv'
  <2>1. \A d \in Root, a \in Attempt: local'[d][a].error = local[d][a].error
    BY <1>1, <1>2, <1>3
  <2>2. RejectionsAreTrue'
    BY <1>4, <2>1 DEF IInv, TruthInv, RejectionsAreTrue
  <2> QED
    BY <1>4, <2>2 DEF IInv, TypeOK, TruthInv, Weighing
<1>9. ChainInv'
  BY <1>4 DEF IInv, TypeOK, ChainInv
<1> QED
  BY <1>5, <1>6, <1>7, <1>8, <1>9 DEF IInv

\* What a step may do that neither claims nor sends nor decides: it leaves the
\* intents, records only rejections that happened, and moves one runner.
LEMMA RecordingPreserves ==
  ASSUME IInv, NEW r \in Runner, pc[r] \notin {"start", "done"},
         NEW where \in Places, where # "start",
         \/ Goto(r, where) /\ UNCHANGED flock
         \/ End(r) /\ where = "done",
         where \notin {"intend", "owner?", "upload", "absent?", "unclaimed?"},
         where \in Weighing => pc[r] \in Weighing,
         where \in Intending => pc[r] \in Intending,
         where \in Owning => pc[r] \in Owning,
         UNCHANGED <<attempt, evidence, result, fate, visible>>,
         local' \in [Root -> [Attempt -> Records]],
         remote' \in [Attempt -> Records],
         \A a \in Attempt: remote'[a].intent = remote[a].intent,
         \A d \in Root, a \in Attempt: local'[d][a].intent = local[d][a].intent,
         \A a \in Attempt:
           \/ remote'[a].error \in {remote[a].error, "uncertain", None}
           \/ fate[a] = "rejected",
         \A d \in Root, a \in Attempt:
           \/ local'[d][a].error \in {local[d][a].error, "uncertain", None}
           \/ fate[a] = "rejected"
  PROVE  IInv'
<1> USE PublicationAssumption DEF PublicationAssumption
<1>1. pc' = [pc EXCEPT ![r] = where]
  BY DEF Goto, End
<1>2. TypeOK'
  BY <1>1 DEF IInv, TypeOK, End
<1>3. FlockInv'
  <2>1. pc \in [Runner -> Places] /\ flock \in [Root -> Runner \cup {None}]
    BY DEF IInv, TypeOK
  <2>2. \A s \in Runner: pc[s] \notin {"start", "done"} => flock[RootOf[s]] = s
    BY DEF IInv, FlockInv
  <2>3. CASE UNCHANGED flock
    BY <1>1, <2>1, <2>2, <2>3 DEF FlockInv
  <2>4. CASE End(r) /\ where = "done"
    <3>1. flock' = [d \in Root |-> IF flock[d] = r THEN None ELSE flock[d]]
      BY <2>4 DEF End
    <3>2. ASSUME NEW s \in Runner, pc'[s] \notin {"start", "done"}
          PROVE  flock'[RootOf[s]] = s
      <4>1. s # r /\ pc[s] \notin {"start", "done"}
        BY <1>1, <2>1, <2>4, <3>2
      <4> QED
        BY <2>2, <3>1, <4>1
    <3> QED
      BY <3>2 DEF FlockInv
  <2> QED
    BY <2>3, <2>4
<1>4. ClaimInv'
  <2>1. ASSUME NEW s \in Runner
        PROVE  /\ pc'[s] = "intend" => pc[s] = "intend"
               /\ pc'[s] \in Owning => pc[s] \in Owning
               /\ pc'[s] \in {"owner?", "upload"} => pc[s] \in {"owner?", "upload"}
               /\ pc'[s] \in Intending => pc[s] \in Intending
    BY <1>1 DEF IInv, TypeOK
  <2>2. \A s \in Runner: RootOf[s] \in Root /\ attempt[s] \in Attempt
    BY DEF IInv, TypeOK
  <2>3. ASSUME NEW s \in Runner
        PROVE  /\ pc'[s] = "intend" => local'[RootOf[s]][attempt[s]].intent = None
               /\ pc'[s] \in Owning => remote'[attempt[s]].intent = s
               /\ pc'[s] \in {"owner?", "upload"} => fate[attempt[s]] = "unsent"
               /\ pc'[s] \in Intending => local'[RootOf[s]][attempt[s]].intent = s
    <3>1. /\ local'[RootOf[s]][attempt[s]].intent
              = local[RootOf[s]][attempt[s]].intent
          /\ remote'[attempt[s]].intent = remote[attempt[s]].intent
      BY <2>2
    <3>2. /\ pc[s] = "intend" => local[RootOf[s]][attempt[s]].intent = None
          /\ pc[s] \in Owning => remote[attempt[s]].intent = s
          /\ pc[s] \in {"owner?", "upload"} => fate[attempt[s]] = "unsent"
          /\ pc[s] \in Intending => local[RootOf[s]][attempt[s]].intent = s
      BY DEF IInv, ClaimInv, Here
    <3> QED
      BY <2>1, <3>1, <3>2
  <2>4. \A a \in Attempt: remote'[a].intent = None => fate[a] = "unsent"
    BY DEF IInv, ClaimInv
  <2> QED
    BY <2>3, <2>4 DEF ClaimInv, Here
<1>5. TruthInv'
  <2>1. RejectionsAreTrue'
    BY DEF IInv, TruthInv, RejectionsAreTrue
  <2>2. ASSUME NEW s \in Runner
        PROVE  \A at \in {{"start"}, {"start", "absent?", "unclaimed?"},
                          Weighing}:
                 pc'[s] \in at => pc[s] \in at
    BY <1>1 DEF IInv, TypeOK
  <2> QED
    BY <2>1, <2>2 DEF IInv, TruthInv
<1>6. ChainInv'
  BY <1>1 DEF IInv, TypeOK, ChainInv
<1> QED
  BY <1>2, <1>3, <1>4, <1>5, <1>6 DEF IInv

\* The same for the owner of a claim.
LEMMA OwnerRecords ==
  ASSUME IInv, NEW r \in Runner, pc[r] \in Owning,
         NEW where \in {"report", "visible now?", "respond", "visible?", "complete", "done"},
         \/ Goto(r, where) /\ UNCHANGED flock
         \/ End(r) /\ where = "done",
         UNCHANGED <<attempt, evidence, result, fate, visible>>,
         local' \in [Root -> [Attempt -> Records]],
         remote' \in [Attempt -> Records],
         \A a \in Attempt: remote'[a].intent = remote[a].intent,
         \A d \in Root, a \in Attempt: local'[d][a].intent = local[d][a].intent,
         \A a \in Attempt:
           \/ remote'[a].error \in {remote[a].error, "uncertain", None}
           \/ fate[a] = "rejected",
         \A d \in Root, a \in Attempt:
           \/ local'[d][a].error \in {local[d][a].error, "uncertain", None}
           \/ fate[a] = "rejected"
  PROVE  IInv'
<1>1. /\ where \in Places /\ where # "start" /\ where \notin Weighing
      /\ where \notin {"intend", "owner?", "upload", "absent?", "unclaimed?"}
  BY DEF Places, Intending, Owning, Weighing
<1>2. pc[r] \in Intending /\ pc[r] \notin {"start", "done"}
  BY DEF Intending, Owning
<1> QED
  BY <1>1, <1>2, RecordingPreserves

\* An error record says what the runner's own upload came back with.
LEMMA ReportsPreserve ==
  ASSUME IInv, NEW r \in Runner, ReportLocally(r) \/ Report(r)
  PROVE  IInv'
<1> USE PublicationAssumption DEF PublicationAssumption
<1> DEFINE d0 == RootOf[r]
           a0 == attempt[r]
<1>1. /\ d0 \in Root /\ a0 \in Attempt
      /\ result[r] \in {"rejected", "uncertain", None}
      /\ local[d0][a0] \in Records /\ remote[a0] \in Records
  BY DEF IInv, TypeOK
<1>2. result[r] = "rejected" => fate[a0] = "rejected"
  BY DEF IInv, TruthInv
<1>3. CASE ReportLocally(r)
  <2> DEFINE new == [local[d0][a0] EXCEPT !.error = result[r]]
  <2>1. CASE Here(r)[a0].error \notin {None, result[r]}
    BY <1>3, <2>1, EndPreserves DEF ReportLocally
  <2>2. CASE Here(r)[a0].error \in {None, result[r]}
    <3>1. /\ new \in Records /\ new.intent = local[d0][a0].intent
          /\ new.error = result[r]
      BY <1>1 DEF Records
    <3>2. local' = [local EXCEPT ![d0] = [local[d0] EXCEPT ![a0] = new]]
      BY <1>3, <2>2 DEF ReportLocally
    <3> HIDE DEF new
    <3>3. /\ local' \in [Root -> [Attempt -> Records]]
          /\ \A d \in Root, a \in Attempt:
               local'[d][a] = IF d = d0 /\ a = a0 THEN new ELSE local[d][a]
      BY <1>1, <3>1, <3>2 DEF IInv, TypeOK
    <3>4. /\ Goto(r, "report")
          /\ UNCHANGED <<flock, attempt, evidence, result, remote, fate, visible>>
          /\ pc[r] = "report locally"
      BY <1>3, <2>2 DEF ReportLocally
    <3>5. \A d \in Root, a \in Attempt:
            /\ local'[d][a].intent = local[d][a].intent
            /\ \/ local'[d][a].error \in {local[d][a].error, "uncertain", None}
               \/ fate[a] = "rejected"
      BY <1>1, <1>2, <3>1, <3>3
    <3>6. remote' \in [Attempt -> Records]
      BY <3>4 DEF IInv, TypeOK
    <3> QED
      BY <3>3, <3>4, <3>5, <3>6, OwnerRecords DEF Owning
  <2> QED
    BY <2>1, <2>2
<1>4. CASE Report(r)
  <2> DEFINE new == [remote[a0] EXCEPT !.error = result[r]]
  <2>1. CASE End(r) /\ UNCHANGED remote
    BY <1>4, <2>1, EndPreserves DEF Report
  <2>2. CASE remote' = [remote EXCEPT ![a0].error = result[r]]
             /\ ((Goto(r, "visible now?") /\ UNCHANGED flock) \/ End(r))
    <3>1. /\ new \in Records /\ new.intent = remote[a0].intent
          /\ new.error = result[r]
      BY <1>1 DEF Records
    <3>2. remote' = [remote EXCEPT ![a0] = new]
      BY <2>2
    <3> HIDE DEF new
    <3>3. /\ remote' \in [Attempt -> Records]
          /\ \A a \in Attempt: remote'[a] = IF a = a0 THEN new ELSE remote[a]
      BY <1>1, <3>1, <3>2 DEF IInv, TypeOK
    <3>4. /\ UNCHANGED <<attempt, evidence, result, local, fate, visible>>
          /\ pc[r] = "report"
      BY <1>4 DEF Report
    <3>5. \A a \in Attempt:
            /\ remote'[a].intent = remote[a].intent
            /\ \/ remote'[a].error \in {remote[a].error, "uncertain", None}
               \/ fate[a] = "rejected"
      BY <1>1, <1>2, <3>1, <3>3
    <3>6. local' \in [Root -> [Attempt -> Records]]
      BY <3>4 DEF IInv, TypeOK
    <3>7. CASE Goto(r, "visible now?") /\ UNCHANGED flock
      BY <3>3, <3>4, <3>5, <3>6, <3>7, OwnerRecords DEF Owning
    <3>8. CASE End(r)
      BY <3>3, <3>4, <3>5, <3>6, <3>8, OwnerRecords DEF Owning
    <3> QED
      BY <2>2, <3>7, <3>8
  <2> QED
    BY <1>4, <2>1, <2>2 DEF Report
<1> QED
  BY <1>3, <1>4

\* The response and completion records, local and remote.
LEMMA RespondLocallyPreserves ==
  ASSUME IInv, NEW r \in Runner,
         \/ RespondLocally(r)
         \/ CompleteLocally(r)
  PROVE  IInv'
<1> USE PublicationAssumption DEF PublicationAssumption
<1> DEFINE d0 == RootOf[r]
           a0 == attempt[r]
<1>1. d0 \in Root /\ a0 \in Attempt /\ local[d0][a0] \in Records
  BY DEF IInv, TypeOK
<1>2. PICK new \in Records, where \in {"respond", "complete"}:
        /\ new.intent = local[d0][a0].intent /\ new.error = local[d0][a0].error
        /\ local' = [local EXCEPT ![d0] = [local[d0] EXCEPT ![a0] = new]]
        /\ Goto(r, where)
        /\ pc[r] \in {"respond locally", "complete locally"}
        /\ UNCHANGED <<flock, attempt, evidence, result, remote, fate, visible>>
  <2>1. CASE RespondLocally(r)
    <3>1. [local[d0][a0] EXCEPT !.response = TRUE] \in Records
      BY <1>1 DEF Records
    <3> QED
      BY <1>1, <2>1, <3>1 DEF RespondLocally, Records
  <2>2. CASE CompleteLocally(r)
    <3>1. [local[d0][a0] EXCEPT !.complete = TRUE] \in Records
      BY <1>1 DEF Records
    <3> QED
      BY <1>1, <2>2, <3>1 DEF CompleteLocally, Records
  <2> QED
    BY <2>1, <2>2
<1>3. /\ local' \in [Root -> [Attempt -> Records]]
      /\ \A d \in Root, a \in Attempt:
           /\ local'[d][a].intent = local[d][a].intent
           /\ local'[d][a].error = local[d][a].error
  BY <1>1, <1>2 DEF IInv, TypeOK
<1>4. remote' \in [Attempt -> Records]
  BY <1>2 DEF IInv, TypeOK
<1>5. /\ pc[r] \in Owning
      /\ where \in {"report", "visible now?", "respond", "visible?", "complete", "done"}
  BY <1>2 DEF Owning
<1>6. /\ UNCHANGED <<attempt, evidence, result, fate, visible>>
      /\ Goto(r, where) /\ UNCHANGED flock
      /\ \A a \in Attempt: remote'[a].intent = remote[a].intent
      /\ \A a \in Attempt: remote'[a].error \in {remote[a].error, "uncertain", None}
      /\ \A d \in Root, a \in Attempt:
           local'[d][a].error \in {local[d][a].error, "uncertain", None}
  BY <1>2, <1>3
<1> HIDE DEF d0, a0
<1> QED
  BY <1>3, <1>4, <1>5, <1>6, OwnerRecords

LEMMA RespondPreserves ==
  ASSUME IInv, NEW r \in Runner, Respond(r) \/ Complete(r)
  PROVE  IInv'
<1> USE PublicationAssumption DEF PublicationAssumption
<1> DEFINE a0 == attempt[r]
<1>1. a0 \in Attempt /\ remote[a0] \in Records
  BY DEF IInv, TypeOK
<1>2. PICK new \in Records:
        /\ new.intent = remote[a0].intent /\ new.error = remote[a0].error
        /\ remote' = [remote EXCEPT ![a0] = new]
        /\ (Goto(r, "visible?") /\ UNCHANGED flock) \/ End(r)
        /\ pc[r] \in {"respond", "complete"}
        /\ UNCHANGED <<attempt, evidence, result, local, fate, visible>>
  <2>1. CASE remote' = [remote EXCEPT ![a0].response = TRUE]
    <3>1. [remote[a0] EXCEPT !.response = TRUE] \in Records
      BY <1>1 DEF Records
    <3> QED
      BY <1>1, <2>1, <3>1 DEF Respond, Complete, Records
  <2>2. CASE remote' = [remote EXCEPT ![a0].complete = TRUE]
    <3>1. [remote[a0] EXCEPT !.complete = TRUE] \in Records
      BY <1>1 DEF Records
    <3> QED
      BY <1>1, <2>2, <3>1 DEF Respond, Complete, Records
  <2>3. CASE UNCHANGED remote
    <3>1. remote' = [remote EXCEPT ![a0] = remote[a0]]
      BY <1>1, <2>3 DEF IInv, TypeOK
    <3> QED
      BY <1>1, <2>3, <3>1 DEF Respond, Complete
  <2> QED
    BY <2>1, <2>2, <2>3 DEF Respond, Complete
<1>3. /\ remote' \in [Attempt -> Records]
      /\ \A a \in Attempt: /\ remote'[a].intent = remote[a].intent
                           /\ remote'[a].error = remote[a].error
  BY <1>1, <1>2 DEF IInv, TypeOK
<1>4. local' \in [Root -> [Attempt -> Records]]
  BY <1>2 DEF IInv, TypeOK
<1>5. CASE Goto(r, "visible?") /\ UNCHANGED flock
  BY <1>2, <1>3, <1>4, <1>5, OwnerRecords DEF Owning
<1>6. CASE End(r)
  BY <1>2, <1>3, <1>4, <1>6, OwnerRecords DEF Owning
<1> QED
  BY <1>2, <1>5, <1>6

\* Recovery records only the rejection its evidence is about: under the root ...
LEMMA RecordLocallyPreserves ==
  ASSUME IInv, NEW r \in Runner, RecordLocally(r)
  PROVE  IInv'
<1> USE PublicationAssumption DEF PublicationAssumption
<1> DEFINE d0 == RootOf[r]
           b0 == evidence[r].attempt
<1>1. /\ pc[r] = "record locally"
      /\ UNCHANGED <<attempt, evidence, result, remote, fate, visible>>
  BY DEF RecordLocally
<1>2. /\ d0 \in Root /\ b0 \in Attempt /\ fate[b0] = "rejected"
      /\ local[d0][b0] \in Records
      /\ evidence[r].outcome \in {"rejected", "attested"}
  <2>1. /\ evidence[r] \in Evidence /\ fate[b0] = "rejected"
        /\ evidence[r].outcome \in {"rejected", "attested"}
    BY <1>1 DEF IInv, TruthInv, Weighing
  <2>2. b0 \in Attempt
    BY <2>1 DEF Evidence
  <2> QED
    BY <2>1, <2>2 DEF IInv, TypeOK
<1>3. CASE End(r) /\ UNCHANGED local
  BY <1>1, <1>3, EndPreserves
<1>4. ASSUME NEW new \in Records,
             new.intent = local[d0][b0].intent,
             new.error \in {local[d0][b0].error, "rejected"},
             local' = [local EXCEPT ![d0] = [local[d0] EXCEPT ![b0] = new]],
             Goto(r, "record") /\ UNCHANGED flock
      PROVE  IInv'
  <2>1. /\ local' \in [Root -> [Attempt -> Records]]
        /\ \A d \in Root, a \in Attempt:
             local'[d][a] = IF d = d0 /\ a = b0 THEN new ELSE local[d][a]
    BY <1>2, <1>4 DEF IInv, TypeOK
  <2>2. \A d \in Root, a \in Attempt:
          /\ local'[d][a].intent = local[d][a].intent
          /\ local'[d][a].error = local[d][a].error \/ fate[a] = "rejected"
    BY <1>2, <1>4, <2>1
  <2>3. remote' \in [Attempt -> Records]
    BY <1>1 DEF IInv, TypeOK
  <2>4. "record" \in Places /\ "record" \notin Intending /\ pc[r] \in Weighing
    BY <1>1 DEF Places, Weighing, Intending, Owning
  <2> QED
    BY <1>1, <1>4, <2>1, <2>2, <2>3, <2>4, RecordingPreserves DEF Intending
<1>5. ASSUME NEW q \in Records
      PROVE  /\ [q EXCEPT !.legacy = TRUE] \in Records
             /\ [q EXCEPT !.legacy = TRUE].intent = q.intent
             /\ [q EXCEPT !.legacy = TRUE].error = q.error
             /\ [q EXCEPT !.error = "rejected"] \in Records
             /\ [q EXCEPT !.error = "rejected"].intent = q.intent
             /\ [q EXCEPT !.error = "rejected"].error = "rejected"
  BY DEF Records
<1>6. CASE /\ local' = [local EXCEPT ![d0][b0].legacy = TRUE]
           /\ Goto(r, "record") /\ UNCHANGED flock
  <2>1. local' = [local EXCEPT ![d0] =
                    [local[d0] EXCEPT ![b0] = [local[d0][b0] EXCEPT !.legacy = TRUE]]]
    BY <1>6
  <2> QED
    BY <1>2, <1>4, <1>5, <1>6, <2>1
<1>7. CASE /\ evidence[r].outcome = "rejected"
           /\ local' = [local EXCEPT ![d0][b0].error = evidence[r].outcome]
           /\ Goto(r, "record") /\ UNCHANGED flock
  <2>1. local' = [local EXCEPT ![d0] =
                    [local[d0] EXCEPT ![b0] = [local[d0][b0] EXCEPT !.error = "rejected"]]]
    BY <1>7
  <2> QED
    BY <1>2, <1>4, <1>5, <1>7, <2>1
<1> QED
  BY <1>2, <1>3, <1>6, <1>7 DEF RecordLocally

\* ... and on the release.
LEMMA RecordPreserves ==
  ASSUME IInv, NEW r \in Runner, Record(r)
  PROVE  IInv'
<1> USE PublicationAssumption DEF PublicationAssumption
<1> DEFINE b0 == evidence[r].attempt
           new == [remote[b0] EXCEPT !.legacy = TRUE]
<1>1. /\ pc[r] = "record"
      /\ UNCHANGED <<attempt, evidence, result, local, fate, visible>>
      /\ (Goto(r, "unrecovered?") /\ UNCHANGED flock) \/ End(r)
      /\ UNCHANGED remote \/ remote' = [remote EXCEPT ![b0] = new]
  BY DEF Record
<1>2. b0 \in Attempt /\ remote[b0] \in Records
  <2>1. evidence[r] \in Evidence
    BY <1>1 DEF IInv, TruthInv, Weighing
  <2> QED
    BY <2>1 DEF Evidence, IInv, TypeOK
<1>3. new \in Records /\ new.intent = remote[b0].intent /\ new.error = remote[b0].error
  BY <1>2 DEF Records
<1> HIDE DEF new
<1>4. /\ remote' \in [Attempt -> Records]
      /\ \A a \in Attempt: /\ remote'[a].intent = remote[a].intent
                           /\ remote'[a].error = remote[a].error
  <2>1. remote \in [Attempt -> Records]
    BY DEF IInv, TypeOK
  <2>2. CASE UNCHANGED remote
    BY <2>1, <2>2
  <2>3. CASE remote' = [remote EXCEPT ![b0] = new]
    <3> HIDE DEF b0
    <3>1. \A a \in Attempt: remote'[a] = IF a = b0 THEN new ELSE remote[a]
      BY <1>2, <2>1, <2>3
    <3>2. remote' \in [Attempt -> Records]
      BY <1>2, <1>3, <2>1, <2>3
    <3> QED
      BY <1>3, <3>1, <3>2
  <2> QED
    BY <1>1, <2>2, <2>3
<1>5. local' \in [Root -> [Attempt -> Records]]
  BY <1>1 DEF IInv, TypeOK
<1>6. CASE Goto(r, "unrecovered?") /\ UNCHANGED flock
  <2>1. /\ "unrecovered?" \in Places /\ "unrecovered?" \notin Intending
        /\ "unrecovered?" \notin Weighing
    BY DEF Places, Weighing, Intending, Owning
  <2> QED
    BY <1>1, <1>4, <1>5, <1>6, <2>1, RecordingPreserves DEF Intending
<1>7. CASE End(r)
  <2>1. "done" \in Places /\ "done" \notin Intending /\ "done" \notin Weighing
    BY DEF Places, Weighing, Intending, Owning
  <2> QED
    BY <1>1, <1>4, <1>5, <1>7, <2>1, RecordingPreserves DEF Intending
<1> QED
  BY <1>1, <1>6, <1>7

\* A claim is created once: nobody else owns it, and no request used it.
LEMMA PostClaimPreserves ==
  ASSUME IInv, NEW r \in Runner, PostClaim(r)
  PROVE  IInv'
<1> USE PublicationAssumption DEF PublicationAssumption
<1> DEFINE a0 == attempt[r]
           new == [remote[a0] EXCEPT !.intent = r]
<1>1. CASE remote[a0].intent # None
  BY <1>1, EndPreserves DEF PostClaim
<1>2. CASE remote[a0].intent = None
  <2>1. /\ a0 \in Attempt /\ fate[a0] = "unsent"
        /\ new \in Records /\ new.intent = r /\ new.error = remote[a0].error
    <3>1. a0 \in Attempt /\ remote[a0] \in Records
      BY DEF IInv, TypeOK
    <3> QED
      BY <1>2, <3>1 DEF Records, IInv, ClaimInv
  <2>2. PICK where \in {"owner?", "done"}:
          /\ Goto(r, where)
          /\ \/ where = "owner?" /\ UNCHANGED flock
             \/ End(r)
    BY <1>2 DEF PostClaim, End
  <2>3. /\ pc[r] = "claim" /\ remote' = [remote EXCEPT ![a0] = new]
        /\ UNCHANGED <<attempt, evidence, result, local, fate, visible>>
    BY <1>2 DEF PostClaim
  <2> HIDE DEF new
  <2>4. /\ remote' \in [Attempt -> Records]
        /\ \A a \in Attempt: remote'[a] = IF a = a0 THEN new ELSE remote[a]
    BY <2>1, <2>3 DEF IInv, TypeOK
  <2>5. pc' = [pc EXCEPT ![r] = where]
    BY <2>2 DEF Goto
  <2>6. TypeOK'
    <3>1. flock' \in [Root -> Runner \cup {None}]
      BY <2>2 DEF IInv, TypeOK, End
    <3>2. pc' \in [Runner -> Places]
      BY <2>5 DEF IInv, TypeOK, Places, Intending, Owning
    <3> QED
      BY <2>3, <2>4, <3>1, <3>2 DEF IInv, TypeOK
  <2>7. FlockInv'
    <3>1. CASE where = "owner?" /\ UNCHANGED flock
      BY <2>3, <2>5, <3>1 DEF IInv, TypeOK, FlockInv
    <3>2. CASE End(r)
      BY <2>3, <3>2 DEF IInv, TypeOK, FlockInv, End, Goto
    <3> QED
      BY <2>2, <3>1, <3>2
  <2>8. ClaimInv'
    <3>1. ASSUME NEW s \in Runner \ {r}
          PROVE  /\ pc'[s] = pc[s] /\ attempt[s] \in Attempt
                 /\ pc[s] \in Owning => attempt[s] # a0
      BY <1>2, <2>5 DEF IInv, TypeOK, ClaimInv
    <3>2. Here(r)[a0].intent = r /\ pc'[r] = where
      BY <2>3, <2>5 DEF IInv, TypeOK, ClaimInv, Intending
    <3>3. ASSUME NEW s \in Runner
          PROVE  /\ pc'[s] = "intend" => Here(s)[attempt[s]].intent = None
                 /\ pc'[s] \in Owning => remote'[attempt[s]].intent = s
                 /\ pc'[s] \in {"owner?", "upload"} => fate[attempt[s]] = "unsent"
                 /\ pc'[s] \in Intending => Here(s)[attempt[s]].intent = s
      <4>1. CASE s = r
        BY <2>1, <2>2, <2>4, <3>2, <4>1 DEF Owning, Intending
      <4>2. CASE s # r
        BY <2>4, <3>1, <4>2 DEF IInv, ClaimInv
      <4> QED
        BY <4>1, <4>2
    <3>4. \A a \in Attempt: remote'[a].intent = None => fate[a] = "unsent"
      BY <2>1, <2>4 DEF IInv, ClaimInv
    <3> QED
      BY <2>3, <3>3, <3>4 DEF ClaimInv, Here
  <2>9. TruthInv'
    <3>1. \A a \in Attempt: remote'[a].error = remote[a].error
      BY <2>1, <2>4
    <3>2. RejectionsAreTrue'
      BY <2>3, <3>1 DEF IInv, TruthInv, RejectionsAreTrue
    <3> QED
      BY <2>3, <2>5, <3>2 DEF IInv, TypeOK, TruthInv, Weighing
  <2>10. ChainInv'
    <3>1. \A b \in Attempt: b < a0 => fate[b] = "rejected"
      BY DEF IInv, ChainInv
    <3> QED
      BY <2>3, <2>4, <3>1 DEF IInv, ChainInv
  <2> QED
    BY <2>6, <2>7, <2>8, <2>9, <2>10 DEF IInv
<1> QED
  BY <1>1, <1>2

\* A request leaves under its sender's claim, which no other runner has.
LEMMA UploadPreserves ==
  ASSUME IInv, NEW r \in Runner, Upload(r)
  PROVE  IInv'
<1> USE PublicationAssumption DEF PublicationAssumption
<1> DEFINE a0 == attempt[r]
<1>1. /\ a0 \in Attempt /\ fate[a0] = "unsent" /\ remote[a0].intent = r
      /\ Here(r)[a0].intent = r
  BY DEF Upload, IInv, TypeOK, ClaimInv, Intending, Owning
<1>2. /\ pc[r] = "upload" /\ pc' = [pc EXCEPT ![r] = "sent"]
      /\ fate' = [fate EXCEPT ![a0] = "inflight"]
      /\ UNCHANGED <<flock, attempt, evidence, result, local, remote, visible>>
  BY DEF Upload, Goto
<1>3. \A a \in Attempt: fate[a] = "rejected" => fate'[a] = "rejected"
  BY <1>1, <1>2 DEF IInv, TypeOK
<1>4. TypeOK'
  BY <1>1, <1>2 DEF IInv, TypeOK, Places, Intending, Owning
<1>5. FlockInv'
  BY <1>2 DEF IInv, TypeOK, FlockInv
<1>6. ClaimInv'
  <2>1. ASSUME NEW s \in Runner \ {r}
        PROVE  /\ pc'[s] = pc[s] /\ attempt[s] \in Attempt
               /\ pc[s] \in Owning => attempt[s] # a0
    BY <1>1, <1>2 DEF IInv, TypeOK, ClaimInv
  <2>2. pc'[r] = "sent"
    BY <1>2 DEF IInv, TypeOK
  <2>3. ASSUME NEW s \in Runner, pc'[s] \in {"owner?", "upload"}
        PROVE  fate'[attempt[s]] = "unsent"
    BY <1>2, <2>1, <2>2, <2>3 DEF IInv, TypeOK, ClaimInv, Owning
  <2>4. \A a \in Attempt: remote[a].intent = None => fate'[a] = "unsent"
    BY <1>1, <1>2 DEF IInv, TypeOK, ClaimInv
  <2>5. ASSUME NEW s \in Runner
        PROVE  /\ pc'[s] = "intend" => Here(s)[attempt[s]].intent = None
               /\ pc'[s] \in Owning => remote[attempt[s]].intent = s
               /\ pc'[s] \in Intending => Here(s)[attempt[s]].intent = s
    BY <1>1, <2>1, <2>2 DEF IInv, ClaimInv
  <2> QED
    BY <1>2, <2>3, <2>4, <2>5 DEF ClaimInv, Here
<1>7. TruthInv'
  <2>1. RejectionsAreTrue'
    BY <1>2, <1>3 DEF IInv, TruthInv, RejectionsAreTrue
  <2>2. ASSUME NEW s \in Runner, pc'[s] \in Weighing
        PROVE  /\ evidence[s] \in Evidence
               /\ evidence[s].outcome \in {"rejected", "attested"}
               /\ fate'[evidence[s].attempt] = "rejected"
    <3>1. /\ evidence[s] \in Evidence /\ fate[evidence[s].attempt] = "rejected"
          /\ evidence[s].outcome \in {"rejected", "attested"}
      BY <1>2, <2>2 DEF IInv, TypeOK, TruthInv, Weighing
    <3>2. evidence[s].attempt \in Attempt
      BY <3>1 DEF Evidence
    <3> QED
      BY <1>3, <3>1, <3>2
  <2>3. ASSUME NEW s \in Runner
        PROVE  /\ pc'[s] \in {"start", "absent?", "unclaimed?"} => attempt[s] = 0
               /\ pc'[s] = "start" => evidence[s] = None /\ result[s] = None
               /\ result[s] = "rejected" => fate'[attempt[s]] = "rejected"
    BY <1>2, <1>3 DEF IInv, TypeOK, TruthInv
  <2> QED
    BY <1>2, <2>1, <2>2, <2>3 DEF TruthInv
<1>8. ChainInv'
  BY <1>2, <1>3 DEF IInv, ChainInv
<1> QED
  BY <1>4, <1>5, <1>6, <1>7, <1>8 DEF IInv

\* The outcome a runner carries on is the registry's own word, or no claim.
LEMMA FailedPreserves ==
  ASSUME IInv, NEW r \in Runner, Failed(r)
  PROVE  IInv'
<1> USE PublicationAssumption DEF PublicationAssumption
<1>1. PICK o \in {"rejected", "uncertain"}:
        /\ o = "rejected" => fate[attempt[r]] = "rejected"
        /\ result' = [result EXCEPT ![r] = o]
        /\ pc' = [pc EXCEPT ![r] = "report locally"]
        /\ pc[r] = "sent"
        /\ UNCHANGED <<flock, attempt, evidence, local, remote, fate, visible>>
  BY DEF Failed, Goto
<1>2. TypeOK'
  BY <1>1 DEF IInv, TypeOK, Places, Intending, Owning
<1>3. FlockInv'
  BY <1>1 DEF IInv, TypeOK, FlockInv
<1>4. ClaimInv'
  BY <1>1 DEF IInv, TypeOK, ClaimInv, Here, Intending, Owning
<1>5. TruthInv'
  BY <1>1 DEF IInv, TypeOK, TruthInv, RejectionsAreTrue, Weighing
<1>6. ChainInv'
  BY <1>1 DEF IInv, TypeOK, ChainInv
<1> QED
  BY <1>2, <1>3, <1>4, <1>5, <1>6 DEF IInv

\* The registry never takes a decision back.
LEMMA RegistryPreserves ==
  ASSUME IInv, Appear \/ \E a \in Attempt: Decide(a)
  PROVE  IInv'
<1>1. CASE Appear
  <2>1. /\ UNCHANGED <<pc, flock, attempt, evidence, result, local, remote, fate>>
        /\ visible' = TRUE
    BY <1>1 DEF Appear
  <2>2. TypeOK'
    BY <2>1 DEF IInv, TypeOK
  <2>3. FlockInv' /\ ChainInv'
    BY <2>1 DEF IInv, FlockInv, ChainInv
  <2>4. ClaimInv'
    BY <2>1 DEF IInv, ClaimInv, Here
  <2>5. TruthInv'
    BY <2>1 DEF IInv, TruthInv, RejectionsAreTrue
  <2> QED
    BY <2>2, <2>3, <2>4, <2>5 DEF IInv
<1>2. ASSUME NEW a0 \in Attempt, Decide(a0) PROVE IInv'
  <2>1. PICK f \in {"accepted", "rejected", "dropped"}:
          fate' = [fate EXCEPT ![a0] = f]
    BY <1>2 DEF Decide
  <2>2. /\ fate[a0] = "inflight"
        /\ UNCHANGED <<pc, flock, attempt, evidence, result, local, remote, visible>>
    BY <1>2 DEF Decide
  <2>3. \A a \in Attempt: fate[a] \in {"rejected", "unsent"} => fate'[a] = fate[a]
    BY <2>1, <2>2 DEF IInv, TypeOK
  <2>4. TypeOK'
    BY <2>1, <2>2 DEF IInv, TypeOK
  <2>5. FlockInv'
    BY <2>2 DEF IInv, FlockInv
  <2>6. ClaimInv'
    BY <2>2, <2>3 DEF IInv, TypeOK, ClaimInv, Here
  <2>7. TruthInv'
    <3>1. RejectionsAreTrue'
      BY <2>2, <2>3 DEF IInv, TruthInv, RejectionsAreTrue
    <3>2. \A s \in Runner: evidence[s] \in Evidence => evidence[s].attempt \in Attempt
      BY DEF Evidence
    <3> QED
      BY <2>2, <2>3, <3>1, <3>2 DEF IInv, TypeOK, TruthInv
  <2>8. ChainInv'
    BY <2>2, <2>3 DEF IInv, ChainInv
  <2> QED
    BY <2>4, <2>5, <2>6, <2>7, <2>8 DEF IInv
<1> QED
  BY <1>1, <1>2

LEMMA NextPreserves ==
  IInv /\ [Next]_vars => IInv'
<1> SUFFICES ASSUME IInv, [Next]_vars PROVE IInv'
  OBVIOUS
<1>1. CASE UNCHANGED vars
  BY <1>1 DEF vars, IInv, TypeOK, FlockInv, ClaimInv, Here, TruthInv,
              RejectionsAreTrue, ChainInv
<1>2. CASE Appear \/ \E a \in Attempt: Decide(a)
  BY <1>2, RegistryPreserves
<1>3. ASSUME NEW r \in Runner, StartPublish(r) \/ StartRecovery(r) \/ Crash(r)
      PROVE  IInv'
  BY <1>3, StartPublishPreserves, StartRecoveryPreserves, LooksPreserve
<1>4. ASSUME NEW r \in Runner, Step(r) PROVE IInv'
  BY <1>4, LooksPreserve, WriteIntentPreserves, PostClaimPreserves,
     UploadPreserves, FailedPreserves, ReportsPreserve, RespondLocallyPreserves,
     RespondPreserves, RecordLocallyPreserves, RecordPreserves DEF Step
<1> QED
  BY <1>1, <1>2, <1>3, <1>4 DEF Next

\* The lock, the claims, the outcomes and their order stay consistent, for any
\* runners, roots and bound.
THEOREM Invariance == Spec => []IInv
<1>1. Init => IInv
  BY InitEstablishes
<1>2. IInv /\ [Next]_vars => IInv'
  BY NextPreserves
<1> QED
  BY <1>1, <1>2, PTL DEF Spec

\* The variables keep their types.
THEOREM TypeCorrect == Spec => []TypeOK
<1>1. IInv => TypeOK
  BY DEF IInv
<1> QED
  BY <1>1, Invariance, PTL

\* Every request is journaled first: by its sender, here and on the release.
THEOREM RequestsAreJournaled == Spec => []JournaledBeforeUpload
<1>1. IInv => JournaledBeforeUpload
  BY DEF IInv, ClaimInv, JournaledBeforeUpload, Intending, Owning
<1> QED
  BY <1>1, Invariance, PTL

\* A rejection on record did happen, so recovery never acts on a wrong one.
THEOREM RecordedRejectionsHappened == Spec => []RejectionsAreTrue
<1>1. IInv => RejectionsAreTrue
  BY DEF IInv, TruthInv
<1> QED
  BY <1>1, Invariance, PTL

-----------------------------------------------------------------------------
\* The only step that sends is allowed to: earlier attempts were rejected, and
\* a later one would have been claimed only after this one was.
LEMMA UploadIsPromised ==
  ASSUME IInv, NEW r \in Runner, Upload(r)
  PROVE  Promise!Send(attempt[r]) /\ attempt[r] \in Attempt
<1> USE PublicationAssumption DEF PublicationAssumption
<1> DEFINE a0 == attempt[r]
<1>1. /\ a0 \in Attempt /\ fate[a0] = "unsent" /\ remote[a0].intent = r
  BY DEF Upload, IInv, TypeOK, ClaimInv, Owning
<1>2. \A b \in Attempt: b < a0 => fate[b] = "rejected"
  BY DEF IInv, ChainInv
<1>3. ASSUME NEW b \in Attempt, b > a0 PROVE fate[b] = "unsent"
  <2>1. a0 < b
    BY <1>1, <1>3 DEF Attempt
  <2>2. remote[b].intent = None
    BY <1>1, <2>1 DEF IInv, ChainInv
  <2> QED
    BY <2>2 DEF IInv, ClaimInv
<1> QED
  BY <1>1, <1>2, <1>3 DEF Upload, Promise!Send, Promise!Attempt, Attempt

LEMMA StepsArePromised ==
  IInv /\ [Next]_vars => [Promise!Next]_<<fate, visible>>
<1> SUFFICES ASSUME IInv, [Next]_vars PROVE [Promise!Next]_<<fate, visible>>
  OBVIOUS
<1>1. CASE UNCHANGED vars
  BY <1>1 DEF vars
<1>2. CASE Appear
  BY <1>2 DEF Appear, Promise!Next, Promise!Appear, Promise!Attempt, Attempt
<1>3. ASSUME NEW a \in Attempt, Decide(a) PROVE Promise!Next
  BY <1>3 DEF Decide, Promise!Next, Promise!Decide, Promise!Attempt, Attempt
<1>4. ASSUME NEW r \in Runner, Upload(r) PROVE Promise!Next
  BY <1>4, UploadIsPromised DEF Promise!Next, Promise!Attempt, Attempt
<1>5. ASSUME NEW r \in Runner,
             StartPublish(r) \/ StartRecovery(r) \/ Crash(r) \/ Step(r),
             ~Upload(r)
      PROVE  UNCHANGED <<fate, visible>>
  BY <1>5 DEF StartPublish, StartRecovery, Crash, Step, LookAtRegistry,
     LookAtJournal, WriteIntent, LookForClaim, PostClaim, VerifyClaim, Accepted,
     Failed, ReportLocally, Report, LookAgain, RespondLocally, Respond,
     AwaitVisibility, CompleteLocally, Complete, CheckOriginal, LookBeforeRecovery,
     LookForCompletion, LookForResponse, CheckCaptured, RecordLocally, Record,
     LookForRecovery
<1> QED
  BY <1>1, <1>2, <1>3, <1>4, <1>5 DEF Next

\* Publication implements UploadAtMostOnce: however many runners race, crash,
\* lose answers and recover, the registry sees one request per attempt, and a
\* further attempt only after definite rejections.
THEOREM PublicationKeepsPromise == Spec => AtMostOneUpload
<1>1. Init => Promise!Init
  BY DEF Init, Promise!Init, Promise!Attempt, Attempt
<1>2. IInv /\ [Next]_vars => [Promise!Next]_<<fate, visible>>
  BY StepsArePromised
<1> QED
  BY <1>1, <1>2, Invariance, PTL DEF Spec, AtMostOneUpload, Promise!Spec

-----------------------------------------------------------------------------
\* Every write of a record finds the field empty, or equal.
LEMMA StepsKeepRecords ==
  ASSUME IInv, NEW r \in Runner,
         StartPublish(r) \/ StartRecovery(r) \/ Crash(r) \/ Step(r)
  PROVE  /\ \A a \in Attempt: Kept(remote[a], remote'[a])
         /\ \A d \in Root, a \in Attempt: Kept(local[d][a], local'[d][a])
<1> USE DEF Kept
<1> DEFINE d0 == RootOf[r]
           a0 == attempt[r]
<1>1. d0 \in Root /\ a0 \in Attempt
  BY PublicationAssumption DEF PublicationAssumption, IInv, TypeOK
<1>2. ASSUME NEW q \in Records, NEW v, NEW b
      PROVE  /\ [q EXCEPT !.intent = v].intent = v
             /\ [q EXCEPT !.intent = v].error = q.error
             /\ [q EXCEPT !.error = v].error = v
             /\ [q EXCEPT !.error = v].intent = q.intent
             /\ Kept(q, [q EXCEPT !.response = b])
             /\ Kept(q, [q EXCEPT !.complete = b])
             /\ Kept(q, [q EXCEPT !.legacy = b])
  BY DEF Records
<1>3. ASSUME NEW d1 \in Root, NEW b1 \in Attempt, NEW new,
             local' = [local EXCEPT ![d1] = [local[d1] EXCEPT ![b1] = new]],
             Kept(local[d1][b1], new)
      PROVE  \A d \in Root, a \in Attempt: Kept(local[d][a], local'[d][a])
  BY <1>3 DEF IInv, TypeOK
<1>4. ASSUME NEW b1 \in Attempt, NEW new,
             remote' = [remote EXCEPT ![b1] = new], Kept(remote[b1], new)
      PROVE  \A a \in Attempt: Kept(remote[a], remote'[a])
  BY <1>4 DEF IInv, TypeOK
<1>5. UNCHANGED local => \A d \in Root, a \in Attempt: Kept(local[d][a], local'[d][a])
  OBVIOUS
<1>6. UNCHANGED remote => \A a \in Attempt: Kept(remote[a], remote'[a])
  OBVIOUS
<1>7. /\ \A d \in Root, a \in Attempt: local[d][a] \in Records
      /\ \A a \in Attempt: remote[a] \in Records
  BY DEF IInv, TypeOK
<1> HIDE DEF Kept
<1>8. CASE WriteIntent(r)
  <2>1. local[d0][a0].intent = None
    BY <1>8 DEF WriteIntent, IInv, ClaimInv, Here
  <2>2. /\ local' = [local EXCEPT ![d0] =
                       [local[d0] EXCEPT ![a0] = [local[d0][a0] EXCEPT !.intent = r]]]
        /\ UNCHANGED remote
    BY <1>8 DEF WriteIntent
  <2>3. Kept(local[d0][a0], [local[d0][a0] EXCEPT !.intent = r])
    BY <1>1, <1>2, <1>7, <2>1 DEF Kept
  <2> QED
    BY <1>1, <1>3, <1>6, <2>2, <2>3
<1>9. CASE PostClaim(r)
  <2>1. UNCHANGED local
    BY <1>9 DEF PostClaim
  <2>2. CASE remote[a0].intent # None
    BY <1>5, <1>6, <1>9, <2>1, <2>2 DEF PostClaim
  <2>3. CASE remote[a0].intent = None
    <3>1. remote' = [remote EXCEPT ![a0] = [remote[a0] EXCEPT !.intent = r]]
      BY <1>9, <2>3 DEF PostClaim
    <3>2. Kept(remote[a0], [remote[a0] EXCEPT !.intent = r])
      BY <1>1, <1>2, <1>7, <2>3 DEF Kept
    <3> QED
      BY <1>1, <1>4, <1>5, <2>1, <3>1, <3>2
  <2> QED
    BY <2>2, <2>3
<1>10. CASE ReportLocally(r)
  <2>1. CASE local[d0][a0].error \in {None, result[r]}
    <3>1. /\ local' = [local EXCEPT ![d0] = [local[d0] EXCEPT ![a0] =
                         [local[d0][a0] EXCEPT !.error = result[r]]]]
          /\ UNCHANGED remote
      BY <1>10, <2>1 DEF ReportLocally, Here
    <3>2. Kept(local[d0][a0], [local[d0][a0] EXCEPT !.error = result[r]])
      BY <1>1, <1>2, <1>7, <2>1 DEF Kept
    <3> QED
      BY <1>1, <1>3, <1>6, <3>1, <3>2
  <2>2. CASE local[d0][a0].error \notin {None, result[r]}
    BY <1>5, <1>6, <1>10, <2>2 DEF ReportLocally, Here
  <2> QED
    BY <2>1, <2>2
<1>11. CASE Report(r)
  <2>1. UNCHANGED local
    BY <1>11 DEF Report
  <2>2. CASE UNCHANGED remote
    BY <1>5, <1>6, <2>1, <2>2
  <2>3. CASE /\ remote[a0].error \in {None, result[r]}
             /\ remote' = [remote EXCEPT ![a0].error = result[r]]
    <3>1. remote' = [remote EXCEPT ![a0] = [remote[a0] EXCEPT !.error = result[r]]]
      BY <2>3
    <3>2. Kept(remote[a0], [remote[a0] EXCEPT !.error = result[r]])
      BY <1>1, <1>2, <1>7, <2>3 DEF Kept
    <3> QED
      BY <1>1, <1>4, <1>5, <2>1, <3>1, <3>2
  <2> QED
    BY <1>11, <2>2, <2>3 DEF Report
<1>12. CASE RespondLocally(r) \/ CompleteLocally(r)
  <2>1. UNCHANGED remote
    BY <1>12 DEF RespondLocally, CompleteLocally
  <2>2. CASE local' = [local EXCEPT ![d0] = [local[d0] EXCEPT ![a0] =
                         [local[d0][a0] EXCEPT !.response = TRUE]]]
    <3>1. Kept(local[d0][a0], [local[d0][a0] EXCEPT !.response = TRUE])
      BY <1>1, <1>2, <1>7
    <3> QED
      BY <1>1, <1>3, <1>6, <2>1, <2>2, <3>1
  <2>3. CASE local' = [local EXCEPT ![d0] = [local[d0] EXCEPT ![a0] =
                         [local[d0][a0] EXCEPT !.complete = TRUE]]]
    <3>1. Kept(local[d0][a0], [local[d0][a0] EXCEPT !.complete = TRUE])
      BY <1>1, <1>2, <1>7
    <3> QED
      BY <1>1, <1>3, <1>6, <2>1, <2>3, <3>1
  <2> QED
    BY <1>12, <2>2, <2>3 DEF RespondLocally, CompleteLocally
<1>13. CASE Respond(r) \/ Complete(r)
  <2>1. UNCHANGED local
    BY <1>13 DEF Respond, Complete
  <2>2. CASE UNCHANGED remote
    BY <1>5, <1>6, <2>1, <2>2
  <2>3. CASE remote' = [remote EXCEPT ![a0] = [remote[a0] EXCEPT !.response = TRUE]]
    <3>1. Kept(remote[a0], [remote[a0] EXCEPT !.response = TRUE])
      BY <1>1, <1>2, <1>7
    <3> QED
      BY <1>1, <1>4, <1>5, <2>1, <2>3, <3>1
  <2>4. CASE remote' = [remote EXCEPT ![a0] = [remote[a0] EXCEPT !.complete = TRUE]]
    <3>1. Kept(remote[a0], [remote[a0] EXCEPT !.complete = TRUE])
      BY <1>1, <1>2, <1>7
    <3> QED
      BY <1>1, <1>4, <1>5, <2>1, <2>4, <3>1
  <2> QED
    BY <1>13, <2>2, <2>3, <2>4 DEF Respond, Complete
<1>14. CASE RecordLocally(r) \/ Record(r)
  <2> DEFINE b0 == evidence[r].attempt
  <2>1. b0 \in Attempt /\ evidence[r].outcome \in {"rejected", "attested"}
    <3>1. evidence[r] \in Evidence /\ evidence[r].outcome \in {"rejected", "attested"}
      BY <1>14 DEF RecordLocally, Record, IInv, TruthInv, Weighing
    <3> QED
      BY <3>1 DEF Evidence
  <2>2. CASE UNCHANGED <<local, remote>>
    BY <1>5, <1>6, <2>2
  <2>3. CASE local' = [local EXCEPT ![d0][b0].legacy = TRUE] /\ UNCHANGED remote
    <3>1. local' = [local EXCEPT ![d0] = [local[d0] EXCEPT ![b0] =
                      [local[d0][b0] EXCEPT !.legacy = TRUE]]]
      BY <2>3
    <3>2. Kept(local[d0][b0], [local[d0][b0] EXCEPT !.legacy = TRUE])
      BY <1>1, <1>2, <1>7, <2>1
    <3>3. \A d \in Root, a \in Attempt: Kept(local[d][a], local'[d][a])
      BY <1>1, <1>3, <2>1, <3>1, <3>2
    <3> QED
      BY <1>6, <2>3, <3>3
  <2>4. CASE remote' = [remote EXCEPT ![b0].legacy = TRUE] /\ UNCHANGED local
    <3>1. remote' = [remote EXCEPT ![b0] = [remote[b0] EXCEPT !.legacy = TRUE]]
      BY <2>4
    <3>2. Kept(remote[b0], [remote[b0] EXCEPT !.legacy = TRUE])
      BY <1>2, <1>7, <2>1
    <3>3. \A a \in Attempt: Kept(remote[a], remote'[a])
      BY <1>4, <2>1, <3>1, <3>2
    <3> QED
      BY <1>5, <2>4, <3>3
  <2>5. CASE /\ local[d0][b0].error \in {None, "rejected"}
             /\ local' = [local EXCEPT ![d0][b0].error = "rejected"]
             /\ UNCHANGED remote
    <3>1. local' = [local EXCEPT ![d0] = [local[d0] EXCEPT ![b0] =
                      [local[d0][b0] EXCEPT !.error = "rejected"]]]
      BY <2>5
    <3>2. Kept(local[d0][b0], [local[d0][b0] EXCEPT !.error = "rejected"])
      BY <1>1, <1>2, <1>7, <2>1, <2>5 DEF Kept
    <3>3. \A d \in Root, a \in Attempt: Kept(local[d][a], local'[d][a])
      BY <1>1, <1>3, <2>1, <3>1, <3>2
    <3> QED
      BY <1>6, <2>5, <3>3
  <2>6. CASE RecordLocally(r)
    BY <2>1, <2>2, <2>3, <2>5, <2>6 DEF RecordLocally, Recordable
  <2>7. CASE Record(r)
    BY <2>2, <2>4, <2>7 DEF Record
  <2> QED
    BY <1>14, <2>6, <2>7
<1>15. CASE \/ StartPublish(r) \/ StartRecovery(r) \/ Crash(r)
            \/ LookAtRegistry(r) \/ LookAtJournal(r) \/ LookForClaim(r)
            \/ VerifyClaim(r) \/ Upload(r) \/ Accepted(r) \/ Failed(r)
            \/ LookAgain(r) \/ AwaitVisibility(r) \/ CheckOriginal(r)
            \/ LookBeforeRecovery(r) \/ LookForCompletion(r) \/ LookForResponse(r)
            \/ CheckCaptured(r) \/ LookForRecovery(r)
  <2>1. UNCHANGED <<local, remote>>
    BY <1>15 DEF StartPublish, StartRecovery, Crash, LookAtRegistry,
       LookAtJournal, LookForClaim, VerifyClaim, Upload, Accepted, Failed,
       LookAgain, AwaitVisibility, CheckOriginal, LookBeforeRecovery,
       LookForCompletion, LookForResponse, CheckCaptured, LookForRecovery
  <2> QED
    BY <1>5, <1>6, <2>1
<1> QED
  BY <1>8, <1>9, <1>10, <1>11, <1>12, <1>13, <1>14, <1>15 DEF Step

\* No record, local or on the release, is ever replaced by another.
THEOREM RecordsAreImmutable == Spec => JournalImmutable
<1>1. IInv /\ [Next]_vars =>
        [\A a \in Attempt: /\ Kept(remote[a], remote'[a])
                           /\ \A d \in Root: Kept(local[d][a], local'[d][a])]_vars
  <2> SUFFICES ASSUME IInv, Next
               PROVE  \A a \in Attempt:
                        /\ Kept(remote[a], remote'[a])
                        /\ \A d \in Root: Kept(local[d][a], local'[d][a])
    OBVIOUS
  <2>1. CASE Appear \/ \E a \in Attempt: Decide(a)
    BY <2>1 DEF Appear, Decide, Kept
  <2>2. CASE \E r \in Runner: StartPublish(r) \/ StartRecovery(r) \/ Step(r) \/ Crash(r)
    BY <2>2, StepsKeepRecords
  <2> QED
    BY <2>1, <2>2 DEF Next
<1> QED
  BY <1>1, Invariance, PTL DEF Spec, JournalImmutable

-----------------------------------------------------------------------------
\* Rejections stay recoverable.

\* What a record has after one of its fields was written, and where.
LEMMA RecordWrites ==
  ASSUME NEW q \in Records, NEW v
  PROVE  /\ [q EXCEPT !.intent = v].intent = v
         /\ [q EXCEPT !.intent = v].error = q.error
         /\ [q EXCEPT !.intent = v].response = q.response
         /\ [q EXCEPT !.intent = v].complete = q.complete
         /\ [q EXCEPT !.error = v].intent = q.intent
         /\ [q EXCEPT !.error = v].error = v
         /\ [q EXCEPT !.error = v].response = q.response
         /\ [q EXCEPT !.error = v].complete = q.complete
         /\ [q EXCEPT !.legacy = v].intent = q.intent
         /\ [q EXCEPT !.legacy = v].error = q.error
         /\ [q EXCEPT !.legacy = v].response = q.response
         /\ [q EXCEPT !.legacy = v].complete = q.complete
         /\ [q EXCEPT !.response = v].intent = q.intent
         /\ [q EXCEPT !.response = v].error = q.error
         /\ [q EXCEPT !.response = v].complete = q.complete
         /\ [q EXCEPT !.complete = v].intent = q.intent
         /\ [q EXCEPT !.complete = v].error = q.error
         /\ [q EXCEPT !.complete = v].response = q.response
BY DEF Records

LEMMA RemoteWrites ==
  ASSUME IInv, NEW b1 \in Attempt, NEW new, remote' = [remote EXCEPT ![b1] = new]
  PROVE  \A a \in Attempt: remote'[a] = IF a = b1 THEN new ELSE remote[a]
BY DEF IInv, TypeOK

\* What the steps write: acceptance where it is known, and on the release what the
\* claim's root has.
Backed ==
  \A a \in Attempt:
    /\ remote'[a].complete => remote[a].complete \/ visible
    /\ remote'[a].response => remote[a].response \/ fate[a] = "accepted"
    /\ \A d \in Root:
         /\ local'[d][a].complete => local[d][a].complete \/ visible
         /\ local'[d][a].response => local[d][a].response \/ fate[a] = "accepted"
    /\ remote'[a].intent # remote[a].intent =>
         local[RootOf[remote'[a].intent]][a].intent = remote'[a].intent
    /\ remote'[a].error # remote[a].error =>
         /\ remote[a].intent # None
         /\ local[RootOf[remote[a].intent]][a].error = remote'[a].error

LEMMA QuietIsBacked ==
  ASSUME UNCHANGED <<local, remote>>
  PROVE  Backed
BY DEF Backed

LEMMA LocalIsBacked ==
  ASSUME IInv, UNCHANGED remote, NEW d1 \in Root, NEW b1 \in Attempt, NEW new,
         local' = [local EXCEPT ![d1] = [local[d1] EXCEPT ![b1] = new]],
         new.complete => local[d1][b1].complete \/ visible,
         new.response => local[d1][b1].response \/ fate[b1] = "accepted"
  PROVE  Backed
<1>1. \A d \in Root, a \in Attempt:
        local'[d][a] = IF d = d1 /\ a = b1 THEN new ELSE local[d][a]
  BY DEF IInv, TypeOK
<1> QED
  BY <1>1 DEF Backed

LEMMA StepsAreBacked ==
  ASSUME IInv, RecoveryInv, NEW r \in Runner,
         StartPublish(r) \/ StartRecovery(r) \/ Crash(r) \/ Step(r)
  PROVE  Backed
<1> DEFINE d0 == RootOf[r]
           a0 == attempt[r]
<1>1. d0 \in Root /\ a0 \in Attempt
  BY PublicationAssumption DEF PublicationAssumption, IInv, TypeOK
<1>2. /\ \A d \in Root, a \in Attempt: local[d][a] \in Records
      /\ \A a \in Attempt: remote[a] \in Records
  BY DEF IInv, TypeOK
<1>3. pc[r] \in Owning => remote[a0].intent = r
  BY DEF IInv, ClaimInv
<1>4. CASE WriteIntent(r)
  <2> DEFINE new == [local[d0][a0] EXCEPT !.intent = r]
  <2>1. /\ local' = [local EXCEPT ![d0] = [local[d0] EXCEPT ![a0] = new]]
        /\ UNCHANGED remote
    BY <1>4 DEF WriteIntent
  <2>2. /\ new.response = local[d0][a0].response
        /\ new.complete = local[d0][a0].complete
    BY <1>1, <1>2, RecordWrites
  <2> HIDE DEF new
  <2> QED
    BY <1>1, <2>1, <2>2, LocalIsBacked
<1>5. CASE PostClaim(r)
  <2>1. UNCHANGED local
    BY <1>5 DEF PostClaim
  <2>2. local[d0][a0].intent = r
    BY <1>5 DEF PostClaim, IInv, ClaimInv, Here, Intending
  <2>3. CASE remote[a0].intent # None
    BY <1>5, <2>1, <2>3, QuietIsBacked DEF PostClaim
  <2>4. CASE remote[a0].intent = None
    <3> DEFINE new == [remote[a0] EXCEPT !.intent = r]
    <3>1. remote' = [remote EXCEPT ![a0] = new]
      BY <1>5, <2>4 DEF PostClaim
    <3>2. /\ new.intent = r /\ new.error = remote[a0].error
          /\ new.response = remote[a0].response /\ new.complete = remote[a0].complete
      BY <1>1, <1>2, RecordWrites
    <3> HIDE DEF new
    <3>3. \A a \in Attempt: remote'[a] = IF a = a0 THEN new ELSE remote[a]
      BY <1>1, <3>1, RemoteWrites
    <3> QED
      BY <2>1, <2>2, <3>2, <3>3 DEF Backed
  <2> QED
    BY <2>3, <2>4
<1>6. CASE ReportLocally(r)
  <2>1. CASE local[d0][a0].error \in {None, result[r]}
    <3> DEFINE new == [local[d0][a0] EXCEPT !.error = result[r]]
    <3>1. /\ local' = [local EXCEPT ![d0] = [local[d0] EXCEPT ![a0] = new]]
          /\ UNCHANGED remote
      BY <1>6, <2>1 DEF ReportLocally, Here
    <3>2. /\ new.response = local[d0][a0].response
          /\ new.complete = local[d0][a0].complete
      BY <1>1, <1>2, RecordWrites
    <3> HIDE DEF new
    <3> QED
      BY <1>1, <3>1, <3>2, LocalIsBacked
  <2>2. CASE local[d0][a0].error \notin {None, result[r]}
    BY <1>6, <2>2, QuietIsBacked DEF ReportLocally, Here
  <2> QED
    BY <2>1, <2>2
<1>7. CASE Report(r)
  <2>1. UNCHANGED local
    BY <1>7 DEF Report
  <2>2. remote[a0].intent = r /\ local[d0][a0].error = result[r] /\ r # None
    BY <1>3, <1>7, PublicationAssumption
       DEF PublicationAssumption, Report, RecoveryInv, Here, Owning
  <2>3. CASE UNCHANGED remote
    BY <2>1, <2>3, QuietIsBacked
  <2>4. CASE remote' = [remote EXCEPT ![a0].error = result[r]]
    <3> DEFINE new == [remote[a0] EXCEPT !.error = result[r]]
    <3>1. remote' = [remote EXCEPT ![a0] = new]
      BY <2>4
    <3>2. /\ new.intent = remote[a0].intent /\ new.error = result[r]
          /\ new.response = remote[a0].response /\ new.complete = remote[a0].complete
      BY <1>1, <1>2, RecordWrites
    <3> HIDE DEF new
    <3>3. \A a \in Attempt: remote'[a] = IF a = a0 THEN new ELSE remote[a]
      BY <1>1, <3>1, RemoteWrites
    <3> QED
      BY <2>1, <2>2, <3>2, <3>3 DEF Backed
  <2> QED
    BY <1>7, <2>3, <2>4 DEF Report
<1>8. CASE RespondLocally(r)
  <2> DEFINE new == [local[d0][a0] EXCEPT !.response = TRUE]
  <2>1. /\ local' = [local EXCEPT ![d0] = [local[d0] EXCEPT ![a0] = new]]
        /\ UNCHANGED remote
    BY <1>8 DEF RespondLocally
  <2>2. fate[a0] = "accepted"
    BY <1>8 DEF RespondLocally, RecoveryInv
  <2>3. new.complete = local[d0][a0].complete
    BY <1>1, <1>2, RecordWrites
  <2> HIDE DEF new
  <2> QED
    BY <1>1, <2>1, <2>2, <2>3, LocalIsBacked
<1>9. CASE CompleteLocally(r)
  <2> DEFINE new == [local[d0][a0] EXCEPT !.complete = TRUE]
  <2>1. /\ local' = [local EXCEPT ![d0] = [local[d0] EXCEPT ![a0] = new]]
        /\ UNCHANGED remote
    BY <1>9 DEF CompleteLocally
  <2>2. visible
    BY <1>9 DEF CompleteLocally, RecoveryInv
  <2>3. new.response = local[d0][a0].response
    BY <1>1, <1>2, RecordWrites
  <2> HIDE DEF new
  <2> QED
    BY <1>1, <2>1, <2>2, <2>3, LocalIsBacked
<1>10. CASE Respond(r) \/ Complete(r)
  <2>1. UNCHANGED local
    BY <1>10 DEF Respond, Complete
  <2>2. CASE UNCHANGED remote
    BY <2>1, <2>2, QuietIsBacked
  <2>3. ASSUME NEW new,
               remote' = [remote EXCEPT ![a0] = new],
               new.intent = remote[a0].intent, new.error = remote[a0].error,
               new.response => remote[a0].response \/ fate[a0] = "accepted",
               new.complete => remote[a0].complete \/ visible
        PROVE  Backed
    <3>1. \A a \in Attempt: remote'[a] = IF a = a0 THEN new ELSE remote[a]
      BY <1>1, <2>3, RemoteWrites
    <3> QED
      BY <2>1, <2>3, <3>1 DEF Backed
  <2>4. CASE Respond(r) /\ remote' = [remote EXCEPT ![a0].response = TRUE]
    <3>1. fate[a0] = "accepted"
      BY <2>4 DEF Respond, RecoveryInv
    <3> DEFINE new == [remote[a0] EXCEPT !.response = TRUE]
    <3>2. remote' = [remote EXCEPT ![a0] = new]
      BY <2>4
    <3>3. /\ new.intent = remote[a0].intent /\ new.error = remote[a0].error
          /\ new.complete = remote[a0].complete
      BY <1>1, <1>2, RecordWrites
    <3> HIDE DEF new
    <3> QED
      BY <2>3, <3>1, <3>2, <3>3
  <2>5. CASE Complete(r) /\ remote' = [remote EXCEPT ![a0].complete = TRUE]
    <3>1. visible
      BY <2>5 DEF Complete, RecoveryInv
    <3> DEFINE new == [remote[a0] EXCEPT !.complete = TRUE]
    <3>2. remote' = [remote EXCEPT ![a0] = new]
      BY <2>5
    <3>3. /\ new.intent = remote[a0].intent /\ new.error = remote[a0].error
          /\ new.response = remote[a0].response
      BY <1>1, <1>2, RecordWrites
    <3> HIDE DEF new
    <3> QED
      BY <2>3, <3>1, <3>2, <3>3
  <2> QED
    BY <1>10, <2>2, <2>4, <2>5 DEF Respond, Complete
<1>11. CASE RecordLocally(r) \/ Record(r)
  <2> DEFINE b0 == evidence[r].attempt
  <2>1. b0 \in Attempt
    <3>1. evidence[r] \in Evidence
      BY <1>11 DEF RecordLocally, Record, IInv, TruthInv, Weighing
    <3> QED
      BY <3>1 DEF Evidence
  <2>2. CASE UNCHANGED <<local, remote>>
    BY <2>2, QuietIsBacked
  <2>3. CASE local' = [local EXCEPT ![d0][b0].legacy = TRUE] /\ UNCHANGED remote
    <3> DEFINE new == [local[d0][b0] EXCEPT !.legacy = TRUE]
    <3>1. /\ local' = [local EXCEPT ![d0] = [local[d0] EXCEPT ![b0] = new]]
          /\ UNCHANGED remote
      BY <2>3
    <3>2. /\ new.response = local[d0][b0].response
          /\ new.complete = local[d0][b0].complete
      BY <1>1, <1>2, <2>1, RecordWrites
    <3> HIDE DEF new
    <3> QED
      BY <1>1, <2>1, <3>1, <3>2, LocalIsBacked
  <2>4. CASE remote' = [remote EXCEPT ![b0].legacy = TRUE] /\ UNCHANGED local
    <3> DEFINE there == [remote[b0] EXCEPT !.legacy = TRUE]
    <3>1. remote' = [remote EXCEPT ![b0] = there]
      BY <2>4
    <3>2. /\ there.intent = remote[b0].intent /\ there.error = remote[b0].error
          /\ there.response = remote[b0].response
          /\ there.complete = remote[b0].complete
      BY <1>2, <2>1, RecordWrites
    <3> HIDE DEF there
    <3>3. \A a \in Attempt: remote'[a] = IF a = b0 THEN there ELSE remote[a]
      BY <2>1, <3>1, RemoteWrites
    <3> QED
      BY <2>4, <3>2, <3>3 DEF Backed
  <2>5. ASSUME NEW v, local' = [local EXCEPT ![d0][b0].error = v], UNCHANGED remote
        PROVE  Backed
    <3> DEFINE new == [local[d0][b0] EXCEPT !.error = v]
    <3>1. /\ local' = [local EXCEPT ![d0] = [local[d0] EXCEPT ![b0] = new]]
          /\ UNCHANGED remote
      BY <2>5
    <3>2. /\ new.response = local[d0][b0].response
          /\ new.complete = local[d0][b0].complete
      BY <1>1, <1>2, <2>1, RecordWrites
    <3> HIDE DEF new
    <3> QED
      BY <1>1, <2>1, <3>1, <3>2, LocalIsBacked
  <2>6. CASE RecordLocally(r)
    BY <2>2, <2>3, <2>5, <2>6 DEF RecordLocally
  <2>7. CASE Record(r)
    BY <2>2, <2>4, <2>7 DEF Record
  <2> QED
    BY <1>11, <2>6, <2>7
<1>12. CASE \/ StartPublish(r) \/ StartRecovery(r) \/ Crash(r)
            \/ LookAtRegistry(r) \/ LookAtJournal(r) \/ LookForClaim(r)
            \/ VerifyClaim(r) \/ Upload(r) \/ Accepted(r) \/ Failed(r)
            \/ LookAgain(r) \/ AwaitVisibility(r) \/ CheckOriginal(r)
            \/ LookBeforeRecovery(r) \/ LookForCompletion(r) \/ LookForResponse(r)
            \/ CheckCaptured(r) \/ LookForRecovery(r)
  <2>1. UNCHANGED <<local, remote>>
    BY <1>12 DEF StartPublish, StartRecovery, Crash, LookAtRegistry,
       LookAtJournal, LookForClaim, VerifyClaim, Upload, Accepted, Failed,
       LookAgain, AwaitVisibility, CheckOriginal, LookBeforeRecovery,
       LookForCompletion, LookForResponse, CheckCaptured, LookForRecovery
  <2> QED
    BY <2>1, QuietIsBacked
<1> QED
  BY <1>4, <1>5, <1>6, <1>7, <1>8, <1>9, <1>10, <1>11, <1>12 DEF Step

\* Where a runner comes to, it knows what RecoveryInv says of that place.
Informed(r) ==
  /\ pc'[r] \in {"complete locally", "complete"} => visible
  /\ pc'[r] \in {"respond locally", "respond"} => fate[attempt'[r]] = "accepted"
  /\ pc'[r] \in {"report locally", "report"} => result'[r] # None
  /\ pc'[r] = "report" => local'[RootOf[r]][attempt'[r]].error = result'[r]

LEMMA StepsAreInformed ==
  ASSUME IInv, RecoveryInv, NEW r \in Runner,
         StartPublish(r) \/ StartRecovery(r) \/ Crash(r) \/ Step(r)
  PROVE  Informed(r)
<1>1. /\ pc \in [Runner -> Places] /\ result \in [Runner -> {"rejected", "uncertain", None}]
      /\ RootOf[r] \in Root /\ attempt[r] \in Attempt
      /\ local \in [Root -> [Attempt -> Records]]
  BY PublicationAssumption DEF PublicationAssumption, IInv, TypeOK
<1>2. CASE Accepted(r)
  BY <1>1, <1>2 DEF Accepted, Informed, Goto
<1>3. CASE Failed(r)
  <2>1. None \notin {"rejected", "uncertain"}
    BY PublicationAssumption DEF PublicationAssumption
  <2> QED
    BY <1>1, <1>3, <2>1 DEF Failed, Informed, Goto
<1>4. CASE ReportLocally(r)
  <2>1. CASE Here(r)[attempt[r]].error \in {None, result[r]}
    <3> DEFINE new == [local[RootOf[r]][attempt[r]] EXCEPT !.error = result[r]]
    <3>1. /\ local' = [local EXCEPT ![RootOf[r]] = [local[RootOf[r]] EXCEPT ![attempt[r]] = new]]
          /\ pc[r] = "report locally" /\ pc' = [pc EXCEPT ![r] = "report"]
          /\ UNCHANGED <<attempt, result>>
      BY <1>4, <2>1 DEF ReportLocally, Goto
    <3>2. new.error = result[r]
      BY <1>1, RecordWrites
    <3> HIDE DEF new
    <3>3. local'[RootOf[r]][attempt[r]] = new
      BY <1>1, <3>1
    <3>4. result[r] # None
      BY <3>1 DEF RecoveryInv
    <3> QED
      BY <1>1, <3>1, <3>2, <3>3, <3>4 DEF Informed
  <2>2. CASE Here(r)[attempt[r]].error \notin {None, result[r]}
    BY <1>1, <1>4, <2>2 DEF ReportLocally, End, Goto, Informed
  <2> QED
    BY <2>1, <2>2
<1>5. CASE LookAgain(r) \/ AwaitVisibility(r)
  BY <1>1, <1>5 DEF LookAgain, AwaitVisibility, End, Goto, Informed
<1>6. CASE RespondLocally(r)
  <2>1. fate[attempt[r]] = "accepted"
    BY <1>6 DEF RespondLocally, RecoveryInv
  <2> QED
    BY <1>1, <1>6, <2>1 DEF RespondLocally, Goto, Informed
<1>7. CASE CompleteLocally(r)
  <2>1. visible
    BY <1>7 DEF CompleteLocally, RecoveryInv
  <2> QED
    BY <1>1, <1>7, <2>1 DEF CompleteLocally, Goto, Informed
<1>8. CASE \/ StartPublish(r) \/ StartRecovery(r) \/ Crash(r)
           \/ LookAtRegistry(r) \/ LookAtJournal(r) \/ WriteIntent(r) \/ LookForClaim(r)
           \/ PostClaim(r) \/ VerifyClaim(r) \/ Upload(r) \/ Report(r) \/ Respond(r)
           \/ Complete(r) \/ CheckOriginal(r) \/ LookBeforeRecovery(r)
           \/ LookForCompletion(r) \/ LookForResponse(r) \/ CheckCaptured(r)
           \/ RecordLocally(r) \/ Record(r) \/ LookForRecovery(r)
  <2>1. pc'[r] \in {"absent?", "done", "unclaimed?", "intend", "claim?",
                    "claim", "owner?", "upload", "sent", "visible now?", "visible?",
                    "unrecovered?", "same intent?", "still absent?", "completed?", "answered?",
                    "captured?", "record locally", "record"}
    BY <1>1, <1>8 DEF StartPublish, StartRecovery, Crash, LookAtRegistry, LookAtJournal,
       WriteIntent, LookForClaim, PostClaim, VerifyClaim, Upload, Report, Respond,
       Complete, CheckOriginal, LookBeforeRecovery, LookForCompletion, LookForResponse,
       CheckCaptured, RecordLocally, Record, LookForRecovery, End, Goto
  <2> QED
    BY <2>1 DEF Informed
<1> QED
  BY <1>2, <1>3, <1>4, <1>5, <1>6, <1>7, <1>8 DEF Step

LEMMA StepsLeaveOthers ==
  ASSUME IInv, NEW r \in Runner,
         StartPublish(r) \/ StartRecovery(r) \/ Crash(r) \/ Step(r)
  PROVE  /\ \A s \in Runner \ {r}:
              /\ pc'[s] = pc[s] /\ attempt'[s] = attempt[s] /\ result'[s] = result[s]
              /\ evidence'[s] = evidence[s]
         /\ UNCHANGED visible
         /\ \A a \in Attempt: fate[a] = "accepted" => fate'[a] = "accepted"
<1>1. /\ pc \in [Runner -> Places] /\ attempt \in [Runner -> Attempt]
      /\ result \in [Runner -> {"rejected", "uncertain", None}]
      /\ evidence \in [Runner -> Evidence \cup {None}]
      /\ fate \in [Attempt -> {"unsent", "inflight", "accepted", "rejected", "dropped"}]
  BY DEF IInv, TypeOK
<1>2. CASE Upload(r)
  <2>1. fate[attempt[r]] = "unsent"
    BY <1>2 DEF Upload, IInv, ClaimInv
  <2> QED
    BY <1>1, <1>2, <2>1 DEF Upload, Goto
<1>3. CASE StartRecovery(r)
  <2>1. PICK e \in Reviewable: /\ attempt' = [attempt EXCEPT ![r] = e.attempt + 1]
                              /\ evidence' = [evidence EXCEPT ![r] = e]
    BY <1>3 DEF StartRecovery
  <2>2. /\ pc' = [pc EXCEPT ![r] = "same intent?"]
        /\ UNCHANGED <<result, fate, visible>>
    BY <1>3 DEF StartRecovery, Goto
  <2> QED
    BY <1>1, <2>1, <2>2
<1>4. CASE \/ StartPublish(r) \/ Crash(r) \/ LookAtRegistry(r) \/ LookAtJournal(r)
           \/ WriteIntent(r) \/ LookForClaim(r) \/ PostClaim(r) \/ VerifyClaim(r)
           \/ Accepted(r) \/ Failed(r) \/ ReportLocally(r) \/ Report(r)
  BY <1>1, <1>4 DEF StartPublish, Crash, LookAtRegistry, LookAtJournal, WriteIntent,
     LookForClaim, PostClaim, VerifyClaim, Accepted, Failed, ReportLocally, Report,
     End, Goto
<1>5. CASE \/ LookAgain(r) \/ RespondLocally(r) \/ Respond(r) \/ AwaitVisibility(r)
           \/ CompleteLocally(r) \/ Complete(r) \/ CheckOriginal(r)
  BY <1>1, <1>5 DEF LookAgain, RespondLocally, Respond, AwaitVisibility,
     CompleteLocally, Complete, CheckOriginal, End, Goto
<1>6. CASE \/ LookBeforeRecovery(r) \/ LookForCompletion(r) \/ LookForResponse(r)
           \/ CheckCaptured(r) \/ RecordLocally(r) \/ Record(r) \/ LookForRecovery(r)
  BY <1>1, <1>6 DEF LookBeforeRecovery, LookForCompletion, LookForResponse,
     CheckCaptured, RecordLocally, Record, LookForRecovery, End, Goto
<1> QED
  BY <1>2, <1>3, <1>4, <1>5, <1>6 DEF Step

\* Whoever moves: what is written stays, and was backed.
LEMMA RecoveryPreserved ==
  ASSUME IInv, RecoveryInv, IInv', Backed,
         \A a \in Attempt: Kept(remote[a], remote'[a]),
         \A d \in Root, a \in Attempt: Kept(local[d][a], local'[d][a]),
         visible => visible',
         \A a \in Attempt: fate[a] = "accepted" => fate'[a] = "accepted",
         \A s \in Runner:
           \/ pc'[s] = pc[s] /\ attempt'[s] = attempt[s] /\ result'[s] = result[s]
           \/ Informed(s)
  PROVE  RecoveryInv'
<1> USE PublicationAssumption DEF PublicationAssumption
<1>1. /\ \A s \in Runner: attempt'[s] \in Attempt /\ attempt[s] \in Attempt
      /\ \A a \in Attempt: remote'[a].intent \in Runner \cup {None}
      /\ \A s \in Runner: RootOf[s] \in Root
  BY DEF IInv, TypeOK, Records
<1>2. ASSUME NEW s \in Runner
      PROVE  /\ pc'[s] \in {"complete locally", "complete"} => visible'
             /\ pc'[s] \in {"respond locally", "respond"} => fate'[attempt'[s]] = "accepted"
             /\ pc'[s] \in {"report locally", "report"} => result'[s] # None
             /\ pc'[s] = "report" => local'[RootOf[s]][attempt'[s]].error = result'[s]
  <2>1. CASE Informed(s)
    BY <1>1, <2>1 DEF Informed
  <2>2. CASE pc'[s] = pc[s] /\ attempt'[s] = attempt[s] /\ result'[s] = result[s]
    <3>1. Kept(local[RootOf[s]][attempt[s]], local'[RootOf[s]][attempt[s]])
      BY <1>1
    <3> QED
      BY <1>1, <2>2, <3>1 DEF RecoveryInv, Here, Kept
  <2> QED
    BY <2>1, <2>2
<1>3. ASSUME NEW a \in Attempt
      PROVE  /\ remote'[a].complete => visible'
             /\ remote'[a].response => fate'[a] = "accepted"
             /\ \A d \in Root: /\ local'[d][a].complete => visible'
                               /\ local'[d][a].response => fate'[a] = "accepted"
  BY DEF RecoveryInv, Backed
<1>4. ASSUME NEW a \in Attempt, remote'[a].intent # None
      PROVE  local'[RootOf[remote'[a].intent]][a].intent = remote'[a].intent
  <2> DEFINE i == remote'[a].intent
  <2>1. i \in Runner /\ RootOf[i] \in Root
    BY <1>1, <1>4
  <2>2. local[RootOf[i]][a].intent = i
    BY <1>4 DEF RecoveryInv, Backed
  <2>3. Kept(local[RootOf[i]][a], local'[RootOf[i]][a])
    BY <2>1
  <2> QED
    BY <1>4, <2>2, <2>3 DEF Kept
<1>5. ASSUME NEW a \in Attempt, remote'[a].error # None
      PROVE  /\ remote'[a].intent # None
             /\ local'[RootOf[remote'[a].intent]][a].error = remote'[a].error
  <2> DEFINE i == remote[a].intent
  <2>1. i # None /\ local[RootOf[i]][a].error = remote'[a].error
    BY <1>5 DEF RecoveryInv, Backed
  <2>2. remote'[a].intent = i
    BY <2>1 DEF Kept
  <2>3. i \in Runner /\ RootOf[i] \in Root
    BY <1>1, <2>1, <2>2
  <2>4. Kept(local[RootOf[i]][a], local'[RootOf[i]][a])
    BY <2>3
  <2> QED
    BY <1>5, <2>1, <2>2, <2>4 DEF Kept
<1> QED
  BY <1>2, <1>3, <1>4, <1>5 DEF RecoveryInv, Here

\* Records of acceptance are true and the root of a claim has what the release has.
LEMMA RecoveryInvariance == Spec => []RecoveryInv
<1>1. Init => RecoveryInv
  <2> SUFFICES ASSUME Init PROVE RecoveryInv
    OBVIOUS
  <2>1. /\ \A a \in Attempt: remote[a] = NoRecords
        /\ \A d \in Root, a \in Attempt: local[d][a] = NoRecords
        /\ \A r \in Runner: pc[r] = "start"
    BY DEF Init
  <2>2. \A r \in Runner:
          /\ pc[r] \notin {"complete locally", "complete"}
          /\ pc[r] \notin {"respond locally", "respond"}
          /\ pc[r] \notin {"report locally", "report"}
          /\ pc[r] # "report"
    BY <2>1
  <2>3. /\ NoRecords.intent = None /\ NoRecords.error = None
        /\ NoRecords.response = FALSE /\ NoRecords.complete = FALSE
    BY DEF NoRecords
  <2>4. \A a \in Attempt:
          /\ remote[a].complete = FALSE /\ remote[a].response = FALSE
          /\ remote[a].intent = None /\ remote[a].error = None
          /\ \A d \in Root: local[d][a].complete = FALSE /\ local[d][a].response = FALSE
    BY <2>1, <2>3
  <2> QED
    BY <2>2, <2>4, Zenon DEF RecoveryInv
<1>2. IInv /\ IInv' /\ RecoveryInv /\ [Next]_vars => RecoveryInv'
  <2> SUFFICES ASSUME IInv, IInv', RecoveryInv, [Next]_vars PROVE RecoveryInv'
    OBVIOUS
  <2>1. ASSUME UNCHANGED <<pc, attempt, result, local, remote>>, visible => visible',
               \A a \in Attempt: fate[a] = "accepted" => fate'[a] = "accepted"
        PROVE  RecoveryInv'
    <3>1. /\ \A a \in Attempt: Kept(remote[a], remote'[a])
          /\ \A d \in Root, a \in Attempt: Kept(local[d][a], local'[d][a])
      BY <2>1 DEF Kept
    <3> QED
      BY <2>1, <3>1, QuietIsBacked, RecoveryPreserved
  <2>2. CASE UNCHANGED vars
    BY <2>1, <2>2 DEF vars
  <2>3. CASE Appear
    BY <2>1, <2>3 DEF Appear
  <2>4. ASSUME NEW a \in Attempt, Decide(a) PROVE RecoveryInv'
    <3>1. \A b \in Attempt: fate[b] = "accepted" => fate'[b] = "accepted"
      BY <2>4 DEF Decide, IInv, TypeOK
    <3> QED
      BY <2>1, <2>4, <3>1 DEF Decide
  <2>5. ASSUME NEW r \in Runner,
               StartPublish(r) \/ StartRecovery(r) \/ Step(r) \/ Crash(r)
        PROVE  RecoveryInv'
    BY <2>5, StepsAreBacked, StepsAreInformed, StepsLeaveOthers, StepsKeepRecords,
       RecoveryPreserved
  <2> QED
    BY <2>2, <2>3, <2>4, <2>5 DEF Next
<1> QED
  BY <1>1, <1>2, Invariance, PTL DEF Spec

\* What a step writes under a root: an intent of its own before it asks for the
\* claim, the outcome of its own claim, or an outcome the release has.
Originated(r) ==
  /\ pc'[r] \in {"record locally", "record"} /\ evidence'[r].outcome = "rejected" =>
       remote[evidence'[r].attempt].error = "rejected"
  /\ pc[r] \in Intending \cup {"done"} =>
       pc'[r] \in Intending \cup {"done"} /\ attempt'[r] = attempt[r]
  /\ \A d \in Root, a \in Attempt:
       /\ local'[d][a].intent # local[d][a].intent =>
            /\ local'[d][a].intent = r /\ d = RootOf[r] /\ a = attempt'[r]
            /\ pc'[r] \in Intending
       /\ local'[d][a].error # local[d][a].error =>
            \/ remote[a].intent = r /\ RootOf[r] = d
            \/ local'[d][a].error = remote[a].error

\* A step that leaves the records of the roots alone.
LEMMA QuietOriginates ==
  ASSUME IInv, OriginInv, NEW r \in Runner,
         StartPublish(r) \/ StartRecovery(r) \/ Crash(r) \/ Step(r),
         UNCHANGED local
  PROVE  Originated(r)
<1>1. /\ pc \in [Runner -> Places] /\ evidence \in [Runner -> Evidence \cup {None}]
  BY DEF IInv, TypeOK
<1>2. CASE CheckCaptured(r)
  BY <1>1, <1>2 DEF CheckCaptured, RejectionStands, End, Goto, Originated, Intending, Owning
<1>3. CASE RecordLocally(r)
  <2>1. /\ evidence[r].outcome = "rejected" => remote[evidence[r].attempt].error = "rejected"
    BY <1>3 DEF RecordLocally, OriginInv
  <2> QED
    BY <1>1, <1>3, <2>1 DEF RecordLocally, End, Goto, Originated, Intending, Owning
<1>4. CASE \/ StartPublish(r) \/ Crash(r) \/ LookAtRegistry(r) \/ LookAtJournal(r)
           \/ WriteIntent(r) \/ LookForClaim(r) \/ PostClaim(r) \/ VerifyClaim(r)
           \/ Upload(r) \/ Accepted(r) \/ Failed(r) \/ ReportLocally(r) \/ Report(r)
  BY <1>1, <1>4 DEF StartPublish, Crash, LookAtRegistry, LookAtJournal, WriteIntent,
     LookForClaim, PostClaim, VerifyClaim, Upload, Accepted, Failed, ReportLocally, Report,
     End, Goto, Originated, Intending, Owning
<1>5. CASE \/ LookAgain(r) \/ RespondLocally(r) \/ Respond(r) \/ AwaitVisibility(r)
           \/ CompleteLocally(r) \/ Complete(r) \/ CheckOriginal(r)
           \/ LookBeforeRecovery(r) \/ LookForCompletion(r) \/ LookForResponse(r)
           \/ Record(r) \/ LookForRecovery(r)
  BY <1>1, <1>5 DEF LookAgain, RespondLocally, Respond, AwaitVisibility,
     CompleteLocally, Complete, CheckOriginal, LookBeforeRecovery, LookForCompletion,
     LookForResponse, Record, LookForRecovery, End, Goto, Originated, Intending, Owning
<1>6. CASE StartRecovery(r)
  <2>1. pc[r] = "start" /\ pc' = [pc EXCEPT ![r] = "same intent?"]
    BY <1>6 DEF StartRecovery, Goto
  <2> QED
    BY <1>1, <2>1 DEF Originated, Intending, Owning
<1> QED
  BY <1>2, <1>3, <1>4, <1>5, <1>6 DEF Step

\* A step that writes one attempt's records under its own root.
LEMMA WritesOriginate ==
  ASSUME IInv, NEW r \in Runner, NEW a1 \in Attempt, NEW new,
         local' = [local EXCEPT ![RootOf[r]] = [local[RootOf[r]] EXCEPT ![a1] = new]],
         new.intent # local[RootOf[r]][a1].intent =>
           new.intent = r /\ a1 = attempt'[r] /\ pc'[r] \in Intending,
         new.error # local[RootOf[r]][a1].error =>
           remote[a1].intent = r \/ new.error = remote[a1].error,
         pc'[r] \in {"record locally", "record"} /\ evidence'[r].outcome = "rejected" =>
           remote[evidence'[r].attempt].error = "rejected",
         pc[r] \in Intending \cup {"done"} =>
           pc'[r] \in Intending \cup {"done"} /\ attempt'[r] = attempt[r]
  PROVE  Originated(r)
<1>1. local \in [Root -> [Attempt -> Records]] /\ RootOf[r] \in Root
  BY PublicationAssumption DEF PublicationAssumption, IInv, TypeOK
<1>2. ASSUME NEW d \in Root, NEW a \in Attempt
      PROVE  /\ local'[d][a].intent # local[d][a].intent =>
                  /\ local'[d][a].intent = r /\ d = RootOf[r] /\ a = attempt'[r]
                  /\ pc'[r] \in Intending
             /\ local'[d][a].error # local[d][a].error =>
                  \/ remote[a].intent = r /\ RootOf[r] = d
                  \/ local'[d][a].error = remote[a].error
  <2>1. CASE d = RootOf[r] /\ a = a1
    <3>1. local'[d][a] = new
      BY <1>1, <2>1
    <3> QED
      BY <2>1, <3>1
  <2>2. CASE ~(d = RootOf[r] /\ a = a1)
    <3>1. local'[d][a] = local[d][a]
      BY <1>1, <2>2
    <3> QED
      BY <3>1
  <2> QED
    BY <2>1, <2>2
<1> QED
  BY <1>2 DEF Originated

LEMMA StepsOriginate ==
  ASSUME IInv, OriginInv, NEW r \in Runner,
         StartPublish(r) \/ StartRecovery(r) \/ Crash(r) \/ Step(r)
  PROVE  Originated(r)
<1> DEFINE mine == local[RootOf[r]]
<1>1. /\ attempt[r] \in Attempt /\ pc \in [Runner -> Places]
      /\ \A a \in Attempt: mine[a] \in Records
  BY PublicationAssumption DEF PublicationAssumption, IInv, TypeOK
<1>2. CASE UNCHANGED local
  BY <1>2, QuietOriginates
<1>3. CASE WriteIntent(r)
  <2> DEFINE new == [mine[attempt[r]] EXCEPT !.intent = r]
  <2>1. /\ local' = [local EXCEPT ![RootOf[r]] = [mine EXCEPT ![attempt[r]] = new]]
        /\ pc' = [pc EXCEPT ![r] = "claim?"] /\ attempt' = attempt
    BY <1>3 DEF WriteIntent, Goto
  <2>2. new.intent = r /\ new.error = mine[attempt[r]].error
    BY <1>1, RecordWrites
  <2>3. pc'[r] = "claim?" /\ "claim?" \in Intending
    BY <1>1, <2>1 DEF Intending
  <2> HIDE DEF new
  <2> QED
    BY <1>1, <2>1, <2>2, <2>3, WritesOriginate
<1>4. CASE ReportLocally(r) /\ Here(r)[attempt[r]].error \in {None, result[r]}
  <2> DEFINE new == [mine[attempt[r]] EXCEPT !.error = result[r]]
  <2>1. /\ local' = [local EXCEPT ![RootOf[r]] = [mine EXCEPT ![attempt[r]] = new]]
        /\ pc[r] = "report locally" /\ pc' = [pc EXCEPT ![r] = "report"]
        /\ attempt' = attempt
    BY <1>4 DEF ReportLocally, Goto
  <2>2. new.intent = mine[attempt[r]].intent
    BY <1>1, RecordWrites
  <2>3. remote[attempt[r]].intent = r
    BY <2>1 DEF IInv, ClaimInv, Owning
  <2>4. pc'[r] = "report" /\ "report" \in Intending
    BY <1>1, <2>1 DEF Intending, Owning
  <2> HIDE DEF new
  <2> QED
    BY <1>1, <2>1, <2>2, <2>3, <2>4, WritesOriginate
<1>5. CASE RespondLocally(r)
  <2> DEFINE new == [mine[attempt[r]] EXCEPT !.response = TRUE]
  <2>1. /\ local' = [local EXCEPT ![RootOf[r]] = [mine EXCEPT ![attempt[r]] = new]]
        /\ pc' = [pc EXCEPT ![r] = "respond"] /\ attempt' = attempt
    BY <1>5 DEF RespondLocally, Goto
  <2>2. new.intent = mine[attempt[r]].intent /\ new.error = mine[attempt[r]].error
    BY <1>1, RecordWrites
  <2>3. pc'[r] = "respond" /\ "respond" \in Intending
    BY <1>1, <2>1 DEF Intending, Owning
  <2> HIDE DEF new
  <2> QED
    BY <1>1, <2>1, <2>2, <2>3, WritesOriginate
<1>6. CASE CompleteLocally(r)
  <2> DEFINE new == [mine[attempt[r]] EXCEPT !.complete = TRUE]
  <2>1. /\ local' = [local EXCEPT ![RootOf[r]] = [mine EXCEPT ![attempt[r]] = new]]
        /\ pc' = [pc EXCEPT ![r] = "complete"] /\ attempt' = attempt
    BY <1>6 DEF CompleteLocally, Goto
  <2>2. new.intent = mine[attempt[r]].intent /\ new.error = mine[attempt[r]].error
    BY <1>1, RecordWrites
  <2>3. pc'[r] = "complete" /\ "complete" \in Intending
    BY <1>1, <2>1 DEF Intending, Owning
  <2> HIDE DEF new
  <2> QED
    BY <1>1, <2>1, <2>2, <2>3, WritesOriginate
<1>7. CASE RecordLocally(r) /\ Recordable(RootOf[r], evidence[r].attempt, evidence[r].outcome)
  <2> DEFINE b0 == evidence[r].attempt
             reported == [mine[b0] EXCEPT !.legacy = TRUE]
             captured == [mine[b0] EXCEPT !.error = "rejected"]
  <2>1. /\ pc[r] = "record locally" /\ pc' = [pc EXCEPT ![r] = "record"]
        /\ evidence' = evidence
        /\ \/ local' = [local EXCEPT ![RootOf[r]] = [mine EXCEPT ![b0] = reported]]
           \/ /\ evidence[r].outcome # "attested"
              /\ local' = [local EXCEPT ![RootOf[r]][b0].error = evidence[r].outcome]
    BY <1>7 DEF RecordLocally, Goto
  <2>2. /\ evidence[r] \in Evidence
        /\ evidence[r].outcome \in {"rejected", "attested"}
    BY <2>1 DEF IInv, TruthInv, Weighing
  <2>3. b0 \in Attempt
    BY <2>2 DEF Evidence
  <2>4. evidence[r].outcome = "rejected" => remote[b0].error = "rejected"
    BY <2>1 DEF OriginInv
  <2>5. /\ reported.intent = mine[b0].intent /\ reported.error = mine[b0].error
        /\ captured.intent = mine[b0].intent /\ captured.error = "rejected"
    BY <1>1, <2>3, RecordWrites
  <2>6. pc'[r] = "record" /\ "record locally" \notin Intending \cup {"done"}
    BY <1>1, <2>1 DEF Intending, Owning
  <2>7. CASE local' = [local EXCEPT ![RootOf[r]] = [mine EXCEPT ![b0] = reported]]
    <3> HIDE DEF reported
    <3> QED
      BY <2>1, <2>3, <2>4, <2>5, <2>6, <2>7, WritesOriginate
  <2>8. CASE /\ evidence[r].outcome = "rejected"
             /\ local' = [local EXCEPT ![RootOf[r]][b0].error = evidence[r].outcome]
    <3>1. local' = [local EXCEPT ![RootOf[r]] = [mine EXCEPT ![b0] = captured]]
      BY <2>8
    <3>2. /\ pc[r] = "record locally" /\ evidence' = evidence
          /\ remote[b0].error = "rejected"
      BY <2>1, <2>4, <2>8
    <3> HIDE DEF reported, captured
    <3> QED
      BY <2>3, <2>5, <2>6, <3>1, <3>2, WritesOriginate
  <2> QED
    BY <2>1, <2>2, <2>7, <2>8
<1>8. CASE ReportLocally(r) /\ Here(r)[attempt[r]].error \notin {None, result[r]}
  BY <1>2, <1>8 DEF ReportLocally
<1>9. CASE RecordLocally(r) /\ ~Recordable(RootOf[r], evidence[r].attempt, evidence[r].outcome)
  BY <1>2, <1>9 DEF RecordLocally
<1>10. \/ UNCHANGED local \/ WriteIntent(r) \/ ReportLocally(r) \/ RespondLocally(r)
       \/ CompleteLocally(r) \/ RecordLocally(r)
  BY DEF StartPublish, StartRecovery, Crash, Step, LookAtRegistry, LookAtJournal,
     LookForClaim, PostClaim, VerifyClaim, Upload, Accepted, Failed, Report, LookAgain,
     Respond, AwaitVisibility, Complete, CheckOriginal, LookBeforeRecovery,
     LookForCompletion, LookForResponse, CheckCaptured, Record, LookForRecovery
<1> QED
  BY <1>2, <1>3, <1>4, <1>5, <1>6, <1>7, <1>8, <1>9, <1>10

LEMMA EvidenceOrigin ==
  ASSUME OriginInv, NEW s \in Runner, pc[s] \in {"record locally", "record"},
         evidence[s].outcome = "rejected"
  PROVE  remote[evidence[s].attempt].error = "rejected"
BY DEF OriginInv

LEMMA IntentOrigin ==
  ASSUME OriginInv, NEW q, NEW d \in Root, NEW a \in Attempt,
         local[d][a].intent = q, q # None
  PROVE  RootOf[q] = d /\ attempt[q] = a /\ pc[q] \in Intending \cup {"done"}
<1>1. \A e \in Root, b \in Attempt:
        LET i == local[e][b].intent
        IN i # None => RootOf[i] = e /\ attempt[i] = b /\ pc[i] \in Intending \cup {"done"}
  BY DEF OriginInv
<1> QED
  BY <1>1

LEMMA OutcomeOrigin ==
  ASSUME OriginInv, NEW d \in Root, NEW a \in Attempt, local[d][a].error # None
  PROVE  \/ remote[a].intent # None /\ RootOf[remote[a].intent] = d
         \/ local[d][a].error = remote[a].error
<1>1. \A e \in Root, b \in Attempt:
        local[e][b].error # None =>
          \/ remote[b].intent # None /\ RootOf[remote[b].intent] = e
          \/ local[e][b].error = remote[b].error
  BY DEF OriginInv
<1> QED
  BY <1>1

\* Whoever moves: the records of a root keep their origin.
LEMMA OriginPreserved ==
  ASSUME IInv, OriginInv, IInv',
         \A a \in Attempt: Kept(remote[a], remote'[a]),
         NEW r \in Runner, Originated(r),
         \A s \in Runner \ {r}:
           pc'[s] = pc[s] /\ attempt'[s] = attempt[s] /\ evidence'[s] = evidence[s]
  PROVE  OriginInv'
<1> USE PublicationAssumption DEF PublicationAssumption
<1>1. ASSUME NEW s \in Runner, pc'[s] \in {"record locally", "record"},
             evidence'[s].outcome = "rejected"
      PROVE  remote'[evidence'[s].attempt].error = "rejected"
  <2>1. evidence'[s].attempt \in Attempt
    <3>1. evidence'[s] \in Evidence
      BY <1>1 DEF IInv, TruthInv, Weighing
    <3> QED
      BY <3>1 DEF Evidence
  <2>2. remote[evidence'[s].attempt].error = "rejected"
    <3>1. CASE s = r
      BY <1>1, <3>1 DEF Originated
    <3>2. CASE s # r
      BY <1>1, <3>2, EvidenceOrigin
    <3> QED
      BY <3>1, <3>2
  <2> QED
    BY <2>1, <2>2 DEF Kept
<1>2. ASSUME NEW q, NEW d \in Root, NEW a \in Attempt,
             local'[d][a].intent = q, q # None
      PROVE  RootOf[q] = d /\ attempt'[q] = a /\ pc'[q] \in Intending \cup {"done"}
  <2>1. CASE local[d][a].intent = q
    <3>1. /\ RootOf[q] = d /\ attempt[q] = a /\ pc[q] \in Intending \cup {"done"}
          /\ q \in Runner
      BY <1>2, <2>1, IntentOrigin DEF IInv, TypeOK, Records
    <3>2. CASE q = r
      BY <3>1, <3>2 DEF Originated
    <3>3. CASE q # r
      BY <3>1, <3>3
    <3> QED
      BY <3>2, <3>3
  <2>2. CASE local[d][a].intent # q
    BY <1>2, <2>2 DEF Originated
  <2> QED
    BY <2>1, <2>2
<1>3. ASSUME NEW d \in Root, NEW a \in Attempt, local'[d][a].error # None
      PROVE  \/ remote'[a].intent # None /\ RootOf[remote'[a].intent] = d
             \/ local'[d][a].error = remote'[a].error
  <2>1. \/ remote[a].intent # None /\ RootOf[remote[a].intent] = d
        \/ local'[d][a].error = remote[a].error
    <3>1. CASE local'[d][a].error = local[d][a].error
      BY <1>3, <3>1, OutcomeOrigin
    <3>2. CASE local'[d][a].error # local[d][a].error
      <4>1. r # None
        OBVIOUS
      <4>2. \A e \in Root, b \in Attempt:
              local'[e][b].error # local[e][b].error =>
                \/ remote[b].intent = r /\ RootOf[r] = e
                \/ local'[e][b].error = remote[b].error
        BY DEF Originated
      <4> QED
        BY <3>2, <4>1, <4>2
    <3> QED
      BY <3>1, <3>2
  <2> QED
    BY <1>3, <2>1 DEF Kept
<1> QED
  BY <1>1, <1>2, <1>3 DEF OriginInv

\* Where the records of a root come from, at any time.
LEMMA OriginInvariance == Spec => []OriginInv
<1> USE PublicationAssumption DEF PublicationAssumption
<1>1. Init => OriginInv
  <2> SUFFICES ASSUME Init PROVE OriginInv
    OBVIOUS
  <2>1. /\ \A r \in Runner: pc[r] = "start"
        /\ \A d \in Root, a \in Attempt: local[d][a] = NoRecords
    BY DEF Init
  <2>2. NoRecords.intent = None /\ NoRecords.error = None
    BY DEF NoRecords
  <2> QED
    BY <2>1, <2>2 DEF OriginInv
<1>2. IInv /\ IInv' /\ OriginInv /\ [Next]_vars => OriginInv'
  <2> SUFFICES ASSUME IInv, IInv', OriginInv, [Next]_vars PROVE OriginInv'
    OBVIOUS
  <2>1. ASSUME UNCHANGED <<pc, attempt, evidence, local, remote>> PROVE OriginInv'
    <3>1. \A r \in Runner: pc'[r] = pc[r] /\ attempt'[r] = attempt[r]
                           /\ evidence'[r] = evidence[r]
      BY <2>1
    <3>2. \A a \in Attempt: /\ remote'[a] = remote[a]
                            /\ \A d \in Root: local'[d][a] = local[d][a]
      BY <2>1
    <3>3. ASSUME NEW s \in Runner, pc[s] \in {"record locally", "record"},
                 evidence[s].outcome = "rejected"
          PROVE  remote'[evidence[s].attempt].error = "rejected"
      BY <2>1, <3>3, EvidenceOrigin
    <3>4. ASSUME NEW d \in Root, NEW a \in Attempt, local[d][a].intent # None
          PROVE  /\ RootOf[local[d][a].intent] = d /\ attempt[local[d][a].intent] = a
                 /\ pc[local[d][a].intent] \in Intending \cup {"done"}
      BY <3>4, IntentOrigin
    <3>5. ASSUME NEW d \in Root, NEW a \in Attempt, local[d][a].error # None
          PROVE  \/ remote[a].intent # None /\ RootOf[remote[a].intent] = d
                 \/ local[d][a].error = remote[a].error
      BY <3>5, OutcomeOrigin
    <3>6. /\ \A d \in Root, a \in Attempt:
               local'[d][a].error # None =>
                 \/ remote'[a].intent # None /\ RootOf[remote'[a].intent] = d
                 \/ local'[d][a].error = remote'[a].error
          /\ \A d \in Root, a \in Attempt:
               LET q == local'[d][a].intent
               IN q # None => RootOf[q] = d /\ attempt'[q] = a
                              /\ pc'[q] \in Intending \cup {"done"}
      BY <2>1, <3>4, <3>5
    <3>7. \A s \in Runner:
            pc'[s] \in {"record locally", "record"} /\ evidence'[s].outcome = "rejected" =>
              remote'[evidence'[s].attempt].error = "rejected"
      BY <2>1, <3>3
    <3> QED
      BY <3>6, <3>7 DEF OriginInv
  <2>2. CASE UNCHANGED vars
    BY <2>1, <2>2 DEF vars
  <2>3. CASE Appear \/ \E a \in Attempt: Decide(a)
    BY <2>1, <2>3 DEF Appear, Decide
  <2>4. ASSUME NEW r \in Runner,
               StartPublish(r) \/ StartRecovery(r) \/ Step(r) \/ Crash(r)
        PROVE  OriginInv'
    BY <2>4, StepsOriginate, StepsLeaveOthers, StepsKeepRecords, OriginPreserved
  <2> QED
    BY <2>2, <2>3, <2>4 DEF Next
<1> QED
  BY <1>1, <1>2, Invariance, PTL DEF Spec

\* An intent under a root that is not the claim is of a run that stopped before it.
LEMMA UnclaimedIsStopped ==
  ASSUME IInv, OriginInv, NEW d \in Root, NEW b \in Attempt,
         local[d][b].intent \notin {None, remote[b].intent}
  PROVE  Stopped(d, b)
<1> DEFINE q == local[d][b].intent
<1>1. q \in Runner
  BY DEF IInv, TypeOK, Records
<1>2. RootOf[q] = d /\ attempt[q] = b /\ pc[q] \in Intending \cup {"done"}
  BY <1>1 DEF OriginInv
<1>3. pc[q] \notin Owning
  BY <1>1, <1>2 DEF IInv, ClaimInv
<1>4. pc[q] \in {"claim?", "claim", "done"}
  BY <1>2, <1>3 DEF Intending
<1> QED
  BY <1>1, <1>2, <1>4 DEF Stopped

\* A rejection on the release can be recovered under every root, until the bytes appear,
\* unless the next attempt is claimed or a run of that root stopped short of a claim.
THEOREM RejectionsStayRecoverable == Spec => []RejectionIsRecoverable
<1>1. IInv /\ RecoveryInv /\ OriginInv => RejectionIsRecoverable
  <2> SUFFICES ASSUME IInv, RecoveryInv, OriginInv, NEW d \in Root, NEW a \in Attempt,
                      a < MaxAttempt, remote[a].error = "rejected", ~visible,
                      remote[a + 1].intent = None, ~Stopped(d, a + 1),
                      ~(d # RootOf[remote[a].intent] /\ Stopped(d, a))
               PROVE  Recoverable(d, a)
    BY DEF RejectionIsRecoverable
  <2>1. a + 1 \in Attempt
    BY PublicationAssumption DEF PublicationAssumption, Attempt
  <2>2. /\ remote[a].intent # None
        /\ local[RootOf[remote[a].intent]][a].intent = remote[a].intent
        /\ local[RootOf[remote[a].intent]][a].error = "rejected"
    BY PublicationAssumption DEF PublicationAssumption, RecoveryInv
  <2>3. SameIntent(d, a, remote[a].intent)
    <3>1. CASE d = RootOf[remote[a].intent]
      BY <2>2, <3>1 DEF SameIntent
    <3>2. CASE d # RootOf[remote[a].intent]
      BY <3>2, UnclaimedIsStopped DEF SameIntent
    <3> QED
      BY <3>1, <3>2
  <2>4. NeverCompleted(d, a) /\ NeverAnswered(d, a)
    <3>1. fate[a] # "accepted"
      BY DEF IInv, TruthInv, RejectionsAreTrue
    <3> QED
      BY <3>1 DEF RecoveryInv, NeverCompleted, NeverAnswered
  <2>5. RejectionStands(d, a, remote[a].error)
    BY DEF RejectionStands
  <2>6. Recordable(d, a, remote[a].error)
    BY <2>2 DEF OriginInv, Recordable
  <2>7. Unclaimed(d, a + 1)
    BY <2>1, UnclaimedIsStopped DEF Unclaimed
  <2> QED
    BY <2>2, <2>3, <2>4, <2>5, <2>6, <2>7 DEF Recoverable
<1> QED
  BY <1>1, Invariance, RecoveryInvariance, OriginInvariance, PTL
=============================================================================
