---------------------------- MODULE ResolutionProofs ----------------------------
(***************************************************************************)
(* Proofs that published files are never replaced, and that receipts are   *)
(* true, for any number of resolutions, seconds, suffixes and locks.       *)
(***************************************************************************)
EXTENDS Resolution, TLAPS

LEMMA StartsTyped == Init => TypeOK
  BY ResolutionAssumption DEF Init, TypeOK, Place, Ended

Steps(r) ==
  \/ Resolve(r) \/ Command(r) \/ Validate(r) \/ ChooseName(r)
  \/ WriteSnapshot(r) \/ WriteOriginal(r) \/ WriteReceipt(r) \/ Crash(r)

LEMMA StatusTyped == ASSUME NEW r \in Resolver PROVE StatusOf(r) \in Status
  BY DEF StatusOf, Status

LEMMA StepsTyped ==
  ASSUME TypeOK, ResolverInv, NEW r \in Resolver, Steps(r)
  PROVE  TypeOK'
<1>1. CASE Resolve(r)
  BY <1>1 DEF Resolve, TypeOK, Goto, files, Place, Ended, Job
<1>2. CASE Command(r)
  BY <1>2 DEF Command, TypeOK, files
<1>3. CASE Validate(r)
  <2>1. job[r] \in Job
    BY <1>3 DEF Validate, ResolverInv, Knows
  <2>2. tree' = tree /\ name' = name /\ snapshots' = snapshots /\ originals' = originals /\ receipts' = receipts
    BY <1>3 DEF Validate, files
  <2>3. checks' \in [Resolver -> {"none", "passed", "failed"}]
    BY <1>3 DEF Validate, TypeOK
  <2>4. job' \in [Resolver -> Job \cup {None}]
    <3>1. PICK accepted \in BOOLEAN : job' = [job EXCEPT ![r].accepted = accepted]
      BY <1>3 DEF Validate
    <3>2. [job[r] EXCEPT !.accepted = accepted] \in Job
      BY <2>1 DEF Job
    <3>3. job \in [Resolver -> Job \cup {None}]
      BY DEF TypeOK
    <3> QED
      BY <3>1, <3>2, <3>3
  <2>5. pc' \in [Resolver -> Place]
    BY <1>3 DEF Validate, TypeOK, Goto, Place
  <2> QED
    BY <2>2, <2>3, <2>4, <2>5 DEF TypeOK
<1>4. CASE ChooseName(r)
  BY <1>4 DEF ChooseName, TypeOK, Goto, files, Place, Free
<1>5. CASE WriteSnapshot(r)
  <2>1. job[r] \in Job /\ name[r] \in [second: Second, suffix: Suffix]
    BY <1>5 DEF WriteSnapshot, ResolverInv, Knows
  <2>2. <<name[r].second, StatusOf(r), name[r].suffix>> \in Second \X Status \X Suffix
    BY <2>1, StatusTyped
  <2>3. job[r].candidate \in Lock
    BY <2>1 DEF Job
  <2> QED
    BY <1>5, <2>2, <2>3 DEF WriteSnapshot, TypeOK, Goto, Place, Ended
<1>6. CASE WriteOriginal(r)
  <2>1. job[r] \in Job /\ name[r] \in [second: Second, suffix: Suffix]
    BY <1>6 DEF WriteOriginal, ResolverInv, Knows
  <2>2. <<name[r].second, StatusOf(r), name[r].suffix>> \in Second \X Status \X Suffix
    BY <2>1, StatusTyped
  <2>3. job[r].original \in Lock \cup {None}
    BY <2>1 DEF Job
  <2> QED
    BY <1>6, <2>2, <2>3 DEF WriteOriginal, TypeOK, Goto, Place, Ended
<1>7. CASE WriteReceipt(r)
  <2>1. job[r] \in Job /\ name[r] \in [second: Second, suffix: Suffix]
    BY <1>7 DEF WriteReceipt, ResolverInv, Knows
  <2>2. <<name[r].second, name[r].suffix>> \in Second \X Suffix
    BY <2>1
  <2>3. ReceiptOf(r) \in Receipt
    BY <2>1, StatusTyped DEF ReceiptOf, Receipt
  <2> QED
    BY <1>7, <2>2, <2>3 DEF WriteReceipt, TypeOK, Goto, Place, Ended
<1>8. CASE Crash(r)
  BY <1>8 DEF Crash, TypeOK, Goto, files, Place, Ended
<1> QED
  BY <1>1, <1>2, <1>3, <1>4, <1>5, <1>6, <1>7, <1>8 DEF Steps

\* A step changes nothing on record and nothing of another resolution.
FilesKept ==
  /\ \A n \in DOMAIN snapshots : snapshots[n] # None => snapshots'[n] = snapshots[n]
  /\ \A n \in DOMAIN originals : originals[n] # None => originals'[n] = originals[n]
  /\ \A n \in DOMAIN receipts : receipts[n] # None => receipts'[n] = receipts[n]

LEMMA StepsReplaceNothing ==
  ASSUME TypeOK, NEW r \in Resolver, Steps(r)
  PROVE  FilesKept
<1>1. CASE UNCHANGED files
  BY <1>1 DEF files, FilesKept
<1>2. CASE WriteSnapshot(r)
  BY <1>2 DEF WriteSnapshot, FilesKept, TypeOK
<1>3. CASE WriteOriginal(r)
  BY <1>3 DEF WriteOriginal, FilesKept, TypeOK
<1>4. CASE WriteReceipt(r)
  BY <1>4 DEF WriteReceipt, FilesKept, TypeOK
<1> QED
  BY <1>1, <1>2, <1>3, <1>4 DEF Steps, Resolve, Command, Validate, ChooseName, Crash

Untouched(s) ==
  /\ pc'[s] = pc[s] /\ job'[s] = job[s] /\ tree'[s] = tree[s]
  /\ checks'[s] = checks[s] /\ name'[s] = name[s]

LEMMA StepsLeaveOthers ==
  ASSUME TypeOK, NEW r \in Resolver, Steps(r), NEW s \in Resolver \ {r}
  PROVE  Untouched(s)
<1>1. CASE Resolve(r)
  BY <1>1 DEF Resolve, Untouched, Goto, TypeOK
<1>2. CASE Command(r)
  BY <1>2 DEF Command, Untouched, TypeOK
<1>3. CASE Validate(r)
  BY <1>3 DEF Validate, Untouched, Goto, TypeOK
<1>4. CASE ChooseName(r)
  BY <1>4 DEF ChooseName, Untouched, Goto, TypeOK
<1>5. CASE WriteSnapshot(r) \/ WriteOriginal(r) \/ WriteReceipt(r) \/ Crash(r)
  BY <1>5 DEF WriteSnapshot, WriteOriginal, WriteReceipt, Crash, Untouched, Goto, TypeOK
<1> QED
  BY <1>1, <1>2, <1>3, <1>4, <1>5 DEF Steps

LEMMA OthersKnow ==
  ASSUME TypeOK, ResolverInv, FilesKept, NEW s \in Resolver, Untouched(s)
  PROVE  Knows(s)'
<1>1. Knows(s)
  BY DEF ResolverInv
<1>2. CASE pc[s] \in {"original", "receipt"}
  <2> DEFINE n == <<name[s].second, StatusOf(s), name[s].suffix>>
  <2>1. job[s] \in Job /\ name[s] \in [second: Second, suffix: Suffix]
    BY <1>1, <1>2 DEF Knows
  <2>2. n \in Second \X Status \X Suffix
    BY <2>1, StatusTyped
  <2>3. job[s].candidate # None
    BY <2>1, ResolutionAssumption DEF Job
  <2>4. n \in DOMAIN snapshots /\ n \in DOMAIN originals
    BY <2>2 DEF TypeOK
  <2>5. snapshots'[n] = job[s].candidate
    BY <1>1, <1>2, <2>3, <2>4 DEF Knows, FilesKept
  <2>6. pc[s] = "receipt" /\ job[s].original # None => originals'[n] = job[s].original
    BY <1>1, <2>4 DEF Knows, FilesKept
  <2> QED
    BY <1>1, <1>2, <2>5, <2>6 DEF Knows, Untouched, StatusOf, Validated
<1>3. CASE pc[s] \notin {"original", "receipt"}
  BY <1>1, <1>3 DEF Knows, Untouched, Validated
<1> QED
  BY <1>2, <1>3

LEMMA StepsKnow ==
  ASSUME TypeOK, ResolverInv, NEW r \in Resolver, Steps(r)
  PROVE  Knows(r)'
<1>1. CASE Resolve(r)
  BY <1>1 DEF Resolve, TypeOK, Goto, Knows, Validated, Job
<1>2. CASE Command(r)
  BY <1>2 DEF Command, TypeOK, ResolverInv, Knows
<1>3. CASE Validate(r)
  <2>1. PICK passed \in BOOLEAN, accepted \in BOOLEAN :
          /\ accepted <=> /\ passed
                          /\ tree[r] = [lock |-> job[r].candidate, changed |-> FALSE]
          /\ checks' = [checks EXCEPT ![r] = IF passed THEN "passed" ELSE "failed"]
          /\ job' = [job EXCEPT ![r].accepted = accepted]
    BY <1>3 DEF Validate
  <2>2. job[r] \in Job /\ job[r].compatible
    BY <1>3 DEF Validate, ResolverInv, Knows
  <2>3. /\ job'[r] = [job[r] EXCEPT !.accepted = accepted]
        /\ checks'[r] = IF passed THEN "passed" ELSE "failed"
        /\ pc'[r] = "name" /\ tree' = tree
    BY <1>3, <2>1 DEF Validate, Goto, TypeOK
  <2>4. job'[r] \in Job /\ job'[r].accepted = accepted /\ job'[r].compatible
        /\ job'[r].candidate = job[r].candidate
    BY <2>2, <2>3 DEF Job
  <2>5. accepted => passed /\ tree[r] = [lock |-> job[r].candidate, changed |-> FALSE]
    BY <2>1
  <2> QED
    BY <2>3, <2>4, <2>5 DEF Knows, Validated
<1>4. CASE ChooseName(r)
  <2>1. PICK t \in Second : \E x \in Free(r, t) :
          name' = [name EXCEPT ![r] = [second |-> t, suffix |-> x]]
    BY <1>4 DEF ChooseName
  <2>2. name'[r] \in [second: Second, suffix: Suffix]
    BY <2>1 DEF Free, TypeOK
  <2>3. pc'[r] = "snapshot" /\ UNCHANGED <<job, tree, checks>>
    BY <1>4 DEF ChooseName, Goto, TypeOK
  <2>4. job[r] \in Job /\ Validated(r, job[r])
    BY <1>4 DEF ChooseName, ResolverInv, Knows
  <2> QED
    BY <2>2, <2>3, <2>4 DEF Knows, Validated
<1>5. CASE WriteSnapshot(r)
  <2> DEFINE n == <<name[r].second, StatusOf(r), name[r].suffix>>
  <2>1. /\ job[r] \in Job /\ Validated(r, job[r])
        /\ name[r] \in [second: Second, suffix: Suffix]
    BY <1>5 DEF WriteSnapshot, ResolverInv, Knows
  <2>2. n \in Second \X Status \X Suffix
    BY <2>1, StatusTyped
  <2>3. /\ UNCHANGED <<job, tree, checks, name>>
        /\ \/ pc'[r] = "failed"
           \/ /\ snapshots'[n] = job[r].candidate
              /\ job[r].original # None => pc'[r] = "original"
              /\ job[r].original = None => pc'[r] = "receipt"
    BY <1>5, <2>2 DEF WriteSnapshot, Goto, TypeOK
  <2> QED
    BY <2>1, <2>3 DEF Knows, Validated, StatusOf
<1>6. CASE WriteOriginal(r)
  <2> DEFINE n == <<name[r].second, StatusOf(r), name[r].suffix>>
  <2>1. /\ job[r] \in Job /\ Validated(r, job[r])
        /\ name[r] \in [second: Second, suffix: Suffix]
        /\ snapshots[n] = job[r].candidate
    BY <1>6 DEF WriteOriginal, ResolverInv, Knows
  <2>2. n \in Second \X Status \X Suffix
    BY <2>1, StatusTyped
  <2>3. /\ UNCHANGED <<job, tree, checks, name, snapshots>>
        /\ \/ pc'[r] = "failed"
           \/ pc'[r] = "receipt" /\ originals'[n] = job[r].original
    BY <1>6, <2>2 DEF WriteOriginal, Goto, TypeOK
  <2> QED
    BY <2>1, <2>3 DEF Knows, Validated, StatusOf
<1>7. CASE WriteReceipt(r)
  BY <1>7 DEF WriteReceipt, TypeOK, Goto, ResolverInv, Knows
<1>8. CASE Crash(r)
  BY <1>8 DEF Crash, TypeOK, Goto, Knows
<1> QED
  BY <1>1, <1>2, <1>3, <1>4, <1>5, <1>6, <1>7, <1>8 DEF Steps

\* What is on record stays on record, true and backed.
Backed(receipt, t, x) ==
  /\ snapshots[<<t, receipt.status, x>>] = receipt.job.candidate
  /\ receipt.job.original # None =>
       originals[<<t, receipt.status, x>>] = receipt.job.original

LEMMA ReceiptsStay ==
  ASSUME IInv, FilesKept, NEW receipt \in Receipts
  PROVE  receipt \in Receipts'
<1>1. PICK n \in Second \X Suffix : receipts[n] = receipt /\ receipt # None
  BY DEF Receipts
<1>2. receipts'[n] = receipt
  BY <1>1 DEF IInv, TypeOK, FilesKept
<1> QED
  BY <1>1, <1>2 DEF Receipts

LEMMA ReceiptsStayTrue ==
  ASSUME IInv, NEW r \in Resolver, pc[r] \notin Ended,
         \A s \in Resolver \ {r} : Untouched(s), NEW receipt \in Receipts
  PROVE  pc'[receipt.by] \in Ended /\ Validated(receipt.by, receipt.job)'
<1>1. /\ receipt.by \in Resolver /\ pc[receipt.by] \in Ended
      /\ Validated(receipt.by, receipt.job)
  BY DEF IInv, ReceiptInv, Receipts, TypeOK, Receipt
<1>2. Untouched(receipt.by)
  BY <1>1
<1> QED
  BY <1>1, <1>2 DEF Untouched, Validated

LEMMA ReceiptsStayBacked ==
  ASSUME IInv, FilesKept, NEW t \in Second, NEW x \in Suffix, receipts[<<t, x>>] # None,
         NEW receipt, receipt = receipts[<<t, x>>]
  PROVE  Backed(receipt, t, x)'
<1> DEFINE n == <<t, receipt.status, x>>
<1>1. receipt \in Receipt
  BY DEF IInv, TypeOK
<1>2. n \in DOMAIN snapshots /\ n \in DOMAIN originals
  BY <1>1 DEF IInv, TypeOK, Receipt
<1>3. receipt.job.candidate # None
  BY <1>1, ResolutionAssumption DEF Receipt, Job
<1>4. Backed(receipt, t, x)
  BY DEF IInv, ReceiptsAreBacked, Backed
<1> QED
  BY <1>2, <1>3, <1>4 DEF FilesKept, Backed

\* The step that leaves the receipt of r.
Leaves(r) ==
  /\ pc[r] = "receipt" /\ receipts[<<name[r].second, name[r].suffix>>] = None
  /\ receipts' = [receipts EXCEPT ![<<name[r].second, name[r].suffix>>] = ReceiptOf(r)]
  /\ pc' = [pc EXCEPT ![r] = IF job[r].accepted THEN "accepted" ELSE "failed"]
  /\ UNCHANGED <<job, tree, checks, name, snapshots, originals>>

LEMMA StepsLeave ==
  ASSUME TypeOK, NEW r \in Resolver, Steps(r)
  PROVE  Leaves(r) \/ (UNCHANGED receipts /\ pc'[r] # "accepted")
  BY DEF Steps, Resolve, Command, Validate, ChooseName, WriteSnapshot, WriteOriginal,
         WriteReceipt, Crash, Leaves, Goto, TypeOK, files

LEMMA NewReceipt ==
  ASSUME IInv, NEW r \in Resolver, Leaves(r)
  PROVE  /\ pc'[r] \in Ended /\ Validated(r, ReceiptOf(r).job)'
         /\ Backed(ReceiptOf(r), name[r].second, name[r].suffix)'
         /\ ReceiptOf(r) \in Receipts'
         /\ \A n \in Second \X Suffix :
              receipts'[n] = receipts[n] \/ /\ n = <<name[r].second, name[r].suffix>>
                                            /\ receipts'[n] = ReceiptOf(r)
<1>1. Knows(r) /\ pc[r] = "receipt"
  BY DEF IInv, ResolverInv, Leaves
<1>2. /\ job[r] \in Job /\ Validated(r, job[r])
      /\ name[r] \in [second: Second, suffix: Suffix]
  BY <1>1 DEF Knows
<1>3. ReceiptOf(r) \in Receipt
  BY <1>2, StatusTyped DEF ReceiptOf, Receipt
<1>4. <<name[r].second, name[r].suffix>> \in Second \X Suffix
  BY <1>2
<1>5. ReceiptOf(r) # None
  BY <1>3, ResolutionAssumption
<1>6. receipts'[<<name[r].second, name[r].suffix>>] = ReceiptOf(r)
  BY <1>4 DEF Leaves, IInv, TypeOK
<1>7. ReceiptOf(r) \in Receipts'
  BY <1>4, <1>5, <1>6 DEF Receipts
<1>8. pc'[r] \in Ended
  BY DEF Leaves, Ended, IInv, TypeOK
<1>9. ReceiptOf(r).job = job[r] /\ ReceiptOf(r).status = StatusOf(r)
      /\ ReceiptOf(r)' = ReceiptOf(r)
  BY DEF ReceiptOf, Leaves, StatusOf
<1>10. Validated(r, ReceiptOf(r).job)'
  BY <1>2, <1>9 DEF Validated, Leaves
<1>11. Backed(ReceiptOf(r), name[r].second, name[r].suffix)'
  BY <1>1, <1>9 DEF Backed, Knows, Leaves
<1>12. \A n \in Second \X Suffix :
         receipts'[n] = receipts[n] \/ /\ n = <<name[r].second, name[r].suffix>>
                                       /\ receipts'[n] = ReceiptOf(r)
  BY DEF Leaves, IInv, TypeOK
<1> QED
  BY <1>7, <1>8, <1>10, <1>11, <1>12

LEMMA StepsKeepReceipts ==
  ASSUME IInv, NEW r \in Resolver, Steps(r)
  PROVE  ReceiptInv' /\ ReceiptsAreBacked' /\ SuccessIsOnRecord'
<1>1. FilesKept
  BY StepsReplaceNothing DEF IInv
<1>2. \A s \in Resolver \ {r} : Untouched(s)
  BY StepsLeaveOthers DEF IInv
<1>3. pc[r] \notin Ended
  BY DEF Steps, Resolve, Command, Validate, ChooseName, WriteSnapshot, WriteOriginal,
         WriteReceipt, Crash, Ended
<1>4. Leaves(r) \/ (UNCHANGED receipts /\ pc'[r] # "accepted")
  BY StepsLeave DEF IInv
<1>5. ReceiptInv'
  <2> SUFFICES ASSUME NEW receipt \in Receipts'
               PROVE  pc'[receipt.by] \in Ended /\ Validated(receipt.by, receipt.job)'
    BY DEF ReceiptInv
  <2>1. CASE receipt \in Receipts
    BY <1>2, <1>3, <2>1, ReceiptsStayTrue
  <2>2. CASE receipt \notin Receipts
    <3>1. Leaves(r)
      BY <1>4, <2>2 DEF Receipts
    <3>2. receipt = ReceiptOf(r)
      BY <2>2, <3>1, NewReceipt DEF Receipts
    <3>3. receipt.by = r
      BY <3>2 DEF ReceiptOf
    <3>4. ReceiptOf(r)' = ReceiptOf(r)
      BY <3>1 DEF ReceiptOf, Leaves, StatusOf
    <3> QED
      BY <3>1, <3>2, <3>3, <3>4, NewReceipt DEF Validated
  <2> QED
    BY <2>1, <2>2
<1>6. ReceiptsAreBacked'
  <2> SUFFICES ASSUME NEW t \in Second, NEW x \in Suffix, receipts'[<<t, x>>] # None
               PROVE  Backed(receipts[<<t, x>>], t, x)'
    BY DEF ReceiptsAreBacked, Backed
  <2>1. CASE receipts'[<<t, x>>] = receipts[<<t, x>>]
    BY <1>1, <2>1, ReceiptsStayBacked DEF Backed
  <2>2. CASE receipts'[<<t, x>>] # receipts[<<t, x>>]
    <3>1. Leaves(r)
      BY <1>4, <2>2
    <3>2. <<t, x>> = <<name[r].second, name[r].suffix>> /\ receipts'[<<t, x>>] = ReceiptOf(r)
      BY <2>2, <3>1, NewReceipt
    <3>3. t = name[r].second /\ x = name[r].suffix
      BY <3>2
    <3>4. ReceiptOf(r)' = ReceiptOf(r) /\ name' = name
      BY <3>1 DEF ReceiptOf, Leaves, StatusOf
    <3> QED
      BY <3>1, <3>2, <3>3, <3>4, NewReceipt DEF Backed
  <2> QED
    BY <2>1, <2>2
<1>7. SuccessIsOnRecord'
  <2> SUFFICES ASSUME NEW s \in Resolver, pc'[s] = "accepted"
               PROVE  \E receipt \in Receipts' : receipt.by = s /\ receipt.job.accepted
    BY DEF SuccessIsOnRecord
  <2>1. CASE s # r
    <3>1. pc[s] = "accepted"
      BY <1>2, <2>1 DEF Untouched
    <3> QED
      BY <1>1, <3>1, ReceiptsStay DEF IInv, SuccessIsOnRecord
  <2>2. CASE s = r
    <3>1. Leaves(r) /\ job[r].accepted
      BY <1>4, <2>2 DEF Leaves, IInv, TypeOK
    <3> QED
      BY <2>2, <3>1, NewReceipt DEF ReceiptOf
  <2> QED
    BY <2>1, <2>2
<1> QED
  BY <1>5, <1>6, <1>7

LEMMA StepsKeepInv ==
  ASSUME IInv, NEW r \in Resolver, Steps(r)
  PROVE  IInv'
<1>1. TypeOK' /\ FilesKept /\ Knows(r)'
  BY StepsTyped, StepsReplaceNothing, StepsKnow DEF IInv
<1>2. ResolverInv'
  <2>1. ASSUME NEW s \in Resolver \ {r} PROVE Knows(s)'
    BY <1>1, StepsLeaveOthers, OthersKnow DEF IInv
  <2> QED
    BY <1>1, <2>1 DEF ResolverInv
<1> QED
  BY <1>1, <1>2, StepsKeepReceipts DEF IInv

LEMMA StartsInv == Init => IInv
<1> SUFFICES ASSUME Init PROVE IInv
  OBVIOUS
<1>1. TypeOK
  BY StartsTyped
<1>2. Receipts = {} /\ \A t \in Second, x \in Suffix : receipts[<<t, x>>] = None
  BY DEF Init, Receipts
<1>3. \A r \in Resolver : pc[r] = "start"
  BY DEF Init
<1> QED
  BY <1>1, <1>2, <1>3 DEF IInv, ResolverInv, Knows, ReceiptInv, ReceiptsAreBacked,
     SuccessIsOnRecord

LEMMA StuttersKeepInv == ASSUME IInv, UNCHANGED vars PROVE IInv'
<1>1. UNCHANGED <<pc, job, tree, checks, name, snapshots, originals, receipts>>
  BY DEF vars, files
<1>2. TypeOK'
  BY <1>1 DEF IInv, TypeOK
<1>3. ResolverInv'
  BY <1>1 DEF IInv, ResolverInv, Knows, Validated, StatusOf
<1>4. ReceiptInv'
  BY <1>1 DEF IInv, ReceiptInv, Receipts, Validated
<1>5. ReceiptsAreBacked'
  BY <1>1 DEF IInv, ReceiptsAreBacked
<1>6. SuccessIsOnRecord'
  BY <1>1 DEF IInv, SuccessIsOnRecord, Receipts
<1> QED
  BY <1>2, <1>3, <1>4, <1>5, <1>6 DEF IInv

\* The inductive invariant of the resolutions.
THEOREM ResolutionInvariant == Spec => []IInv
<1>1. IInv /\ [Next]_vars => IInv'
  BY StepsKeepInv, StuttersKeepInv DEF Next, Steps
<1> QED
  BY <1>1, StartsInv, PTL DEF Spec

\* A receipt on record is backed by the files it gives the digests of, whoever
\* else publishes within the same second (artifact_paths, write_atomic).
THEOREM ReceiptsBacked == Spec => []ReceiptsAreBacked
<1>1. IInv => ReceiptsAreBacked
  BY DEF IInv
<1> QED
  BY <1>1, ResolutionInvariant, PTL

\* An accepted receipt is of a lock that was compatible and, where checks were
\* asked for, passed them with the inputs unchanged (candidate_integrity).
THEOREM AcceptedValidated == Spec => []AcceptedWereValidated
<1>1. IInv => AcceptedWereValidated
  BY DEF IInv, ReceiptInv, Validated, AcceptedWereValidated
<1> QED
  BY <1>1, ResolutionInvariant, PTL

\* Success is reported only by a resolution whose accepted receipt is on record.
THEOREM SuccessRecorded == Spec => []SuccessIsOnRecord
<1>1. IInv => SuccessIsOnRecord
  BY DEF IInv
<1> QED
  BY <1>1, ResolutionInvariant, PTL

\* No published file is changed or removed by any step (write_atomic).
THEOREM FilesStay == Spec => NothingReplaced
<1>1. IInv /\ [Next]_vars => [FilesKept]_vars
  BY StepsReplaceNothing DEF Next, Steps, IInv
<1> QED
  BY <1>1, ResolutionInvariant, PTL DEF Spec, NothingReplaced, FilesKept
=============================================================================
