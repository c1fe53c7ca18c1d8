--------------------------- MODULE TargetCacheProofs ---------------------------
(***************************************************************************)
(* For any number of runs, inputs, digests and places and any bound on the *)
(* clock: there is no ledger beside a run that builds, and what one success  *)
(* left warm is warm for the next, whatever the clock does; the ledger is   *)
(* sound and no archive check reuses a stale output as long as the wall     *)
(* clock is not set back, or as long as every run publishes.                *)
(***************************************************************************)
EXTENDS TargetCache, TLAPS

\* A run's end changes nothing but that run and its lock.
LEMMA ExitPreserves ==
  ASSUME IInv, NEW r \in Run, Exit(r), pc[r] # "idle", clock' = clock,
         UNCHANGED <<ledger, out>>, last' \in Left \cup {None}
  PROVE  IInv'
<1> USE ConstantsAssumption
<1>1. TypeOK'
  BY SMTT(30) DEF IInv, TypeOK, Exit
<1>2. HolderInv'
  BY SMTT(30) DEF IInv, TypeOK, HolderInv, Exit
<1>3. SourceInv'
  BY SMTT(30) DEF IInv, TypeOK, SourceInv, Exit, Archive
<1>4. TimeInv'
  BY SMTT(30) DEF IInv, TypeOK, TimeInv, Exit, Archive
<1>5. TouchedInv'
  BY SMTT(30) DEF IInv, TypeOK, TouchedInv, Exit, Archive
<1>6. LedgerAtRest'
  BY SMTT(30) DEF IInv, TypeOK, LedgerAtRest, Exit
<1>7. LedgerSound'
  BY DEF IInv, LedgerSound
<1>8. NoStaleOutput'
  BY SMTT(30) DEF IInv, TypeOK, NoStaleOutput, CargoFresh, Exit, Archive
<1>9. QED
  BY <1>1, <1>2, <1>3, <1>4, <1>5, <1>6, <1>7, <1>8 DEF IInv

\* A new request holds nothing yet.
LEMMA ArrivePreserves ==
  ASSUME IInv, NEW r \in Run, ArriveArchive(r) \/ ArriveLocal(r)
  PROVE  IInv'
<1> USE ConstantsAssumption
<1>1. TypeOK'
  BY SMTT(30) DEF IInv, TypeOK, ArriveArchive, ArriveLocal
<1>2. HolderInv'
  BY SMTT(30) DEF IInv, TypeOK, HolderInv, ArriveArchive, ArriveLocal
<1>3. SourceInv'
  BY SMTT(30) DEF IInv, TypeOK, SourceInv, Archive, ArriveArchive, ArriveLocal
<1>4. TimeInv'
  BY SMTT(30) DEF IInv, TypeOK, TimeInv, Archive, ArriveArchive, ArriveLocal
<1>5. TouchedInv'
  BY SMTT(30) DEF IInv, TypeOK, TouchedInv, Archive, ArriveArchive, ArriveLocal
<1>6. LedgerAtRest'
  BY SMTT(30) DEF IInv, TypeOK, LedgerAtRest, ArriveArchive, ArriveLocal
<1>7. LedgerSound'
  BY SMTT(30) DEF IInv, TypeOK, LedgerSound, ArriveArchive, ArriveLocal
<1>8. NoStaleOutput'
  BY SMTT(30) DEF IInv, TypeOK, NoStaleOutput, CargoFresh, Archive, ArriveArchive, ArriveLocal
<1>9. QED
  BY <1>1, <1>2, <1>3, <1>4, <1>5, <1>6, <1>7, <1>8 DEF IInv

\* The lock is taken while nobody builds.
LEMMA AcquirePreserves ==
  ASSUME IInv, NEW r \in Run, Acquire(r)
  PROVE  IInv'
<1> USE ConstantsAssumption
<1>1. TypeOK'
  BY SMTT(30) DEF IInv, TypeOK, Acquire, source
<1>2. HolderInv'
  BY SMTT(30) DEF IInv, TypeOK, HolderInv, Acquire, source
<1>3. SourceInv'
  BY SMTT(30) DEF IInv, TypeOK, SourceInv, Archive, Acquire, source
<1>4. TimeInv'
  BY SMTT(30) DEF IInv, TypeOK, TimeInv, Archive, Acquire, source
<1>5. TouchedInv'
  BY SMTT(30) DEF IInv, TypeOK, TouchedInv, Archive, Acquire, source, HolderInv
<1>6. LedgerAtRest'
  BY SMTT(30) DEF IInv, TypeOK, LedgerAtRest, Acquire, source
<1>7. LedgerSound'
  BY SMTT(30) DEF IInv, TypeOK, LedgerSound, Acquire, source
<1>8. NoStaleOutput'
  BY SMTT(30) DEF IInv, TypeOK, NoStaleOutput, CargoFresh, Archive, Acquire, source, HolderInv
<1>9. QED
  BY <1>1, <1>2, <1>3, <1>4, <1>5, <1>6, <1>7, <1>8 DEF IInv

\* A local run starts without a ledger.
LEMMA InvalidatePreserves ==
  ASSUME IInv, NEW r \in Run, Invalidate(r)
  PROVE  IInv'
<1> USE ConstantsAssumption
<1>1. TypeOK'
  BY SMTT(30) DEF IInv, TypeOK, Invalidate, source
<1>2. HolderInv'
  BY SMTT(30) DEF IInv, TypeOK, HolderInv, Invalidate, source
<1>3. SourceInv'
  BY SMTT(30) DEF IInv, TypeOK, SourceInv, Archive, Invalidate, source
<1>4. TimeInv'
  BY SMTT(30) DEF IInv, TypeOK, TimeInv, Archive, Invalidate, source
<1>5. TouchedInv'
  BY SMTT(30) DEF IInv, TypeOK, TouchedInv, Archive, Invalidate, source
<1>6. LedgerAtRest'
  BY SMTT(30) DEF IInv, TypeOK, LedgerAtRest, Invalidate, source
<1>7. LedgerSound'
  BY SMTT(30) DEF IInv, TypeOK, LedgerSound, Invalidate, source
<1>8. NoStaleOutput'
  BY SMTT(30) DEF IInv, TypeOK, NoStaleOutput, CargoFresh, Archive, Invalidate, source
<1>9. QED
  BY <1>1, <1>2, <1>3, <1>4, <1>5, <1>6, <1>7, <1>8 DEF IInv

\* Times of the ledger lie in the past, so that the fresh time is the present.
LEMMA FreshTimeIsNow ==
  ASSUME IInv
  PROVE  FreshTime = clock /\ clock \in Nat
<1>1. clock \in Nat
  BY ConstantsAssumption DEF IInv, TypeOK, Times
<1>2. ASSUME ledger # None
      PROVE  ledger.completed \in Nat /\ ledger.completed < clock
  BY <1>2 DEF IInv, TypeOK, TimeInv, State, Times
<1>3. QED
  BY <1>1, <1>2 DEF FreshTime, Later

\* The reconciled mtimes make Cargo call fresh only what the ledger vouched for.
LEMMA PreparePreserves ==
  ASSUME IInv, NEW r \in Run, Prepare(r)
  PROVE  IInv'
<1> USE ConstantsAssumption
<1> DEFINE stamped == [i \in Input |->
             IF Reusable(r, i) THEN ledger.mtime[i] ELSE FreshTime]
           record == [place |-> place[r], completed |-> FreshTime,
                      digest |-> bytes[r], mtime |-> stamped]
<1>1. /\ FreshTime = clock
      /\ clock \in Nat
      /\ clock' = clock + 1
      /\ clock' \in Times
      /\ clock \in Times
  BY FreshTimeIsNow DEF Prepare, Tick, IInv, TypeOK, Times
<1>2. /\ mtime' = [mtime EXCEPT ![r] = stamped]
      /\ state' = [state EXCEPT ![r] = record]
      /\ ledger' = None
      /\ pc' = [pc EXCEPT ![r] = "building"]
      /\ pc[r] = "locked"
      /\ place[r] \in Place
      /\ UNCHANGED <<lock, out, place, bytes, moved, touched, last>>
  BY DEF Prepare, Archive
<1>3. bytes[r] \in [Input -> Digest]
  BY <1>2 DEF IInv, SourceInv, Archive
<1>4. ASSUME NEW i \in Input
      PROVE  stamped[i] \in Times /\ stamped[i] < clock'
  <2>1. CASE Reusable(r, i)
    BY <1>1, <2>1 DEF IInv, TypeOK, TimeInv, Reusable, State, Times
  <2>2. CASE ~Reusable(r, i)
    BY <1>1, <2>2
  <2>3. QED
    BY <2>1, <2>2
<1>5. stamped \in [Input -> Times]
  BY <1>4
<1>6. record \in State
  BY <1>1, <1>2, <1>3, <1>5 DEF State
<1> HIDE DEF stamped, record
<1>7. /\ record.place = place[r]
      /\ record.completed = clock
      /\ record.digest = bytes[r]
      /\ record.mtime = stamped
  BY <1>1 DEF record
<1>8. TypeOK'
  BY <1>1, <1>2, <1>5, <1>6 DEF IInv, TypeOK
<1>9. HolderInv'
  BY <1>2 DEF IInv, TypeOK, HolderInv
<1>10. touched[r] = {}
  BY <1>2 DEF IInv, SourceInv
<1>11. /\ mtime'[r] = stamped /\ state'[r] = record /\ pc'[r] = "building"
       /\ \A q \in Run \ {r}:
            mtime'[q] = mtime[q] /\ state'[q] = state[q] /\ pc'[q] = pc[q]
  BY <1>2 DEF IInv, TypeOK
<1>12. SourceInv'
  BY <1>2, <1>3, <1>5, <1>6, <1>7, <1>10, <1>11
  DEF IInv, SourceInv, Archive
<1>13. TimeInv'
  <2>1. \A i \in Input: out'[i] # None => out'[i].stamp < clock'
    BY <1>1, <1>2 DEF IInv, TypeOK, TimeInv, Output, Times
  <2>2. ASSUME NEW q \in Run, pc'[q] = "building", Archive(q)'
        PROVE  /\ state'[q].completed < clock'
               /\ \A i \in Input: state'[q].mtime[i] < clock'
    <3>1. CASE q = r
      BY <1>1, <1>4, <1>7, <1>11, <3>1
    <3>2. CASE q # r
      BY <1>2, <1>11, <2>2, <3>2 DEF IInv, HolderInv
    <3>3. QED
      BY <3>1, <3>2
  <2>3. QED
    BY <1>2, <2>1, <2>2 DEF TimeInv
<1>14. ASSUME NEW q \in Run, pc'[q] = "building"
       PROVE  q = r
  BY <1>2, <1>11, <1>14 DEF IInv, HolderInv
<1>15. TouchedInv'
  BY <1>2, <1>7, <1>10, <1>11, <1>14 DEF TouchedInv
<1>16. LedgerAtRest' /\ LedgerSound'
  BY <1>2 DEF LedgerAtRest, LedgerSound
<1>17. NoStaleOutput'
  <2> SUFFICES ASSUME NEW i \in Input, CargoFresh(r, i)'
               PROVE  out[i].place = place[r] /\ out[i].digest = bytes[r][i]
    BY <1>2, <1>14 DEF NoStaleOutput
  <2>1. out[i] # None /\ stamped[i] <= out[i].stamp
    BY <1>2, <1>11 DEF CargoFresh
  <2>2. out[i].stamp \in Nat /\ out[i].stamp < clock
    BY <2>1 DEF IInv, TypeOK, TimeInv, Output, Times
  <2>3. Reusable(r, i) /\ stamped[i] = ledger.mtime[i]
    BY <1>1, <2>1, <2>2 DEF stamped
  <2>4. QED
    BY <2>1, <2>3 DEF IInv, LedgerSound, Reusable
<1>18. QED
  BY <1>8, <1>9, <1>12, <1>13, <1>15, <1>16, <1>17 DEF IInv

\* An output built now carries this run's bytes and the latest stamp.
LEMMA BuildPreserves ==
  ASSUME IInv, NEW r \in Run, NEW i \in Input, Build(r, i) \/ BuildLocal(r, i)
  PROVE  IInv'
<1> USE ConstantsAssumption
<1>1. PICK p \in Place \cup {Local}, d \in Digest:
        /\ out' = [out EXCEPT ![i] = [place |-> p, digest |-> d, stamp |-> clock]]
        /\ Archive(r) => p = place[r] /\ d = bytes[r][i]
  <2>1. CASE Build(r, i)
    <3>1. place[r] \in Place /\ bytes[r][i] \in Digest
      BY <2>1 DEF Build, IInv, SourceInv, Archive
    <3>2. QED
      BY <2>1, <3>1 DEF Build
  <2>2. CASE BuildLocal(r, i)
    BY <2>2 DEF BuildLocal
  <2>3. QED
    BY <2>1, <2>2
<1>2. /\ pc[r] = "building"
      /\ UNCHANGED <<lock, ledger, pc, place, bytes, mtime, moved, state, touched, last>>
      /\ clock \in Nat /\ clock' = clock + 1 /\ clock' \in Times
  BY DEF Build, BuildLocal, source, Tick, Times, IInv, TypeOK
<1> DEFINE built == [place |-> p, digest |-> d, stamp |-> clock]
<1>3. built \in Output
  BY <1>1 DEF Output, IInv, TypeOK
<1>4. built.place = p /\ built.digest = d /\ built.stamp = clock
  OBVIOUS
<1> HIDE DEF built
<1>6. out'[i] = built /\ \A j \in Input \ {i}: out'[j] = out[j]
  BY <1>1 DEF IInv, TypeOK, built
<1>7. TypeOK'
  BY <1>1, <1>2, <1>3 DEF IInv, TypeOK, built
<1>8. HolderInv' /\ SourceInv' /\ TouchedInv'
  BY <1>2 DEF IInv, HolderInv, SourceInv, TouchedInv, Archive
<1>9. TimeInv'
  <2>1. ASSUME NEW j \in Input, out'[j] # None
        PROVE  out'[j].stamp < clock'
    <3>1. CASE j = i
      BY <1>2, <1>4, <1>6, <3>1
    <3>2. CASE j # i
      BY <1>2, <1>6, <2>1, <3>2 DEF IInv, TypeOK, TimeInv, Output, Times
    <3>3. QED
      BY <3>1, <3>2
  <2>2. ledger' = None
    BY <1>2 DEF IInv, LedgerAtRest
  <2>3. ASSUME NEW q \in Run, pc[q] = "building", Archive(q)
        PROVE  /\ state[q].completed < clock'
               /\ \A j \in Input: state[q].mtime[j] < clock'
    BY <1>2, <2>3 DEF IInv, SourceInv, TimeInv, State, Times
  <2>4. QED
    BY <1>2, <2>1, <2>2, <2>3 DEF TimeInv, Archive
<1>10. LedgerAtRest' /\ LedgerSound'
  BY <1>2 DEF IInv, LedgerAtRest, LedgerSound
<1>11. NoStaleOutput'
  <2> SUFFICES ASSUME NEW q \in Run, NEW j \in Input, pc[q] = "building",
                      Archive(q), j \notin touched[q], CargoFresh(q, j)'
               PROVE  out'[j].place = place[q] /\ out'[j].digest = bytes[q][j]
    BY <1>2 DEF NoStaleOutput, Archive
  <2>1. q = r
    BY <1>2 DEF IInv, HolderInv
  <2>2. CASE j = i
    BY <1>1, <1>4, <1>6, <2>1, <2>2
  <2>3. CASE j # i
    BY <1>2, <1>6, <2>3 DEF IInv, NoStaleOutput, CargoFresh
  <2>4. QED
    BY <2>2, <2>3
<1>12. QED
  BY <1>7, <1>8, <1>9, <1>10, <1>11 DEF IInv

\* A command that rewrites an input leaves a trace complete can see.
LEMMA TouchPreserves ==
  ASSUME IInv, NEW r \in Run, NEW i \in Input, NEW d \in Digest,
         Edit(r, i, d) \/ CopyOver(r, i, d) \/ Rename(r, i, d)
  PROVE  IInv'
<1> USE ConstantsAssumption
<1>1. /\ pc[r] = "building" /\ Archive(r) /\ Touch(r, i, d)
      /\ bytes' = [bytes EXCEPT ![r][i] = d]
      /\ touched' = [touched EXCEPT ![r] = @ \cup {i}]
      /\ UNCHANGED <<lock, ledger, out, pc, place, state, last>>
  BY DEF Edit, CopyOver, Rename, Touch
<1>2. /\ bytes[r] \in [Input -> Digest]
      /\ mtime[r] \in [Input -> Times]
      /\ state[r] \in State
      /\ state[r].mtime \in [Input -> Times]
      /\ state[r].digest \in [Input -> Digest]
  BY <1>1 DEF IInv, SourceInv, State
<1>3. PICK t \in Times:
        /\ mtime' = [mtime EXCEPT ![r][i] = t]
        /\ t = state[r].mtime[i] => moved'[r] \/ d # state[r].digest[i]
  <2>1. CASE Edit(r, i, d)
    <3>1. clock \in Times /\ mtime' = [mtime EXCEPT ![r][i] = clock]
      BY <2>1 DEF Edit, IInv, TypeOK
    <3>2. clock # state[r].mtime[i]
      BY <1>1, <1>2, <3>1 DEF IInv, TimeInv, Times
    <3>3. QED
      BY <3>1, <3>2
  <2>2. CASE CopyOver(r, i, d)
    <3>1. mtime' = [mtime EXCEPT ![r][i] = mtime[r][i]] /\ mtime[r][i] \in Times
      BY <1>2, <2>2 DEF CopyOver, IInv, TypeOK
    <3>2. d # state[r].digest[i]
      BY <2>2 DEF CopyOver
    <3>3. QED
      BY <3>1, <3>2
  <2>3. CASE Rename(r, i, d)
    <3>1. /\ mtime' = [mtime EXCEPT ![r][i] = state[r].mtime[i]]
          /\ state[r].mtime[i] \in Times
          /\ moved'[r]
      BY <1>2, <2>3 DEF Rename, IInv, TypeOK
    <3>2. QED
      BY <3>1
  <2>4. QED
    BY <2>1, <2>2, <2>3
<1>4. moved' \in [Run -> BOOLEAN] /\ \A q \in Run: moved[q] => moved'[q]
  BY DEF Edit, CopyOver, Rename, IInv, TypeOK
<1>5. /\ clock \in Nat /\ clock' \in Times /\ clock <= clock'
  BY DEF Edit, CopyOver, Rename, Tick, Times, IInv, TypeOK
<1>6. /\ bytes'[r] = [bytes[r] EXCEPT ![i] = d]
      /\ mtime'[r] = [mtime[r] EXCEPT ![i] = t]
      /\ touched'[r] = touched[r] \cup {i}
      /\ \A q \in Run \ {r}: /\ bytes'[q] = bytes[q]
                             /\ mtime'[q] = mtime[q]
                             /\ touched'[q] = touched[q]
  BY <1>1, <1>3 DEF IInv, TypeOK
<1>7. bytes'[r] \in [Input -> Digest] /\ mtime'[r] \in [Input -> Times]
  BY <1>2, <1>6
<1>8. TypeOK'
  <2>1. /\ bytes' \in [Run -> [Input -> Digest] \cup {None}]
        /\ mtime' \in [Run -> [Input -> Times] \cup {None}]
    BY <1>1, <1>3, <1>6, <1>7 DEF IInv, TypeOK
  <2>2. touched' \in [Run -> SUBSET Input]
    BY <1>1 DEF IInv, TypeOK
  <2>3. QED
    BY <1>1, <1>4, <1>5, <2>1, <2>2 DEF IInv, TypeOK
<1>9. HolderInv'
  BY <1>1 DEF IInv, HolderInv
<1>10. SourceInv'
  BY <1>1, <1>6, <1>7 DEF IInv, SourceInv, Archive
<1>11. \A q \in Run: pc[q] = "building" => q = r
  BY <1>1 DEF IInv, HolderInv
<1>12. TimeInv'
  <2>1. ASSUME NEW j \in Input, out[j] # None
        PROVE  out[j].stamp < clock'
    BY <1>5, <2>1 DEF IInv, TypeOK, TimeInv, Output, Times
  <2>2. ledger = None
    BY <1>1 DEF IInv, LedgerAtRest
  <2>3. /\ state[r].completed < clock'
        /\ \A j \in Input: state[r].mtime[j] < clock'
    BY <1>1, <1>2, <1>5 DEF IInv, TimeInv, State, Times
  <2>4. QED
    BY <1>1, <1>11, <2>1, <2>2, <2>3 DEF TimeInv, Archive
<1>13. TouchedInv'
  <2> SUFFICES ASSUME NEW j \in Input
               PROVE  IF j \in touched'[r]
                      THEN \/ moved'[r]
                           \/ mtime'[r][j] # state[r].mtime[j]
                           \/ bytes'[r][j] # state[r].digest[j]
                      ELSE /\ mtime'[r][j] = state[r].mtime[j]
                           /\ bytes'[r][j] = state[r].digest[j]
    BY <1>1, <1>11 DEF TouchedInv, Archive
  <2>1. CASE j = i
    BY <1>2, <1>3, <1>6, <2>1
  <2>2. CASE j # i
    BY <1>1, <1>2, <1>4, <1>6, <2>2 DEF IInv, TouchedInv
  <2>3. QED
    BY <2>1, <2>2
<1>14. LedgerAtRest' /\ LedgerSound'
  BY <1>1 DEF IInv, LedgerAtRest, LedgerSound
<1>15. NoStaleOutput'
  <2> SUFFICES ASSUME NEW j \in Input, j \notin touched'[r], CargoFresh(r, j)'
               PROVE  out[j].place = place[r] /\ out[j].digest = bytes'[r][j]
    BY <1>1, <1>11 DEF NoStaleOutput, Archive
  <2>1. j # i /\ j \notin touched[r] /\ mtime'[r][j] = mtime[r][j]
               /\ bytes'[r][j] = bytes[r][j]
    BY <1>2, <1>6
  <2>2. QED
    BY <1>1, <2>1 DEF IInv, NoStaleOutput, CargoFresh
<1>16. QED
  BY <1>8, <1>9, <1>10, <1>12, <1>13, <1>14, <1>15 DEF IInv

\* complete publishes only a ledger that vouches for the outputs as they are.
LEMMA PublishedLedgerIsSound ==
  ASSUME IInv, NEW r \in Run, pc[r] = "building", Archive(r), Unchanged(r),
         NEW i \in Input, out[i] # None, state[r].mtime[i] <= out[i].stamp
  PROVE  out[i].place = state[r].place /\ out[i].digest = state[r].digest[i]
<1>1. i \notin touched[r]
  BY DEF IInv, TouchedInv, Unchanged
<1>2. CargoFresh(r, i)
  BY DEF CargoFresh, Unchanged
<1>3. out[i].place = place[r] /\ out[i].digest = bytes[r][i]
  BY <1>1, <1>2 DEF IInv, NoStaleOutput
<1>4. QED
  BY <1>3 DEF IInv, SourceInv, Unchanged

\* The history of what a successful run leaves has its type.
LEMMA LeftTyped ==
  ASSUME NEW r \in Run, Archive(r), bytes[r] \in [Input -> Digest]
  PROVE  LeftBy(r) \in Left \cup {None}
<1>1. {i \in Input: CargoFresh(r, i)} \in SUBSET Input
  OBVIOUS
<1>2. CASE touched[r] = {}
  BY <1>1, <1>2 DEF LeftBy, Left, Archive
<1>3. CASE touched[r] # {}
  BY <1>3 DEF LeftBy
<1> QED BY <1>2, <1>3

\* The end of a successful archive check.
LEMMA CompletePreserves ==
  ASSUME IInv, NEW r \in Run, Complete(r)
  PROVE  IInv'
<1> USE ConstantsAssumption
<1>1. /\ pc[r] = "building" /\ Archive(r) /\ Exit(r) /\ UNCHANGED out
      /\ clock \in Nat /\ clock' = clock + 1 /\ clock \in Times /\ clock' \in Times
  BY DEF Complete, Tick, IInv, TypeOK, Times
<1>2. state[r] \in State /\ ledger = None
  BY <1>1 DEF IInv, SourceInv, LedgerAtRest
<1> DEFINE published == Published(r)
<1>3. /\ published \in State
      /\ published.completed < clock'
      /\ published.mtime = state[r].mtime
      /\ published.digest = state[r].digest
      /\ published.place = state[r].place
  BY <1>1, <1>2 DEF Published, State, Later, IInv, TimeInv, Times
<1> HIDE DEF published
<1>4. ledger' = None \/ (Unchanged(r) /\ ledger' = published)
  BY <1>1, <1>2 DEF Complete, published
<1>5. \A q \in Run: pc'[q] # "building"
  BY <1>1 DEF Exit, IInv, TypeOK, HolderInv
<1>6. TypeOK'
  <2>1. last' \in Left \cup {None}
    BY <1>1, LeftTyped DEF Complete, IInv, SourceInv
  <2> QED BY <1>1, <1>3, <1>4, <2>1, SMTT(30) DEF IInv, TypeOK, Exit
<1>7. HolderInv'
  BY <1>1 DEF IInv, TypeOK, HolderInv, Exit
<1>8. SourceInv'
  BY <1>1, <1>5 DEF IInv, TypeOK, SourceInv, Exit, Archive
<1>9. TimeInv'
  <2>1. ASSUME NEW i \in Input, out[i] # None
        PROVE  out[i].stamp < clock'
    BY <1>1, <2>1 DEF IInv, TypeOK, TimeInv, Output, Times
  <2>2. ASSUME ledger' # None
        PROVE  /\ ledger'.completed < clock'
               /\ \A i \in Input: ledger'.mtime[i] < clock'
    BY <1>1, <1>2, <1>3, <1>4, <2>2 DEF IInv, TimeInv, State, Times
  <2>3. QED
    BY <1>1, <1>5, <2>1, <2>2 DEF TimeInv
<1>10. TouchedInv' /\ LedgerAtRest' /\ NoStaleOutput'
  BY <1>5 DEF TouchedInv, LedgerAtRest, NoStaleOutput
<1>11. LedgerSound'
  BY <1>1, <1>3, <1>4, PublishedLedgerIsSound DEF LedgerSound
<1>12. QED
  BY <1>6, <1>7, <1>8, <1>9, <1>10, <1>11 DEF IInv

\* The invariant holds before any run.
LEMMA InitEstablishes == Init => IInv
<1> SUFFICES ASSUME Init PROVE IInv
  OBVIOUS
<1> USE ConstantsAssumption
<1>1. \A r \in Run: pc[r] = "idle" /\ place[r] = None /\ touched[r] = {}
  BY DEF Init
<1>2. TypeOK
  BY DEF Init, TypeOK, Times
<1>3. HolderInv /\ SourceInv /\ TimeInv /\ TouchedInv
  BY <1>1 DEF Init, HolderInv, SourceInv, TimeInv, TouchedInv, Archive
<1>4. LedgerAtRest /\ LedgerSound /\ NoStaleOutput
  BY <1>1 DEF Init, LedgerAtRest, LedgerSound, NoStaleOutput
<1>5. QED
  BY <1>2, <1>3, <1>4 DEF IInv

\* Every step keeps the invariant when the clock is never set back.
LEMMA NextPreserves ==
  ASSUME ~ClockStepsBack, IInv, [Next]_vars
  PROVE  IInv'
<1>1. ASSUME NEW r \in Run, ArriveArchive(r) \/ ArriveLocal(r)
      PROVE  IInv'
  BY <1>1, ArrivePreserves
<1>2. ASSUME NEW r \in Run, Acquire(r)
      PROVE  IInv'
  BY <1>2, AcquirePreserves
<1>3. ASSUME NEW r \in Run, GiveUp(r) \/ Refuse(r) \/ FinishLocal(r) \/ Fail(r)
      PROVE  IInv'
  <2>1. /\ Exit(r) /\ pc[r] # "idle" /\ clock' = clock /\ UNCHANGED <<ledger, out>>
        /\ last' \in Left \cup {None}
    BY <1>3 DEF GiveUp, Refuse, FinishLocal, Fail, IInv, TypeOK
  <2>2. QED
    BY <2>1, ExitPreserves
<1>4. ASSUME NEW r \in Run, Invalidate(r)
      PROVE  IInv'
  BY <1>4, InvalidatePreserves
<1>5. ASSUME NEW r \in Run, Prepare(r)
      PROVE  IInv'
  BY <1>5, PreparePreserves
<1>6. ASSUME NEW r \in Run, Complete(r)
      PROVE  IInv'
  BY <1>6, CompletePreserves
<1>7. ASSUME NEW r \in Run, NEW i \in Input, Build(r, i) \/ BuildLocal(r, i)
      PROVE  IInv'
  BY <1>7, BuildPreserves
<1>8. ASSUME NEW r \in Run, NEW i \in Input, NEW d \in Digest,
             Edit(r, i, d) \/ CopyOver(r, i, d) \/ Rename(r, i, d)
      PROVE  IInv'
  BY <1>8, TouchPreserves
<1>9. CASE UNCHANGED vars
  BY <1>9 DEF vars, source, IInv, TypeOK, HolderInv, SourceInv, TimeInv, TouchedInv,
              LedgerAtRest, LedgerSound, NoStaleOutput, Archive, CargoFresh
<1>10. ~StepBack
  BY DEF StepBack
<1>11. QED
  BY <1>1, <1>2, <1>3, <1>4, <1>5, <1>6, <1>7, <1>8, <1>9, <1>10 DEF Next

\* The inductive invariant holds of every behaviour of a monotone clock.
THEOREM Invariance ==
  ASSUME ~ClockStepsBack
  PROVE  Spec => []IInv
<1>1. Init => IInv
  BY InitEstablishes
<1>2. IInv /\ [Next]_vars => IInv'
  BY NextPreserves
<1>3. QED
  BY <1>1, <1>2, PTL DEF Spec

-----------------------------------------------------------------------------
(* What holds whatever the clock does.                                     *)

\* The end of a run that publishes nothing.
LEMMA ExitRests ==
  ASSUME RestInv, NEW r \in Run, Exit(r), pc[r] # "idle", clock' \in Times,
         UNCHANGED <<ledger, out>>, last' \in Left \cup {None}
  PROVE  RestInv'
<1> USE ConstantsAssumption
<1>1. TypeOK'
  BY SMTT(30) DEF RestInv, TypeOK, Exit
<1>2. HolderInv'
  BY SMTT(30) DEF RestInv, TypeOK, HolderInv, Exit
<1>3. SourceInv'
  BY SMTT(30) DEF RestInv, TypeOK, SourceInv, Exit, Archive
<1>4. LedgerAtRest'
  BY SMTT(30) DEF RestInv, TypeOK, LedgerAtRest, Exit
<1> QED BY <1>1, <1>2, <1>3, <1>4 DEF RestInv

\* A request comes, gets the lock or removes the ledger.
LEMMA EntryRests ==
  ASSUME RestInv, NEW r \in Run,
         ArriveArchive(r) \/ ArriveLocal(r) \/ Acquire(r) \/ Invalidate(r)
  PROVE  RestInv'
<1> USE ConstantsAssumption
<1>1. ASSUME ArriveArchive(r) \/ ArriveLocal(r) PROVE RestInv'
  <2>1. TypeOK'
    BY <1>1, SMTT(30) DEF RestInv, TypeOK, ArriveArchive, ArriveLocal
  <2>2. HolderInv'
    BY <1>1, SMTT(30) DEF RestInv, TypeOK, HolderInv, ArriveArchive, ArriveLocal
  <2>3. SourceInv'
    BY <1>1, SMTT(30) DEF RestInv, TypeOK, SourceInv, Archive, ArriveArchive, ArriveLocal
  <2>4. LedgerAtRest'
    BY <1>1, SMTT(30) DEF RestInv, TypeOK, LedgerAtRest, ArriveArchive, ArriveLocal
  <2> QED BY <2>1, <2>2, <2>3, <2>4 DEF RestInv
<1>2. ASSUME Acquire(r) PROVE RestInv'
  <2>1. TypeOK' /\ HolderInv'
    BY <1>2, SMTT(30) DEF RestInv, TypeOK, HolderInv, Acquire, source
  <2>2. SourceInv' /\ LedgerAtRest'
    BY <1>2, SMTT(30) DEF RestInv, TypeOK, SourceInv, LedgerAtRest, Archive, Acquire, source
  <2> QED BY <2>1, <2>2 DEF RestInv
<1>3. ASSUME Invalidate(r) PROVE RestInv'
  <2>1. TypeOK' /\ HolderInv'
    BY <1>3, SMTT(30) DEF RestInv, TypeOK, HolderInv, Invalidate, source
  <2>2. SourceInv' /\ LedgerAtRest'
    BY <1>3, SMTT(30) DEF RestInv, TypeOK, SourceInv, LedgerAtRest, Archive, Invalidate, source
  <2> QED BY <2>1, <2>2 DEF RestInv
<1> QED BY <1>1, <1>2, <1>3

\* What prepare does to its own run and to the others.
LEMMA PrepareRecords ==
  ASSUME RestInv, NEW r \in Run, Prepare(r)
  PROVE  /\ FreshTime \in Times
         /\ bytes[r] \in [Input -> Digest]
         /\ mtime'[r] \in [Input -> Times]
         /\ \A i \in Input:
              mtime'[r][i] = IF Reusable(r, i) THEN ledger.mtime[i] ELSE FreshTime
         /\ state'[r] \in State
         /\ state'[r] = [place |-> place[r], completed |-> FreshTime,
                         digest |-> bytes[r], mtime |-> mtime'[r]]
         /\ pc'[r] = "building"
         /\ \A q \in Run \ {r}:
              mtime'[q] = mtime[q] /\ state'[q] = state[q] /\ pc'[q] = pc[q]
<1> USE ConstantsAssumption
<1> DEFINE stamped == [i \in Input |->
             IF Reusable(r, i) THEN ledger.mtime[i] ELSE FreshTime]
           record == [place |-> place[r], completed |-> FreshTime,
                      digest |-> bytes[r], mtime |-> stamped]
<1>1. /\ mtime' = [mtime EXCEPT ![r] = stamped]
      /\ state' = [state EXCEPT ![r] = record]
      /\ pc' = [pc EXCEPT ![r] = "building"]
      /\ place[r] \in Place
  BY DEF Prepare, Archive
<1>2. FreshTime \in Times
  BY DEF Prepare, FreshTime, Later, RestInv, TypeOK, State, Times
<1>3. bytes[r] \in [Input -> Digest]
  BY <1>1 DEF RestInv, SourceInv, Archive
<1>4. \A i \in Input: stamped[i] \in Times
  BY <1>2 DEF RestInv, TypeOK, Reusable, State
<1>5. stamped \in [Input -> Times]
  BY <1>4
<1>6. record \in State
  BY <1>1, <1>2, <1>3, <1>5 DEF State
<1>7. \A i \in Input:
        stamped[i] = IF Reusable(r, i) THEN ledger.mtime[i] ELSE FreshTime
  OBVIOUS
<1>8. record = [place |-> place[r], completed |-> FreshTime,
                digest |-> bytes[r], mtime |-> stamped]
  OBVIOUS
<1> HIDE DEF stamped, record
<1>9. /\ mtime'[r] = stamped /\ state'[r] = record /\ pc'[r] = "building"
      /\ \A q \in Run \ {r}:
           mtime'[q] = mtime[q] /\ state'[q] = state[q] /\ pc'[q] = pc[q]
  BY <1>1 DEF RestInv, TypeOK
<1> QED BY <1>2, <1>3, <1>5, <1>6, <1>7, <1>8, <1>9

LEMMA PrepareRests ==
  ASSUME RestInv, NEW r \in Run, Prepare(r)
  PROVE  RestInv'
<1> USE ConstantsAssumption
<1>1. /\ ledger' = None /\ clock' \in Times
      /\ mtime' = [mtime EXCEPT ![r] = mtime'[r]]
      /\ state' = [state EXCEPT ![r] = state'[r]]
      /\ pc' = [pc EXCEPT ![r] = "building"]
      /\ pc[r] = "locked"
      /\ UNCHANGED <<lock, out, place, bytes, moved, touched, last>>
  BY DEF Prepare, Tick, RestInv, TypeOK, Times
<1>2. TypeOK'
  BY <1>1, PrepareRecords DEF RestInv, TypeOK
<1>3. HolderInv' /\ LedgerAtRest'
  BY <1>1 DEF RestInv, TypeOK, HolderInv, LedgerAtRest
<1>4. touched[r] = {}
  BY <1>1 DEF RestInv, SourceInv
<1>5. SourceInv'
  <2>1. /\ state'[r] = [place |-> place[r], completed |-> FreshTime,
                        digest |-> bytes[r], mtime |-> mtime'[r]]
        /\ state'[r] \in State
        /\ mtime'[r] \in [Input -> Times]
        /\ bytes[r] \in [Input -> Digest]
        /\ pc'[r] = "building"
    BY PrepareRecords, Zenon
  <2>2. state'[r].place = place[r]
    BY <2>1
  <2>3. \A q \in Run \ {r}:
          mtime'[q] = mtime[q] /\ state'[q] = state[q] /\ pc'[q] = pc[q]
    BY PrepareRecords, Zenon
  <2>4. ASSUME NEW q \in Run
        PROVE  /\ pc'[q] = "idle" => place'[q] = None
               /\ pc'[q] # "building" => touched'[q] = {}
               /\ Archive(q)' => bytes'[q] \in [Input -> Digest]
               /\ Archive(q)' /\ pc'[q] = "building" =>
                    /\ mtime'[q] \in [Input -> Times]
                    /\ state'[q] \in State
                    /\ state'[q].place = place'[q]
    <3>1. CASE q = r
      BY <1>1, <2>1, <2>2, <3>1 DEF Archive
    <3>2. CASE q # r
      BY <1>1, <2>3, <3>2 DEF RestInv, SourceInv, Archive
    <3> QED BY <3>1, <3>2
  <2> QED BY <2>4 DEF SourceInv
<1> QED BY <1>2, <1>3, <1>5 DEF RestInv

LEMMA BuildRests ==
  ASSUME RestInv, NEW r \in Run, NEW i \in Input, Build(r, i) \/ BuildLocal(r, i)
  PROVE  RestInv'
<1> USE ConstantsAssumption
<1>1. PICK o \in Output: out' = [out EXCEPT ![i] = o]
  <2>1. CASE Build(r, i)
    <3>1. place[r] \in Place /\ bytes[r][i] \in Digest
      BY <2>1 DEF Build, RestInv, SourceInv, Archive
    <3> QED BY <2>1, <3>1 DEF Build, Output, RestInv, TypeOK
  <2>2. CASE BuildLocal(r, i)
    BY <2>2 DEF BuildLocal, Output, RestInv, TypeOK
  <2> QED BY <2>1, <2>2
<1>2. /\ UNCHANGED <<lock, ledger, pc, place, bytes, mtime, moved, state, touched, last>>
      /\ clock' \in Times
  BY DEF Build, BuildLocal, source, Tick, Times, RestInv, TypeOK
<1> QED
  BY <1>1, <1>2 DEF RestInv, TypeOK, HolderInv, SourceInv, LedgerAtRest, Archive

LEMMA TouchRests ==
  ASSUME RestInv, NEW r \in Run, NEW i \in Input, NEW d \in Digest,
         Edit(r, i, d) \/ CopyOver(r, i, d) \/ Rename(r, i, d)
  PROVE  RestInv'
<1> USE ConstantsAssumption
<1>1. /\ pc[r] = "building" /\ Archive(r)
      /\ bytes' = [bytes EXCEPT ![r][i] = d]
      /\ touched' = [touched EXCEPT ![r] = @ \cup {i}]
      /\ UNCHANGED <<lock, ledger, out, pc, place, state, last>>
  BY DEF Edit, CopyOver, Rename, Touch
<1>2. /\ bytes[r] \in [Input -> Digest]
      /\ mtime[r] \in [Input -> Times]
      /\ state[r].mtime[i] \in Times
  BY <1>1 DEF RestInv, SourceInv, State
<1>3. PICK t \in Times: mtime' = [mtime EXCEPT ![r][i] = t]
  <2>1. CASE Edit(r, i, d)
    BY <2>1 DEF Edit, RestInv, TypeOK
  <2>2. CASE CopyOver(r, i, d)
    <3>1. mtime' = [mtime EXCEPT ![r][i] = mtime[r][i]] /\ mtime[r][i] \in Times
      BY <1>2, <2>2 DEF CopyOver, RestInv, TypeOK
    <3> QED BY <3>1
  <2>3. CASE Rename(r, i, d)
    BY <1>2, <2>3 DEF Rename
  <2> QED BY <2>1, <2>2, <2>3
<1>4. /\ bytes'[r] = [bytes[r] EXCEPT ![i] = d]
      /\ mtime'[r] = [mtime[r] EXCEPT ![i] = t]
      /\ \A q \in Run \ {r}: bytes'[q] = bytes[q] /\ mtime'[q] = mtime[q]
                             /\ touched'[q] = touched[q]
  BY <1>1, <1>3 DEF RestInv, TypeOK
<1>5. bytes'[r] \in [Input -> Digest] /\ mtime'[r] \in [Input -> Times]
  BY <1>2, <1>4
<1>6. moved' \in [Run -> BOOLEAN] /\ clock' \in Times
  <2>1. clock' = clock \/ (clock < MaxClock /\ clock' = clock + 1)
    BY DEF Edit, CopyOver, Rename, Tick
  <2>2. moved' = moved \/ moved' = [moved EXCEPT ![r] = TRUE]
    BY DEF Edit, CopyOver, Rename
  <2>3. clock \in 0..MaxClock /\ MaxClock \in Nat
    BY DEF Times, RestInv, TypeOK
  <2>4. clock' \in 0..MaxClock
    BY <2>1, <2>3
  <2>5. moved' \in [Run -> BOOLEAN]
    BY <2>2 DEF RestInv, TypeOK
  <2> QED BY <2>4, <2>5 DEF Times
<1>7. TypeOK'
  <2>1. /\ bytes' \in [Run -> [Input -> Digest] \cup {None}]
        /\ mtime' \in [Run -> [Input -> Times] \cup {None}]
    BY <1>1, <1>3, <1>4, <1>5 DEF RestInv, TypeOK
  <2>2. touched' \in [Run -> SUBSET Input]
    BY <1>1 DEF RestInv, TypeOK
  <2> QED BY <1>1, <1>6, <2>1, <2>2 DEF RestInv, TypeOK
<1>8. HolderInv' /\ LedgerAtRest'
  BY <1>1 DEF RestInv, HolderInv, LedgerAtRest
<1>9. SourceInv'
  BY <1>1, <1>4, <1>5 DEF RestInv, SourceInv, Archive
<1> QED BY <1>7, <1>8, <1>9 DEF RestInv

\* What complete publishes: nothing, or the record with its time brought up to the clock.
LEMMA CompletePublishes ==
  ASSUME RestInv, NEW r \in Run, Complete(r)
  PROVE  \/ ~Unchanged(r) /\ ledger' = None
         \/ /\ Unchanged(r)
            /\ ledger' \in State
            /\ ledger'.completed = Later(state[r].completed, clock)
            /\ ledger'.mtime = state[r].mtime
            /\ ledger'.digest = state[r].digest
            /\ ledger'.place = state[r].place
<1> USE ConstantsAssumption
<1>1. state[r] \in State /\ ledger = None /\ clock \in Times
  BY DEF Complete, RestInv, SourceInv, LedgerAtRest, TypeOK
<1>2. Later(state[r].completed, clock) \in Times
  BY <1>1 DEF State, Later
<1>3. CASE Unchanged(r)
  <2>1. ledger' = [state[r] EXCEPT !.completed = Later(state[r].completed, clock)]
    BY <1>3 DEF Complete, Published
  <2> QED BY <1>1, <1>2, <1>3, <2>1 DEF State
<1>4. CASE ~Unchanged(r)
  BY <1>1, <1>4 DEF Complete
<1> QED BY <1>3, <1>4

LEMMA CompleteRests ==
  ASSUME RestInv, NEW r \in Run, Complete(r)
  PROVE  RestInv'
<1> USE ConstantsAssumption
<1>1. pc[r] = "building" /\ Exit(r) /\ out' = out /\ clock' \in Times
  BY DEF Complete, Tick, RestInv, TypeOK, Times
<1>2. ledger' \in State \cup {None}
  BY CompletePublishes
<1>3. TypeOK'
  <2>1. last' \in Left \cup {None}
    BY LeftTyped DEF Complete, RestInv, SourceInv
  <2> QED BY <1>1, <1>2, <2>1, SMTT(30) DEF RestInv, TypeOK, Exit
<1>4. HolderInv'
  BY <1>1 DEF RestInv, TypeOK, HolderInv, Exit
<1>5. SourceInv'
  BY <1>1, SMTT(30) DEF RestInv, TypeOK, SourceInv, Exit, Archive
<1>6. LedgerAtRest'
  BY <1>1 DEF RestInv, TypeOK, HolderInv, LedgerAtRest, Exit
<1> QED BY <1>3, <1>4, <1>5, <1>6 DEF RestInv

\* Every step keeps it.
LEMMA NextRests ==
  ASSUME RestInv, [Next]_vars
  PROVE  RestInv'
<1>1. ASSUME NEW r \in Run, GiveUp(r) \/ Refuse(r) \/ FinishLocal(r) \/ Fail(r)
      PROVE  RestInv'
  <2>1. /\ Exit(r) /\ pc[r] # "idle" /\ clock' = clock /\ UNCHANGED <<ledger, out>>
        /\ last' \in Left \cup {None}
    BY <1>1 DEF GiveUp, Refuse, FinishLocal, Fail, RestInv, TypeOK
  <2> QED BY <2>1, ExitRests DEF RestInv, TypeOK
<1>2. CASE StepBack
  <2>1. clock' \in Times
    BY <1>2, ConstantsAssumption DEF StepBack, RestInv, TypeOK, Times
  <2> QED BY <1>2, <2>1 DEF StepBack, source, RestInv, TypeOK, HolderInv, SourceInv,
                         LedgerAtRest, Archive
<1>3. CASE UNCHANGED vars
  BY <1>3 DEF vars, source, RestInv, TypeOK, HolderInv, SourceInv, LedgerAtRest, Archive
<1> QED BY <1>1, <1>2, <1>3, EntryRests, PrepareRests, BuildRests, TouchRests,
          CompleteRests DEF Next

LEMMA InitRests == Init => RestInv
  BY ConstantsAssumption
  DEF Init, RestInv, TypeOK, HolderInv, SourceInv, LedgerAtRest, Archive, Times

\* RestInv is an invariant of the target cache, whatever the clock does.
THEOREM RestInvariance == Spec => []RestInv
<1> QED BY InitRests, NextRests, PTL DEF Spec

-----------------------------------------------------------------------------
(* No stale output when the clock may be set back and every run publishes. *)

\* The fresh time is later than the stamp of every output.
LEMMA FreshTimeIsLater ==
  ASSUME CalmInv, NEW r \in Run, Prepare(r), NEW i \in Input, out[i] # None
  PROVE  out[i].stamp \in Nat /\ FreshTime \in Nat /\ out[i].stamp < FreshTime
<1>1. pc[r] = "locked"
  BY DEF Prepare
<1>2. \A q \in Run: pc[q] # "building"
  BY <1>1 DEF CalmInv, RestInv, HolderInv
<1>3. ledger # None /\ out[i].stamp <= ledger.completed
  BY <1>2 DEF CalmInv, StampInv
<1>4. ledger.completed \in Nat /\ clock \in Nat /\ out[i].stamp \in Nat
  BY <1>3 DEF CalmInv, RestInv, TypeOK, State, Output, Times
<1> QED BY <1>3, <1>4 DEF FreshTime, Later

LEMMA PrepareCalm ==
  ASSUME CalmInv, NEW r \in Run, Prepare(r)
  PROVE  CalmInv'
<1>1. RestInv'
  BY PrepareRests DEF CalmInv
<1>2. /\ ledger' = None
      /\ pc[r] = "locked" /\ pc'[r] = "building" /\ place[r] \in Place
      /\ UNCHANGED <<lock, out, place, bytes, moved, touched, last>>
      /\ \A q \in Run \ {r}: pc'[q] = pc[q]
  BY DEF Prepare, Archive, CalmInv, RestInv, TypeOK
<1>3. /\ state'[r].completed = FreshTime
      /\ state'[r].mtime = mtime'[r]
      /\ state'[r].digest = bytes[r]
  <2>1. state'[r] = [place |-> place[r], completed |-> FreshTime,
                     digest |-> bytes[r], mtime |-> mtime'[r]]
    BY PrepareRecords, Zenon DEF CalmInv
  <2> QED BY <2>1
<1>4. \A q \in Run: pc'[q] = "building" => q = r
  BY <1>2 DEF CalmInv, RestInv, HolderInv
<1>5. UntouchedInv'
  BY <1>2, <1>3, <1>4 DEF CalmInv, UntouchedInv, Archive
<1>6. StampInv'
  <2> SUFFICES ASSUME NEW i \in Input, out[i] # None
               PROVE  out[i].stamp <= state'[r].completed
    BY <1>2 DEF StampInv
  <2> QED BY <1>3, FreshTimeIsLater
<1>7. LedgerSound'
  BY <1>2 DEF LedgerSound
<1>8. NoStaleOutput'
  <2> SUFFICES ASSUME NEW i \in Input, CargoFresh(r, i)'
               PROVE  out[i].place = place[r] /\ out[i].digest = bytes[r][i]
    BY <1>2, <1>4 DEF NoStaleOutput
  <2>1. out[i] # None /\ mtime'[r][i] <= out[i].stamp
    BY <1>2 DEF CargoFresh
  <2>2. mtime'[r][i] = IF Reusable(r, i) THEN ledger.mtime[i] ELSE FreshTime
    BY PrepareRecords, Zenon DEF CalmInv
  <2>3. mtime'[r][i] # FreshTime
    BY <2>1, FreshTimeIsLater
  <2>4. Reusable(r, i) /\ mtime'[r][i] = ledger.mtime[i]
    BY <2>2, <2>3
  <2> QED BY <2>1, <2>4 DEF CalmInv, LedgerSound, Reusable
<1> QED BY <1>1, <1>5, <1>6, <1>7, <1>8 DEF CalmInv

LEMMA BuildCalm ==
  ASSUME CalmInv, NEW r \in Run, NEW i \in Input, Build(r, i)
  PROVE  CalmInv'
<1>1. RestInv'
  BY BuildRests DEF CalmInv
<1> DEFINE built == [place |-> place[r], digest |-> bytes[r][i], stamp |-> clock]
<1>2. /\ pc[r] = "building"
      /\ clock \in Nat /\ clock' = clock + 1
      /\ UNCHANGED <<lock, ledger, pc, place, bytes, mtime, moved, state, touched, last>>
  BY DEF Build, Tick, source, CalmInv, RestInv, TypeOK, Times
<1>3. out'[i] = built /\ \A j \in Input \ {i}: out'[j] = out[j]
  BY DEF Build, CalmInv, RestInv, TypeOK
<1>4. built.place = place[r] /\ built.digest = bytes[r][i] /\ built.stamp = clock
  OBVIOUS
<1> HIDE DEF built
<1>5. UntouchedInv'
  BY <1>2 DEF CalmInv, UntouchedInv, Archive
<1>6. StampInv'
  <2> SUFFICES ASSUME NEW j \in Input, out'[j] # None
               PROVE  out'[j].stamp < clock' \/ out'[j].stamp <= state[r].completed
    BY <1>2 DEF StampInv
  <2>1. CASE j = i
    BY <1>2, <1>3, <1>4, <2>1
  <2>2. CASE j # i
    <3>1. out[j] # None /\ out'[j] = out[j] /\ out[j].stamp \in Nat
      BY <1>3, <2>2 DEF CalmInv, RestInv, TypeOK, Output, Times
    <3>2. ledger = None /\ \A q \in Run: pc[q] = "building" => q = r
      BY <1>2 DEF CalmInv, RestInv, HolderInv, LedgerAtRest
    <3>3. out[j].stamp < clock \/ out[j].stamp <= state[r].completed
      BY <3>1, <3>2 DEF CalmInv, StampInv
    <3> QED BY <1>2, <3>1, <3>3
  <2> QED BY <2>1, <2>2
<1>7. LedgerSound'
  BY <1>2 DEF CalmInv, RestInv, LedgerAtRest, LedgerSound
<1>8. NoStaleOutput'
  <2> SUFFICES ASSUME NEW q \in Run, NEW j \in Input, pc[q] = "building",
                      Archive(q), j \notin touched[q], CargoFresh(q, j)'
               PROVE  out'[j].place = place[q] /\ out'[j].digest = bytes[q][j]
    BY <1>2 DEF NoStaleOutput, Archive
  <2>1. q = r
    BY <1>2 DEF CalmInv, RestInv, HolderInv
  <2>2. CASE j = i
    BY <1>3, <1>4, <2>1, <2>2
  <2>3. CASE j # i
    BY <1>2, <1>3, <2>3 DEF CalmInv, NoStaleOutput, CargoFresh
  <2> QED BY <2>2, <2>3
<1> QED BY <1>1, <1>5, <1>6, <1>7, <1>8 DEF CalmInv

\* Every run that completes publishes, so that the ledger always has the last word.
LEMMA CompleteCalm ==
  ASSUME CalmInv, NEW r \in Run, Complete(r)
  PROVE  CalmInv'
<1>1. RestInv'
  BY CompleteRests DEF CalmInv
<1>2. pc[r] = "building" /\ Archive(r) /\ Exit(r) /\ out' = out
  BY DEF Complete
<1>3. ~moved[r] /\ mtime[r] = state[r].mtime /\ bytes[r] = state[r].digest
      /\ touched[r] = {}
  BY <1>2 DEF CalmInv, UntouchedInv
<1>4. Unchanged(r)
  BY <1>3 DEF Unchanged
<1>5. /\ ledger' \in State
      /\ ledger'.completed = Later(state[r].completed, clock)
      /\ ledger'.mtime = state[r].mtime
      /\ ledger'.digest = state[r].digest
      /\ ledger'.place = state[r].place
  BY <1>4, CompletePublishes, Zenon DEF CalmInv
<1>6. ledger = None /\ state[r] \in State /\ state[r].place = place[r]
      /\ clock \in Nat /\ \A q \in Run: pc[q] = "building" => q = r
  BY <1>2 DEF CalmInv, RestInv, SourceInv, LedgerAtRest, HolderInv, TypeOK, Times
<1>7. \A q \in Run: pc'[q] # "building"
  BY <1>2, <1>6 DEF Exit, CalmInv, RestInv, TypeOK
<1>8. UntouchedInv'
  BY <1>2, <1>7, ConstantsAssumption DEF Exit, CalmInv, RestInv, TypeOK, UntouchedInv, Archive
<1>9. ledger' # None
  BY <1>5, NoneIsNoState
<1>10. StampInv'
  <2> SUFFICES ASSUME NEW i \in Input, out[i] # None
               PROVE  out[i].stamp <= ledger'.completed
    BY <1>2, <1>9 DEF StampInv
  <2>1. out[i].stamp < clock \/ out[i].stamp <= state[r].completed
    BY <1>6 DEF CalmInv, StampInv
  <2>2. out[i].stamp \in Nat /\ state[r].completed \in Nat
    BY <1>6 DEF CalmInv, RestInv, TypeOK, Output, State, Times
  <2> QED BY <1>5, <1>6, <2>1, <2>2 DEF Later
<1>11. LedgerSound'
  <2> SUFFICES ASSUME NEW i \in Input, out[i] # None, state[r].mtime[i] <= out[i].stamp
               PROVE  out[i].place = state[r].place /\ out[i].digest = state[r].digest[i]
    BY <1>2, <1>5 DEF LedgerSound
  <2>1. CargoFresh(r, i) /\ i \notin touched[r]
    BY <1>3 DEF CargoFresh
  <2>2. out[i].place = place[r] /\ out[i].digest = bytes[r][i]
    BY <1>2, <2>1 DEF CalmInv, NoStaleOutput
  <2> QED BY <1>3, <1>6, <2>2
<1>12. NoStaleOutput'
  BY <1>7 DEF NoStaleOutput
<1> QED BY <1>1, <1>8, <1>10, <1>11, <1>12 DEF CalmInv

\* A request comes, gets the lock or goes: nobody builds because of it.
LEMMA RequestCalm ==
  ASSUME CalmInv, NEW r \in Run,
         ArriveArchive(r) \/ Acquire(r) \/ GiveUp(r) \/ Refuse(r)
  PROVE  CalmInv'
<1> USE ConstantsAssumption
<1>1. RestInv'
  <2>1. CASE ArriveArchive(r) \/ Acquire(r)
    BY <2>1, EntryRests DEF CalmInv
  <2>2. CASE GiveUp(r) \/ Refuse(r)
    <3>1. /\ Exit(r) /\ pc[r] # "idle" /\ clock' = clock /\ UNCHANGED <<ledger, out>>
          /\ last' \in Left \cup {None}
      BY <2>2 DEF GiveUp, Refuse, CalmInv, RestInv, TypeOK
    <3> QED BY <3>1, ExitRests DEF CalmInv, RestInv, TypeOK
  <2> QED BY <2>1, <2>2
<1>2. UNCHANGED <<clock, ledger, out>>
  BY DEF ArriveArchive, Acquire, GiveUp, Refuse
<1>3. pc[r] # "building" /\ pc'[r] # "building"
  BY DEF ArriveArchive, Acquire, GiveUp, Refuse, Exit, CalmInv, RestInv, TypeOK
<1>4. \A q \in Run \ {r}:
        /\ pc'[q] = pc[q] /\ place'[q] = place[q] /\ bytes'[q] = bytes[q]
        /\ mtime'[q] = mtime[q] /\ moved'[q] = moved[q] /\ state'[q] = state[q]
        /\ touched'[q] = touched[q]
  BY SMTT(30) DEF ArriveArchive, Acquire, GiveUp, Refuse, Exit, source, CalmInv, RestInv, TypeOK
<1>5. (pc'[r] # "idle" => place'[r] \in Place) /\ ~moved'[r] /\ touched'[r] = {}
  BY SMTT(30) DEF ArriveArchive, Acquire, GiveUp, Refuse, Exit, source, CalmInv, RestInv, TypeOK,
     UntouchedInv, Archive
<1>6. UntouchedInv'
  <2> SUFFICES ASSUME NEW q \in Run
               PROVE  /\ pc'[q] # "idle" => place'[q] \in Place
                      /\ ~moved'[q]
                      /\ touched'[q] = {}
                      /\ pc'[q] = "building" =>
                           mtime'[q] = state'[q].mtime /\ bytes'[q] = state'[q].digest
    BY DEF UntouchedInv, Archive
  <2>1. CASE q = r
    BY <1>3, <1>5, <2>1
  <2>2. CASE q # r
    BY <1>4, <2>2 DEF CalmInv, UntouchedInv, Archive
  <2> QED BY <2>1, <2>2
<1>7. StampInv'
  <2> SUFFICES ASSUME NEW i \in Input, out[i] # None
               PROVE  \/ ledger # None /\ out[i].stamp <= ledger.completed
                      \/ \E q \in Run: pc'[q] = "building"
                           /\ (out[i].stamp < clock \/ out[i].stamp <= state'[q].completed)
    BY <1>2 DEF StampInv
  <2>1. CASE ledger # None /\ out[i].stamp <= ledger.completed
    BY <2>1
  <2>2. ASSUME NEW q \in Run, pc[q] = "building",
               out[i].stamp < clock \/ out[i].stamp <= state[q].completed
        PROVE  pc'[q] = "building" /\ state'[q] = state[q]
    BY <1>3, <1>4, <2>2
  <2> QED BY <2>1, <2>2 DEF CalmInv, StampInv
<1>8. LedgerSound'
  BY <1>2 DEF CalmInv, LedgerSound
<1>9. NoStaleOutput'
  <2> SUFFICES ASSUME NEW q \in Run, NEW i \in Input, pc'[q] = "building",
                      Archive(q)', i \notin touched'[q], CargoFresh(q, i)'
               PROVE  out'[i].place = place'[q] /\ out'[i].digest = bytes'[q][i]
    BY DEF NoStaleOutput
  <2>1. q # r
    BY <1>3
  <2> QED BY <1>2, <1>4, <2>1 DEF CalmInv, NoStaleOutput, Archive, CargoFresh
<1> QED BY <1>1, <1>6, <1>7, <1>8, <1>9 DEF CalmInv

\* While the clock is set back nobody builds.
LEMMA StepBackCalm ==
  ASSUME CalmInv, StepBack
  PROVE  CalmInv'
<1>1. RestInv'
  BY NextRests DEF CalmInv, Next
<1>2. /\ UNCHANGED <<lock, ledger, out, pc, place, bytes, mtime, moved, state, touched>>
      /\ lock = None
  BY DEF StepBack, source
<1>3. \A q \in Run: pc[q] # "building"
  BY <1>2, ConstantsAssumption DEF CalmInv, RestInv, HolderInv
<1>4. UntouchedInv' /\ LedgerSound'
  BY <1>2 DEF CalmInv, UntouchedInv, LedgerSound, Archive
<1>5. StampInv' /\ NoStaleOutput'
  BY <1>2, <1>3 DEF CalmInv, StampInv, NoStaleOutput
<1> QED BY <1>1, <1>4, <1>5 DEF CalmInv

LEMMA InitCalm == Init => CalmInv
<1> SUFFICES ASSUME Init PROVE CalmInv
  OBVIOUS
<1>1. \A r \in Run: pc[r] = "idle" /\ place[r] = None /\ ~moved[r] /\ touched[r] = {}
  BY DEF Init
<1>2. UntouchedInv /\ StampInv /\ LedgerSound /\ NoStaleOutput
  BY <1>1, ConstantsAssumption DEF Init, UntouchedInv, StampInv, LedgerSound, NoStaleOutput
<1> QED BY <1>2, InitRests DEF CalmInv

LEMMA NextCalm ==
  ASSUME ~Disturbed, CalmInv, [Next]_vars
  PROVE  CalmInv'
<1>1. CASE UNCHANGED vars
  BY <1>1 DEF vars, source, CalmInv, RestInv, TypeOK, HolderInv, SourceInv, LedgerAtRest,
              UntouchedInv, StampInv, LedgerSound, NoStaleOutput, Archive, CargoFresh
<1>2. CASE Next
  <2>1. ASSUME NEW r \in Run, ArriveLocal(r) \/ Fail(r) PROVE FALSE
    BY <2>1 DEF ArriveLocal, Fail
  <2>2. ASSUME NEW r \in Run, NEW i \in Input, NEW d \in Digest,
               Edit(r, i, d) \/ CopyOver(r, i, d) \/ Rename(r, i, d)
        PROVE  FALSE
    BY <2>2 DEF Edit, CopyOver, Rename, Touch
  <2>3. ASSUME NEW r \in Run, pc[r] \in {"locked", "building"} PROVE Archive(r)
    BY <2>3 DEF CalmInv, RestInv, UntouchedInv
  <2>4. ASSUME NEW r \in Run, Invalidate(r) \/ FinishLocal(r) PROVE FALSE
    BY <2>3, <2>4 DEF Invalidate, FinishLocal
  <2>5. ASSUME NEW r \in Run, NEW i \in Input, BuildLocal(r, i) PROVE FALSE
    BY <2>3, <2>5 DEF BuildLocal
  <2> QED
    BY <1>2, <2>1, <2>2, <2>4, <2>5, RequestCalm, PrepareCalm, BuildCalm, CompleteCalm,
       StepBackCalm DEF Next
<1> QED BY <1>1, <1>2

\* CalmInv is an invariant when every run publishes, also of a clock that is set back.
THEOREM CalmInvariance ==
  ASSUME ~Disturbed
  PROVE  Spec => []CalmInv
<1>1. CalmInv /\ [Next]_vars => CalmInv'
  BY NextCalm
<1> QED BY <1>1, InitCalm, PTL DEF Spec

-----------------------------------------------------------------------------
(* The theorems.  Freshness needs a clock that is not set back or runs that *)
(* all publish: with neither, TLC shows an output that is stale.            *)

\* Every variable keeps its type.
THEOREM TypeCorrect == Spec => []TypeOK
<1>1. RestInv => TypeOK
  BY DEF RestInv
<1> QED BY <1>1, RestInvariance, PTL

\* No ledger exists while a run builds.
THEOREM LedgersRest == Spec => []LedgerAtRest
<1>1. RestInv => LedgerAtRest
  BY DEF RestInv
<1> QED BY <1>1, RestInvariance, PTL

\* No archive check reuses an output built from other bytes or another place.
THEOREM ArchiveChecksNeverStale ==
  ASSUME ~ClockStepsBack \/ ~Disturbed
  PROVE  Spec => []NoStaleOutput
<1>1. IInv => NoStaleOutput
  BY DEF IInv
<1>2. CalmInv => NoStaleOutput
  BY DEF CalmInv
<1>3. CASE ~ClockStepsBack
  BY <1>1, <1>3, Invariance, PTL
<1>4. CASE ~Disturbed
  BY <1>2, <1>4, CalmInvariance, PTL
<1> QED BY <1>3, <1>4

\* A published ledger vouches for the outputs.
THEOREM LedgerVouchesForOutputs ==
  ASSUME ~ClockStepsBack \/ ~Disturbed
  PROVE  Spec => []LedgerSound
<1>1. IInv => LedgerSound
  BY DEF IInv
<1>2. CalmInv => LedgerSound
  BY DEF CalmInv
<1>3. CASE ~ClockStepsBack
  BY <1>1, <1>3, Invariance, PTL
<1>4. CASE ~Disturbed
  BY <1>2, <1>4, CalmInvariance, PTL
<1> QED BY <1>3, <1>4

-----------------------------------------------------------------------------
(* Warm reuse, whatever the clock does.                                    *)

\* A step before or after the build of a run: nobody builds because of it and the
\* ledger, the outputs and the history stay, or the history is emptied.
LEMMA QuietWarm ==
  ASSUME WarmInv, RestInv', NEW r \in Run,
         \/ ArriveArchive(r) \/ ArriveLocal(r) \/ Acquire(r) \/ GiveUp(r) \/ Refuse(r)
         \/ Invalidate(r) \/ FinishLocal(r) \/ Fail(r)
  PROVE  WarmInv'
<1> USE ConstantsAssumption
<1>1. \A q \in Run \ {r}:
        /\ pc'[q] = pc[q] /\ place'[q] = place[q] /\ bytes'[q] = bytes[q]
        /\ mtime'[q] = mtime[q] /\ moved'[q] = moved[q] /\ state'[q] = state[q]
        /\ touched'[q] = touched[q]
  BY SMTT(30) DEF ArriveArchive, ArriveLocal, Acquire, GiveUp, Refuse, Invalidate, FinishLocal,
     Fail, Exit, source, WarmInv, RestInv, TypeOK
<1>2. /\ pc'[r] = "building" => ~Archive(r)'
      /\ pc'[r] # "building" => ~moved'[r]
  BY SMTT(30) DEF ArriveArchive, ArriveLocal, Acquire, GiveUp, Refuse, Invalidate, FinishLocal,
     Fail, Exit, source, WarmInv, RestInv, TypeOK, MovedInv, Archive
<1>3. /\ out' = out
      /\ \/ last' = None
         \/ last' = last /\ ledger' = ledger /\ (pc[r] # "building" \/ ~Archive(r))
  BY DEF ArriveArchive, ArriveLocal, Acquire, GiveUp, Refuse, Invalidate, FinishLocal, Fail, source
<1>4. KeptInv'
  BY <1>1, <1>2 DEF WarmInv, KeptInv, Archive
<1>5. MovedInv'
  BY <1>1, <1>2 DEF WarmInv, MovedInv
<1>6. LeftInv'
  <2> SUFFICES ASSUME last' = last, ledger' = ledger, last # None,
                      pc[r] # "building" \/ ~Archive(r)
               PROVE  LeftInv'
    BY <1>3 DEF LeftInv
  <2>1. ASSUME NEW q \in Run, pc[q] = "building", Archive(q)
        PROVE  LeftInv'
    <3>1. pc'[q] = "building" /\ Archive(q)'
      BY <1>1, <2>1 DEF Archive
    <3> QED BY <3>1 DEF LeftInv
  <2> QED BY <1>3, <2>1 DEF WarmInv, LeftInv
<1>7. WarmReuse'
  <2> SUFFICES ASSUME NEW q \in Run, NEW i \in Input,
                      pc'[q] = "building", Archive(q)', i \notin touched'[q],
                      last' # None, last'.place = place'[q],
                      i \in last'.inputs, last'.digest[i] = bytes'[q][i]
               PROVE  CargoFresh(q, i)'
    BY DEF WarmReuse
  <2>1. q # r
    BY <1>2
  <2>2. last' = last
    BY <1>3
  <2>3. CargoFresh(q, i)
    BY <1>1, <2>1, <2>2 DEF WarmInv, WarmReuse, Archive
  <2> QED BY <1>1, <1>3, <2>1, <2>3 DEF CargoFresh
<1> QED BY <1>4, <1>5, <1>6, <1>7 DEF WarmInv

\* prepare gives every output the last run left its recorded mtime back.
LEMMA PrepareWarm ==
  ASSUME WarmInv, RestInv', NEW r \in Run, Prepare(r)
  PROVE  WarmInv'
<1>1. /\ pc[r] = "locked" /\ pc'[r] = "building" /\ Archive(r) /\ Archive(r)'
      /\ UNCHANGED <<lock, out, place, bytes, moved, touched, last>>
      /\ \A q \in Run \ {r}: pc'[q] = pc[q]
  BY DEF Prepare, Archive, WarmInv, RestInv, TypeOK
<1>2. /\ \A q \in Run: pc[q] # "building"
      /\ \A q \in Run: pc'[q] = "building" => q = r
  BY <1>1 DEF WarmInv, RestInv, HolderInv
<1>3. state'[r].mtime = mtime'[r] /\ state'[r].digest = bytes[r]
  <2>1. state'[r] = [place |-> place[r], completed |-> FreshTime,
                     digest |-> bytes[r], mtime |-> mtime'[r]]
    BY PrepareRecords, Zenon DEF WarmInv
  <2> QED BY <2>1
<1>4. KeptInv' /\ MovedInv'
  BY <1>1, <1>2, <1>3 DEF WarmInv, KeptInv, MovedInv
<1>5. LeftInv'
  BY <1>1 DEF LeftInv
<1>6. WarmReuse'
  <2> SUFFICES ASSUME NEW i \in Input, last # None, last.place = place[r],
                      i \in last.inputs, last.digest[i] = bytes[r][i]
               PROVE  CargoFresh(r, i)'
    BY <1>1, <1>2 DEF WarmReuse
  <2>1. /\ ledger # None /\ ledger.place = last.place /\ ledger.digest = last.digest
        /\ out[i] # None /\ ledger.mtime[i] <= out[i].stamp
    BY <1>2 DEF WarmInv, LeftInv
  <2>2. Reusable(r, i)
    BY <2>1 DEF Reusable
  <2>3. mtime'[r][i] = IF Reusable(r, i) THEN ledger.mtime[i] ELSE FreshTime
    BY PrepareRecords, Zenon DEF WarmInv
  <2> QED BY <1>1, <2>1, <2>2, <2>3 DEF CargoFresh
<1> QED BY <1>4, <1>5, <1>6 DEF WarmInv

\* A rebuild is of an output that is not warm.
LEMMA BuildWarm ==
  ASSUME WarmInv, RestInv', NEW r \in Run, NEW i \in Input, Build(r, i)
  PROVE  WarmInv'
<1>1. /\ pc[r] = "building" /\ Archive(r) /\ ~CargoFresh(r, i)
      /\ UNCHANGED <<lock, ledger, pc, place, bytes, mtime, moved, state, touched, last>>
  BY DEF Build, source
<1>2. \A j \in Input \ {i}: out'[j] = out[j]
  BY DEF Build, WarmInv, RestInv, TypeOK
<1>3. KeptInv' /\ MovedInv' /\ LeftInv'
  BY <1>1 DEF WarmInv, KeptInv, MovedInv, LeftInv, Archive
<1>4. WarmReuse'
  <2> SUFFICES ASSUME NEW q \in Run, NEW j \in Input,
                      pc[q] = "building", Archive(q), j \notin touched[q],
                      last # None, last.place = place[q],
                      j \in last.inputs, last.digest[j] = bytes[q][j]
               PROVE  CargoFresh(q, j)'
    BY <1>1 DEF WarmReuse, Archive
  <2>1. CargoFresh(q, j) /\ q = r
    BY <1>1 DEF WarmInv, RestInv, HolderInv, WarmReuse
  <2>2. j # i
    BY <1>1, <2>1
  <2> QED BY <1>1, <1>2, <2>1, <2>2 DEF CargoFresh
<1> QED BY <1>3, <1>4 DEF WarmInv

\* A local check builds without any history to keep.
LEMMA BuildLocalWarm ==
  ASSUME WarmInv, RestInv', NEW r \in Run, NEW i \in Input, BuildLocal(r, i)
  PROVE  WarmInv'
<1>1. /\ pc[r] = "building" /\ ~Archive(r)
      /\ UNCHANGED <<lock, ledger, pc, place, bytes, mtime, moved, state, touched, last>>
  BY DEF BuildLocal, source
<1>2. \A q \in Run: ~(pc[q] = "building" /\ Archive(q))
  BY <1>1 DEF WarmInv, RestInv, HolderInv
<1>3. last = None
  BY <1>1, <1>2 DEF WarmInv, RestInv, LedgerAtRest, LeftInv
<1> QED BY <1>1, <1>2, <1>3 DEF WarmInv, KeptInv, MovedInv, LeftInv, WarmReuse, Archive

\* A command that writes to an input gives up that input's warmth and no other's.
LEMMA TouchWarm ==
  ASSUME WarmInv, RestInv', NEW r \in Run, NEW i \in Input, NEW d \in Digest,
         Edit(r, i, d) \/ CopyOver(r, i, d) \/ Rename(r, i, d)
  PROVE  WarmInv'
<1>1. /\ pc[r] = "building" /\ Archive(r)
      /\ bytes' = [bytes EXCEPT ![r][i] = d]
      /\ touched' = [touched EXCEPT ![r] = @ \cup {i}]
      /\ UNCHANGED <<lock, ledger, out, pc, place, state, last>>
  BY DEF Edit, CopyOver, Rename, Touch
<1>2. bytes[r] \in [Input -> Digest] /\ mtime[r] \in [Input -> Times]
  BY <1>1 DEF WarmInv, RestInv, SourceInv
<1>3. PICK t: mtime' = [mtime EXCEPT ![r][i] = t]
  <2>1. CASE Edit(r, i, d)
    BY <2>1 DEF Edit
  <2>2. CASE CopyOver(r, i, d)
    <3>1. mtime' = [mtime EXCEPT ![r][i] = mtime[r][i]]
      BY <1>2, <2>2 DEF CopyOver, WarmInv, RestInv, TypeOK
    <3> QED BY <3>1
  <2>3. CASE Rename(r, i, d)
    BY <2>3 DEF Rename
  <2> QED BY <2>1, <2>2, <2>3
<1>4. \A q \in Run: pc[q] = "building" => q = r
  BY <1>1 DEF WarmInv, RestInv, HolderInv
<1>5. /\ touched'[r] = touched[r] \cup {i}
      /\ \A j \in Input \ {i}: bytes'[r][j] = bytes[r][j] /\ mtime'[r][j] = mtime[r][j]
  BY <1>1, <1>2, <1>3 DEF WarmInv, RestInv, TypeOK
<1>6. KeptInv'
  BY <1>1, <1>4, <1>5 DEF WarmInv, KeptInv, Archive
<1>7. MovedInv'
  <2>1. \A q \in Run \ {r}: moved'[q] = moved[q]
    BY DEF Edit, CopyOver, Rename, WarmInv, RestInv, TypeOK
  <2> QED BY <1>1, <2>1 DEF WarmInv, MovedInv
<1>8. LeftInv'
  BY <1>1 DEF LeftInv, Archive
<1>9. WarmReuse'
  <2> SUFFICES ASSUME NEW j \in Input, j \notin touched'[r],
                      last # None, last.place = place[r],
                      j \in last.inputs, last.digest[j] = bytes'[r][j]
               PROVE  CargoFresh(r, j)'
    BY <1>1, <1>4 DEF WarmReuse, Archive
  <2>1. j # i /\ j \notin touched[r]
    BY <1>5
  <2>2. CargoFresh(r, j)
    BY <1>1, <1>5, <2>1 DEF WarmInv, WarmReuse
  <2> QED BY <1>1, <1>5, <2>1, <2>2 DEF CargoFresh
<1> QED BY <1>6, <1>7, <1>8, <1>9 DEF WarmInv

\* complete publishes after every undisturbed success, with the mtimes Cargo saw.
LEMMA CompleteWarm ==
  ASSUME WarmInv, RestInv', NEW r \in Run, Complete(r)
  PROVE  WarmInv'
<1> USE ConstantsAssumption
<1>1. pc[r] = "building" /\ Archive(r) /\ Exit(r) /\ out' = out /\ last' = LeftBy(r)
  BY DEF Complete
<1>2. \A q \in Run: pc[q] = "building" => q = r
  BY <1>1 DEF WarmInv, RestInv, HolderInv
<1>3. \A q \in Run: pc'[q] # "building"
  BY <1>1, <1>2 DEF Exit, WarmInv, RestInv, TypeOK
<1>4. \A q \in Run: ~moved'[q]
  BY <1>1, <1>2 DEF Exit, WarmInv, RestInv, TypeOK, MovedInv
<1>5. KeptInv' /\ MovedInv' /\ WarmReuse'
  BY <1>3, <1>4 DEF KeptInv, MovedInv, WarmReuse
<1>6. LeftInv'
  <2> SUFFICES ASSUME touched[r] = {}
               PROVE  LeftInv'
    BY <1>1 DEF LeftInv, LeftBy
  <2>1. /\ last'.place = place[r] /\ last'.digest = bytes[r]
        /\ last'.inputs = {i \in Input: CargoFresh(r, i)}
    BY <1>1 DEF LeftBy
  <2>2. /\ bytes[r] \in [Input -> Digest] /\ mtime[r] \in [Input -> Times]
        /\ state[r] \in State /\ state[r].place = place[r]
        /\ state[r].digest \in [Input -> Digest] /\ state[r].mtime \in [Input -> Times]
    BY <1>1 DEF WarmInv, RestInv, SourceInv, State
  <2>3. /\ ~moved[r]
        /\ \A i \in Input: mtime[r][i] = state[r].mtime[i] /\ bytes[r][i] = state[r].digest[i]
    BY <1>1 DEF WarmInv, KeptInv
  <2>4. mtime[r] = state[r].mtime /\ bytes[r] = state[r].digest
    BY <2>2, <2>3
  <2>5. Unchanged(r)
    BY <2>3, <2>4 DEF Unchanged
  <2>6. /\ ledger' \in State
        /\ ledger'.mtime = state[r].mtime
        /\ ledger'.digest = state[r].digest
        /\ ledger'.place = state[r].place
    BY <2>5, CompletePublishes, Zenon DEF WarmInv
  <2>7. ledger' # None
    BY <2>6, NoneIsNoState
  <2>8. \A i \in last'.inputs: out[i] # None /\ mtime[r][i] <= out[i].stamp
    BY <2>1 DEF CargoFresh
  <2> QED BY <1>1, <2>1, <2>2, <2>4, <2>6, <2>7, <2>8 DEF LeftInv
<1> QED BY <1>5, <1>6 DEF WarmInv

\* WarmInv is inductive, whatever the clock does and whatever runs fail.
LEMMA NextWarm ==
  ASSUME WarmInv, [Next]_vars
  PROVE  WarmInv'
<1>1. RestInv'
  BY NextRests DEF WarmInv
<1>2. CASE UNCHANGED vars
  BY <1>1, <1>2 DEF vars, source, WarmInv, KeptInv, MovedInv, LeftInv, WarmReuse, Archive, CargoFresh
<1>3. CASE StepBack
  BY <1>1, <1>3 DEF StepBack, source, WarmInv, KeptInv, MovedInv, LeftInv, WarmReuse, Archive,
                    CargoFresh
<1>4. ASSUME NEW r \in Run,
             \/ ArriveArchive(r) \/ ArriveLocal(r) \/ Acquire(r) \/ GiveUp(r) \/ Refuse(r)
             \/ Invalidate(r) \/ FinishLocal(r) \/ Fail(r)
      PROVE  WarmInv'
  BY <1>1, <1>4, QuietWarm
<1>5. ASSUME NEW r \in Run, Prepare(r) \/ Complete(r)
      PROVE  WarmInv'
  BY <1>1, <1>5, PrepareWarm, CompleteWarm
<1>6. ASSUME NEW r \in Run, NEW i \in Input, Build(r, i) \/ BuildLocal(r, i)
      PROVE  WarmInv'
  BY <1>1, <1>6, BuildWarm, BuildLocalWarm
<1>7. ASSUME NEW r \in Run, NEW i \in Input, NEW d \in Digest,
             Edit(r, i, d) \/ CopyOver(r, i, d) \/ Rename(r, i, d)
      PROVE  WarmInv'
  BY <1>1, <1>7, TouchWarm
<1> QED BY <1>2, <1>3, <1>4, <1>5, <1>6, <1>7 DEF Next

\* Nothing is warm before the first run.
LEMMA InitWarm == Init => WarmInv
<1> SUFFICES ASSUME Init PROVE WarmInv
  OBVIOUS
<1>1. \A r \in Run: pc[r] = "idle" /\ ~moved[r]
  BY DEF Init
<1>2. last = None
  BY DEF Init
<1>3. KeptInv /\ MovedInv /\ LeftInv /\ WarmReuse
  BY <1>1, <1>2 DEF KeptInv, MovedInv, LeftInv, WarmReuse
<1> QED BY <1>3, InitRests DEF WarmInv

\* What the last undisturbed success left fresh is fresh for the next run that has the
\* same bytes at the same place, whoever was refused in between and whatever the clock did.
THEOREM WarmOutputsStay == Spec => []WarmReuse
<1>1. WarmInv /\ [Next]_vars => WarmInv'
  BY NextWarm
<1>2. WarmInv => WarmReuse
  BY DEF WarmInv
<1> QED BY <1>1, <1>2, InitWarm, PTL DEF Spec
=============================================================================
