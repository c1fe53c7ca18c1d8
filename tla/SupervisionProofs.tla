--------------------------- MODULE SupervisionProofs ---------------------------
(***************************************************************************)
(* For any number of commands and processes: a supervisor that ends by     *)
(* itself leaves nothing of its commands' groups behind, and a reported    *)
(* success is one.                                                         *)
(*                                                                         *)
(* GroupGone is not inductive: while a command runs its group is free to   *)
(* grow, so PlaceInv says where the supervisor may be only after it killed *)
(* the group, and VerdictInv carries that over to the end.                 *)
(***************************************************************************)
EXTENDS Supervision, TLAPS

\* TypeOK in parts: the flags are apart, for the provers' sake.
FlagsOK == interrupted \in [outer: BOOLEAN, supervisor: BOOLEAN]
BitsOK == writer \in BOOLEAN /\ late \in BOOLEAN /\ captured \in BOOLEAN
PlacesOK ==
  /\ outer \in {"running", "ended", "killed"}
  /\ status \in {"none", "success", "failure"}
  /\ sup \in {"check", "publish", "spawn", "poll", "grace", "kill",
              "kill rest", "collect", "done"}
  /\ verdict \in {"none", "success", "failure", "signal"}
  /\ left \in 0..Commands
  /\ leader \in {"none", "running", "success", "failure"}
  /\ group \subseteq Proc /\ escaped \subseteq Proc

LEMMA TypeParts ==
  /\ TypeOK <=> FlagsOK /\ BitsOK /\ PlacesOK
  /\ TypeOK' <=> FlagsOK' /\ BitsOK' /\ PlacesOK'
BY DEF TypeOK, FlagsOK, BitsOK, PlacesOK

LEMMA InitEstablishes == Init => IInv
<1> SUFFICES ASSUME Init PROVE IInv
  OBVIOUS
<1> USE CommandsAssumption DEF CommandsAssumption, Init
<1>1. FlagsOK
  BY DEF FlagsOK
<1>2. BitsOK
  BY DEF BitsOK
<1>3. PlacesOK
  BY DEF PlacesOK
<1>4. PlaceInv /\ VerdictInv
  BY DEF PlaceInv, VerdictInv, Quiet
<1> QED
  BY <1>1, <1>2, <1>3, <1>4, TypeParts DEF IInv

LEMMA OuterPreserves ==
  IInv /\ (Signal \/ DropWriter \/ ReapSupervisor \/ KillOuter) => IInv'
<1> SUFFICES ASSUME IInv, Signal \/ DropWriter \/ ReapSupervisor \/ KillOuter
             PROVE  IInv'
  OBVIOUS
<1> USE DEF Signal, DropWriter, ReapSupervisor, KillOuter, kernel, commands
<1>1. TypeOK'
  <2> USE TypeParts DEF IInv
  <2>1. FlagsOK'
    BY DEF FlagsOK
  <2>2. BitsOK'
    BY DEF BitsOK
  <2>3. PlacesOK'
    BY DEF PlacesOK
  <2> QED
    BY <2>1, <2>2, <2>3
<1>2. PlaceInv'
  BY DEF IInv, PlaceInv, Quiet
<1>3. VerdictInv'
  BY DEF IInv, VerdictInv, Quiet
<1> QED
  BY <1>1, <1>2, <1>3 DEF IInv

LEMMA SupervisorPreserves ==
  IInv /\ (WatchParent \/ SignalSupervisor \/ Run \/ KillSupervisor \/ Deadline) => IInv'
<1> SUFFICES ASSUME IInv PROVE
      WatchParent \/ SignalSupervisor \/ Run \/ KillSupervisor \/ Deadline => IInv'
  OBVIOUS
<1> USE CommandsAssumption DEF CommandsAssumption, kernel, commands, End
<1>1. CASE WatchParent \/ SignalSupervisor \/ Deadline \/ KillSupervisor
  <2> USE <1>1 DEF WatchParent, SignalSupervisor, Deadline, KillSupervisor
  <2>1. TypeOK'
    <3> USE TypeParts DEF IInv
    <3>1. FlagsOK'
      BY DEF FlagsOK
    <3>2. BitsOK'
      BY DEF BitsOK
    <3>3. PlacesOK'
      BY DEF PlacesOK
    <3> QED
      BY <3>1, <3>2, <3>3
  <2>2. PlaceInv' /\ VerdictInv'
    BY DEF IInv, TypeOK, PlaceInv, VerdictInv, Quiet
  <2> QED
    BY <2>1, <2>2 DEF IInv
<1>2. CASE Check \/ Publish \/ Spawn \/ Poll \/ Grace \/ Kill
  <2> USE <1>2 DEF Check, Publish, Spawn, Poll, Grace, Kill
  <2>1. TypeOK'
    <3> USE TypeParts DEF IInv
    <3>1. FlagsOK'
      BY DEF FlagsOK
    <3>2. BitsOK'
      BY DEF BitsOK
    <3>3. PlacesOK'
      BY DEF PlacesOK
    <3> QED
      BY <3>1, <3>2, <3>3
  <2>2. PlaceInv'
    BY DEF IInv, TypeOK, PlaceInv, Quiet
  <2>3. VerdictInv'
    BY DEF IInv, TypeOK, PlaceInv, VerdictInv, Quiet
  <2> QED
    BY <2>1, <2>2, <2>3 DEF IInv
<1>3. CASE KillRest \/ Collect
  <2> USE <1>3 DEF KillRest, Collect, AfterLeader
  <2>1. left \in 0..Commands /\ left > 0 /\ left - 1 \in 0..Commands
    <3>1. left \in 0..Commands /\ left > 0
      BY DEF IInv, TypeOK, PlaceInv
    <3> QED
      BY ONLY <3>1, CommandsAssumption DEF CommandsAssumption
  <2>2. TypeOK'
    <3> USE TypeParts DEF IInv
    <3>1. FlagsOK'
      BY <2>1 DEF FlagsOK
    <3>2. BitsOK'
      BY <2>1 DEF BitsOK
    <3>3. left' = left \/ left' = left - 1
      OBVIOUS
    <3>4. left' \in 0..Commands
      BY ONLY <2>1, <3>3
    <3>5. ASSUME KillRest PROVE PlacesOK'
      BY <3>4, <3>5 DEF PlacesOK
    <3>6. ASSUME Collect PROVE PlacesOK'
      BY <3>4, <3>6 DEF PlacesOK
    <3>7. PlacesOK'
      BY <3>5, <3>6
    <3> QED
      BY <3>1, <3>2, <3>7
  <2>3. PlaceInv'
    BY <2>1 DEF IInv, TypeOK, PlaceInv, Quiet
  <2>4. VerdictInv'
    BY <2>1 DEF IInv, TypeOK, PlaceInv, VerdictInv, Quiet
  <2> QED
    BY <2>2, <2>3, <2>4 DEF IInv
<1> QED
  BY <1>1, <1>2, <1>3 DEF Run

\* Only a living process of a group makes another one.
LEMMA CommandsPreserve ==
  IInv /\ (Exit \/ \E p \in Proc: Fork(p) \/ Escape(p) \/ Finish(p)) => IInv'
<1> SUFFICES ASSUME IInv PROVE
      Exit \/ (\E p \in Proc: Fork(p) \/ Escape(p) \/ Finish(p)) => IInv'
  OBVIOUS
<1> USE DEF kernel
<1>1. CASE Exit
  <2> USE <1>1 DEF Exit
  <2>1. TypeOK'
    <3> USE TypeParts DEF IInv
    <3>1. FlagsOK'
      BY DEF FlagsOK
    <3>2. BitsOK'
      BY DEF BitsOK
    <3>3. PlacesOK'
      BY DEF PlacesOK
    <3> QED
      BY <3>1, <3>2, <3>3
  <2>2. PlaceInv' /\ VerdictInv'
    BY DEF IInv, TypeOK, PlaceInv, VerdictInv, Quiet
  <2> QED
    BY <2>1, <2>2 DEF IInv
<1>2. ASSUME NEW p \in Proc, Fork(p) \/ Escape(p) \/ Finish(p) PROVE IInv'
  <2> USE <1>2 DEF Fork, Escape, Finish
  <2>1. TypeOK'
    <3> USE TypeParts DEF IInv
    <3>1. FlagsOK'
      BY DEF FlagsOK
    <3>2. BitsOK'
      BY DEF BitsOK
    <3>3. group' \subseteq Proc /\ escaped' \subseteq Proc
      BY DEF PlacesOK
    <3>4. UNCHANGED <<outer, status, sup, verdict, left, leader>>
      OBVIOUS
    <3>5. PlacesOK'
      BY ONLY PlacesOK, <3>3, <3>4 DEF PlacesOK
    <3> QED
      BY <3>1, <3>2, <3>5
  <2>2. Quiet => Quiet'
    BY DEF Quiet
  <2>3. PlaceInv' /\ VerdictInv'
    BY <2>2 DEF IInv, PlaceInv, VerdictInv, Quiet
  <2> QED
    BY <2>1, <2>3 DEF IInv
<1> QED
  BY <1>1, <1>2

\* The places of the supervisor, its verdict and the living processes agree.
THEOREM Invariance == Spec => []IInv
<1>1. Init => IInv
  BY InitEstablishes
<1>2. IInv /\ [Next]_vars => IInv'
  <2>1. ASSUME IInv, UNCHANGED vars PROVE IInv'
    <3>1. UNCHANGED <<outer, status, interrupted, writer, sup, verdict, late,
                      left, captured, leader, group, escaped>>
      BY <2>1 DEF vars, kernel, commands
    <3>2. TypeOK'
      <4>1. FlagsOK /\ BitsOK /\ PlacesOK
        BY <2>1, TypeParts DEF IInv
      <4>2. FlagsOK'
        BY ONLY <3>1, <4>1 DEF FlagsOK
      <4>3. BitsOK'
        BY ONLY <3>1, <4>1 DEF BitsOK
      <4>4. PlacesOK'
        BY ONLY <3>1, <4>1 DEF PlacesOK
      <4> QED
        BY <4>2, <4>3, <4>4, TypeParts
    <3>3. PlaceInv' /\ VerdictInv'
      BY <2>1, <3>1 DEF IInv, PlaceInv, VerdictInv, Quiet
    <3> QED
      BY <3>2, <3>3 DEF IInv
  <2> QED
    BY <2>1, OuterPreserves, SupervisorPreserves, CommandsPreserve DEF Next
<1> QED
  BY <1>1, <1>2, PTL DEF Spec

\* The variables keep their types.
THEOREM TypeCorrect == Spec => []TypeOK
<1>1. IInv => TypeOK
  BY DEF IInv
<1> QED
  BY <1>1, Invariance, PTL

\* No process of a command's group outlives its command, nor the lock.
THEOREM NoGroupOutlivesItsRun == Spec => []GroupGone
<1>1. IInv => GroupGone
  BY DEF IInv, PlaceInv, VerdictInv, Quiet, GroupGone
<1> QED
  BY <1>1, Invariance, PTL

\* A success that is reported is a success.
THEOREM ReportedSuccessIsReal == Spec => []SuccessIsReal
<1>1. IInv => SuccessIsReal
  BY DEF IInv, VerdictInv, Quiet, SuccessIsReal
<1> QED
  BY <1>1, Invariance, PTL
=============================================================================
