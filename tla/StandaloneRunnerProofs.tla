------------------------- MODULE StandaloneRunnerProofs -------------------------
(***************************************************************************)
(* For any number of invocations, commands and processes: what the ending  *)
(* of an invocation says of its command, of its success, and of the other  *)
(* commands in the cache.                                                  *)
(*                                                                         *)
(* None of it is inductive.  A command is known to have ended from where   *)
(* its invocation is, so LocalInv lists the places in which it may run, and *)
(* that all of them are behind the lock.                                   *)
(***************************************************************************)
EXTENDS StandaloneRunner, TLAPS

LEMMA InitEstablishes == Init => IInv
BY StandaloneAssumption
   DEF Init, IInv, TypeOK, LocalInv, StandaloneAssumption, Place, Verdict, Handling, Catching, MayRun

\* Steps of run_checks and main.
LEMMA ChecksPreserve ==
  ASSUME IInv, NEW i \in Invocation, Lock(i) \/ GiveUp(i) \/ Refuse(i) \/ Finish(i)
  PROVE  IInv'
<1> USE StandaloneAssumption
    DEF StandaloneAssumption, IInv, Lock, GiveUp, Refuse, Finish, End, Go, control, commands
<1>1. TypeOK'
  BY DEF TypeOK, Place, Verdict, Handling
<1>2. ASSUME NEW j \in Invocation PROVE LocalInv(j)'
  BY DEF TypeOK, LocalInv, Handling, Catching, MayRun
<1> QED
  BY <1>1, <1>2

\* Steps of Runner.run until its command has returned, or has to be ended.
LEMMA RunPreserves ==
  ASSUME IInv, NEW i \in Invocation, Start(i) \/ Protect(i) \/ Return(i) \/ Timeout(i)
  PROVE  IInv'
<1> USE DEF IInv, Quiet, End, Go, control, commands
<1>1. CASE Start(i)
  <2>1. TypeOK'
    BY <1>1 DEF Start, TypeOK, Place, Handling
  <2>2. ASSUME NEW j \in Invocation PROVE LocalInv(j)'
    BY <1>1 DEF Start, TypeOK, LocalInv, Handling, Catching, MayRun
  <2> QED
    BY <2>1, <2>2
<1>2. CASE Protect(i) \/ Timeout(i)
  <2>1. TypeOK'
    BY <1>2 DEF Protect, Timeout, TypeOK, Place, Handling
  <2>2. ASSUME NEW j \in Invocation PROVE LocalInv(j)'
    BY <1>2 DEF Protect, Timeout, TypeOK, LocalInv, Handling, Catching, MayRun
  <2> QED
    BY <2>1, <2>2
<1>3. CASE Return(i)
  <2>1. left[i] \in Nat /\ left[i] > 0
    BY <1>3 DEF Return, TypeOK, LocalInv
  <2>2. TypeOK'
    BY <1>3, <2>1, StandaloneAssumption
       DEF Return, TypeOK, Place, Verdict, Handling, StandaloneAssumption
  <2>3. ASSUME NEW j \in Invocation PROVE LocalInv(j)'
    BY <1>3, <2>1, StandaloneAssumption
       DEF Return, TypeOK, LocalInv, Handling, Catching, MayRun, StandaloneAssumption
  <2> QED
    BY <2>2, <2>3
<1> QED
  BY <1>1, <1>2, <1>3

\* The except block.
LEMMA EndingPreserves ==
  ASSUME IInv, NEW i \in Invocation,
         Terminate(i) \/ Grace(i) \/ Kill(i) \/ Drain(i) \/ Sweep(i) \/ Report(i)
  PROVE  IInv'
<1> USE DEF IInv, Quiet, End, Go, KillGroup, control, commands
<1>1. CASE Terminate(i) \/ Grace(i) \/ Drain(i)
  <2>1. TypeOK'
    BY <1>1 DEF Terminate, Grace, Drain, TypeOK, Place, Handling
  <2>2. ASSUME NEW j \in Invocation PROVE LocalInv(j)'
    BY <1>1 DEF Terminate, Grace, Drain, TypeOK, LocalInv, Handling, Catching, MayRun
  <2> QED
    BY <2>1, <2>2
<1>2. CASE Kill(i) \/ Sweep(i)
  <2>1. TypeOK'
    BY <1>2 DEF Kill, Sweep, TypeOK, Place, Handling
  <2>2. ASSUME NEW j \in Invocation PROVE LocalInv(j)'
    BY <1>2 DEF Kill, Sweep, TypeOK, LocalInv, Handling, Catching, MayRun
  <2> QED
    BY <2>1, <2>2
<1>3. CASE Report(i)
  <2>1. TypeOK'
    BY <1>3 DEF Report, TypeOK, Place, Verdict
  <2>2. ASSUME NEW j \in Invocation PROVE LocalInv(j)'
    BY <1>3 DEF Report, TypeOK, LocalInv, Handling, Catching, MayRun
  <2> QED
    BY <2>1, <2>2
<1> QED
  BY <1>1, <1>2, <1>3

\* Signals, kills and the deadline.
LEMMA EventsPreserve ==
  ASSUME IInv, NEW i \in Invocation, Interrupt(i) \/ KillInvocation(i) \/ Deadline(i)
  PROVE  IInv'
<1> USE DEF IInv, End, Go, control, commands
<1>1. CASE Interrupt(i)
  <2>1. TypeOK'
    BY <1>1 DEF Interrupt, TypeOK, Place, Verdict, Handling
  <2>2. ASSUME NEW j \in Invocation PROVE LocalInv(j)'
    BY <1>1 DEF Interrupt, TypeOK, LocalInv, Handling, Catching, MayRun
  <2> QED
    BY <2>1, <2>2
<1>2. CASE KillInvocation(i) \/ Deadline(i)
  <2>1. TypeOK'
    BY <1>2 DEF KillInvocation, Deadline, TypeOK, Place, Verdict
  <2>2. ASSUME NEW j \in Invocation PROVE LocalInv(j)'
    BY <1>2 DEF KillInvocation, Deadline, TypeOK, LocalInv, Handling, Catching, MayRun
  <2> QED
    BY <2>1, <2>2
<1> QED
  BY <1>1, <1>2

\* The processes of a command.
LEMMA CommandPreserves ==
  ASSUME IInv, NEW i \in Invocation,
         Exit(i) \/ \E p \in Proc : Fork(i, p) \/ Escape(i, p) \/ Perish(i, p)
  PROVE  IInv'
<1> USE DEF IInv, Exit, Fork, Escape, Perish, control
<1>1. TypeOK'
  BY DEF TypeOK
<1>2. ASSUME NEW j \in Invocation PROVE LocalInv(j)'
  BY DEF TypeOK, LocalInv, Handling, Catching, MayRun
<1> QED
  BY <1>1, <1>2

LEMMA NextPreserves == IInv /\ [Next]_vars => IInv'
<1> SUFFICES ASSUME IInv, [Next]_vars PROVE IInv'
  OBVIOUS
<1>1. CASE Next
  <2>1. PICK i \in Invocation :
          \/ Step(i) \/ Interrupt(i) \/ KillInvocation(i) \/ Deadline(i)
          \/ Exit(i) \/ \E p \in Proc : Fork(i, p) \/ Escape(i, p) \/ Perish(i, p)
    BY <1>1 DEF Next
  <2> QED
    BY <2>1, ChecksPreserve, RunPreserves, EndingPreserves, EventsPreserve, CommandPreserves
       DEF Step
<1>2. CASE UNCHANGED vars
  BY <1>2 DEF vars, control, commands, IInv, TypeOK, LocalInv
<1> QED
  BY <1>1, <1>2

THEOREM Invariance == Spec => []IInv
BY InitEstablishes, NextPreserves, PTL DEF Spec

-----------------------------------------------------------------------------
\* An ending of an invocation says the truth about its command: Runner.run and its
\* except block.
THEOREM EndingsAreTrue == Spec => []EndingIsTrue
<1>1. IInv => EndingIsTrue
  BY DEF IInv, TypeOK, LocalInv, EndingIsTrue, Handling, Catching, MayRun
<1> QED
  BY <1>1, Invariance, PTL

\* The lock and the except block together: two commands in one cache need an
\* invocation that was killed, or interrupted outside of communicate.
THEOREM CacheHasOneCommand == Spec => []OneCommandInCache
<1>1. IInv => OneCommandInCache
  <2> SUFFICES ASSUME IInv, NEW i \in Invocation, NEW j \in Invocation, i # j,
                      leader[i] = "running", leader[j] = "running"
               PROVE  {verdict[i], verdict[j]} \cap {"interrupted", "killed"} # {}
    BY DEF OneCommandInCache
  <2>1. \/ verdict[i] \in {"interrupted", "killed"}
        \/ verdict[j] \in {"interrupted", "killed"}
        \/ lock = i /\ lock = j
    BY DEF IInv, LocalInv, MayRun
  <2> QED
    BY <2>1
<1> QED
  BY <1>1, Invariance, PTL

\* A signal that was sent in time is not lost, wherever in the code it arrives.
THEOREM SuccessesAreUninterrupted == Spec => []SuccessIsUninterrupted
<1>1. IInv => SuccessIsUninterrupted
  BY DEF IInv, LocalInv, SuccessIsUninterrupted
<1> QED
  BY <1>1, Invariance, PTL
=============================================================================
