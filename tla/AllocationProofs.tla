---------------------------- MODULE AllocationProofs ----------------------------
(***************************************************************************)
(* For all configurations and readings: admissions keep the reserve free,  *)
(* and the budget in force fits what was admitted.                         *)
(*                                                                         *)
(* Memory only becomes less, so that what one admission left free stays so. *)
(* The budget that counts is the last one, and it is computed from memory   *)
(* which does not change any more.                                          *)
(***************************************************************************)
EXTENDS Allocation, Integers, TLAPS

LEMMA Division ==
  ASSUME NEW n \in Nat, NEW d \in Nat, d > 0
  PROVE  n \div d \in Nat /\ d * (n \div d) <= n /\ (n >= d => n \div d >= 1)
<1>1. n \div d \in Int
  OBVIOUS
<1>2. n = d * (n \div d) + (n % d)
  OBVIOUS
<1>3. n % d \in 0..(d - 1)
  OBVIOUS
<1> QED
  BY <1>1, <1>2, <1>3

\* The memory in force, and what was measured on the way to it.
MemoryInv ==
  /\ config \in Config
  /\ memory \in (Nat \ {0}) \cup {Unset}
  /\ measured \subseteq Nat
  /\ measured # {} => config.reserve # Unset

IInv == MemoryInv /\ ReserveKept /\ SharesFit

LEMMA ConfigTypes ==
  ASSUME config \in Config
  PROVE  /\ config.jobs \in (Nat \ {0}) \cup {Unset}
         /\ config.perJob \in (Nat \ {0}) \cup {Unset}
         /\ config.reserve \in (Nat \ {0}) \cup {Unset}
         /\ config.nixJobs \in Nat \ {0}
         /\ config.cpus \in Nat \ {0}
BY AmountAssumption DEF Config, Optional, Positive, AmountAssumption

\* cpu_budget: at least one processor.
LEMMA CpuBudgetIsPositive ==
  ASSUME NEW cpus \in Nat \ {0}, NEW quota \in Optional, NEW period \in Amount
  PROVE  CpuBudget(cpus, quota, period) \in Nat \ {0}
<1>1. period \in Nat /\ quota \in (Nat \ {0}) \cup {Unset}
  BY AmountAssumption DEF AmountAssumption, Optional, Positive
<1>2. CASE quota = Unset \/ period = 0
  BY <1>1, <1>2 DEF CpuBudget, Smaller
<1>3. CASE quota # Unset /\ period # 0
  <2>1. quota \div period \in Nat
    BY <1>1, <1>3, Division
  <2> QED
    BY <1>1, <1>3, <2>1 DEF CpuBudget, Smaller
<1> QED
  BY <1>2, <1>3

\* A budget that is in force for a run is one that fits.
LEMMA ComputedFits ==
  ASSUME IInv, NEW cpu \in Nat \ {0}, NEW next, ComputeFrom(cpu, next),
         UNCHANGED <<config, memory, measured>>, stage # "run"
  PROVE  IInv'
<1> DEFINE jobs == Requested(config, cpu)
           fitting == JobsThatFit(config, memory, jobs)
<1>1. MemoryInv' /\ ReserveKept'
  BY DEF IInv, MemoryInv, ReserveKept
<1>2. CASE ~Fits(config, memory, jobs)
  <2>1. stage' = "refused"
    BY <1>2 DEF ComputeFrom
  <2> QED
    BY <1>1, <2>1 DEF IInv, SharesFit
<1>3. CASE Fits(config, memory, jobs)
  <2>1. jobs \in Nat \ {0}
    BY ConfigTypes DEF IInv, MemoryInv, Requested
  <2>2. config.perJob # Unset => memory \in Nat /\ memory >= config.perJob
    BY <1>3 DEF Fits, IInv, MemoryInv
  <2>3. fitting \in Nat /\ (config.perJob # Unset => fitting * config.perJob <= memory)
    <3>1. CASE config.perJob = Unset
      BY <2>1, <3>1 DEF JobsThatFit
    <3>2. CASE config.perJob # Unset
      <4> DEFINE per == config.perJob
                 most == memory \div per
      <4>1. per \in Nat /\ per > 0 /\ memory \in Nat
        BY <2>2, <3>2, ConfigTypes DEF IInv, MemoryInv
      <4>2. most \in Nat /\ per * most <= memory
        BY <4>1, Division
      <4>3. fitting \in Nat /\ fitting <= most
        BY <2>1, <3>2, <4>2 DEF JobsThatFit, Smaller
      <4> HIDE DEF per, most, fitting
      <4>4. fitting * per <= per * most
        BY <4>1, <4>2, <4>3
      <4>5. fitting * per <= memory
        BY <4>1, <4>2, <4>3, <4>4
      <4> QED
        BY <4>3, <4>5 DEF per
    <3> QED
      BY <3>1, <3>2
  <2>4. config.nixJobs \in Nat /\ config.nixJobs > 0 /\ config.nixJobs <= fitting
    BY <1>3, ConfigTypes DEF Fits, IInv, MemoryInv
  <2>5. budget' = BudgetOf(config, fitting)
    BY <1>3 DEF ComputeFrom
  <2>6. /\ budget'.jobs = fitting
        /\ budget'.nixJobs = config.nixJobs
        /\ budget'.nixCores = fitting \div config.nixJobs
    BY <2>5 DEF BudgetOf
  <2> HIDE DEF fitting, jobs
  <2>7. /\ fitting \div config.nixJobs >= 1
        /\ config.nixJobs * (fitting \div config.nixJobs) <= fitting
    BY <2>3, <2>4, Division
  <2>8. SharesFit'
    BY <2>3, <2>4, <2>6, <2>7 DEF SharesFit
  <2> QED
    BY <1>1, <2>8 DEF IInv
<1> QED
  BY <1>2, <1>3

\* What is granted leaves the reserve, and is not more than before.
LEMMA GrantKeepsReserve ==
  ASSUME IInv, NEW av \in Nat, config.reserve # Unset, av > config.reserve
  PROVE  /\ Grant(av) \in Nat \ {0}
         /\ Grant(av) + config.reserve <= av
         /\ memory # Unset => Grant(av) <= memory
BY ConfigTypes DEF IInv, MemoryInv, Grant, Smaller

LEMMA AvailableIsNatural ==
  ASSUME NEW host \in Reading, NEW current \in Reading, NEW limit \in Reading \cup {Unset}
  PROVE  AvailableMb(host, limit, current) \in Nat
<1>1. host \in Nat /\ current \in Nat /\ Unit \in Nat /\ Unit > 0
  BY AmountAssumption DEF AmountAssumption
<1>2. host \div Unit \in Nat
  BY <1>1, Division
<1>3. CASE limit = Unset
  BY <1>2, <1>3 DEF AvailableMb
<1>4. CASE limit # Unset
  <2> DEFINE headroom == IF current > limit THEN 0 ELSE limit - current
  <2>1. headroom \in Nat
    BY <1>1, <1>4, AmountAssumption DEF AmountAssumption
  <2>2. headroom \div Unit \in Nat
    BY <1>1, <2>1, Division
  <2> QED
    BY <1>2, <1>4, <2>2 DEF AvailableMb, Smaller
<1> QED
  BY <1>3, <1>4

LEMMA AdmissionPreserves ==
  ASSUME IInv, NEW next, AdmitTo(next), next # "run",
         UNCHANGED <<config, budget>>
  PROVE  IInv'
<1>1. stage' # "run"
  BY DEF AdmitTo
<1>2. SharesFit'
  BY <1>1 DEF SharesFit
<1>3. CASE UNCHANGED <<memory, measured>>
  BY <1>2, <1>3 DEF IInv, MemoryInv, ReserveKept
<1>4. CASE ~UNCHANGED <<memory, measured>>
  <2>1. PICK host \in Reading, current \in Reading, limit \in Reading \cup {Unset} :
          LET av == AvailableMb(host, limit, current)
          IN /\ ~(av <= config.reserve)
             /\ measured' = measured \cup {av}
             /\ memory' = Grant(av)
    BY <1>4 DEF AdmitTo
  <2> DEFINE av == AvailableMb(host, limit, current)
  <2>2. av \in Nat
    BY AvailableIsNatural
  <2> HIDE DEF av
  <2>3. config.reserve # Unset
    BY <1>4 DEF AdmitTo
  <2>4. av > config.reserve /\ measured' = measured \cup {av} /\ memory' = Grant(av)
    BY <2>1, <2>2, <2>3, ConfigTypes DEF av, IInv, MemoryInv
  <2>5. /\ memory' \in Nat \ {0} /\ memory' + config.reserve <= av
        /\ memory # Unset => memory' <= memory
    BY <2>2, <2>3, <2>4, GrantKeepsReserve
  <2>6. MemoryInv'
    BY <2>2, <2>3, <2>4, <2>5 DEF IInv, MemoryInv
  <2>7. ReserveKept'
    <3> SUFFICES ASSUME NEW old \in measured'
                 PROVE  memory' # Unset /\ memory' + config.reserve <= old
      BY DEF ReserveKept
    <3>1. CASE old = av
      BY <2>5, <3>1, AmountAssumption DEF AmountAssumption
    <3>2. CASE old \in measured
      BY <2>3, <2>5, <3>2, ConfigTypes, AmountAssumption
         DEF IInv, MemoryInv, ReserveKept, AmountAssumption
    <3> QED
      BY <2>4, <3>1, <3>2
  <2> QED
    BY <1>2, <2>6, <2>7 DEF IInv
<1> QED
  BY <1>3, <1>4

LEMMA NextPreserves == IInv /\ [Next]_vars => IInv'
<1> SUFFICES ASSUME IInv, [Next]_vars PROVE IInv'
  OBVIOUS
<1>1. ASSUME NEW next, Compute(next), stage # "run",
             UNCHANGED <<config, memory, measured>>
      PROVE  IInv'
  <2>1. PICK quota \in Optional, period \in Amount :
          ComputeFrom(CpuBudget(config.cpus, quota, period), next)
    BY <1>1 DEF Compute
  <2>2. CpuBudget(config.cpus, quota, period) \in Nat \ {0}
    BY CpuBudgetIsPositive, ConfigTypes DEF IInv, MemoryInv
  <2> QED
    BY <1>1, <2>1, <2>2, ComputedFits
<1>2. CASE Plan
  BY <1>1, <1>2 DEF Plan
<1>3. CASE Allocate
  BY <1>1, <1>3 DEF Allocate
<1>4. CASE Admit
  BY <1>4, AdmissionPreserves DEF Admit
<1>5. CASE BootstrapAdmit
  BY <1>5, AdmissionPreserves DEF BootstrapAdmit
<1>6. CASE StandaloneBudget
  <2>1. CASE stage' = "refused" /\ UNCHANGED <<budget, config, memory, measured>>
    BY <2>1 DEF IInv, MemoryInv, ReserveKept, SharesFit
  <2>2. CASE \E quota \in Optional, period \in Amount :
               ComputeFrom(CpuBudget(config.cpus, quota, period), "run")
    <3>1. Compute("run") /\ stage # "run" /\ UNCHANGED <<config, memory, measured>>
      BY <1>6, <2>2 DEF Compute, StandaloneBudget
    <3> QED
      BY <1>1, <3>1
  <2> QED
    BY <1>6, <2>1, <2>2 DEF StandaloneBudget
<1>7. CASE UNCHANGED vars
  BY <1>7 DEF vars, IInv, MemoryInv, ReserveKept, SharesFit
<1> QED
  BY <1>2, <1>3, <1>4, <1>5, <1>6, <1>7 DEF Next

LEMMA InitEstablishes == Init => IInv
BY AmountAssumption
   DEF Init, IInv, MemoryInv, ReserveKept, SharesFit, Optional, Positive, AmountAssumption

THEOREM Invariance == Spec => []IInv
BY InitEstablishes, NextPreserves, PTL DEF Spec

-----------------------------------------------------------------------------
\* Whatever is measured when, the admissions of a run, of its resolution and of the
\* bootstrap leave the reserve free (admission.rs apply, .ci/bootstrap.py main).
THEOREM ReserveIsKept == Spec => []ReserveKept
<1>1. IInv => ReserveKept
  BY DEF IInv
<1> QED
  BY <1>1, Invariance, PTL

\* The budget that a run ends up with fits the memory and the processors that it
\* was allocated (lib.rs budget, ccid.py budget).
THEOREM SharesAlwaysFit == Spec => []SharesFit
<1>1. IInv => SharesFit
  BY DEF IInv
<1> QED
  BY <1>1, Invariance, PTL
=============================================================================
