------------------------------- MODULE Allocation -------------------------------
(***************************************************************************)
(* What one run of the checks may use (lib.rs budget and cpu_budget,       *)
(* admission.rs): a budget is computed when the run is planned, memory is  *)
(* admitted once the target lock is held, perhaps much later, and then the *)
(* budget is computed again from what was admitted.  When the run validates *)
(* a Cargo resolution, memory was admitted to that resolution before.      *)
(*                                                                         *)
(* The standalone ccid.py takes the memory it is given, and                *)
(* .ci/bootstrap.py admits memory to itself before it computes a budget.   *)
(*                                                                         *)
(* The memory of the host and of the control group is external and changes *)
(* at any time.  Refusing is an ordinary outcome.                          *)
(***************************************************************************)
EXTENDS Naturals

CONSTANTS
  Amount,    \* the numbers a configuration may hold
  Reading,   \* what the counters of host and control group may show
  Unit,      \* KiB (and, for the control group, bytes) of one MiB
  Unset

ASSUME AmountAssumption ==
  Amount \cup Reading \subseteq Nat /\ Unit \in Nat \ {0} /\ Unset \notin Nat

VARIABLES
  stage,     \* where the run is
  config,    \* its configuration
  memory,    \* CI_MEMORY_MB, lowered by admission
  measured,  \* what each admission found available, in MiB
  budget     \* the budget in force

vars == <<stage, config, memory, measured, budget>>

Smaller(m, n) == IF m <= n THEN m ELSE n
Positive == Amount \ {0}
Optional == Positive \cup {Unset}

\* positive() lets no other values in: no zero, no sign, no leading zero.
Config == [jobs: Optional, perJob: Optional, nixJobs: Positive,
           reserve: Optional, cpus: Positive]

\* cpu_budget: the quota of the control group in whole processors, at least one
\* and never more than there are.
CpuBudget(cpus, quota, period) ==
  IF quota = Unset THEN cpus
  ELSE IF period = 0 THEN Smaller(cpus, 4)
  ELSE LET whole == quota \div period
       IN Smaller(cpus, IF whole = 0 THEN 1 ELSE whole)

\* The number of jobs before memory is considered.
Requested(c, cpu) == IF c.jobs = Unset THEN cpu ELSE c.jobs

\* Memory for each job; a job that does not fit is refused.
JobsThatFit(c, mem, jobs) ==
  IF c.perJob = Unset THEN jobs ELSE Smaller(jobs, mem \div c.perJob)

BudgetOf(c, jobs) ==
  [jobs |-> jobs, nixJobs |-> c.nixJobs, nixCores |-> jobs \div c.nixJobs]

\* budget() succeeds.
Fits(c, mem, jobs) ==
  /\ c.perJob # Unset => mem # Unset /\ mem >= c.perJob
  /\ c.nixJobs <= JobsThatFit(c, mem, jobs)

NoBudget == [jobs |-> 0, nixJobs |-> 0, nixCores |-> 0]

Init ==
  /\ stage \in {"resolve", "plan", "standalone", "bootstrap"}
  /\ config \in Config
  /\ memory \in Optional
  /\ measured = {}
  /\ budget = NoBudget

\* A budget from the processors there are, or a refusal.
ComputeFrom(cpu, next) ==
  LET jobs == Requested(config, cpu)
  IN IF Fits(config, memory, jobs)
     THEN /\ budget' = BudgetOf(config, JobsThatFit(config, memory, jobs))
          /\ stage' = next
     ELSE stage' = "refused" /\ UNCHANGED budget

Compute(next) ==
  \E quota \in Optional, period \in Amount:
    ComputeFrom(CpuBudget(config.cpus, quota, period), next)

\* A resolution is admitted before its commands run; its validation is a run
\* of its own, in the environment the resolution was left with.
Plan ==
  /\ \/ stage = "resolve" /\ Compute("resolving")
     \/ stage = "plan" /\ Compute("locked")
  /\ UNCHANGED <<config, memory, measured>>

\* MemAvailable, and the headroom of the control group when it has a limit.
AvailableMb(host, limit, current) ==
  LET headroom == IF current > limit THEN 0 ELSE limit - current
  IN IF limit = Unset THEN host \div Unit
     ELSE Smaller(host \div Unit, headroom \div Unit)

\* Mutant: everything that is left is granted.
Grant_AllThatIsLeft(av) == av - config.reserve

\* apply: at most what is asked for, and the reserve stays untouched.
Grant(av) ==
  LET usable == av - config.reserve
  IN IF memory = Unset THEN usable ELSE Smaller(memory, usable)

\* Without a configured reserve nothing is measured.
AdmitTo(next) ==
  \/ /\ config.reserve = Unset
     /\ stage' = next /\ UNCHANGED <<memory, measured>>
  \/ /\ config.reserve # Unset
     /\ \E host, current \in Reading, limit \in Reading \cup {Unset}:
          LET av == AvailableMb(host, limit, current)
          IN IF av <= config.reserve
             THEN stage' = "refused" /\ UNCHANGED <<memory, measured>>
             ELSE /\ measured' = measured \cup {av}
                  /\ memory' = Grant(av)
                  /\ stage' = next

\* admit: before a resolution, or with the target lock.
Admit ==
  /\ \/ stage = "resolving" /\ AdmitTo("plan")
     \/ stage = "locked" /\ AdmitTo("admitted")
  /\ UNCHANGED <<config, budget>>

\* Mutant: the budget of the plan stays in force.
Allocate_KeepsPlan ==
  /\ stage = "admitted"
  /\ stage' = "run"
  /\ UNCHANGED <<config, memory, measured, budget>>

\* The budget is computed again, from what was admitted.
Allocate ==
  /\ stage = "admitted"
  /\ Compute("run")
  /\ UNCHANGED <<config, memory, measured>>

\* main of .ci/bootstrap.py: the same admission, with the same arithmetic.
BootstrapAdmit ==
  /\ stage = "bootstrap" /\ AdmitTo("bootstrap admitted")
  /\ UNCHANGED <<config, budget>>

\* budget() of ccid.py.  Its cpu_budget divides by the period whatever that is.
StandaloneBudget ==
  /\ stage \in {"standalone", "bootstrap admitted"}
  /\ \E quota \in Optional, period \in Amount:
       IF config.jobs = Unset /\ quota # Unset /\ period = 0
       THEN stage' = "refused" /\ UNCHANGED budget
       ELSE ComputeFrom(CpuBudget(config.cpus, quota, period), "run")
  /\ UNCHANGED <<config, memory, measured>>

Next == Plan \/ Admit \/ Allocate \/ BootstrapAdmit \/ StandaloneBudget

Spec == Init /\ [][Next]_vars

-----------------------------------------------------------------------------
\* The memory in force leaves the reserve free by every admission of this
\* environment: a validation cannot win back what its resolution was refused.
ReserveKept ==
  \A av \in measured: memory # Unset /\ memory + config.reserve <= av

\* What runs fits: all jobs together stay within the memory in force, although the
\* number of jobs may have been chosen before memory was measured, every share is at
\* least one, and the builds of Nix together use no more cores than the run has
\* jobs.
SharesFit ==
  stage = "run" =>
    /\ config.perJob # Unset => budget.jobs * config.perJob <= memory
    /\ budget.jobs >= 1 /\ budget.nixCores >= 1
    /\ budget.nixJobs * budget.nixCores <= budget.jobs
=============================================================================
