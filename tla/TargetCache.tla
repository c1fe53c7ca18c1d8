------------------------------ MODULE TargetCache ------------------------------
(***************************************************************************)
(* The shared Cargo target directory and its freshness ledger              *)
(* (.ccid/source-state.json): src/cache.rs and the part of run_checks_inner *)
(* in src/lib.rs that holds the target lock.                               *)
(*                                                                         *)
(* Several ccid invocations use one target.  An archive check extracts its *)
(* own copy of a source, takes the target lock, reconciles the mtimes of   *)
(* that copy with the ledger, runs Cargo and publishes a new ledger; a     *)
(* local check (and the bootstrap script) takes the same lock, deletes the *)
(* ledger and builds.  Cargo itself is external: it calls an output fresh  *)
(* when the mtime of its input is not later than the output's stamp, and   *)
(* its workspace outputs are shared by all source roots.                   *)
(***************************************************************************)
EXTENDS Integers

CONSTANTS
  Run,        \* the ccid invocations that use the target
  Input,      \* the scanned entries (files, directories) of a source tree
  Digest,     \* what scan computes for an entry: its kind, mode and bytes
  Place,      \* pairs (canonical source root, repository identity)
  Local,      \* the place of every check that has no verified archive
  None,       \* no ledger, no output, no source copy, nobody
  ClockStepsBack,  \* may the wall clock be set back between two runs?
  Disturbed,  \* may runs fail, be killed, be local or edit their source?
  MaxClock    \* bound on the wall clock

ASSUME ConstantsAssumption ==
  /\ Local \notin Place
  /\ None \notin Run \cup Place \cup {Local}
  /\ ClockStepsBack \in BOOLEAN
  /\ Disturbed \in BOOLEAN
  /\ MaxClock \in Nat \ {0}

VARIABLES
  clock,    \* SystemTime::now() of the worker
  lock,     \* the run that holds .ccid/lock
  ledger,   \* the State in source-state.json, or None
  out,      \* the Cargo output built from each input, or None
  pc,       \* where each run is
  place,    \* where each run's source is
  bytes,    \* digest of each input of the run's source as it is now
  mtime,    \* its mtime as it is now
  moved,    \* a directory of the run's source has lost its recorded mtime
  state,    \* the State the run holds: Freshness::state
  touched,  \* history: the inputs a command of the run has written to
  last      \* history: what the last run left to Cargo if it succeeded
            \* undisturbed (its source and the outputs fresh for it), or None

source == <<place, bytes, mtime, moved, state, touched>>
vars == <<clock, lock, ledger, out, pc, source, last>>

Times == 0..MaxClock

\* struct State; identity and source_root are one Place, Entry is a pair of maps.
State ==
  [place: Place, completed: Times, digest: [Input -> Digest],
   mtime: [Input -> Times]]

ASSUME NoneIsNoState == None \notin State

\* A Cargo output: the source it was built from and Cargo's invocation stamp.
Output == [place: Place \cup {Local}, digest: Digest, stamp: Times]

\* What a run leaves to Cargo: its source and the outputs Cargo calls fresh for it.
Left == [place: Place, digest: [Input -> Digest], inputs: SUBSET Input]

Later(s, t) == IF s >= t THEN s ELSE t

Init ==
  /\ clock = 1
  /\ lock = None
  /\ ledger = None
  /\ out = [i \in Input |-> None]
  /\ pc = [r \in Run |-> "idle"]
  /\ place = [r \in Run |-> None]
  /\ bytes = [r \in Run |-> None]
  /\ mtime = [r \in Run |-> None]
  /\ moved = [r \in Run |-> FALSE]
  /\ state = [r \in Run |-> None]
  /\ touched = [r \in Run |-> {}]
  /\ last = None

\* Mutant: the local and the archive path are confused.
Archive_Always(r) == place[r] # None

\* run_checks_inner: verified_commit.is_some().
Archive(r) == place[r] \in Place

\* An instant passes: two readings of the clock never give the same value.
Tick == clock < MaxClock /\ clock' = clock + 1

\* The process ends: the kernel drops its lock, its private source goes away.
Exit(r) ==
  /\ pc' = [pc EXCEPT ![r] = "idle"]
  /\ lock' = IF lock = r THEN None ELSE lock
  /\ place' = [place EXCEPT ![r] = None]
  /\ bytes' = [bytes EXCEPT ![r] = None]
  /\ mtime' = [mtime EXCEPT ![r] = None]
  /\ moved' = [moved EXCEPT ![r] = FALSE]
  /\ state' = [state EXCEPT ![r] = None]
  /\ touched' = [touched EXCEPT ![r] = {}]

-----------------------------------------------------------------------------
\* run_archive_checks: the verified archive is extracted into a directory of
\* the run's own, then the run asks for the lock.
ArriveArchive(r) ==
  /\ pc[r] = "idle"
  /\ \E p \in Place, b \in [Input -> Digest]:
       /\ \A q \in Run: place[q] # p
       /\ place' = [place EXCEPT ![r] = p]
       /\ bytes' = [bytes EXCEPT ![r] = b]
  /\ pc' = [pc EXCEPT ![r] = "waiting"]
  /\ UNCHANGED <<clock, lock, ledger, out, mtime, moved, state, touched, last>>

\* run_checks, or .ci/build.sh: the source is somebody's working tree.
ArriveLocal(r) ==
  /\ Disturbed
  /\ pc[r] = "idle"
  /\ place' = [place EXCEPT ![r] = Local]
  /\ pc' = [pc EXCEPT ![r] = "waiting"]
  /\ UNCHANGED <<clock, lock, ledger, out, bytes, mtime, moved, state, touched, last>>

\* lock_target: try_lock succeeds.  It is tried before the deadline is looked at.
Acquire(r) ==
  /\ pc[r] = "waiting"
  /\ lock = None
  /\ lock' = r
  /\ pc' = [pc EXCEPT ![r] = "locked"]
  /\ UNCHANGED <<clock, ledger, out, source, last>>

\* Mutant: the wait has no end of its own.
GiveUp_Never(r) == FALSE /\ UNCHANGED vars

\* lock_target: WouldBlock with the 60 s or the deadline over, or interrupted.
GiveUp(r) ==
  /\ pc[r] = "waiting"
  /\ lock # None
  /\ Exit(r)
  /\ UNCHANGED <<clock, ledger, out, last>>

\* An error between the lock and the ledger: admission, budget, build directory,
\* scratch.  The ledger survives it.
Refuse(r) ==
  /\ pc[r] = "locked"
  /\ Exit(r)
  /\ UNCHANGED <<clock, ledger, out, last>>

\* Mutant: a local check leaves the ledger where it is.
Invalidate_KeepsLedger(r) ==
  /\ pc[r] = "locked"
  /\ ~Archive(r)
  /\ last' = None
  /\ pc' = [pc EXCEPT ![r] = "building"]
  /\ UNCHANGED <<clock, lock, ledger, out, source>>

\* Freshness::invalidate, for a local check.
Invalidate(r) ==
  /\ pc[r] = "locked"
  /\ ~Archive(r)
  /\ ledger' = None
  /\ last' = None
  /\ pc' = [pc EXCEPT ![r] = "building"]
  /\ UNCHANGED <<clock, lock, out, source>>

\* Mutant: a wall clock that was set back is trusted.
FreshTime_TrustsClock == clock

\* The mtime of every input that cannot be reused.
FreshTime == IF ledger = None THEN clock ELSE Later(clock, ledger.completed + 1)

\* Mutant: the source root is not compared.
Reusable_AnyPlace(r, i) == ledger # None /\ ledger.digest[i] = bytes[r][i]

\* prepare may keep the recorded mtime of input i.
Reusable(r, i) ==
  /\ ledger # None
  /\ ledger.place = place[r]
  /\ ledger.digest[i] = bytes[r][i]

\* Freshness::prepare: the ledger is removed before it is used, then every
\* input gets its recorded mtime or the fresh one.
Prepare(r) ==
  /\ pc[r] = "locked"
  /\ Archive(r)
  /\ FreshTime <= MaxClock
  /\ Tick
  /\ LET stamped == [i \in Input |->
           IF Reusable(r, i) THEN ledger.mtime[i] ELSE FreshTime]
     IN /\ mtime' = [mtime EXCEPT ![r] = stamped]
        /\ state' = [state EXCEPT ![r] =
             [place |-> place[r], completed |-> FreshTime,
              digest |-> bytes[r], mtime |-> stamped]]
  /\ ledger' = None
  /\ pc' = [pc EXCEPT ![r] = "building"]
  /\ UNCHANGED <<lock, out, place, bytes, moved, touched, last>>

\* Cargo's test: no input of the output is later than the output.
CargoFresh(r, i) == out[i] # None /\ mtime[r][i] <= out[i].stamp

\* A command of an archive check rebuilds what Cargo does not call fresh.
Build(r, i) ==
  /\ pc[r] = "building"
  /\ Archive(r)
  /\ ~CargoFresh(r, i)
  /\ Tick
  /\ out' = [out EXCEPT ![i] =
       [place |-> place[r], digest |-> bytes[r][i], stamp |-> clock]]
  /\ UNCHANGED <<lock, ledger, pc, source, last>>

\* A command of a local check builds whatever its working tree holds.
BuildLocal(r, i) ==
  /\ pc[r] = "building"
  /\ ~Archive(r)
  /\ Tick
  /\ \E d \in Digest:
       out' = [out EXCEPT ![i] = [place |-> Local, digest |-> d, stamp |-> clock]]
  /\ UNCHANGED <<lock, ledger, pc, source, last>>

\* A command writes to an input of the verified source ...
Touch(r, i, d) ==
  /\ Disturbed
  /\ pc[r] = "building"
  /\ Archive(r)
  /\ bytes' = [bytes EXCEPT ![r][i] = d]
  /\ touched' = [touched EXCEPT ![r] = @ \cup {i}]
  /\ UNCHANGED <<lock, ledger, out, pc, place, state, last>>

\* ... in place, which sets its mtime;
Edit(r, i, d) ==
  /\ Touch(r, i, d)
  /\ Tick
  /\ mtime' = [mtime EXCEPT ![r][i] = clock]
  /\ UNCHANGED moved

\* ... in place with the old mtime put back (cp -p).  No command is assumed to
\* put back the old bytes as well: complete could not see that;
CopyOver(r, i, d) ==
  /\ pc[r] = "building" /\ Archive(r) /\ d # state[r].digest[i]
  /\ Touch(r, i, d)
  /\ UNCHANGED <<clock, mtime, moved>>

\* ... or by renaming another file over it, which brings that file's mtime
\* and changes the mtime of the directory.
Rename(r, i, d) ==
  /\ pc[r] = "building" /\ Archive(r)
  /\ Touch(r, i, d)
  /\ mtime' = [mtime EXCEPT ![r][i] = state[r].mtime[i]]
  /\ moved' = [moved EXCEPT ![r] = TRUE]
  /\ UNCHANGED clock

\* Mutant: only the mtimes of the known entries are compared.
Unchanged_MtimesOnly(r) == mtime[r] = state[r].mtime

\* complete's two passes: mtimes of files and directories, then digests.
Unchanged(r) ==
  /\ ~moved[r]
  /\ mtime[r] = state[r].mtime
  /\ bytes[r] = state[r].digest

\* Mutant: the ledger records the time of publication for every input.
Published_Restamped(r) ==
  [state[r] EXCEPT !.completed = Later(@, clock), !.mtime = [i \in Input |-> clock]]

\* What complete writes: the prepared State, its time brought up to the clock.
Published(r) == [state[r] EXCEPT !.completed = Later(@, clock)]

\* What a successful run leaves to Cargo, unless a command touched its source.
LeftBy(r) ==
  IF touched[r] = {}
  THEN [place |-> place[r], digest |-> bytes[r], inputs |-> {i \in Input: CargoFresh(r, i)}]
  ELSE None

\* All commands succeeded.  Freshness::complete publishes the ledger if the
\* source is still the prepared one; the lock goes with the return.
Complete(r) ==
  /\ pc[r] = "building"
  /\ Archive(r)
  /\ Tick
  /\ ledger' = IF Unchanged(r) THEN Published(r) ELSE ledger
  /\ last' = LeftBy(r)
  /\ Exit(r)
  /\ UNCHANGED out

\* All commands of a local check succeeded: there is no Freshness to complete.
FinishLocal(r) ==
  /\ pc[r] = "building"
  /\ ~Archive(r)
  /\ Exit(r)
  /\ UNCHANGED <<clock, ledger, out, last>>

\* Any other end after the ledger was removed: a failed command, a deadline, an
\* interruption, an error of prepare or complete, SIGKILL.
Fail(r) ==
  /\ Disturbed
  /\ pc[r] = "building"
  /\ last' = None
  /\ Exit(r)
  /\ UNCHANGED <<clock, ledger, out>>

\* The wall clock is set back while the target is at rest.
StepBack ==
  /\ ClockStepsBack
  /\ lock = None
  /\ ledger # None
  /\ \E t \in 1..(clock - 1): clock' = t
  /\ UNCHANGED <<lock, ledger, out, pc, source, last>>

Next ==
  \/ StepBack
  \/ \E r \in Run:
       \/ ArriveArchive(r) \/ ArriveLocal(r)
       \/ Acquire(r) \/ GiveUp(r) \/ Refuse(r)
       \/ Invalidate(r) \/ Prepare(r)
       \/ Complete(r) \/ FinishLocal(r) \/ Fail(r)
       \/ \E i \in Input:
            \/ Build(r, i) \/ BuildLocal(r, i)
            \/ \E d \in Digest: Edit(r, i, d) \/ CopyOver(r, i, d) \/ Rename(r, i, d)

Spec == Init /\ [][Next]_vars

\* try_lock is repeated every 100 ms and for at most 60 s; every command runs
\* under the deadline of the check.
Fairness ==
  \A r \in Run:
    /\ WF_vars(Acquire(r) \/ GiveUp(r))
    /\ WF_vars(Refuse(r) \/ Invalidate(r) \/ Prepare(r))
    /\ WF_vars(Complete(r) \/ FinishLocal(r) \/ Fail(r))

FairSpec == Spec /\ Fairness

-----------------------------------------------------------------------------
\* The type of every variable.
TypeOK ==
  /\ clock \in Times
  /\ lock \in Run \cup {None}
  /\ ledger \in State \cup {None}
  /\ out \in [Input -> Output \cup {None}]
  /\ pc \in [Run -> {"idle", "waiting", "locked", "building"}]
  /\ place \in [Run -> Place \cup {Local, None}]
  /\ bytes \in [Run -> [Input -> Digest] \cup {None}]
  /\ mtime \in [Run -> [Input -> Times] \cup {None}]
  /\ moved \in [Run -> BOOLEAN]
  /\ state \in [Run -> State \cup {None}]
  /\ touched \in [Run -> SUBSET Input]
  /\ last \in Left \cup {None}

\* An archive check never uses an output of other source: whatever Cargo calls
\* fresh was built from the bytes this run's input has, at this run's place
\* (README: a new extraction path forces a rebuild, changed inputs and rollback
\* get fresh mtimes).  Inputs its own commands rewrote are the commands' affair.
NoStaleOutput ==
  \A r \in Run, i \in Input:
    /\ pc[r] = "building" /\ Archive(r) /\ i \notin touched[r]
    /\ CargoFresh(r, i)
    => out[i].place = place[r] /\ out[i].digest = bytes[r][i]

\* A published ledger vouches for the outputs: an output that its mtimes would
\* make Cargo call fresh was built from the digest and the place it records,
\* whatever failed, local or source-editing runs used the target before.
LedgerSound ==
  ledger # None =>
    \A i \in Input:
      out[i] # None /\ ledger.mtime[i] <= out[i].stamp
        => out[i].place = ledger.place /\ out[i].digest = ledger.digest[i]

\* The ledger exists only while the target is at rest, so that a run killed at
\* any instant of its build leaves none ("State is removed BEFORE reuse").
LedgerAtRest ==
  ledger # None => \A r \in Run: pc[r] # "building"

\* Warm outputs survive from run to run: what was fresh for the last run to use the
\* target, if that run succeeded and nothing touched its source, is fresh again for
\* a run on the same source root as long as the input has the bytes it had then.
\* Refused and waiting runs in between, changed neighbours and a clock set back do
\* not cost it (README.md: unchanged inputs keep their recorded mtimes).
WarmReuse ==
  \A r \in Run, i \in Input:
    /\ pc[r] = "building" /\ Archive(r) /\ i \notin touched[r]
    /\ last # None /\ last.place = place[r]
    /\ i \in last.inputs /\ last.digest[i] = bytes[r][i]
    => CargoFresh(r, i)

\* Nobody waits for the lock for ever: a request gets the target or is refused.
WaiterEnds ==
  \A r \in Run: pc[r] = "waiting" ~> pc[r] # "waiting"

-----------------------------------------------------------------------------
\* The parts of the inductive invariant, for a clock that never steps back.

\* The lock belongs to the run that is between lock_target and its return.
HolderInv == \A r \in Run: pc[r] \in {"locked", "building"} <=> lock = r

\* What a run holds follows from where it is.
SourceInv ==
  \A r \in Run:
    /\ pc[r] = "idle" => place[r] = None
    /\ pc[r] # "building" => touched[r] = {}
    /\ Archive(r) => bytes[r] \in [Input -> Digest]
    /\ Archive(r) /\ pc[r] = "building" =>
         /\ mtime[r] \in [Input -> Times]
         /\ state[r] \in State
         /\ state[r].place = place[r]

\* Every recorded time lies before the next reading of the clock.
TimeInv ==
  /\ \A i \in Input: out[i] # None => out[i].stamp < clock
  /\ ledger # None =>
       /\ ledger.completed < clock
       /\ \A i \in Input: ledger.mtime[i] < clock
  /\ \A r \in Run:
       pc[r] = "building" /\ Archive(r) =>
         /\ state[r].completed < clock
         /\ \A i \in Input: state[r].mtime[i] < clock

\* What complete compares tells a rewritten input from one left alone.
TouchedInv ==
  \A r \in Run, i \in Input:
    pc[r] = "building" /\ Archive(r) =>
      IF i \in touched[r]
      THEN \/ moved[r]
           \/ mtime[r][i] # state[r].mtime[i]
           \/ bytes[r][i] # state[r].digest[i]
      ELSE /\ mtime[r][i] = state[r].mtime[i]
           /\ bytes[r][i] = state[r].digest[i]

IInv ==
  /\ TypeOK
  /\ HolderInv
  /\ SourceInv
  /\ TimeInv
  /\ TouchedInv
  /\ LedgerAtRest
  /\ LedgerSound
  /\ NoStaleOutput

-----------------------------------------------------------------------------
\* The parts of the invariants for a clock that may be set back.

\* What no clock can break.
RestInv == TypeOK /\ HolderInv /\ SourceInv /\ LedgerAtRest

\* Every run is an archive check; a source that no command rewrites stays what
\* prepare recorded.
UntouchedInv ==
  \A r \in Run:
    /\ pc[r] # "idle" => Archive(r)
    /\ ~moved[r]
    /\ touched[r] = {}
    /\ pc[r] = "building" => mtime[r] = state[r].mtime /\ bytes[r] = state[r].digest

\* Whoever holds the record, the ledger or the run that builds, every output's
\* stamp is bounded by what the record has or will have for completed.
StampInv ==
  \A i \in Input:
    out[i] # None =>
      \/ ledger # None /\ out[i].stamp <= ledger.completed
      \/ \E r \in Run: pc[r] = "building"
                      /\ (out[i].stamp < clock \/ out[i].stamp <= state[r].completed)

CalmInv ==
  /\ RestInv
  /\ UntouchedInv
  /\ StampInv
  /\ LedgerSound
  /\ NoStaleOutput

-----------------------------------------------------------------------------
\* The parts of the invariant for warm reuse, whatever the clock does.

\* While a run holds its source, an input no command touched is as prepared.
KeptInv ==
  \A r \in Run:
    pc[r] = "building" /\ Archive(r) =>
      /\ touched[r] = {} => ~moved[r]
      /\ \A i \in Input \ touched[r]:
           mtime[r][i] = state[r].mtime[i] /\ bytes[r][i] = state[r].digest[i]

\* Only a run holding its source has its directories moved.
MovedInv == \A r \in Run: pc[r] # "building" => ~moved[r]

\* Between runs the ledger gives every output the last run left its mtime back.
LeftInv ==
  last # None =>
    \/ \E r \in Run: pc[r] = "building" /\ Archive(r)
    \/ /\ ledger # None
       /\ ledger.place = last.place
       /\ ledger.digest = last.digest
       /\ \A i \in last.inputs: out[i] # None /\ ledger.mtime[i] <= out[i].stamp

WarmInv == RestInv /\ KeptInv /\ MovedInv /\ LeftInv /\ WarmReuse
=============================================================================
