---------------------------- MODULE StandaloneRunner ----------------------------
(***************************************************************************)
(* Invocations of the standalone `ccid.py check` with one project cache    *)
(* (ccid.py run_checks from the lock on, Runner.run, main).  Here the same *)
(* process takes the lock, starts the commands, each in a session of its   *)
(* own, and handles SIGINT and SIGTERM, which both raise KeyboardInterrupt. *)
(*                                                                         *)
(* There is no supervisor and no pipe as in module Supervision, so an      *)
(* exception between any two steps may leave the block that would have     *)
(* ended the command.  What the commands are is in module                  *)
(* StandaloneSequence; here they are external and as bad as they like.     *)
(***************************************************************************)
EXTENDS Naturals

CONSTANTS
  Invocation,  \* of ccid.py, with one project
  Commands,    \* how many commands the selected checks of each come to
  Proc,        \* the processes a command may start
  None

ASSUME StandaloneAssumption == Commands \in [Invocation -> Nat] /\ None \notin Invocation

VARIABLES
  lock,        \* who has the flock of the project
  place,       \* where each invocation is
  verdict,     \* how it ended: exit 0, 2 (of these "terminated" is the message of
               \* line 112), 130, or killed
  late,        \* those whose deadline, which counts from the lock, has passed
  interrupted, \* history: those SIGINT or SIGTERM was sent to
  left,        \* commands not yet done
  piped,       \* those that capture the command's output and wait for the end of it;
               \* what the command starts keeps the pipe open
  leader,      \* the command itself
  group,       \* other living processes of its group
  outside      \* living processes that left the group

control == <<lock, place, verdict>>
commands == <<left, piped, leader, group, outside>>
vars == <<control, late, interrupted, commands>>

Init ==
  /\ lock = None
  /\ place = [i \in Invocation |-> "lock"]
  /\ verdict = [i \in Invocation |-> "none"]
  /\ late = {} /\ interrupted = {} /\ piped = {}
  /\ left = Commands
  /\ leader = [i \in Invocation |-> "none"]
  /\ group = [i \in Invocation |-> {}]
  /\ outside = [i \in Invocation |-> {}]

Go(i, from, to) ==
  /\ place[i] = from
  /\ place' = [place EXCEPT ![i] = to]
  /\ UNCHANGED <<lock, verdict>>

\* The exception or the return that ends an invocation closes the lock's file, and
\* so does its death: commands have not inherited it.
End(i, how) ==
  /\ place' = [place EXCEPT ![i] = "done"]
  /\ verdict' = [verdict EXCEPT ![i] = how]
  /\ lock' = IF lock = i THEN None ELSE lock

-----------------------------------------------------------------------------
\* run_checks and main.

Lock(i) ==
  /\ place[i] = "lock" /\ lock = None
  /\ lock' = i
  /\ place' = [place EXCEPT ![i] = "next"]
  /\ UNCHANGED <<verdict, late, interrupted, commands>>

\* Mutant: after a minute it works without the lock.
GiveUp_Proceeds(i) ==
  /\ lock # None
  /\ Go(i, "lock", "next")
  /\ UNCHANGED <<late, interrupted, commands>>

\* A minute has passed.
GiveUp(i) ==
  /\ place[i] = "lock" /\ lock # None
  /\ End(i, "failure")
  /\ UNCHANGED <<late, interrupted, commands>>

\* A check that is refused, or an exception elsewhere.
Refuse(i) ==
  /\ place[i] = "next"
  /\ End(i, "failure")
  /\ UNCHANGED <<late, interrupted, commands>>

Finish(i) ==
  /\ place[i] = "next" /\ left[i] = 0
  /\ End(i, "success")
  /\ UNCHANGED <<late, interrupted, commands>>

-----------------------------------------------------------------------------
\* Runner.run.

\* Popen; a missing executable and a deadline that has passed are in Refuse.  The
\* processes of earlier commands, which nobody signals any more, are left out.
Start(i) ==
  /\ left[i] > 0 /\ i \notin late
  /\ Go(i, "next", "started")
  /\ leader' = [leader EXCEPT ![i] = "running"]
  /\ piped' \in {piped \cup {i}, piped \ {i}}
  /\ group' = [group EXCEPT ![i] = {}]
  /\ outside' = [outside EXCEPT ![i] = {}]
  /\ UNCHANGED <<late, interrupted, left>>

\* From here on the try block protects the command.
Protect(i) ==
  /\ Go(i, "started", "communicate")
  /\ UNCHANGED <<late, interrupted, commands>>

\* communicate returns: the command has exited and nobody holds its pipe.
Quiet(i) == leader[i] # "running" /\ (i \in piped => group[i] \cup outside[i] = {})

\* A command that ends by itself; its group is left alone.
Return(i) ==
  /\ place[i] = "communicate" /\ Quiet(i)
  /\ IF leader[i] = "success"
     THEN Go(i, "communicate", "next") /\ left' = [left EXCEPT ![i] = @ - 1]
     ELSE End(i, "failure") /\ UNCHANGED left
  /\ UNCHANGED <<late, interrupted, piped, leader, group, outside>>

Timeout(i) ==
  /\ i \in late
  /\ Go(i, "communicate", "catch")
  /\ UNCHANGED <<late, interrupted, commands>>

\* Both signals are ignored from here on, and the group has had a SIGTERM.
Terminate(i) ==
  /\ Go(i, "catch", "grace")
  /\ UNCHANGED <<late, interrupted, commands>>

\* Mutant: it waits for the end of the command as long as that takes.
Grace_NoLimit(i) ==
  /\ Quiet(i)
  /\ Go(i, "grace", "sweep")
  /\ UNCHANGED <<late, interrupted, commands>>

\* communicate returns, or ten seconds pass.
Grace(i) ==
  /\ \/ Quiet(i) /\ Go(i, "grace", "sweep")
     \/ Go(i, "grace", "kill")
  /\ UNCHANGED <<late, interrupted, commands>>

KillGroup(i) ==
  /\ group' = [group EXCEPT ![i] = {}]
  /\ leader' = [leader EXCEPT ![i] = IF @ = "running" THEN "failure" ELSE @]

Kill(i) ==
  /\ Go(i, "kill", "drain") /\ KillGroup(i)
  /\ UNCHANGED <<late, interrupted, left, piped, outside>>

\* communicate with no timeout: it waits for a pipe that a process outside of the
\* group may keep open for ever.
Drain(i) ==
  /\ Quiet(i)
  /\ Go(i, "drain", "sweep")
  /\ UNCHANGED <<late, interrupted, commands>>

\* Mutant: with the command its group is taken to have ended.
Sweep_LeaderOnly(i) ==
  /\ Go(i, "sweep", "report")
  /\ UNCHANGED <<late, interrupted, commands>>

\* The command may have exited while a descendant ignored SIGTERM.
Sweep(i) ==
  /\ Go(i, "sweep", "report") /\ KillGroup(i)
  /\ UNCHANGED <<late, interrupted, left, piped, outside>>

\* The handlers are back, and the Failure is raised.
Report(i) ==
  /\ place[i] = "report"
  /\ End(i, "terminated")
  /\ UNCHANGED <<late, interrupted, commands>>

-----------------------------------------------------------------------------
\* What happens to an invocation.

Handling == {"grace", "kill", "drain", "sweep"}

\* Mutant: an interrupted wait goes on, as that of a system call may.
Interrupt_Resumed(i) ==
  /\ place[i] # "done"
  /\ interrupted' = interrupted \cup {i}
  /\ IF place[i] \in Handling \cup {"communicate"} THEN UNCHANGED control
     ELSE End(i, "interrupted")
  /\ UNCHANGED <<late, commands>>

\* SIGINT or SIGTERM.  KeyboardInterrupt is caught in communicate alone: before
\* the try block, and in the except block until both signals are ignored, it
\* leaves run with the command still running.
Interrupt(i) ==
  /\ interrupted' = interrupted \cup {i}
  /\ \/ place[i] \in Handling /\ UNCHANGED control
     \/ Go(i, "communicate", "catch")
     \/ place[i] \notin Handling \cup {"communicate", "done"} /\ End(i, "interrupted")
  /\ UNCHANGED <<late, commands>>

KillInvocation(i) ==
  /\ place[i] # "done"
  /\ End(i, "killed")
  /\ UNCHANGED <<late, interrupted, commands>>

Deadline(i) ==
  /\ place[i] \notin {"lock", "done"} /\ i \notin late
  /\ late' = late \cup {i}
  /\ UNCHANGED <<control, interrupted, commands>>

\* External: what the processes of a command do.

Exit(i) ==
  /\ leader[i] = "running"
  /\ leader' \in {[leader EXCEPT ![i] = how] : how \in {"success", "failure"}}
  /\ UNCHANGED <<control, late, interrupted, left, piped, group, outside>>

Fork(i, p) ==
  /\ leader[i] = "running" \/ group[i] # {}
  /\ p \notin group[i] \cup outside[i]
  /\ group' = [group EXCEPT ![i] = @ \cup {p}]
  /\ UNCHANGED <<control, late, interrupted, left, piped, leader, outside>>

Escape(i, p) ==
  /\ p \in group[i]
  /\ group' = [group EXCEPT ![i] = @ \ {p}]
  /\ outside' = [outside EXCEPT ![i] = @ \cup {p}]
  /\ UNCHANGED <<control, late, interrupted, left, piped, leader>>

Perish(i, p) ==
  /\ p \in group[i] \cup outside[i]
  /\ group' = [group EXCEPT ![i] = @ \ {p}]
  /\ outside' = [outside EXCEPT ![i] = @ \ {p}]
  /\ UNCHANGED <<control, late, interrupted, left, piped, leader>>

Step(i) ==
  \/ Lock(i) \/ GiveUp(i) \/ Refuse(i) \/ Finish(i)
  \/ Start(i) \/ Protect(i) \/ Return(i) \/ Timeout(i)
  \/ Terminate(i) \/ Grace(i) \/ Kill(i) \/ Drain(i) \/ Sweep(i) \/ Report(i)

Next == \E i \in Invocation :
  \/ Step(i) \/ Interrupt(i) \/ KillInvocation(i) \/ Deadline(i)
  \/ Exit(i) \/ \E p \in Proc : Fork(i, p) \/ Escape(i, p) \/ Perish(i, p)

Spec == Init /\ [][Next]_vars

\* Every invocation is scheduled, and time passes.  Of the commands nothing is
\* assumed: they may run for ever and ignore SIGTERM.
FairSpec ==
  /\ Spec
  /\ \A i \in Invocation : WF_vars(Step(i)) /\ WF_vars(Deadline(i))

-----------------------------------------------------------------------------
\* What each ending says of the command that ran last.  After "its process group
\* was terminated" (ccid.py:112) nothing of the group is alive, although the
\* command may have exited and left a descendant that ignores SIGTERM; after exit 0
\* and any other exit 2 the command itself has ended.
EndingIsTrue == \A i \in Invocation :
  /\ verdict[i] = "terminated" => leader[i] # "running" /\ group[i] = {}
  /\ verdict[i] \in {"success", "failure"} => leader[i] # "running"

\* Commands of two invocations run at the same time in one cache only when one of
\* the two was killed or was interrupted where nothing catches it, so that it has
\* ended with 130 and left its command behind (ccid.py:83, ccid.py:89).
OneCommandInCache == \A i, j \in Invocation :
  i # j /\ leader[i] = "running" /\ leader[j] = "running" =>
    {verdict[i], verdict[j]} \cap {"interrupted", "killed"} # {}

\* An invocation that was sent SIGINT or SIGTERM at any time before its end does
\* not succeed, and one that does has done every command.
SuccessIsUninterrupted == \A i \in Invocation :
  verdict[i] = "success" => left[i] = 0 /\ i \notin interrupted

\* Every invocation ends, whatever the commands and the other invocations do, but
\* for one way: a process outside of the group holds the pipe of a command whose
\* output is captured, and it is waited for without a timeout (ccid.py:102).
InvocationEnds == \A i \in Invocation :
  \/ <>(place[i] = "done")
  \/ <>[](place[i] = "drain" /\ i \in piped /\ outside[i] # {})

-----------------------------------------------------------------------------
\* The parts of the inductive invariant.

Place == {"lock", "next", "started", "communicate", "catch", "report", "done"} \cup Handling
Verdict == {"none", "success", "failure", "terminated", "interrupted", "killed"}

\* The type of every variable.
TypeOK ==
  /\ lock \in Invocation \cup {None}
  /\ place \in [Invocation -> Place]
  /\ verdict \in [Invocation -> Verdict]
  /\ late \cup interrupted \cup piped \subseteq Invocation
  /\ left \in [Invocation -> Nat]
  /\ leader \in [Invocation -> {"none", "running", "success", "failure"}]
  /\ group \in [Invocation -> SUBSET Proc]
  /\ outside \in [Invocation -> SUBSET Proc]

Catching == {"catch"} \cup Handling
MayRun == {"started", "communicate", "catch", "grace", "kill"}

\* Who works has the lock.  What an invocation knows of its command follows from
\* where it is, and afterwards from its verdict.
LocalInv(i) ==
  /\ place[i] \notin {"lock", "done"} => lock = i
  /\ place[i] \in {"started", "communicate", "report"} \cup Catching => left[i] > 0
  /\ leader[i] = "running" =>
       \/ place[i] \in MayRun
       \/ place[i] = "done" /\ verdict[i] \in {"interrupted", "killed"}
  /\ place[i] = "report" \/ verdict[i] = "terminated" => group[i] = {}
  /\ place[i] # "done" => verdict[i] = "none"
  /\ verdict[i] = "success" => left[i] = 0 /\ i \notin interrupted
  /\ i \in interrupted /\ place[i] # "done" => place[i] \in Catching \cup {"report"}

IInv == TypeOK /\ \A i \in Invocation : LocalInv(i)
=============================================================================
