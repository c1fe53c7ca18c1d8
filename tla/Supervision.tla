------------------------------ MODULE Supervision ------------------------------
(***************************************************************************)
(* One `ccid check` on Unix: the outer process the executor started        *)
(* (supervision.rs), the supervisor in a process group of its own, which   *)
(* runs the commands (Runner::run_unix), and the processes of the command  *)
(* that runs.  The outer process keeps the writing end of a pipe; the      *)
(* supervisor takes its end of file for a cancellation.                    *)
(*                                                                         *)
(* Commands are external: they fork, exit, fail, ignore SIGTERM and leave  *)
(* their process group as they like.  Either process may be killed.        *)
(***************************************************************************)
EXTENDS Naturals

CONSTANTS
  Commands,  \* how many commands the selected checks come to
  Proc       \* the processes a command may start

ASSUME CommandsAssumption == Commands \in Nat

VARIABLES
  outer,       \* "running", "ended", or "killed" by SIGKILL
  status,      \* the exit status the outer process returned
  interrupted, \* INTERRUPTED of the outer process and of the supervisor
  writer,      \* the outer process has not dropped its end of the pipe
  sup,         \* where the supervisor is
  verdict,     \* how the supervisor ended
  late,        \* the deadline of the run has passed
  left,        \* commands not yet done
  captured,    \* the output of the command is read through a pipe
  leader,      \* the command itself
  group,       \* living processes of its process group
  escaped      \* living processes that left the group

kernel == <<outer, status, writer>>
commands == <<left, captured, leader, group, escaped>>
vars == <<kernel, interrupted, sup, verdict, late, commands>>

Init ==
  /\ outer = "running" /\ status = "none" /\ writer = TRUE
  /\ interrupted = [outer |-> FALSE, supervisor |-> FALSE]
  /\ sup = "check" /\ verdict = "none"
  /\ late = FALSE
  /\ left = Commands /\ captured = FALSE /\ leader = "none"
  /\ group = {} /\ escaped = {}

\* Mutant: the supervisor inherited the writing end.
PipeOpen_Inherited == writer

PipeOpen == outer = "running" /\ writer

-----------------------------------------------------------------------------
\* The outer process.

\* The handler of ctrlc: SIGINT or SIGTERM.
Signal ==
  /\ outer = "running"
  /\ interrupted' = [interrupted EXCEPT !.outer = TRUE]
  /\ UNCHANGED <<kernel, sup, verdict, late, commands>>

\* Its loop drops the writer once it sees the flag ...
DropWriter ==
  /\ outer = "running"
  /\ interrupted.outer /\ writer
  /\ writer' = FALSE
  /\ UNCHANGED <<outer, status, interrupted, sup, verdict, late, commands>>

\* Mutant: no exit code (death by a signal) counts as zero.
ReapSupervisor_SignalIsZero ==
  /\ outer = "running" /\ sup = "done"
  /\ outer' = "ended"
  /\ status' = IF verdict = "failure" THEN "failure" ELSE "success"
  /\ UNCHANGED <<writer, interrupted, sup, verdict, late, commands>>

\* ... and returns the exit code of the supervisor, 2 when it has none.
ReapSupervisor ==
  /\ outer = "running" /\ sup = "done"
  /\ outer' = "ended"
  /\ status' = IF verdict = "success" THEN "success" ELSE "failure"
  /\ UNCHANGED <<writer, interrupted, sup, verdict, late, commands>>

\* An executor may kill the process it knows.
KillOuter ==
  /\ outer = "running"
  /\ outer' = "killed"
  /\ UNCHANGED <<status, writer, interrupted, sup, verdict, late, commands>>

-----------------------------------------------------------------------------
\* The supervisor.

\* The ccid-parent thread: end of file sets the flag.
WatchParent ==
  /\ ~PipeOpen /\ sup # "done"
  /\ ~interrupted.supervisor
  /\ interrupted' = [interrupted EXCEPT !.supervisor = TRUE]
  /\ UNCHANGED <<kernel, sup, verdict, late, commands>>

\* Its own handler of ctrlc: the same flag, set by a signal sent to it alone.
SignalSupervisor ==
  /\ sup # "done"
  /\ interrupted' = [interrupted EXCEPT !.supervisor = TRUE]
  /\ UNCHANGED <<kernel, sup, verdict, late, commands>>

Cancelled == interrupted.supervisor \/ late

End(how) == sup' = "done" /\ verdict' = how

\* Mutant: the loop goes one past the last command.
Check_PastTheEnd ==
  /\ sup = "check"
  /\ \/ Cancelled /\ End("failure")
     \/ ~Cancelled /\ sup' = "spawn" /\ UNCHANGED verdict
  /\ UNCHANGED <<kernel, interrupted, late, commands>>

\* Runner::run starts nothing once cancelled; after the last command
\* run_checks_inner asks again before it publishes freshness metadata.
Check ==
  /\ sup = "check"
  /\ \/ left > 0 /\ Cancelled /\ End("failure")
     \/ left = 0 /\ interrupted.supervisor /\ End("failure")
     \/ /\ left > 0 /\ ~Cancelled
        /\ sup' = "spawn" /\ UNCHANGED verdict
     \/ /\ left = 0 /\ ~interrupted.supervisor
        /\ sup' = "publish" /\ UNCHANGED verdict
  /\ UNCHANGED <<kernel, interrupted, late, commands>>

Publish ==
  /\ sup = "publish"
  /\ \E how \in {"success", "failure"}: End(how)
  /\ UNCHANGED <<kernel, interrupted, late, commands>>

\* The command leads a new process group; it may be missing or be captured.
Spawn ==
  /\ sup = "spawn"
  /\ \/ /\ leader' = "running" /\ captured' \in BOOLEAN
        /\ sup' = "poll" /\ UNCHANGED verdict
     \/ End("failure") /\ UNCHANGED <<leader, captured>>
  /\ UNCHANGED <<kernel, interrupted, late, left, group, escaped>>

\* The loop asks for cancellation first, then for the exit of the leader.
Poll ==
  /\ sup = "poll"
  /\ \/ Cancelled /\ sup' = "grace"
     \/ ~Cancelled /\ leader # "running" /\ sup' = "kill rest"
  /\ UNCHANGED <<kernel, interrupted, verdict, late, commands>>

\* SIGTERM was sent to the group: the leader exits, or ten seconds pass.
Grace ==
  /\ sup = "grace"
  /\ sup' = "kill"
  /\ UNCHANGED <<kernel, interrupted, verdict, late, commands>>

\* SIGKILL to the group, then the leader is waited for.
Kill ==
  /\ sup = "kill"
  /\ leader' = IF leader = "running" THEN "failure" ELSE leader
  /\ group' = {}
  /\ End("failure")
  /\ UNCHANGED <<kernel, interrupted, late, left, captured, escaped>>

\* What follows the exit of a leader, but for the fate of its group.
AfterLeader ==
  \/ leader = "failure" /\ End("failure") /\ UNCHANGED left
  \/ /\ leader = "success" /\ captured
     /\ sup' = "collect" /\ UNCHANGED <<verdict, left>>
  \/ /\ leader = "success" /\ ~captured
     /\ sup' = "check" /\ left' = left - 1 /\ UNCHANGED verdict

\* Mutant: the exit of the leader is taken for the end of the command.
KillRest_LeaderOnly ==
  /\ sup = "kill rest"
  /\ AfterLeader
  /\ UNCHANGED <<kernel, interrupted, late, captured, leader, group, escaped>>

\* The leader has exited: what it left behind in its group is killed.
KillRest ==
  /\ sup = "kill rest"
  /\ group' = {}
  /\ AfterLeader
  /\ UNCHANGED <<kernel, interrupted, late, captured, leader, escaped>>

\* The reader thread ends when every holder of the pipe has: an escaped process
\* keeps it open, and after ten seconds the run fails.  Output that is too long
\* or not UTF-8 fails too.
Collect ==
  /\ sup = "collect"
  /\ \/ End("failure") /\ UNCHANGED left
     \/ escaped = {} /\ sup' = "check" /\ left' = left - 1 /\ UNCHANGED verdict
  /\ UNCHANGED <<kernel, interrupted, late, captured, leader, group, escaped>>

\* SIGKILL to the supervisor cannot be caught.
KillSupervisor ==
  /\ sup # "done"
  /\ End("signal")
  /\ UNCHANGED <<kernel, interrupted, late, commands>>

Deadline ==
  /\ ~late /\ sup # "done"
  /\ late' = TRUE
  /\ UNCHANGED <<kernel, interrupted, sup, verdict, commands>>

-----------------------------------------------------------------------------
\* External: what the processes of a command do.

Exit ==
  /\ leader = "running"
  /\ leader' \in {"success", "failure"}
  /\ UNCHANGED <<kernel, interrupted, sup, verdict, late, left, captured, group, escaped>>

\* A living process of the group starts another one ...
Fork(p) ==
  /\ leader = "running" \/ group # {}
  /\ p \notin group \cup escaped
  /\ group' = group \cup {p}
  /\ UNCHANGED <<kernel, interrupted, sup, verdict, late, left, captured, leader, escaped>>

\* ... which may leave it (setsid) ...
Escape(p) ==
  /\ p \in group
  /\ group' = group \ {p} /\ escaped' = escaped \cup {p}
  /\ UNCHANGED <<kernel, interrupted, sup, verdict, late, left, captured, leader>>

\* ... or end.
Finish(p) ==
  /\ p \in group \cup escaped
  /\ group' = group \ {p} /\ escaped' = escaped \ {p}
  /\ UNCHANGED <<kernel, interrupted, sup, verdict, late, left, captured, leader>>

Run == Check \/ Publish \/ Spawn \/ Poll \/ Grace \/ Kill \/ KillRest \/ Collect

Next ==
  \/ Signal \/ DropWriter \/ ReapSupervisor \/ KillOuter
  \/ WatchParent \/ SignalSupervisor \/ Run \/ KillSupervisor \/ Deadline
  \/ Exit \/ \E p \in Proc: Fork(p) \/ Escape(p) \/ Finish(p)

Spec == Init /\ [][Next]_vars

\* The threads of both processes are scheduled.  A command owes nobody anything:
\* it may run forever and ignore SIGTERM.  Nor need the deadline ever come.
FairSpec ==
  /\ Spec
  /\ WF_vars(DropWriter) /\ WF_vars(ReapSupervisor)
  /\ WF_vars(WatchParent) /\ WF_vars(Run)

-----------------------------------------------------------------------------
\* The type of every variable.
TypeOK ==
  /\ outer \in {"running", "ended", "killed"}
  /\ status \in {"none", "success", "failure"}
  /\ interrupted \in [outer: BOOLEAN, supervisor: BOOLEAN]
  /\ writer \in BOOLEAN
  /\ sup \in {"check", "publish", "spawn", "poll", "grace", "kill",
              "kill rest", "collect", "done"}
  /\ verdict \in {"none", "success", "failure", "signal"}
  /\ late \in BOOLEAN
  /\ left \in 0..Commands
  /\ captured \in BOOLEAN
  /\ leader \in {"none", "running", "success", "failure"}
  /\ group \subseteq Proc /\ escaped \subseteq Proc

\* The supervisor holds the lock of the shared target until it ends.  By then,
\* and before any other command, no process of a command's group is alive to
\* write there - unless the supervisor itself was killed.
GroupGone ==
  /\ sup \in {"check", "publish", "spawn", "collect"} => leader # "running" /\ group = {}
  /\ sup = "done" /\ verdict # "signal" => leader # "running" /\ group = {}

\* A run reported as successful ran every command, published, and left no
\* process of its groups, whichever of the two processes was signalled when.
SuccessIsReal ==
  status = "success" => verdict = "success" /\ left = 0 /\ group = {}

\* A signal, the death of the outer process or the deadline ends the supervisor,
\* whatever the command does: it may ignore SIGTERM or hand its output pipe to a
\* process that escaped.
CancellationEnds ==
  (interrupted.outer \/ interrupted.supervisor \/ outer = "killed" \/ late)
    ~> sup = "done"

-----------------------------------------------------------------------------
\* The parts of the inductive invariant.

Quiet == leader # "running" /\ group = {}

\* Where commands are pending, and where their processes may live.
PlaceInv ==
  /\ sup \in {"spawn", "poll", "grace", "kill", "kill rest", "collect"} => left > 0
  /\ sup = "publish" => left = 0
  /\ sup \in {"check", "publish", "spawn", "collect"} => Quiet
  /\ sup = "kill rest" => leader # "running"

\* What the endings say.
VerdictInv ==
  /\ sup # "done" => verdict = "none" /\ status = "none"
  /\ sup = "done" /\ verdict # "signal" => Quiet
  /\ verdict = "success" => left = 0
  /\ status = "success" => verdict = "success"

IInv == TypeOK /\ PlaceInv /\ VerdictInv
=============================================================================
