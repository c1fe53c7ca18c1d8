--------------------------- MODULE StandaloneSequence ---------------------------
(***************************************************************************)
(* The same checks run by the standalone ccid.py (run_checks, cargo_check, *)
(* nix_check, javascript_check).  Its commands, its inventory and the way  *)
(* from one check to the next are those of the Rust program; but it has no *)
(* validation of the selection: what is wrong with a check is noticed when *)
(* the check, the action or the command has its turn.                      *)
(***************************************************************************)
EXTENDS CheckSequence

VARIABLE program  \* which of the two runs, chosen in Init for ever

bothVars == <<vars, program>>

\* A command that Runner.run refuses: an empty argument.
Refused == Command("", "refused")

Nonempty(command) == IF command.does = "" THEN Refused ELSE command

\* Only what is selected has to be declared.
StandaloneSelect ==
  /\ phase = "select"
  /\ selected' = Distinct(selectors)
  /\ phase' \in IF selectors # <<>> /\ ToSet(selectors) \subseteq Name
                THEN {"next", "planned"} ELSE {"invalid"}
  /\ UNCHANGED <<given, flake, at, todo, inventory, history>>

\* Mutant: an action that is not known is passed over.
Turn_PassedOver(check, action) ==
  IF CargoAction(check, action) = Error THEN <<>> ELSE CargoAction(check, action)

\* An action or a test runner that is not known is refused after the commands of
\* the actions before it, none of them at once.
Turn(check, action) ==
  IF CargoAction(check, action) = Error THEN <<Refused>> ELSE CargoAction(check, action)

CargoTurns(check) ==
  LET actions == OrElse(check.actions, <<"fmt", "test", "clippy">>)
  IN IF actions = <<>> THEN <<Refused>>
     ELSE FlattenSeq([i \in DOMAIN actions |-> Turn(check, actions[i])])

\* An empty toolchain is an empty argument of rustup.
StandaloneCargo ==
  /\ phase = "next" /\ at <= Len(selected) /\ Current.kind = "cargo"
  /\ LET prefix == CargoPrefix(Current)
     IN Begin([k \in DOMAIN prefix |-> Nonempty(prefix[k])] \o CargoTurns(Current))
  /\ UNCHANGED <<given, flake, selected, at, inventory, history>>

\* The manager and the number of scripts are looked at before the installation, the
\* scripts are not.
JavaScriptTurns(check) ==
  JavaScriptRuns(check, [k \in DOMAIN ScriptsOf(check) |->
                           IF ScriptsOf(check)[k] = "" THEN Nul ELSE ScriptsOf(check)[k]])

StandaloneJavaScript ==
  /\ phase = "next" /\ at <= Len(selected) /\ Current.kind = "javascript"
  /\ IF JavaScriptTurns(Current) = Error THEN BeginNot ELSE Begin(JavaScriptTurns(Current))
  /\ UNCHANGED <<given, flake, selected, at, inventory, history>>

\* The mode is not looked at before the inventory is.
StandaloneNix ==
  /\ phase = "next" /\ at <= Len(selected) /\ Current.kind = "nix"
  /\ phase' = IF inventory = None THEN "evaluate" ELSE "judge"
  /\ UNCHANGED <<given, flake, selected, at, todo, inventory, history>>

\* An unknown mode, or no check that is named.
RefuseMode ==
  /\ phase = "judge" /\ Acceptable(Current) /\ NixMode(Current) = Error
  /\ phase' = "invalid"
  /\ UNCHANGED <<given, flake, selected, at, todo, inventory, history>>

StandaloneAccept == phase = "judge" /\ NixMode(Current) # Error /\ Accept

\* A kind that is not known.
RefuseKind ==
  /\ phase = "next" /\ at <= Len(selected)
  /\ Current.kind \notin {"cargo", "nix", "javascript", "commands"}
  /\ phase' = "invalid"
  /\ UNCHANGED <<given, flake, selected, at, todo, inventory, history>>

StandaloneNext ==
  \/ StandaloneSelect
  \/ StandaloneCargo \/ StandaloneJavaScript \/ StartCommands \/ StandaloneNix \/ RefuseKind
  \/ Evaluate \/ Refuse \/ RefuseMode \/ StandaloneAccept
  \/ Run \/ RunNot \/ Fail \/ Finish

BothInit == Init /\ program \in {"ccid", "ccid.py"}

BothNext ==
  /\ \/ program = "ccid" /\ Next
     \/ program = "ccid.py" /\ StandaloneNext
  /\ UNCHANGED program

BothSpec == BothInit /\ [][BothNext]_bothVars

-----------------------------------------------------------------------------
\* An invalid check wastes the work of earlier checks in the standalone program
\* only, and in the other one when it is invalid by its toolchain
\* (CheckSequence's OnlyToolchainIsLate).
OnlyStandaloneIsLate == program = "ccid" => OnlyToolchainIsLate
=============================================================================
