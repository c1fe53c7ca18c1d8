----------------------------- MODULE CheckSequence -----------------------------
(***************************************************************************)
(* What a run of the checks executes (lib.rs run_checks_inner and the      *)
(* command builders it calls): the selection, its validation before        *)
(* anything is executed, and then check after check its commands, with the *)
(* inventory of native Nix checks, which is evaluated once and kept until a *)
(* custom check runs.                                                      *)
(*                                                                         *)
(* A check is its entry in the manifest; an absent field is None, and the  *)
(* fields that only add options to a command are left out.  The commands   *)
(* are external: each may fail, and those of the repository may change what *)
(* the flake declares.                                                     *)
(***************************************************************************)
EXTENDS Naturals, Sequences, SequencesExt

CONSTANTS
  Name,        \* the checks a manifest declares
  Check,       \* what a manifest may say of a check
  Selection,   \* what may be selected: sequences of names, declared or not
  Native,      \* the native checks a flake may declare
  Nul,         \* a string with a NUL byte
  None,        \* an absent field, and no inventory
  Error        \* what a command builder returns in place of commands

VARIABLES
  manifest,    \* the checks table of .ci/ccid.toml
  selectors,   \* the names asked for, in order (split at commas, none empty)
  linker,      \* CI_LINKER
  flake,       \* the native checks declared at this moment
  phase,       \* where run_checks_inner and nix_check are, or how they ended
  selected,    \* the checks to run
  at,          \* the one whose turn it is
  todo,        \* its commands that are still to run
  inventory,   \* Runner.nix_inventory
  ran,         \* history: every command that succeeded
  shown,       \* history: the inventory by which a Nix check was accepted
  since        \* history: every value of flake since a custom command ended

\* What ccid's own commands consist of, and the values it looks for in a manifest.
Word ==
  {"cargo", "fmt", "clippy", "check", "build", "test", "nextest", "doctests",
   "mold", "--version", "rustc", "system", "npm", "bun", "pnpm", "install",
   "nix", "inventory", "list", "native", "eval", "all-systems", "named"}

\* Every list in a manifest, and every selection, is one; a NUL byte, an absent field
\* and an error are none of these words, and no set of native checks is absent.
ASSUME ManifestAssumption ==
  /\ Nul \notin Word /\ None \notin Word /\ Error \notin Word
  /\ \A declared \in SUBSET Native : declared # None
  /\ \A selection \in Selection : selection \in Seq(ToSet(selection))
  /\ \A check \in Check :
       /\ check.actions # None => check.actions \in Seq(ToSet(check.actions))
       /\ check.scripts # None => check.scripts \in Seq(ToSet(check.scripts))
       /\ check.commands \in Seq(ToSet(check.commands))
       /\ \A command \in ToSet(check.commands) : ~command.prepares

given == <<manifest, selectors, linker>>
vars == <<manifest, selectors, linker, flake, phase, selected, at, todo,
          inventory, ran, shown, since>>
history == <<ran, shown, since>>

OrElse(field, default) == IF field = None THEN default ELSE field

-----------------------------------------------------------------------------
(* The command builders.                                                   *)

\* A command that does what the manifest asks for, and one that comes before it.
Command(tool, does) == [tool |-> tool, does |-> does, prepares |-> FALSE]
Preparation(tool, does) == [tool |-> tool, does |-> does, prepares |-> TRUE]

\* validate_command: a NUL byte or the lack of an executable.
Runnable(command) == command.tool \notin {"", Nul} /\ command.does # Nul

Nextest == <<Command("cargo", "nextest"), Command("cargo", "doctests")>>

CargoAction(check, action) ==
  CASE action \in {"fmt", "clippy", "check", "build"} -> <<Command("cargo", action)>>
    [] action = "test" /\ check.runner \in {None, "cargo"} -> <<Command("cargo", "test")>>
    [] action = "test" /\ check.runner = "nextest" -> Nextest
    [] OTHER -> Error

CargoCommands(check) ==
  LET actions == OrElse(check.actions, <<"fmt", "test", "clippy">>)
      each == [i \in DOMAIN actions |-> CargoAction(check, actions[i])]
  IN IF actions = <<>> \/ Error \in ToSet(each) THEN Error ELSE FlattenSeq(each)

\* cargo_prefix, and the rustc --version that run_checks_inner puts before the
\* rest.  rustup is the executable of every toolchain but the default.
CargoPrefix(check) ==
  LET rustc == Preparation("rustc", OrElse(check.toolchain, "system"))
  IN IF linker = "mold" THEN <<Preparation("mold", "--version"), rustc>> ELSE <<rustc>>

\* javascript_commands, of some scripts.
JavaScriptRuns(check, scripts) ==
  LET manager == OrElse(check.manager, "npm")
      install == IF OrElse(check.install, TRUE)
                 THEN <<Preparation(manager, "install")>> ELSE <<>>
  IN IF manager \notin {"npm", "bun", "pnpm"} \/ scripts = <<>>
     THEN Error
     ELSE install \o [i \in DOMAIN scripts |-> Command(manager, scripts[i])]

ScriptsOf(check) == OrElse(check.scripts, <<"test">>)

JavaScriptCommands(check) ==
  IF "" \in ToSet(ScriptsOf(check)) THEN Error ELSE JavaScriptRuns(check, ScriptsOf(check))

\* nix_mode: Error unless the mode is known and a named one names something.
NixMode(check) ==
  LET mode == OrElse(check.mode, "native")
  IN IF \/ mode \in {"list", "native", "eval", "all-systems"}
        \/ mode = "named" /\ check.checks # {} /\ "" \notin check.checks
     THEN mode ELSE Error

\* Mutant: the mode is left to nix_check.
ValidNix_Later(check) == TRUE
ValidNix(check) == NixMode(check) # Error

\* validate_check.  It builds Cargo commands with no toolchain.
Valid(check) ==
  LET commands == CASE check.kind = "cargo" -> CargoCommands(check)
                    [] check.kind = "javascript" -> JavaScriptCommands(check)
                    [] check.kind = "commands" -> check.commands
                    [] OTHER -> <<>>
  IN /\ check.kind \in {"cargo", "javascript", "nix", "commands"}
     /\ check.kind = "cargo" =>
          check.toolchain # "" /\ check.runner \in {None, "cargo", "nextest"}
     /\ check.kind = "nix" => ValidNix(check)
     /\ check.kind = "commands" => commands # <<>>
     /\ commands # Error
     /\ \A command \in ToSet(commands) : Runnable(command)

-----------------------------------------------------------------------------
Init ==
  /\ manifest \in [Name -> Check]
  /\ selectors \in Selection
  /\ linker \in {"system", "mold"}
  /\ flake \in SUBSET Native
  /\ phase = "select"
  /\ selected = <<>>
  /\ at = 1
  /\ todo = <<>>
  /\ inventory = None
  /\ ran = <<>>
  /\ shown = [name \in Name |-> None]
  /\ since = {flake}

\* The names in the order in which they are first mentioned.
Distinct(names) ==
  LET first == {i \in DOMAIN names : \A j \in 1..(i - 1) : names[j] # names[i]}
      place[i \in 0..Len(names)] ==
        IF i = 0 THEN <<>>
        ELSE IF i \in first THEN Append(place[i - 1], names[i]) ELSE place[i - 1]
  IN place[Len(names)]

\* The whole selection is declared and valid, or the run ends here, as it does
\* with --plan.
Select ==
  /\ phase = "select"
  /\ selected' = Distinct(selectors)
  /\ phase' \in IF /\ selectors # <<>>
                   /\ \A name \in ToSet(selectors) :
                        name \in Name /\ Valid(manifest[name])
                THEN {"next", "planned"} ELSE {"invalid"}
  /\ UNCHANGED <<given, flake, at, todo, inventory, history>>

Current == manifest[selected[at]]

\* A check begins with the commands built for it, or not at all.
Begin(commands) == phase' = "run" /\ todo' = commands
BeginNot == phase' = "invalid" /\ todo' = <<>>

StartCargo ==
  /\ phase = "next" /\ at <= Len(selected) /\ Current.kind = "cargo"
  /\ IF CargoCommands(Current) = Error THEN BeginNot
     ELSE Begin(CargoPrefix(Current) \o CargoCommands(Current))
  /\ UNCHANGED <<given, flake, selected, at, inventory, history>>

StartJavaScript ==
  /\ phase = "next" /\ at <= Len(selected) /\ Current.kind = "javascript"
  /\ IF JavaScriptCommands(Current) = Error THEN BeginNot
     ELSE Begin(JavaScriptCommands(Current))
  /\ UNCHANGED <<given, flake, selected, at, inventory, history>>

\* Mutant: the inventory survives commands that may change the flake.
StartCommands_KeepsInventory ==
  /\ phase = "next" /\ at <= Len(selected) /\ Current.kind = "commands"
  /\ IF Current.commands = <<>> THEN BeginNot ELSE Begin(Current.commands)
  /\ UNCHANGED <<given, flake, selected, at, inventory, history>>

StartCommands ==
  /\ phase = "next" /\ at <= Len(selected) /\ Current.kind = "commands"
  /\ inventory' = None
  /\ IF Current.commands = <<>> THEN BeginNot ELSE Begin(Current.commands)
  /\ UNCHANGED <<given, flake, selected, at, history>>

StartNix ==
  /\ phase = "next" /\ at <= Len(selected) /\ Current.kind = "nix"
  /\ phase' = IF NixMode(Current) = Error THEN "invalid"
              ELSE IF inventory = None THEN "evaluate" ELSE "judge"
  /\ UNCHANGED <<given, flake, selected, at, todo, inventory, history>>

\* The two evaluations of nix_check; the second one sees the flake.
Evaluate ==
  /\ phase = "evaluate"
  /\ inventory' = flake
  /\ ran' = Append(ran, [check |-> selected[at], command |-> Preparation("nix", "inventory")])
  /\ phase' = "judge"
  /\ UNCHANGED <<given, flake, selected, at, todo, shown, since>>

\* Mutant: an empty inventory is as good as any.
Acceptable_EvenEmpty(check) ==
  /\ check.expected # None => inventory = check.expected
  /\ NixMode(check) = "named" => check.checks \subseteq inventory

\* What nix_check wants of the inventory.
Acceptable(check) ==
  /\ inventory # {}
  /\ check.expected # None => inventory = check.expected
  /\ NixMode(check) = "named" => check.checks \subseteq inventory

Refuse ==
  /\ phase = "judge" /\ ~Acceptable(Current)
  /\ phase' = "failed"
  /\ UNCHANGED <<given, flake, selected, at, todo, inventory, history>>

\* list is done with this; every other mode has one command.
Accept ==
  /\ phase = "judge" /\ Acceptable(Current)
  /\ shown' = [shown EXCEPT ![selected[at]] = inventory]
  /\ IF NixMode(Current) = "list"
     THEN phase' = "next" /\ at' = at + 1 /\ UNCHANGED todo
     ELSE /\ phase' = "run" /\ UNCHANGED at
          /\ todo' = <<Command("nix", NixMode(Current))>>
  /\ UNCHANGED <<given, flake, selected, inventory, ran, since>>

\* Runner::run; with its last command a check has succeeded.  The code of the
\* repository may change the flake, that of Nix runs in a sandbox.
Run ==
  /\ phase = "run" /\ Runnable(Head(todo))
  /\ ran' = Append(ran, [check |-> selected[at], command |-> Head(todo)])
  /\ todo' = Tail(todo)
  /\ at' = IF todo' = <<>> THEN at + 1 ELSE at
  /\ phase' = IF todo' = <<>> THEN "next" ELSE "run"
  /\ flake' \in IF Current.kind = "nix" THEN {flake} ELSE SUBSET Native
  /\ since' = IF Current.kind = "commands" THEN {flake'} ELSE since \cup {flake'}
  /\ UNCHANGED <<given, selected, inventory, shown>>

\* A command that cannot be run is an error of the manifest.
RunNot ==
  /\ phase = "run" /\ ~Runnable(Head(todo))
  /\ phase' = "invalid"
  /\ UNCHANGED <<given, flake, selected, at, todo, inventory, history>>

\* A command or an evaluation that fails, the deadline or a signal, and all that
\* may refuse the run before its first check or its success after the last.
Fail ==
  /\ phase \in {"next", "evaluate", "run"}
  /\ phase' = "failed"
  /\ UNCHANGED <<given, flake, selected, at, todo, inventory, history>>

Finish ==
  /\ phase = "next" /\ at > Len(selected)
  /\ phase' = "success"
  /\ UNCHANGED <<given, flake, selected, at, todo, inventory, history>>

Next ==
  \/ Select
  \/ StartCargo \/ StartJavaScript \/ StartCommands \/ StartNix
  \/ Evaluate \/ Refuse \/ Accept
  \/ Run \/ RunNot \/ Fail \/ Finish

Spec == Init /\ [][Next]_vars

-----------------------------------------------------------------------------
\* An invalid later check cannot waste an earlier build (README.md:22-25): a run
\* that ends because of what the manifest says has executed no other check before.
InvalidWastesNothing ==
  phase = "invalid" => \A i \in DOMAIN ran : ran[i].check = selected[at]

\* That holds but for one thing, the toolchain, of which validate_check knows only
\* that it is not empty.  It relates validate_check to all the builders and
\* conditions that are met again, check after check, in run_checks_inner.
OnlyToolchainIsLate ==
  phase = "invalid" /\ ran # <<>> => Current.kind = "cargo" /\ Current.toolchain = Nul

\* Commands of the repository may change the flake, so each Nix check goes by an
\* inventory that was true at some time after the last custom command
\* (lib.rs:925, ccid.py:316).  Other kinds of checks do not renew it.
InventoryRenewed ==
  phase = "judge" => inventory \in since

\* A command that tells something about the product.
Examines(command) == ~command.prepares

RanFor(name) == {ran[i].command : i \in {j \in DOMAIN ran : ran[j].check = name}}

\* No empty success (lib.rs:610, README.md:134-135): each check somebody asked for
\* has examined something, and a Nix check of any mode has gone by an inventory
\* that was not empty.
NoEmptySuccess ==
  phase = "success" =>
    /\ selectors # <<>>
    /\ \A name \in ToSet(selectors) :
         /\ manifest[name].kind = "nix" => shown[name] \notin {None, {}}
         /\ \/ \E command \in RanFor(name) : Examines(command)
            \/ manifest[name].kind = "nix" /\ manifest[name].mode = "list"

\* What a manifest asks a check to do.
Owed(check) ==
  CASE check.kind = "javascript" -> ToSet(ScriptsOf(check))
    [] check.kind = "commands" -> {command.does : command \in ToSet(check.commands)}
    [] check.kind = "nix" -> {}
    [] OTHER -> LET actions == ToSet(OrElse(check.actions, <<"fmt", "test", "clippy">>))
                IN IF "test" \in actions /\ check.runner = "nextest"
                   THEN (actions \ {"test"}) \cup {"nextest", "doctests"}
                   ELSE actions

\* The question for the version of Rust, which a Cargo check begins with.
Rustc(command) == command.prepares /\ command.tool = "rustc"

Mentioned(name) == CHOOSE i \in DOMAIN selectors :
  selectors[i] = name /\ \A j \in 1..(i - 1) : selectors[j] # name

\* A success has done all that is owed, doctests included whatever runs the tests
\* (README.md:47), check by check in the order of first mention, and each check
\* once however often it is selected.
SuccessIsComplete ==
  phase = "success" =>
    /\ \A name \in ToSet(selectors) : \A does \in Owed(manifest[name]) :
         \E command \in RanFor(name) : Examines(command) /\ command.does = does
    /\ \A i, j \in DOMAIN ran : i < j =>
         Mentioned(ran[i].check) <= Mentioned(ran[j].check)
    /\ \A i, j \in DOMAIN ran :
         ran[i] = ran[j] /\ Rustc(ran[i].command) => i = j
=============================================================================
