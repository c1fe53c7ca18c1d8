---------------------------- MODULE MCCheckSequence ----------------------------
(* TLC instances of CheckSequence, and of it together with StandaloneSequence. *)
EXTENDS StandaloneSequence

CONSTANTS a, b, c, unknown, n1, n2

\* A check of which the manifest says nothing but its kind.
Plain(kind) ==
  [kind |-> kind, toolchain |-> None, actions |-> None, runner |-> None,
   manager |-> None, scripts |-> None, install |-> None,
   mode |-> None, expected |-> None, checks |-> {}, commands |-> <<>>]

Generate == Command("sh", "generate")

\* What validate_check accepts.
Sound ==
  {Plain("cargo"),
   [Plain("cargo") EXCEPT !.actions = <<"test">>, !.runner = "nextest"],
   [Plain("cargo") EXCEPT !.toolchain = Nul, !.actions = <<"check">>],
   [Plain("javascript") EXCEPT !.scripts = <<"lint", "test">>],
   [Plain("javascript") EXCEPT !.install = FALSE],
   [Plain("commands") EXCEPT !.commands = <<Generate>>],
   [Plain("nix") EXCEPT !.mode = "list"],
   [Plain("nix") EXCEPT !.expected = {n1}],
   [Plain("nix") EXCEPT !.mode = "named", !.checks = {n1}]}

\* What it refuses.
Broken ==
  {Plain("make"), Plain("commands"),
   [Plain("cargo") EXCEPT !.toolchain = ""],
   [Plain("cargo") EXCEPT !.actions = <<"fmt", "lint">>],
   [Plain("cargo") EXCEPT !.actions = <<"fmt">>, !.runner = "pytest"],
   [Plain("javascript") EXCEPT !.scripts = <<>>],
   [Plain("javascript") EXCEPT !.manager = "yarn"],
   [Plain("javascript") EXCEPT !.scripts = <<"test", Nul>>],
   [Plain("nix") EXCEPT !.mode = "named"],
   [Plain("nix") EXCEPT !.mode = "foreign"]}

Names == {a, b, c}
Natives == {n1, n2}
Selections == {<<>>, <<a, unknown>>, <<a, b, a, c>>}
Checks == Sound \cup Broken

\* Two Cargo checks, one with a toolchain that cannot be named to rustup.
Pair == {a, b}
PairSelections == {<<a, b>>}
Toolchains ==
  {Plain("cargo"), [Plain("cargo") EXCEPT !.toolchain = Nul],
   [Plain("cargo") EXCEPT !.toolchain = "stable"]}

\* The Rust program alone.
RustSpec == Init /\ program = "ccid" /\ [][Next /\ UNCHANGED program]_bothVars
=============================================================================
