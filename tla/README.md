# Verification of ccid

ccid runs the declared checks of a repository on a CI worker and publishes what
they prepared. It is small, but most of what it promises is about things tests
reach badly: a build cache shared by processes that fail and are killed, process
groups and signals, uploads that cannot be taken back, files published by racing
processes. This directory holds TLA+ models of these parts, TLC runs that check
them on small instances, and TLAPS proofs of the most important properties for
instances of any size.

Source paths are relative to the root of the repository.

## The system

| Part | Code | State | Operations | What is hard |
|---|---|---|---|---|
| Target cache and freshness | `src/cache.rs`, `run_checks_inner` in `src/lib.rs` | the lock and the ledger `.ccid/source-state.json` of a target; Cargo's outputs and their stamps; mtimes of the extracted source | take or give up the lock, invalidate, prepare, build, complete, fail | stale ledgers after failures and kills, commands that rewrite their source, local checks in between, clocks |
| Supervision | `src/supervision.rs`, `src/main.rs`, `Runner` in `src/lib.rs` | two processes, the pipe between them, the flag `INTERRUPTED`, the process group of the command | signal, kill, poll, grace, kill, collect output, exit status | any process may die at any point; descendants outlive or leave their group |
| Registry publication | `adapters/registry_publish.py` | journal records on disk and on the GitHub release, `publication.lock`, the registry | status, publish, recover after HTTP 429 | lost and late answers, crashes between records, racing runners, many units |
| Bundle import | `import_bundle`, `Bundle`, `fetch_bundle` | the prepared directory, the output, the file at `RELEASE_BUNDLE`, the digest an operator reviewed | read, check, create, download, store | the directory is written again while it is read; half files; races for a name |
| Credentials | `credentials`, `trusted_credentials`, `exchange` | a token for one unit | take from the environment, or exchange | must come before the journal and not fall back |
| Bundle inspection | `inspect_*`, `cargo_lock_graph`, `rewrite_imports` | none | compare a crate's lock with the committed one, rewrite imports for JSR, compare files | cyclic and ambiguous dependencies; declarations of unforeseen shape |
| Cargo resolution | `src/dependency.rs` | an isolated source, the candidate lock, files in a shared output directory | resolve, validate, publish files | commands tamper with the candidate; name races; crashes between files |
| Budget and admission | `budget` in `src/lib.rs`, `src/admission.rs`, `.ci/bootstrap.py`, `ccid.py` | `CI_MEMORY_MB` and the budget in force | plan, admit, allocate | memory changes while the lock is awaited; a resolution is admitted twice |
| Selection and command builders | `src/lib.rs` | the Nix inventory of a run | select, validate, build and run commands of each check | what validation misses fails late; the inventory goes stale; success without work |
| Standalone runner | `ccid.py` | the lock of the project cache, one process and the group of its command, the Nix inventory | the same checks, without supervisor or validation | `KeyboardInterrupt` between any two steps; a pipe that is read without a timeout |
| Source verification | `verify_source` in `src/lib.rs` and `ccid.py` | none | validate and extract an archive | chains of links |
| Windows backend | `src/windows.rs` | a job object | run | experimental |
| Bootstrap script, adapters, workflows | `.ci/build.sh`, `.crow/`, `.github/`, `adapters/*.yml` | the same lock and ledger; an artifact directory | build, publish | - |

They interact as follows. `main` starts the supervisor, which is a second `main`
with `--parent-watch`. That one plans a budget, waits for the lock of the target,
is admitted, computes the budget again, reconciles the ledger with the source and
runs the commands one after the other, each in a process group of its own; when
all have succeeded it publishes the ledger. A Cargo resolution runs under the same
supervision and may use the checks, with the whole sequence just described, to
validate its candidate. `.ci/build.sh` takes the same lock and removes the same
ledger as a local check. `ccid.py` is what bootstraps and small workers run
instead; it shares no state with the Rust program.

A release goes from a check to a registry by files: a check prepares a directory,
`bundle` imports it into one file and prints its digest, an operator reviews that
digest, and publishers, on whatever machine, work on a file with that digest. They
meet on a journal root, on the release and at the registry, and nowhere else.

What makes each part correct:

- *Target cache*: an archive check never uses an output of other source; a
  published ledger is true; what one run left fresh is fresh for the next one;
  waiting ends.
- *Supervision*: nothing of a command survives it in its group, so nothing writes
  to the target without the lock; a success is one; cancellation ends the run
  whatever the command does.
- *Publication*: at most one upload request, and another one only after every
  earlier one was definitely rejected; records are true and immutable; what can be
  recovered stays recoverable; every invocation ends.
- *Import and the whole publication*: a bundle is of one preparation and stays what
  it was when it was reported; nothing else gets published; no claim without a
  credential; a success has every unit served as reviewed.
- *Inspection*: a crate keeps exactly the locked graph it needs; text for JSR loads
  no dependency by its quoted bare name and is changed nowhere else.
- *Resolution*: files are never replaced; a receipt matches the files beside it;
  an accepted candidate is what was validated; success leaves a receipt.
- *Allocation*: jobs fit the memory that was admitted, reserves stay free, shares
  are never zero and never exceed the whole.
- *Selection and builders*: an invalid check is refused before anything runs; a Nix
  check goes by a current inventory; a success did all that was asked for.
- *Standalone runner*: what its ending says of its command is true; one command at a
  time in a cache; an interruption is never taken for success; it ends.

## Modules

`TargetCache` - each run is a process (`pc` idle, waiting, locked, building). Its
private source is `place` (the canonical root together with the repository
identity: `prepare` compares both), `bytes` and `mtime` of each input, and
`moved`, which says that a directory lost its recorded mtime. `state` is the
`State` that `Freshness` holds, `ledger` the file. An input stands for a scanned
file with one Cargo output `out`, which has the source it was built from, known
to the model only, and the stamp Cargo compares with mtimes. `ArriveArchive` is
`run_archive_checks`, `ArriveLocal` is `run_checks` and `.ci/build.sh`; `Prepare`
and `Complete` are the two halves of `Freshness`; `Fail` is every other end once
the ledger is gone, `Refuse` every end before. `Edit`, `CopyOver` and `Rename` are
what a command may do to its source. `touched` and `last` are history and no guard reads
them: `last` is what the last run left to Cargo if it succeeded on a source that no
command touched, and a run that fails or works locally leaves nothing. Symlinks (the
branch of `prepare` at `cache.rs:324`) are left out: their mtimes are those
of the extraction, which costs work but hides nothing. The two conversions of
timestamps that can fail (before 1970, overflow) are ends like any other.

`Supervision` - the outer process, the supervisor (`sup` says where it is in
`Runner::run`, `run_unix` and the loop of `run_checks_inner`) and the processes of
the command: `leader`, the others still in its `group`, and those that `escaped`.

`UploadAtMostOnce` - the abstract specification of publication: what happens to
the upload request of each attempt, and nothing of how it is decided.

`Publication` - the detailed one, for one package unit: one action for each
operation on the registry, the release or the disk, in the order of the code, so that
runs from other roots may come between any two checks of a recovery. What is joined
are reads of the local disk with the remote one beside them (the lock of the root
keeps everybody else away from the local half), and `persist_asset` where it makes no
claim: it looks, posts and looks again, for a record which only the owner of the claim
writes or which is the evidence itself, the same whoever writes it. A failed call is
the same as a crash after it wherever the code just raises; where the effect may
have happened although the call failed (the claim, the error record, responses,
completions) both outcomes are there. The local `immutable_local` and the later
remote record are separate steps. A runner's random owner token is the runner.
`registry` says which kind of registry the unit is for: one that can answer 429 and
be tried again (`pypi`), or one that answers with a task (`jsr`). `Promise` is
`UploadAtMostOnce` under the refinement mapping, and `AtMostOneUpload`, the
property, its specification.

`ReleaseBundle` - importers read the prepared directory file by file while it is
prepared again. Contents are told apart by their preparation only, the source
archive by its commit, which is what `Inspect` compares. `Review` is the operator.

`ReleaseRun` - extends it with the publishers at work on the reviewed bundle: how
they get it, the tag, and the two loops of `execute`, over registries and over
units, with `present` kept from unit to unit as in the code. What `Publication` has
in detail for one unit is two steps here, `Claim` and `Upload`; what `Publication`
leaves out, several units with a credential each, is what this module is about.

`PackagedLock`, `ImportRewriting`, `ReleaseInspection` - the two calculations of the
inspection as machines of a few passes, and the inspection that goes through them. A
lock is a function from identities to metadata (the format version among it) and
references, and may be absent in the source or the crate; a text is its
sequence of tokens, which `TokenAt` reads past its end too. Among the tokens are a
quoted dependency, one of its subpaths, a template that is let through and one that is
not; `version` says whether the manifest has an exact version of the dependency, a
range, or no dependency at all. One dependency stands for all, since nothing relates
two, and texts are those of `.ts` files, which are all that `inspect_javascript` hands
to `rewrite_imports`. Both have a reference definition written from the other side:
`Needed`, the least closed set of packages, against the walk; `Declares` and `Loads`,
a grammar of ES module declarations, against shapes of tokens.

`Resolution` - resolutions that share an output directory. Making the candidate
and comparing it is one action, its verdict a Boolean; each file is created by an
action of its own.

`Allocation` - one run, or a resolution followed by its validation: `Plan`,
`Admit`, `Allocate`, with the memory of host and control group read anew each
time; or the bootstrap, which admits memory to itself (`BootstrapAdmit`) and then
goes by the budget of `ccid.py` (`StandaloneBudget`), or that one alone.

`CheckSequence` - what one run executes: `Select` is the selection with
`validate_check`, the `Start` actions the arms of the loop in `run_checks_inner`
with their command builders, `Evaluate`, `Refuse` and `Accept` the parts of
`nix_check`, `Run` one `Runner::run`. A command is its tool and what it does;
fields that only add options are left out. `prepares` marks a command that comes
before the work (a toolchain's version, an installation of packages) and is none of
it, whatever words a manifest uses. `Word` is what ccid itself puts into commands. `phase` tells errors of the manifest
(`invalid`) from all others (`failed`). `flake` is what the repository declares at
the moment, and any command but those of Nix, which only evaluate or build in a
sandbox, may change it; `ran`, `shown` and `since` are history.

`StandaloneSequence` - extends it with the loop of `ccid.py`, which builds commands
that mostly are the same ones but refuses a check, an action or an argument only when
its turn comes. `BothSpec` chooses one of the two programs at the start.

`StandaloneRunner` - invocations of `ccid.py` with one cache: the lock, `Runner.run`
step by step, signals and kills between any two steps, and the processes of their
commands. Steps are as small as the code's exception handling needs: `Start` and
`Protect` are `Popen` and the entry of the `try` block after it.

The `...Proofs` modules hold the proofs, `ReleaseProofs` those about import,
publication and inspection, `CheckSequenceProofs` those about both programs. The `MC...` modules hold the constants and
symmetries of the TLC instances. Operators named `X_Something` before a definition
`X` are deliberate faults: with one of them in the place of `X` the named property
fails, which shows that the property depends on that piece of code.

## Runs

All runs disable the deadlock check: invocations end, and the bounds stop them.

| Run | What it shows | Bounds |
|---|---|---|
| `target_cache` | no stale output, true ledgers, none while a run builds, warm reuse | 2 runs, 2 inputs, 2 digests, 2 places, clock up to 6 |
| `target_cache_clock` | no stale output with a clock that is set back, as long as runs publish; waiting ends | 3 runs, 1 input, clock up to 5 |
| `clock_regress` | a documented promise that fails, see below | 2 runs, 1 input, clock up to 6 |
| `publication` | the refinement of `UploadAtMostOnce`, journal first, true and immutable records, recoverable rejections, every invocation ends | 2 kinds of registry, 3 runners, 2 roots, 2 recoveries |
| `release` | reported bundles stay, only the reviewed preparation is published, credentials first, success is complete | 2 importers, 2 preparations of 2 commits, 2 publishers, 3 units on 2 registries |
| `inspection` | locks are exact, none refused needlessly; texts without quoted bare dependencies, changed nowhere else, none refused needlessly | every graph of 4 packages, 3 of one name, with a cycle, locks of other formats and absent ones; texts of a declaration and another fragment, in either order, for an exact version and a range |
| `standalone` | endings are true, one command in a cache, no interrupted success, one way to hang | 2 invocations, with 2 commands and 1, 1 process |
| `supervision` | groups end, success is real, cancellation ends the supervisor | 2 commands, 2 processes |
| `resolution` | receipts, acceptance, nothing replaced | 2 resolutions, 1 second, 2 locks, 2 suffixes |
| `allocation` | the budget fits and the reserve is kept, on all four routes to one | numbers up to 4, readings up to 4, units of 2 |
| `check_sequence` | validation, inventories, complete success, of both programs | 3 checks out of 19, one selected twice, 2 native checks |
| `late_toolchain` | a documented promise that fails, see below | 2 Cargo checks, 3 toolchains |

Why these are enough to be interesting. Staleness needs a run that built, one that
changed something and one that is deceived: invocations return to `idle` and come
back, so two processes give any sequence of runs, and the depth is limited by the
clock, of which each build and each ledger uses one instant. Two inputs let one be
reused while the other is rebuilt; three runs let two queue behind a third. Three
publishers on two roots are the smallest number with both kinds of race, over the
lock of a root and over the claim on the release, at once; two recoveries let
evidence of an older attempt come back. In `release` the first registry has one unit
and the second two, so that a publisher goes on within a registry and to the next
one; two preparations are what a bundle can mix. Three packages of one name are the
least that can be told apart by version in one place and only by source in
another; pruning one of them makes a reference shorter. Two invocations of `ccid.py`
are one that left something behind and one that meets it. Two resolutions in one
second with two suffixes give every collision of names; a second that differs only
makes collisions fewer. Three checks are a Nix check, one that changes the flake and
another Nix check. The proofs do not have the bounds.

Invariants do not depend on fairness. For the liveness properties:

- `WaiterEnds`: `lock_target` tries every 100 ms for at most 60 seconds, which is
  weak fairness of taking the lock *or* giving up, and each command ends under the
  deadline of the check. Weak fairness is not asked of any build step, nor is it
  assumed that a lock is ever obtained.
- `RunnerEnds`: each HTTP call has a timeout and the poll of visibility a deadline
  of 180 seconds. The lock of the journal root has no timeout, so weak fairness of
  taking it says only that an invocation that can take it for ever does. No
  fairness is assumed of the registry.
- `CancellationEnds`: both processes are scheduled. Nothing is assumed of
  commands, nor that a deadline comes.
- `InvocationEnds`: the process is scheduled, and time passes, so that the deadline
  comes (`communicate` has a timeout) and the minute of the lock is over. Nothing is
  assumed of commands: they may run for ever and ignore SIGTERM. The property is
  weaker than one would wish by one way to hang, the read of the pipe after SIGKILL
  (`ccid.py:102`), which has no timeout. The Rust program has none
  (`CancellationEnds`).

## Promises that do not hold

The first is about the clock.

The program's README.md says that changed inputs get fresh mtimes, including a rollback, and that
a new extraction path forces a rebuild (lines 222-226). "Fresh" must mean later than
every output in the target. `prepare` ensures it against a clock that was set back by
taking a nanosecond more than the recorded `completed`, and
`target_cache_clock` shows that this works. But the record is in the ledger, which
is removed before use, and a failed run leaves none: the run `clock_regress` has a
run publish, the clock set back, a run fail, and the next one use an output built
from other source. The remedy would be to keep `completed` apart from the entries.
Both things are needed for it: `ArchiveChecksNeverStale` is proved for every clock
when every run publishes, and for every end of a run when the clock is not set back.

The second is small. The program's README.md says that execution uses the validation of `--plan`
before the first check, so that an invalid later check cannot waste an earlier build
(lines 22-25). `validate_check` does refuse NUL bytes in every command it builds, but
builds those of a Cargo check without the toolchain, of which it only asks that it is
not empty (`lib.rs:716`, `725`). A toolchain with a NUL byte is refused by
`Runner::run` when its turn comes, after the checks before it: the run
`late_toolchain`. `OnlyStandaloneIsLate`, proved for any manifest, says that nothing else is,
in the Rust program; `ccid.py` makes no such promise and is late with everything.

The third has no run of its own; the module states it. `adapters/registry-publish.md`
says that unsupported bare dependency declaration forms fail before publication (lines
123-124). `rewrite_imports` compares whole quoted specifiers with the names of the
dependencies (`registry_publish.py:319`, `329`, `335`), so that these are published as
they are: a subpath such as `import { x } from "dep/sub"`; `import()` of a template
that names a dependency (plain templates pass lines 281-289), or of any other
expression, a parenthesised string for one; and TypeScript's `import x =
require("dep")`. The texts of the run have the first two, as the tokens `dep/sub` and
`template`, and `NoBareDependency` claims nothing of them: it is about a dependency by
its quoted name.

Three weaknesses are known and not promises.

- An error record that reached the disk and not the release leaves a rejection that
  nobody can recover (`Report` in `Publication`; `RejectionIsRecoverable` is about
  rejections on the release).
- `recover_rejected` writes the next intent to the disk before it claims it on the
  release (lines 1175 and 1176). A run that crashes or fails to post in between leaves
  an intent at which every later recovery under this root is refused (lines
  1169-1170), although no request was made; the same holds of a root that lost the
  race for a claim (line 1154). `Stopped` is this state, and
  `RejectionIsRecoverable` says that it bars only the root where it happened, and that
  there is no other way for a root to be barred before the next attempt is claimed.
  With a single root it is final: no other one is left to recover from.
- `ccid.py` leaves a command behind when a signal comes where nothing catches it,
  which is why `OneCommandInCache` has an exception for invocations that ended so.

## Proofs

All safety properties of the passing runs are theorems, for every value of the
constants under the assumptions named in the modules. These say what kind of thing a
constant is and never how many there are: `ConstantsAssumption`, `NoneIsNoState`,
`PublicationAssumption`, `RegistryAssumption`, `CommandsAssumption`,
`AmountAssumption`, `BundleAssumption`, `ReleaseAssumption`, `ResolutionAssumption`,
`StandaloneAssumption`; `ManifestAssumption` (lists in a manifest are sequences, and
what is absent, an error or has a NUL byte is no word of ccid's own),
`TextsAreSequences` and `MarksAreNoNames` (a closing brace and the end of a text are
no identifiers). Each module below has an invariant that is inductive, from which
the properties follow:

- `TargetCache`. `NoStaleOutput` alone is not inductive: an output becomes fresh to
  Cargo by what `prepare` makes of the ledger, long before anybody looks. `TimeInv`
  says that nothing on disk is later than the clock, `TouchedInv` that a source still
  is the prepared one except for the inputs that were `touched`, and that `complete`
  can tell, `HolderInv` that only the holder of the lock is past it, `LedgerAtRest`
  that no ledger exists while it builds, and `LedgerSound` that a ledger vouches only for outputs of its own source. `TimeInv`
  is false of a clock that is set back. There `CalmInv` has in its place `StampInv`:
  every stamp is bounded by a `completed`, that of the ledger or of the run which
  will publish the next one, so that a fresh time is later than all of them whatever
  the clock says. It needs every run to publish (`~Disturbed`). What needs neither is
  `RestInv`, and the warm reuse: `WarmInv` follows what the last undisturbed run left
  through the ledger it published, the runs that only look at it, `prepare` and the
  builds of the next run, which leave fresh outputs alone.
  Theorems: `ArchiveChecksNeverStale` and `LedgerVouchesForOutputs`, under
  `~ClockStepsBack \/ ~Disturbed`; `TypeCorrect`, `LedgersRest`, `WarmOutputsStay`.
- `Publication`. `FlockInv` gives the critical section of a root; `ClaimInv` ties
  the place of a runner to the records it owns and a request to a claim; `TruthInv`
  ties rejections on record, in evidence and in memory to what the registry did;
  `ChainInv` says that an attempt is claimed, or worked on, only after all earlier
  ones were rejected. With it each upload is a `Send` of `UploadAtMostOnce`, and
  every other step its `Decide`, its `Appear` or a stutter: `PublicationKeepsPromise`
  is that refinement. On top of it `RecoveryInv` says that what the release has of
  an attempt the root of its claim has too and that records of acceptance are true,
  which is what keeps a rejection free of contradicting records; `OriginInv` says of
  every intent under a root, for whichever attempt, which run wrote it and that it
  went on or stopped, and of every outcome there that it is the claimant's or on the
  release. `RejectionsStayRecoverable` needs both. Further theorems: `TypeCorrect`,
  `RequestsAreJournaled`, `RecordedRejectionsHappened`, `RecordsAreImmutable`.
- `ReleaseRun`. `ImportInv` says that what was reported is whole at the output and
  passed its inspection, and that only such a bundle is reviewed; `RunnerInv` what a
  publisher knows at each place (that its bundle is the reviewed one, that
  everything behind it and everything it has seen at the registry is served as
  reviewed); `ServedInv` that only reviewed bytes are served by these runs.
  Theorems: `ReportedBundlesStay`, `PublishedBytesArePrepared`,
  `ClaimsHaveCredentials`, `SuccessesAreVerified`. The step from unit to unit needs
  that seen bytes cannot change, which holds as registries are write-once here.
- `PackagedLock`. `LockInv`: the walk keeps its visited and pending packages inside
  every closed set that has the root, and what is visited has its dependencies visited
  or pending; with nothing pending it is therefore the least closed set. Theorems:
  `LockIsSound`, what passes is what is needed; `LockIsComplete`, what is needed
  passes, whatever order the walk took; `ReleaseHasExactLock` for the inspection.
- `ImportRewriting`. `RewriteInv` says what each pass has established of the places
  covered. The passes look at shapes of a few tokens around a place, the reference
  grammar at declarations of any length; `ClauseIsRight` and `CoversDeclared` show
  that the two agree on where a declaration has its specifier, `LeftoverIsOther` that
  the last pass refuses a text only for a dependency outside the documented
  declarations. `RewriteInv` also ties what is covered to the version: nothing is
  covered after the declarations unless it is exact. Theorems: `NoBareDependencies`,
  `DocumentedRewritten`.
- `Resolution`. `ResolverInv` says what a resolution knows at each place: that the name
  it chose has its candidate as a snapshot and its original beside it once it got that
  far, and that it accepts only what the checks left as it was (`Validated`).
  Nothing replaces a file (`FilesStay`), so what is known of a file stays true whoever
  else writes. `ReceiptInv` says that who left a receipt has ended, so that what it says of its
  resolution stays true. Theorems: `ReceiptsBacked`,
  `AcceptedValidated`, `SuccessRecorded`, `FilesStay`.
- `Supervision`. `GroupGone` is lost and regained with every command; `PlaceInv`
  says at which places of the supervisor a group may live, and `VerdictInv` carries
  it over to the end. Theorems: `TypeCorrect`, `NoGroupOutlivesItsRun`,
  `ReportedSuccessIsReal`.
- `StandaloneRunner`. `LocalInv` says, for each place of an invocation, whether it
  has the lock, whether its command may run and whether it can have been
  interrupted. Theorems: `EndingsAreTrue`, `CacheHasOneCommand`,
  `SuccessesAreUninterrupted`.
- `Allocation`. The reserve follows from the fact that memory never grows; that shares
  fit needs a few lemmas about quotients. Theorems: `ReserveIsKept`,
  `SharesAlwaysFit`.
- `CheckSequence` and `StandaloneSequence`. The inventory is renewed because it is
  absent while custom commands run (`InventoryInv`) and is taken only by Nix checks
  (`PlaceInv`). Success is the end of a long argument. For each kind of check, what
  the builders return does what the manifest asks for, or has in it a command that
  cannot be run (`CargoReady`, `JavaScriptReady`, `CustomReady`, `NixReady` and the
  corresponding lemmas about `ccid.py`). `WorkInv` says that what has run for the
  current check together with what is left does its work, and that
  the checks before it have had theirs; `OrderInv` that commands ran in the
  order of the selection; `RustcInv` that the version of Rust is asked for once;
  `LateInv` that a selection which passed the validation has only commands that can be
  run, but for those of an impossible toolchain. Theorems: `InventoryIsRenewed`,
  `BothRenewInventory`, `WorkIsKnown`, `SuccessIsNeverEmpty`,
  `SuccessLeavesNothingOut`, `OnlyToolchainsAreLate`.

The library's induction takes an operator as a parameter, which the provers here
cannot instantiate. Where data needs induction, the proofs go by the least number
that would have it otherwise (`LeastNumber`), or by a set of numbers in the place of a
predicate (`UpTo`); so `FlattenSeq`, the selection without repetitions and the ends of
lists of names in a text are known for any length.

Only model-checked: the liveness properties (`WaiterEnds`, `RunnerEnds`,
`CancellationEnds`, `InvocationEnds`), which need fairness and `ENABLED` and are out
of the prover's reach.

## Limits of the models

- Commands are assumed not to rewrite an input and then restore both its bytes and
  its mtime; no check of the source afterwards could see that. In `Resolution`, too,
  tampering that is undone before the end is invisible, to the code as to the model.
- SIGKILL to the supervisor leaves its group behind. README.md says so (lines
  306-307); `Supervision` has the step and `GroupGone` excludes it, and `TargetCache`
  assumes that a run which is over no longer writes to the target. A check that runs
  ccid on its own target is a holder that waits for its waiter: to `TargetCache`, one
  that holds for long, until `GiveUp` ends it.
- Two readings of the clock differ. Cargo and `prepare` work with nanoseconds, and
  a file system with coarser stamps is not modelled.
- Local checks promise nothing about staleness: their mtimes are the user's. Their
  outputs matter to later archive checks, and are there.
- `Publication` has one unit; units share the lock and nothing else, and
  `ReleaseRun` has how a run goes from one to the next, with the journal reduced to
  its claim. Time is left out: the cooldown only delays a recovery. HTTP 429 is taken
  for a definite rejection, and an operator's report of one for true, as
  `adapters/registry-publish.md` does. An invocation acts once.
- In `ImportRewriting` the tokens are given; that comments, strings and templates are
  told apart correctly is not checked. What is outside `NoBareDependency` is said
  above.
- A crate without `Cargo.lock` is accepted without a look at any lock (lines 422-428);
  `OnlyExactLocks` says so.
- `StandaloneSequence` shares the custom commands with `CheckSequence`: an empty
  argument, which `ccid.py:77` refuses, is run there. It costs no property anything.
- In `StandaloneRunner` processes that earlier commands of an invocation left behind
  are forgotten when the next one starts; only interruptions and timeouts end a group
  in `ccid.py`. An interruption while `main` prints its last line is left out.
- An inventory in `CheckSequence` is not renewed after Cargo and JavaScript checks,
  and `InventoryRenewed` does not ask for it: it has to have been true at some time
  after the last custom check. What goes wrong with inventories when the flake of
  one source changes during an evaluation is not modelled.
- Two runs that are admitted to the same free memory are outside `Allocation`: README.md
  calls admission a point-in-time check, not a reservation.

## Not modelled

- `verify_source`, in Rust and Python: a function of one archive into an empty
  directory, before anything else runs; where chains of links lead is a calculation
  with no state, and the interesting half of the Python one is in `tarfile`.
- `compatibility` and `direct_breaking_changes` of a resolution: they decide what is
  reported and nothing of what is done next; here they are one Boolean.
- How `inspect_cargo`, `inspect_javascript` and `inspect_python` compare files and
  metadata of an archive with those of the source: one equality after another.
- The Windows backend, which the project calls experimental, and the staging and
  `mv -T -n` of artifacts in `.ci/build.sh`.
- Adapters and workflows: declarations for systems that are not here.

What could come next: a composition of `Supervision` with `TargetCache`
in which the orphans of a killed supervisor still write; the artifact directory of
`.ci/build.sh`.
