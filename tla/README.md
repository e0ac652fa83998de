# A verification development of turango's mutation engine

turango tests Go tests: `go test -mutate` changes one expression or statement
of a package at a time, runs the package's tests against each change and
reports the changes that no test noticed. This directory holds TLA+ modules of
the engine that does this (`internal/mutate`), TLC configurations that check
them on small instances, and proofs of their main safety properties for
instances of every size.

## 1. The system

| Component | Code | State it keeps | Operations | Talks to |
|---|---|---|---|---|
| Command line | `cmd/turango/main.go` | flags, the signal context | parse, `mutateRun`, `writeReport`, the gate on the score | calls `mutate.Run` or `mutate.Estimate`; its signal context cancels them |
| Planner | `engine.go` `load`, `loadTyped`, `loadClosures`, `plan`, `planPackage` | file jobs, impact maps, fingerprints | one pass before any worker starts | `go list`, `go/packages`; hands `[]fileJob` to the run engine |
| Timeouts | `engine.go` `resolveTimeout`, `baselineTimeout` | one duration | three baseline runs of the suite | `go test` |
| Run engine | `engine.go` `Run`, `execute`, `mutateFile`, `visit*`, `collector` | errgroup with its semaphore, one walk per file, the collector's result | spawn, visit, collect, shut down | the runner, the collector, the cache store |
| Mutant runner | `runner.go` `runner.run` | the applied mutation, a temporary workspace | apply, print, look up, copy, TCE, test, record, revert | workspaces, the cache, the test process |
| Test process | `runner.go` `goTest`, `classifySignals` | a context with a deadline, event flags | start, wait, classify | the go command, through `os/exec` |
| Verdict cache | `cache.go` | `mutate-cache.jsonl`, an index, a store with its consumer | load and truncate, fingerprint, look up, append, close | the runner; later runs |
| Workspaces | `runner.go` `workspaceFor`, `copy*` | a temporary directory or git worktree | copy the module, its closure, or check out HEAD | the file system, git |
| Impact scope | `impact.go` | coverage blocks per test | build, look up | the planner, the runner |
| Suppressions | `suppress.go` | directives by line | collect, anchor | the walk |
| Mutant ids | `engine.go` `mutantID`, `idDeduper` | a count per id and file | hash, number | the walk, the cache key |
| Estimate | `engine.go` `Estimate`, `estimateTally` | counts | the same walk without a runner | the planner |
| Report | `report.go` | the result | counts, score, relativise, write | the command line |
| Operators | `internal/mutator` | a registry | apply and revert on `go/ast` | the walk |
| Go proxy | `internal/goproxy` | none | find and replace the process by `go` | the operating system |
| Corpus runner | `internal/corpus` | none | load regression cases | tests only |

### What is hard about it

* **One tree, many mutations.** A worker mutates the syntax tree of its file in
  place, prints it, and must undo the change on every way out of `runner.run`:
  thirteen returns, most of them errors.
* **Three kinds of goroutine** (file workers, the collector's consumer, the
  store's consumer) over unbuffered channels, shut down in one particular
  order by `Run`. A worker that is late, a consumer that stops reading or a
  channel closed early means a panic, a deadlock or a lost verdict.
* **Cancellation.** The caller's context is canceled by a signal at any time,
  the group's by the first error. Every worker is somewhere in its walk then.
  A partial result must come back with an error and never pass for a complete
  one.
* **One file over many runs.** A cached verdict is used in place of a test run,
  weeks and many edits later. A kill or a full disk may cut the file
  anywhere.
* **A race for the verdict.** The test binary ends, the go command ends, the
  deadline passes, the user presses Ctrl+C, the watcher of `os/exec` kills:
  `goTest` looks at two contexts, one after the other, after all of it.
* **A copy narrower than the module.** Under a narrow scope each mutant is
  tested in a copy of its package's dependency closure, or in a checkout of
  HEAD. A file that is missing there fails every mutant of the package, and
  nothing tells such a failure from a mutant that was caught.

### What makes each component correct

* Run engine: each owed visit is reported exactly once with a verdict reached
  with its own mutation alone; a run without error is complete; a canceled run
  stops at once; no send on a closed channel; `Run` returns.
* Cache: a hit is what the tests would say; what a run wrote that had loaded the
  file is not lost to another that loads it, nor tested again; a load that works
  leaves no garbage with anything behind it.
* Test process: a verdict is earned by the mutant; a killed run has none;
  `goTest` returns.
* Planner: each file is planned once; each job's fingerprint is that of its own
  tree; a package that falls back does so alone; the baseline passes; an
  estimate counts what a run would test.
* Classifier: however the output is cut into pieces, no event within the limit is
  lost before a verdict.
* Workspaces: what a test reads is in the copy, the cache key covers what was
  copied, the copy is what is on disk, and no worktree is left behind.
* Suppressions: a directive takes out the nodes it is anchored to with all that
  is below them, and is reported once. Ids: distinct within a file, and the same
  in every run over one source, whatever a run filters. Estimate: it counts what
  a run would test. Impact: no test that executes a mutated node is left out.
* Command line: each flag of a mutation run has the last value given, nothing that
  has to be refused is run or handed on, and the exit code says whether run, report and gate came
  out well. Go proxy: the toolchain handed to is the first in the documented
  order that is not turango itself.
* Operators: each reverts exactly what it applied, no place is mutated twice the
  same way, a mutant is another program and means what the operator claims.

`PROJECT.json` lists the hazards line by line, with the property that covers
each, or the reason why none does.

## 2. The modules

### Engine: one run

From the moment `Run` holds its plan to the moment it returns. The processes
are `Run`'s own goroutine, one worker per file job, the two consumers and the
user.

| Variable | Code |
|---|---|
| `main`, `next` | where `Run` is: in `execute`'s loop over jobs, in `store.close`, in `sink.close`, returned |
| `sem` | the errgroup's semaphore (`SetLimit`) |
| `canceled`, `groupErr` | the caller's context; the first error of the group, whose recording cancels the group's context |
| `pc[j]` | where worker `j` is: `queued`, `started` (before its file is parsed), `walking` (between two visits), `applied`, `testing`, `recording` (sending to the store), `sending` (to the collector), `ended` |
| `pos[j]`, `ast[j]`, `src[j]`, `out[j]` | the visit of its walk, the mutations now in its tree, those in the source printed for this visit, the outcome it holds |
| `store`, `slot`, `werr`, `log` | the cache store: its channel, the record its consumer holds, its write error, the records appended |
| `sink`, `result` | the collector: its channels, what its consumer accumulated |
| `late` | history: entries received after the group's context was done |

A worker's actions follow `mutateFile`, `visitNode`, `visitMutations` and
`runner.run` check by check, in the code's order: context, suppression, replay
filter, Apply and print, no change, uncovered, cache hit, workspace, TCE, tests,
the send to the store, Revert, the send to the collector. `Cancelled` is looked
at exactly where the code looks: at the head of the file, at every node and
before every mutation, not between TCE and its verdict and not while sending.

Abstractions. A file is the sequence of its visits; a mutation is a model
value; a printed file is the set of mutations in it, so a leftover shows. Which
mutations print as the baseline, lie on uncovered lines, compile to the
baseline's code or have a cached verdict is given by constants, for the walk
reads these and never changes them. A verdict of `go test` is a choice. A
failure of anything a mutant needs (printing, copying, writing, starting the
toolchain) is one action, `MutantFails`, possible in either place. The
collector's three unbuffered channels are one rendezvous: `consume` never blocks
except to receive, so a send completes whenever the collector is open.

### MutationRun: what a run promises

The abstract specification: entries for owed visits are added one at a time,
each once, with an outcome that visit can have; then the run returns, without
error only if nothing is missing. Engine instantiates it over its own state
(`reported` is the set of visit-verdict pairs of `result`, `returned` is
`main = "done"`) and run `engine` checks that Engine implements it
(`ImplementsRun`), its fairness included; `EngineProofs` proves the steps
(`Implements`).

### VerdictCache: one file, many runs

The file is a sequence of lines; a line is the pieces written between two
newlines, so that an append to a torn line is what it is in the code: one line
that does not unmarshal. `OpenCache` is `openCache`: `LoadCacheIndex` reads and
truncates, or fails at either and leaves the file as it is, and the store is opened
for append, or not, whichever it was, as in the code. `loaded` says whether the last
load worked, and each record in `written` whether its run had loaded. `Plan` computes the fingerprint once, `CacheLookup`, `CopyWorkspace`,
`TestEnds` are a mutant's way through `runner.run`, `WriteRecord` the store's
consumer with a whole, a cut and a failed write, `EndRun` the shutdown and
`Exit` the end of the process at any point, in the middle of a write too. The
user edits the sources and deletes the file or its directory.

Verdicts are deterministic: `Truth(config, sources, mutant)`. In `MCVerdictCache`
it returns its arguments, so that a verdict served for other inputs is always
visible. The README's own warning that time-outs, build tags and the environment
are not part of the key is respected: they do not vary.

A load that failed is a state like any other, and the properties say what it costs. A
run that could not load the file looks nothing up, and appends what it tests: behind
a torn line, if there is one, which the comment of `loadCacheIndex` rules out
(`GarbageLast` fails, section 3). The next load that
works cuts the torn line off with all that stands behind it, so that garbage is last
again (`GarbageOnlyAtEnd`), records written by runs that had loaded survive
(`WrittenSurvives`, `NeverRerun`), and those that were appended blindly may be lost.

Four switches name what the environment may do:

| Constant | TRUE means | Effect |
|---|---|---|
| `EditDuringRun` | sources change while a run is going on | `HitIsTruth` fails: a workspace copies the new sources, the key names the old ones; undo the edit and the wrong verdict is served |
| `SiblingEdits` | the target of a local `replace` is edited between runs | `HitIsTruth` fails |
| `CacheInside` | the cache directory lies in the module | `NeverRerun` fails: the file is part of its own fingerprint, nothing is ever found again |
| `TearAtNewline` | a write may be cut exactly before its newline | `GarbageOnlyAtEnd` fails: the line unmarshals, nothing is truncated, and the next record continues it |

### GoTest: one mutant's test process

`goTest`, the watcher of `os/exec`, the go command and the test binary as
processes, with the deadline and the user's signal. A mutant behaves in one of
six ways: it passes, fails, has no tests, does not compile, dies while its
package is initialised, or hangs. The go command and `os/exec`
are outside the repository and modelled from how `goTest` uses them; in
particular a `Kill` that succeeds on a command that has just exited with success
makes `cmd.Run` return the context's error. The output is the set of the five
kinds of event that `testEventState` tells apart (a build failure in JSON or as
a bare diagnostic, a test that ran, a test that failed, a package that failed),
as far as they were written: a kill may cut the stream.

The stream itself is a pipe of lines with a length each. `ReadPiece` is one round
of `testEventState.Write`'s loop: a piece of any size that ends within a line or
with its newline. `AppendPartial` is `appendPartial` with its limit: what would
grow beyond it is dropped, and the rest of the same line starts anew, so that the
tail of a line that is too long is decoded by itself and is none. `beside` says
that, under the full scope, other packages' tests run in the same command; they
may print lines beyond the limit (`chatter`).

Three things the model reaches that no property forbids: a test binary goes on
after the go command was killed (`OrphanEnds`); a panic in a package's
initialiser, which a mutant causes, counts as NotViable, for no test ran; and a
deadline that passes between the exit of a successful command and its wait is
taken for an error of the engine and cancels the run.

### Workspace: where a mutant is tested

One mutated package, from the planning of its closure to the removal of each
mutant's workspace.

| Variable | Code |
|---|---|
| `layout`, `scope`, `want`, `git` | givens: import graph, embeds, broken packages, vendor directory, replaces, `testdata` and ignored files; `-mutatescope`, `-mutateworkspace`; whether the module lies in a repository |
| `disk`, `head`, `edits`, `canceled` | the content of each file on disk and in the last commit, which the user changes; the run's context |
| `todo`, `seen`, `dirs`, `safe` | `closureWalk`: what its recursion has yet to visit, and its own three fields |
| `closure` | `fileJob.closure`, nil or a set of directories |
| `printed` | the files that `cacheFingerprint` hashed |
| `root`, `worktree` | the workspace as content by file; what git has registered for it |
| `phase` | where planning, then `workspaceFor` and the rest of `runner.run` are |

`Decline` and `StartWalk` are `planClosure` and the head of `resolveClosure`;
`VisitSeen`, `VisitUnsafe`, `VisitForeign`, `VisitHome` the four ways through
`closureWalk.visit`; `WalkEnds` the last check on replaces inside the module;
`Fingerprint` chooses between `closurePaths` and `wholeModulePaths`.
`CopyClosure`, `CheckClean`, `AddWorktree`, `AddFails` and `CopyModule` are
`workspaceFor` with its fall-backs, `Cleanup` the deferred removals.

Abstractions. A file stands for all files of its kind in a place: a package's
sources, what it embeds, its `testdata`, its files that git ignores, `go.mod`,
the vendor directory, the target of a replace. Its content is a version number.
The code walks depth first, in the order of a Go map, so `todo` is a set and any
order is possible. A copy is one step. `git worktree remove` succeeds. Symbolic
links, file modes and the rewriting of `go.mod` for copied replace targets are
left out, and so is impact scope, which plans closures as package scope does.

What testing needs (`Needed`, `Reads`) is defined without the walk: the least
set of packages that contains the target and is closed under the imports of any
package, this module's or not.

The instances of `MCWorkspace` have three packages of the module and one of
another. `EditPhases` says when the user may edit: the instances leave out the
moment between `git status` and the checkout, where `WorkspaceIsDisk` would fail.

### FileWalk: what is handed to the runner

One file, from the measurement of its package's tests to the end of its walk.
Where Engine takes a worker's visits as given, FileWalk computes them.

| Variable | Code |
|---|---|
| `file` | the syntax tree, its directives, and what the cover tool says of it (below) |
| `types`, `matched`, `estimate`, `replay` | givens: whether the package was loaded with types, the functions that `FuncPattern` matches, `tally` in place of `sink`, `fileJob.mutantID` |
| `scope`, `unmeasured`, `covers` | the scope that `planScope` settles on; the tests `buildImpact` has yet to run; `impactMap.lines` |
| `phase`, `err`, `canceled` | where planning and `mutateFile` are; what it returns; the run's context |
| `at`, `k` | the node of `ast.Inspect`, and the next of the mutations that operators offer for it |
| `dedup` | `idDeduper` |
| `handed`, `tally`, `suppressed` | the mutants given to `runner.run`, with their ids and tests; the estimate's count; the nodes whose suppression was reported |

`VisitFiltered`, `VisitSuppressed` and `VisitNode` are the ways through
`visitNode`; `NotOffered`, `SkipUnwanted`, `Count`, `HandOver` and `RunFails`
those through `visitMutations`; `MeasureTest`, `Measured` and `MeasureFails` are
`buildImpact` under `planScope`, which falls back to package scope whatever goes
wrong.

Abstractions. A file is its nodes in the order of `ast.Inspect`; `until` is the
last node of a subtree. `WellFormed` says what go/ast guarantees and the ids rely
on: subtrees nest, and of two nodes at one position one is below the other.
Files with `//line` comments, which move positions, are left out. An id is the
tuple that `mutantID` hashes. A directive is a line number. `block` and `by` are
the truth about a node: in which block of the coverage profile it counts, and
which tests execute it; `ran` is what each test's profile says. Engine models
what becomes of a mutant once it is handed over, so here that is one step, or
the failure that ends the walk.

What the walk ought to do is said without it: an offer is `Wanted` if neither it
nor anything above it is taken out, and its id (`StableId`) counts the earlier
nodes of the whole file that share its position, operator and index, visited or
not.

### Planner: before the first mutant, and the estimate

What `Run` and `Estimate` do before a mutant is tested, and all that `Estimate`
does after.

| Variable | Code |
|---|---|
| `req`, `failing` | `Options` and which of the two was called; the packages whose unmutated tests fail |
| `stage` | where `Run` or `Estimate` is: `resolve`, `load`, `types`, `closures`, `baseline`, `cache`, `plan`, `execute`, or `walk` and `time`, `returned` |
| `typed`, `closures` | what `loadTyped` and `loadClosures` resolved |
| `times`, `total`, `timeout` | the baseline's measurements, their sum, and the budget derived from it |
| `store` | the cache's writer: `none`, `open`, `closed` |
| `at`, `step`, `pre`, `memo` | the package being planned; the next of its precomputes; their results; `fingerprintMemo` |
| `fileAt` | where `planPackage`'s loop over the package's files is |
| `jobs` | `[]fileJob` |
| `walks`, `left`, `tally`, `preview` | an estimate's workers, what each has still to count, `estimateTally`, `EstimateResult.Packages` |

One action per stage and, within a package, one per precompute (`PlanScope`,
`PlanTCE`, `PlanFingerprint`), for each starts processes and asks for itself
whether the context is done. What the go command says (which packages
type-check, have a safe closure, can be measured) is a choice. `Execute` is
Engine, as one step. A run that fails while planning leaves the store open:
`StoreClosed` says that this is the only way, and the process ends then.

### GoProxy and CommandLine: the command

GoProxy is turango as a stand-in for `go`: the search in GOROOT, PATH and the
toolchain it was built with, `resolver.isSelf` through links, `execve` on Unix
and on Windows a child in a job that dies with turango. What is found may be a
second copy of turango, which starts over under the name `go`. CommandLine
extends it with `run`, `parseMutateFlags`, `mutateRun`, `estimateRun`,
`writeReport` and the gate.

`ParsedAsGiven` says that a command goes one of three ways. A mutation run or an
estimate has `-mutate`, nothing that turango refuses, and each flag's last value. A
`turango test` that is handed on has no `-mutate` and nothing that turango refuses
before `-args`; its other flags of turango's are handed on, as the code does it, for
`go` to refuse. And a usage error has a reason (`Refusable`). The repository's README
promises more, that everything without `-mutate=` is handed on: the code refuses a
misspelt flag before it knows (`HandedOn` fails, section 3).
`DiscoveryOrder` is the whole order: GOROOT, the entries of PATH one by one, the
toolchain turango was built with, passing over what cannot be executed and turango
itself. Where `os.Executable` fails (`world.known` is FALSE), turango takes nothing
for itself; the property then fixes the order alone.

| Variable | Code |
|---|---|
| `world`, `self`, `name` | the environment; which copy of turango runs, under which name |
| `place` | where the process is, from `start` over `scan`, `engine`, `report`, `gate` or `forward`, `execute`, `waiting` to `ended` |
| `chosen`, `job`, `child`, `code` | what `Resolve` found; the Windows job; the toolchain; the exit code |
| `command`, `pos`, `cfg`, `leftover`, `found` | the arguments, the place in them, `mutateConfig`, what the flags leave, whether `-mutate` was given |
| `outcome`, `printed`, `report` | what `mutate.Run` returned; whether the summary was printed; the report's file: as before, torn, or written |

An argument is a record: a flag of turango's with its value, one without, a
misspelt one, another flag, a package, or `-args`. What strconv, time and regexp
make of a value are constants. Scores are compared in hundredths.

### Operators and OperatorWalk: the mutations

Operators has the fourteen registered operators as functions of a tree and a
node. A tree is a heap of nodes with a kind, a token, and slots that hold nodes;
every operator edits one slot, so a mutation is the record of the slot, what it
held and what it gets. OperatorWalk is the walk: `Offer` asks the next operator
about the node in front, `Apply` and `Revert` edit the tree, `Descend` goes down in
the order of `ast.Inspect`. A mutant's run may abandon the walk after any Revert.

What a mutant is, the printed program, is the text of the tree without its empty
statements (`Text`), and what an expression means is its value (`Value`):
`MeansWhatItSays` compares the operators' descriptions with that. Type information is
a table of objects. Positions, comments and the base of a printed integer are left out.

A literal is a number of units, `file.one` of which make 1, with the kind that its text
reads as. A shifted float is what `constant.Value.String` prints (`Rendered`): six
digits (`SixDigits`), or all of them where six would show no point for a number that is
no integer, as for 123579.456; and an integer below a million reads as an integer
afterwards, one above it (1.5015e+06) as a float. Which way a tie falls, such as
1.006005, depends on where its float64 lies, which `file.up` says. `Rendered` agrees
with `%.6g` and `%g` on some thousands of numbers that were tried. So a float does not
move by a thousandth in general: `Moves` says that it moves, as it is printed, by a
thousandth give or take a hundredth of that, and never not at all, which is what the
comment on `numberFloatShift` hopes for.

The swaps of constants are in the model, but nothing is claimed of them but that they
are other programs: the operators see types and not scopes, and a mutant that does not
compile (a blank or shadowed name, a case twice, a local without use) counts as not
viable and is in no score.

`DistinctPrograms` says that no two mutants are the same program. Three kinds of pairs
are (`Twins`): a body is emptied, and its only statement removed; either of two
statements is removed that read the same, with nothing else between them; and an
operand of `&&` or `||` is replaced by `true` or `false`, and it is its opposite and
flipped, or the negation of it and stripped. A run tests such a program twice and
counts it twice.

What loops over a node's slots, statements or candidates is `Each`: a sequence of
what becomes of each index of a set, in their order.

A file is given as the parser and the type checker leave it. `OperatorsAssumption`:
every slot of a node holds a node of the same tree. `FilesAreTrees`: each node has one
place in it, and `pos` and `end`, the places in the order of `ast.Inspect` of a node and
of the last one below it, number a preorder walk. `FilesAreTyped`: the operands of `!`,
`&&` and `||` are truths, those of `<` are in an order, and `envs` are values that the
names, calls and arithmetic of the file may have, which agree with that; the model knows
them no further. Two limits come with it: what is ordered is an integer (so no NaN, for
which the swap of `<` and `>=` is no negation) and a float literal is a whole number of
thousandths of units, small enough for ten powers of ten to round. `PartsAssumption` is Go's grammar: the body of an if is a block, its else a
block or an if. `NamesAssumption`: a constant is used by its name. It has limits too:
`true` and `false` are not redeclared as constants, and a package has one blank constant
at most. A group with two offers the same mutant twice, and neither compiles.

## 3. The runs

| Run | Instance | Shows |
|---|---|---|
| `engine` | 3 jobs, 2 workers, 7 visits of every kind | all safety properties of a run, with cancellation, failures and write errors at any point; `Run` returns; Engine implements MutationRun |
| `engine_replay` | 2 jobs, replay of one cached mutant | exactly it is run, without reading the cache, and written again |
| `cache` | 2 mutants, 2 versions, 2 configurations, 3 runs, 2 user changes | all cache properties, loads that fail included, all switches off |
| `workspace` | 4 packages, 64 import graphs, none or one of eight obstacles, 1 edit | all workspace properties |
| `workspace_testdata` | the tests read `testdata/` | **violated**: `WorkspaceComplete` |
| `file_walk` | one file of 9 nodes, 15 variants of its directives and its tests, 2 tests | all properties of a walk |
| `file_walk_uncounted` | its last declaration is an initialiser | **violated**: `NothingMissed` |
| `go_test` | seven behaviours, both signals, lines of one and two units and one beyond the limit | verdicts are earned; no event is lost; `goTest` returns |
| `planner` | 7 requests over 2 modules, a package outside any and one with tests alone; 3 sets of failing packages | the jobs planned, the fingerprints, scopes and trees they get, the timeout, the preview; the call returns |
| `planner_baseline` | one package of two is selected | **violated**: `JudgedByPassingTests` |
| `command_line` | 18 commands, 9 machines, 19 outcomes of a run | arguments, exit codes, the report, the discovery of the toolchain |
| `operators` | 5 files, typed and untyped, all operators or some | the tree is restored; mutants are different programs that mean what they should |

A violated run checks a sentence of the repository's own comments against what
the code does; the findings in `PROJECT.json` quote both.

**Bounds.** Engine needs more jobs than workers (so that a job waits for a
token), a worker with several visits of different kinds in one file (so that one
may disturb the next) and two entries with the same sort key; three jobs on two
workers with at most three visits each have all of that. Nothing in Engine grows
without end, so there are no other bounds. VerdictCache bounds the number of
runs (`MaxRuns = 3`: one to write, one to be interrupted, one to read) and of
user changes (`MaxEdits = 2`: an edit and its undoing, or an edit and a
deletion). A wrong hit, a lost record or a fused line needs no more than these:
with a switch set, TLC finds the failure within two or three. GoTest is one test
run and needs no bound; its lines are shorter than, as long as and longer than the
limit, and a piece is any part of one. Workspace bounds the user's edits (`MaxEdits = 1`: one makes a
working tree dirty, and a commit makes it clean again). Its graphs give the
walk chains, diamonds, a package that is reached through a test alone and one
that is reached twice, each with at most one obstacle, for any obstacle ends the
walk; the proof covers all graphs and all combinations. FileWalk needs a chain
of operators on one position (three expressions deep, one of them another
operator), directives that lead, trail, do both or lie inside, two functions to
filter, and a line that no, one or two tests execute: its one file has them, and
the proofs cover all files.

Planner needs two packages in one module (so that a fingerprint is remembered),
one in another module between or after them, one outside any module, one whose
files are all tests, a file that cgo rewrites, and an operator named twice; its
requests have these, and its theorems cover all others. `BaselineRuns` is the
code's 3; `MinBaselineTimeout` and the durations only have to lie on both sides of
the floor. CommandLine's commands have each kind of argument in each place that
matters, each flag that a setter can refuse, repeated flags and conflicts; its
machines have links to turango first, last and alone, two copies of it, files that
cannot be executed, a PATH whose second and third entries would do, and no toolchain. Operators' files contain every kind of node
some operator looks at, nested in each other where two operators meet
(`!` in a condition in an else-if, a negated operand that may be removed), and the
values at which they differ: 0 and 1 for integers; floats that are 0.0, that print in
full (1000.0), that round (1234.567), that tie (1.005), that need an exponent
(1500000.0), and whose six digits would read as an integer (123456.0 and 999001.0);
constants just inside and outside the range of an 8-bit type. VerdictCache's three runs
are enough for a failed load: one is killed within a write, the second cannot load and
appends, the third loads.

**Fairness.** Engine: weak fairness on every worker's own progress, on both
consumers and on `Run`'s goroutine, which is what Go's scheduler and completed
channel operations give. That a test run ends is part of a worker's progress; it
is justified by `goTest`'s deadline, and GoTest's `Returned` shows it from
fairness on the clock, the reader of the pipe, the watcher and `goTest` alone. No
fairness is assumed for failures, signals, or the progress of the go command or
the mutant. Planner: weak fairness on progress, for every subprocess it starts
ends or is killed with the context; none on cancellation. CommandLine: the process
runs and the go command it hands over to ends; `Ends` speaks of machines with one
copy of turango, for two hand an invocation back and forth. The properties of the
cache, of workspaces, of the file walk and of operators are safety properties and
assume none.

**Deadlock** is checked in the runs of Engine, VerdictCache, Workspace, FileWalk
and GoTest, where a step that changes nothing stands for the proper end of a
behaviour (`Terminated`, `OutOfRuns`, `goTest` returned) and for nothing else. A
planned, commanded or walked behaviour simply ends, so that deadlock is not checked
there; that it ends in its last state is `Returned` and `Ends`.

**Disagreements without a run of their own.** Each is one switch, or one property,
away from a passing run:

* Layouts `RoundTrip` of MCWorkspace: another module's package imports one of this
  module; the closure walk stops at the other module and misses it
  (`WorkspaceComplete` fails).
* `CtrlCIsNoVerdict` of GoTest: after Ctrl+C in a terminal a mutant that passes its
  tests may count as killed, against the comment on `timedOut` in runner.go.
* `CacheInside = TRUE` in VerdictCache: a cache directory inside the module is part of
  its own fingerprint, and nothing is ever found again (`NeverRerun` fails).
* `EditPhases` of MCWorkspace with the moment between `git status` and the checkout:
  an edit that falls there is not tested (`WorkspaceIsDisk` fails).
* `SiblingEdits = TRUE` in VerdictCache: an edited replace target is tested with and
  not fingerprinted (`HitIsTruth` fails).
* `GarbageLast` of VerdictCache, the words of the comment on cache.go:357: `openCache`
  opens the store to append whether or not `loadCacheIndex` failed (engine.go:398-404), so
  that a run which could not read the file, or not truncate its torn line, writes complete
  records behind it. The comment on engine.go:382 says that caching is then disabled. No
  verdict is wrong for it (`HitIsTruth`); what was tested may be tested again.
* `HandedOn` of CommandLine: `turango test -mutatefoo` exits 2, where the README and the
  comment on main.go:13 have everything without `-mutate=` handed to `go` unchanged.
* `BrokenIsNotViable` of GoTest: a mutant that does not compile counts as killed
  under the full scope with toolchains that have no build-fail event.

Three more were met while reading and are modelled as the code has them:
`buildGroups` (constswap.go) puts a single constant in a group with the file's other
single constants only; `_ = x` is removable, and a mutant without its only use does
not compile; in a mutation run whatever stands after `-args` is dropped
(main.go:380), where the comment above it says that it passes through.

## 4. What is proved

Eight modules prove theorems for every value of the constants, from the named
assumption of the module they are about and nothing else unless the statement says
so. TLC evaluates the assumptions on each instance.

| Module | About | For every |
|---|---|---|
| `EngineProofs` | Engine, MutationRun | number of jobs, limit, plan, and choice of masked, uncovered, equivalent and cached mutations, with a positive limit and no visit twice in the walks |
| `WorkspaceProofs` | Workspace | set of packages and of layouts; no package is of two modules |
| `FileWalkProofs` | FileWalk | set of well-formed files |
| `PlannerProofs` | Planner | set of packages, files, operators and requests; no package is requested twice, none lists a file twice |
| `GoTestProofs` | GoTest | length of lines, if every line but the tests' own output fits the limit |
| `VerdictCacheProofs` | VerdictCache | number of mutants, configurations, trees, runs and changes |
| `CommandLineProofs` | CommandLine, GoProxy | command line, machine and outcome of a run |
| `OperatorProofs` | Operators, OperatorWalk | set of parsed files, constants of the package, and choice of operators |

| Theorem | Property | Argument |
|---|---|---|
| `TypeCorrect` | Engine's `TypeOK` | with `WorkersInv`: `sem` is the number of workers between spawn and end. Types alone are not inductive, for `sem - 1` must not go below 0 and `sem + 1` not above the limit. Cardinalities of sets that gain or lose one worker are lemmas over `FiniteSetTheorems`. |
| `Bounded` | `AtMostParallel` | `sem` is that cardinality, and `TypeOK` bounds it. |
| `VerdictsAreOwn` | `OneMutationAtATime` | `TreeInv`: between visits the tree holds no mutation, inside a visit exactly its own, and the printed source, and whatever was handed to store or collector, likewise. The property says nothing of the tree and so is not inductive. |
| `NoPanic` | `NoSendAfterClose` | `ShutdownInv`: a job not yet spawned is queued, a worker past `group.Wait` has ended, and each phase of `main` fixes the state of both channels. |
| `StopsPromptly` | `PromptStop` | `LateInv`: after cancellation `late` plus the workers inside a visit are at most the tokens taken when it came; a worker that gives its entry cannot enter another visit. Before it, `late` is 0. |
| `EachOnce`, `NothingLost` | `ReportedOnce`, `CompleteUnlessError` | `ReportInv`: what is reported is, at every moment, exactly the owed part of what the walks have left behind, and each worker's phase says what its visit can still become. A visit in front of its worker lies in nobody's past (`ItemAhead`), so no entry comes twice; a walk that ended without an error lies in the past as a whole. |
| `WorkIsKept` | `CachedBeforeReturn` | `KeptInv`: an executed entry is in the file or in the consumer's hand before it is sent to the collector, and the store is closed with empty hands before the collector is. |
| `ReportIsInOrder` | `ReportOrder` | `OrderInv`: the entries of one walk arrive in its order, whatever comes between them. `Before` (the sort key, then the arrival) is a strict order of all entries (`BeforeOrders`), so the place of an entry in its section, which counts those before it, rises along it (`PlaceRises`) and each place is taken (`PlacesTaken`). |
| `Implements` | `Run!Safe`, MutationRun without its fairness | Init maps to Init; a send to the collector is an arrival, the closing of the sink the return, and every other step a stutter. `OutcomeInv`: the outcome that a worker holds is one its visit can have. With `TypeOK`, `WorkersInv`, `ShutdownInv` and `ReportInv`. |
| `TestedInFull` | `WorkspaceComplete` | `WalkInv`: what the walk has seen and has yet to visit contains the target and is closed under the imports of what it has seen. When nothing is left to visit, the seen packages of the module and all other packages are closed together, so they contain the least closed set (`WalkIsComplete`). `ClosureOK` carries that to the copies. |
| `KeyedByWorkspace` | `KeyIsWorkspace` | with `KeyInv`: the fingerprinted files are those of the strategy that the closure, now fixed, will choose; each of the three copies has exactly these of the module. |
| `NoWorktreeLeft` | `WorktreeRemoved` | `WorktreeInv`: a worktree is registered only while its mutant is tested. In any layout. |
| `BuiltOfWhatIsThere` | `WorkspaceIsDisk`, an action property | `CleanInv`: what git found clean is clean until it is checked out; the two copies read the disk. Assumes `NoEditWhileChecked`. |
| `TheWalkIsExact` | `WalkIsExact` | `Inv`: what is handed over, counted and reported is, at every point, the part of `Wanted` and of `ToReport` that lies behind the walk, for a node is visited if and only if nothing at or above it is left out (`NothingPassed`, `SkipInv`, `RankedStep`). |
| `IdsAreStable` | `StableIds` | `SeenIsSightings`: nodes in one position are nested, so all of a visited node's earlier namesakes are above it and were visited as well; `idDeduper` has counted each of them once. |
| `IdsAreUnique` | `UniqueIds` | `StableIdsDiffer`: of two offers with one key, the later has strictly more sightings. |
| `ImpactMissesNothing` | `NothingMissed` | `CoverInv`: a walk that uses the map starts after every test has been merged into it. |
| `FingerprintsAreRight` | `FingerprintRight` | `PreInv`: `memo` maps a module to that module's fingerprint, and `pre` holds, step by step, what was computed for the package at hand. `JobsInv` carries it to the jobs: those of one package agree, for they were made from one `pre`. |
| `DemotionsAreLocal` | `DemotionLocal` | the same; `pre` is reset between packages. |
| `TypedOperatorsSeeTypes` | `TypedSeesItsTree`, a part of `JobsAreRight` | `JobsInv`: `typed` does not change once there are jobs. |
| `BaselineIsGreen` | `MeasuredTestsPass`, a part of `BaselineSound` | `BaselineInv`: a measurement is there only if no selected package fails. |
| `FilesAreWalkedOnce`, `JobsAreAllRight` | `EachFileOnce`, `JobsAreRight` | `FilesInv`: the jobs are the mutable files of the places that plan has passed (`at`, `fileAt`), each once, and packages in the order of the request. Together with `TypedOperatorsSeeTypes`. |
| `BudgetsAreSound` | `BaselineSound` | `TimesInv`: no measurement exceeds their total, and a derived budget is the larger of the floor and the scaled mean. With `BaselineIsGreen`. |
| `EstimatesAreExact` | `EstimateExact` | `TallyInv`: what is counted for a package is the number of matches that the walks of its jobs have reported, and `order` has a package from its first one on; `WalkInv`: a walk that is done has reported them all; `PreviewInv` carries both to the result. |
| `StoreIsClosed` | `StoreClosed` | `StoreInv`: a run that returns with an open store was planning a package. |
| GoTest's `TypeCorrect`, `EveryEventIsHeard` | `TypeOK`, `NothingUnheard` | `StreamInv`: a printed line within the limit has been heard or waits in the pipe, and of the line being read `partial` holds all that was taken. `FlowInv`: the command is waited for only when the pipe is empty. |
| `VerdictsAreEarned` | `VerdictEarned` | `MeaningInv`: what the printed events say of the mutant, and which events must be there once its binary is gone. For its part `NoVerdictFromCutStream`, `FlowInv`: only a context that is done makes the watcher kill, and goTest looks at it last. |
| `HitsAreTrue` | `HitIsTruth` | `KeysInv`: every record in the file, in flight or in the index holds the truth for the sources and configuration its key names. Assumes `Still`: no edit during a run, none of a replace target. |
| `GarbageIsLast` | `GarbageOnlyAtEnd` | `CleanInv`: a line that parses has its newline, always; garbage is in the last line alone unless the last load failed; and a run that had loaded and wrote without an error has left none. A load that works establishes the second part whatever it finds, for what it keeps are the lines before the first that does not parse. Assumes `NoNewlineTear`. |
| `RecordsSurvive` | `WrittenSurvives` | `WrittenInv`: what a run wrote in full that had loaded is among the lines before the first that does not parse (`Found`), where it stays whatever is appended, and a loaded index has it; by `KeysInv` its verdict is the same. Assumes both. |
| `EndedRunsAreCached` | `EndedRunIsCached` | `EndedInv`, with `WrittenInv`. Assumes `NoNewlineTear`. |
| `ResumedRunsSkip` | `NeverRerun` | `ResumeInv`: the index of a run that loaded has every key written before it by such a run. Assumes `NoNewlineTear` and that the cache lies outside the module. |
| CommandLine's `TypeCorrect` | `TypeOK` | `Types`. |
| `CommandsAreUnderstood` | `ParsedAsGiven` | `ScanInv`: `cfg` is what the arguments before `pos` give, none of which was refused; `LineInv`: it stays until the process ends. |
| `ExitCodesTell` | `ExitTells` | `RunInv`: a code of 0 before the gate means that neither the run nor the report failed; `PartialReported` is a conjunct of it. |
| `DiscoveryIsInOrder` | `DiscoveryOrder` | `OrderInv`: `chosen` is the first usable candidate. |
| `TreesAreRestored` | `TreeRestored` | `PendingInv`: every mutation that is pending fits the file as it was parsed, that is, it says of its slot what is in it; one lemma for each operator (`MutateOffers`). `TreeInv`: the tree is the file's but for the one mutation applied. `WriteBack`: what is written into a slot and replaced by what it held is gone. `StackInv`: only nodes of the file are visited. |
| `MutantsMeanWhatTheySay` | `MeansWhatItSays` | `TreeInv` and `PendingInv` give the tree with the one mutation applied; a value depends only on what is below, which the mutation leaves as it was but for its slot, so one unfolding at the slot and one at the operand decide each operator. For numbers: the last of six digits is at most a hundred-thousandth of the number (`DigitIs`), so that what is printed is off by a two-hundred-thousandth at most (`RenderedIsNear`), which is less than a hundredth of the thousandth that it moved (`ShiftedFloat`). |
| `SlotsAreMutatedOnce` | `SlotsOnce` | `WalkInv`. `PlaceInv`: what is on the stack covers, in order and without a gap, the places of the file from the one being visited to the last. `OfferedInv`: what is offered or was offered comes from a node that was visited. `CountInv`: of every mutation that one operator alone offers for one node, as many are recorded as the operators that have passed the node; at the end of the walk these are all. Each slot then has one such node (`OnePlace`). |
| `MutantsAreDifferentPrograms` | `DistinctPrograms` | `RecordInv`: what is recorded of a mutation is the text of the file's tree with that edit alone. `FewInv`: no mutation is recorded more often than its operator is bound, which follows from `CountInv` as no mutation is offered at two nodes (`AllAlone`), and holds on where a walk is given up. The rest is about two edits of one tree (`MutantsDiffer`). |
| `TypeCorrect` of VerdictCache, Workspace, FileWalk | `TypeOK` | `TypeInv` and `InvTypes`: besides the types, what each phase fixes of the state. |

The `TypeOK` of these three, of GoTest and of CommandLine, and `AtMostParallel`,
`StoreClosed` are proved and no run lists them. The inductive invariants of Planner
and OperatorWalk contain the types that they need, part by part.

`ImpactMissesNothing` assumes `EveryOfferCounted`: each execution of a node with
offers counts in a block that contains its line. The run `file_walk_uncounted`
shows what happens without it.

`TestedInFull` and `KeyedByWorkspace` assume a `Benign` layout: the other modules'
packages import none of this module, no test reads below its directory, git
ignores no file, no replace leaves the repository. Each of the first three is
necessary: the run `workspace_testdata` shows what happens without the second, and
`WorkspaceComplete` fails as well over the layouts `RoundTrip`, without the first,
and `WithGenerated`, where git ignores a file that the build needs.

`BuiltOfWhatIsThere` assumes `NoEditWhileChecked`: between `git status` and the
checkout nobody edits, which is how `MCWorkspace` sets `EditPhases`, and which the
code has no means to see to (section 2, Workspace).

Three proofs of OperatorProofs are about trees of any shape. What an expression means
(`Value`) is a recursive function over the tree, and what is to be proved of it holds
for a node if it holds below. As the induction theorems of the library cannot be used,
the argument is by a least counterexample (`Least`: a nonempty set of naturals has a
least element), over the number of places that come after a node, for every part of a
node comes after it. `ValuesUnfold` shows in this way that the recursion has a solution.
`SlotsAreMutatedOnce` needs no recursion, but that the walk visits every node once:
`pos` and `end` say where a subtree lies, and `PlaceInv` that the subtrees of the stack
follow each other without a gap to the end of the file.

`MutantsAreDifferentPrograms` compares the texts of any two edits without going through
the pairs of operators. Each mutation is one of five forms (`Edits`): a token swapped, an
operand decided, an operand stripped, a statement dropped, a body emptied (`MutateFine`,
one lemma for each operator). Two trees with one edit each print the same if and only if
they do at the edited nodes: if one is above the other (`MutantAbove`) its slot must read
as what the other edit left below it; if neither is (`MutantsApart`) each edit must read
as nothing; and two edits of one node (`MutantsHere`) are compared slot by slot, where
a list without one or the other of two statements reads the same only if the two and all
between them do (`Deleted`). That what is stripped never reads as the whole is another
least counterexample (`StripShort`).

Only model-checked:

* liveness (the fairness of MutationRun in `ImplementsRun`, `Returned` of GoTest and
  of Planner, `Ends`), which the prover does not do; the safety part of the
  refinement is `Implements`;
* `WorkspaceComplete` where layouts are not benign, `NothingMissed` where an offer is
  not counted, and `JudgedByPassingTests`, which are violated; `GarbageLast` and
  `HandedOn` fail as well (section 3).

What `LoadIndex` computes is proved only as far as one line at a time goes.

## 5. Not modelled

* *Corpus runner*: reads test cases from disk in one pass, keeps no state.
* *A second process on one cache file*: nothing in the code locks the file or
  expects another writer; the hazard is listed without a property.
* *Ids across modules*: ids hash a path relative to the module root, so two modules
  of one run may share one. FileWalk is one file, and Planner has no ids.
* *Workspaces*: symbolic links, file modes, the rewriting of `go.mod`, and targets
  outside the repository together with worktrees.
* *Layout*: the text of summaries, the JSON of the report, `Relativize`, the
  spelling of directives and profiles, and how operators place comments.
* *The projection of an estimate* from its samples to a total: arithmetic on which
  nothing depends.
