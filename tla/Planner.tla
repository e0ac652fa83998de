------------------------------ MODULE Planner ------------------------------
(***************************************************************************)
(* What Run and Estimate do before a mutant is tested: resolve the go      *)
(* command, the operators and the packages, time the unmutated suite, open *)
(* the verdict cache, and plan one job per file with what its package      *)
(* needs; and what Estimate does after: count what the file workers find   *)
(* and time the packages they found it in.                                 *)
(*                                                                         *)
(* A run is one pass through the stages below; the context may be canceled *)
(* between any two.  The packages, their modules and their files are       *)
(* constants; what the go command says of them is a choice, made when it   *)
(* is asked.  The mutants of a real run are tested in module Engine: here  *)
(* that is the single step Execute.                                        *)
(***************************************************************************)
EXTENDS Naturals, Sequences, FiniteSets

CONSTANTS
    Package,       \* the packages of the user's modules
    ModuleOf,      \* the module a package is in, or NoModule
    NoModule,
    FilesOf,       \* a package's files, as a sequence
    TestFile,      \* the files named _test.go
    CgoFile,       \* the files that the go command hands to cgo
    Operator,      \* the registered operators
    TypedOperator, \* those that need type information
    Finds,         \* how many mutations an operator matches in a file
    Request,       \* what Run and Estimate may be asked
    Broken,        \* sets of packages whose tests may fail as they stand
    Duration,      \* what timing a suite may give
    BaselineRuns, MinBaselineTimeout, Cpus

File == UNION {{FilesOf[p][i] : i \in DOMAIN FilesOf[p]} : p \in Package}
Scope == {"full", "package", "impact"}

\* A request names its packages and operators in order; Timeout 0 is none.
RequestType ==
    [mode : {"run", "estimate"}, packages : Seq(Package),
     operators : Seq(Operator \cup {"unknown"}), scope : Scope, timeout : Nat,
     tce : BOOLEAN, cache : BOOLEAN, parallel : Nat]

ASSUME PlannerAssumption ==
    /\ Package # {}
    /\ NoModule \notin Package
    /\ FilesOf \in [Package -> Seq(STRING)]
    /\ \A p \in Package : \A i, k \in DOMAIN FilesOf[p] :
            FilesOf[p][i] = FilesOf[p][k] => i = k
    /\ TestFile \subseteq File /\ CgoFile \subseteq File
    /\ IsFiniteSet(Operator) /\ TypedOperator \subseteq Operator
    /\ "unknown" \notin Operator
    /\ Finds \in [Operator -> [File -> Nat]]
    /\ Request \subseteq RequestType
    /\ \A r \in Request : \A i, k \in DOMAIN r.packages :
            r.packages[i] = r.packages[k] => i = k
    /\ Broken \subseteq SUBSET Package
    /\ Duration \subseteq Nat
    /\ BaselineRuns \in Nat \ {0}
    /\ MinBaselineTimeout \in Nat
    /\ Cpus \in Nat \ {0}

VARIABLES
    req,       \* Options, and which of Run and Estimate was called
    failing,   \* the packages whose unmutated tests fail
    canceled,  \* ctx is done
    stage,     \* where Run or Estimate is
    err,       \* the error it returns
    typed,     \* what loadTyped resolved: the packages that type-check
    closures,  \* what loadClosures resolved: the packages with a safe closure
    times,     \* how long the unmutated suite took, run by run
    total,     \* the sum of it
    timeout,   \* the budget of a mutant's test run
    store,     \* the cache's writer: none, open, closed
    at,        \* plan's place in the packages
    fileAt,    \* planPackage's place in the files of the package there
    step,      \* the precompute that comes next for the package there
    pre,       \* planPrecompute's results for that package
    memo,      \* fingerprintMemo
    jobs,      \* the file jobs
    walks,     \* estimate: each job's place: waiting, walking, done, failed
    left,      \* estimate: the matches a job has still to report
    tally,     \* estimateTally: packages in order of arrival, and their counts
    preview    \* EstimateResult.Packages

vars == <<req, failing, canceled, stage, err, typed, closures, times, total, timeout,
          store, at, fileAt, step, pre, memo, jobs, walks, left, tally, preview>>
given == <<req, failing>>
loads == <<typed, closures>>
clock == <<times, total, timeout>>
plans == <<at, fileAt, step, pre, memo, jobs>>
counts == <<walks, left, tally, preview>>

Nothing == "nothing"

\* cacheFingerprint: what was hashed, a module, a closure, or nothing.
NoFingerprint == [of |-> Nothing, at |-> Nothing]
OfModule(m) == [of |-> "module", at |-> m]
OfClosure(c) == [of |-> "closure", at |-> c]

Unplanned == [scope |-> "full", cover |-> Nothing, tce |-> Nothing,
              closure |-> Nothing, fingerprint |-> NoFingerprint]
NoTally == [order |-> <<>>, hits |-> [p \in Package |-> 0]]

Init ==
    /\ req \in Request
    /\ failing \in Broken
    /\ canceled = FALSE
    /\ stage = "resolve"
    /\ err = "none"
    /\ typed = {} /\ closures = {}
    /\ times = <<>> /\ total = 0 /\ timeout = 0
    /\ store = "none"
    /\ at = 1 /\ fileAt = 1 /\ step = "scope" /\ pre = Unplanned
    /\ memo = [m \in {} |-> m] /\ jobs = <<>>
    /\ walks = <<>> /\ left = <<>> /\ tally = NoTally /\ preview = <<>>

Estimating == req.mode = "estimate"
Selected == {req.packages[i] : i \in DOMAIN req.packages}
Planned == stage \in {"execute", "walk", "time"}

\* Options.mutators: the named operators, or every one of them.
Mutators == IF req.operators = <<>> THEN Operator
            ELSE {req.operators[i] : i \in DOMAIN req.operators}

NeedsTypes == Mutators \cap TypedOperator # {}

-----------------------------------------------------------------------------
(* The prologue that Run and walkForEstimate share.                        *)

Cancel ==
    /\ stage # "returned"
    /\ ~canceled
    /\ canceled' = TRUE
    /\ UNCHANGED <<given, stage, err, loads, clock, store, plans, counts>>

Fail(e) ==
    /\ stage' = "returned"
    /\ err' = e

\* The command's own failure, or what a canceled context makes of it.
FailsWith(e) == Fail(e) \/ (canceled /\ Fail("canceled"))

\* goproxy.Resolve, mutators and the pattern: an operator nobody registered
\* fails the run.
Resolve ==
    /\ stage = "resolve"
    /\ \/ Fail("no go command")
       \/ Mutators \subseteq Operator /\ stage' = "load" /\ UNCHANGED err
       \/ ~ Mutators \subseteq Operator /\ Fail("no such operator")
    /\ UNCHANGED <<given, canceled, loads, clock, store, plans, counts>>

\* Any error of any package, those it imports included, fails the run.
Load ==
    /\ stage = "load"
    /\ \/ FailsWith("load")
       \/ req.packages = <<>> /\ Fail("no packages matched")
       \/ /\ ~canceled /\ req.packages # <<>>
          /\ stage' = "types"
          /\ UNCHANGED err
    /\ UNCHANGED <<given, canceled, loads, clock, store, plans, counts>>

\* Estimate goes from here to its plan.
AfterTypes == IF Estimating THEN "plan" ELSE "closures"

SkipTypes ==
    /\ stage = "types"
    /\ ~NeedsTypes
    /\ stage' = AfterTypes
    /\ UNCHANGED <<given, canceled, err, loads, clock, store, plans, counts>>

\* A package with type errors is left out, and fails nothing.
LoadTyped ==
    /\ stage = "types"
    /\ NeedsTypes
    /\ \/ FailsWith("typed load") /\ UNCHANGED typed
       \/ /\ ~canceled
          /\ typed' \in SUBSET Selected
          /\ stage' = AfterTypes
          /\ UNCHANGED err
    /\ UNCHANGED <<given, canceled, closures, clock, store, plans, counts>>

\* An error here only leaves every package without a closure.
LoadClosures ==
    /\ stage = "closures"
    /\ stage' = "baseline"
    /\ IF req.scope = "full" \/ canceled
         THEN closures' = {}
         ELSE closures' \in SUBSET Selected
    /\ UNCHANGED <<given, canceled, err, typed, clock, store, plans, counts>>

-----------------------------------------------------------------------------
(* resolveTimeout: the baseline.                                           *)

\* Mutant of Mean: each measurement replaces the one before.
MeanOfLast == times[BaselineRuns] \div BaselineRuns

Mean == total \div BaselineRuns

Larger(a, b) == IF a < b THEN b ELSE a

ExplicitTimeout ==
    /\ stage = "baseline"
    /\ req.timeout > 0
    /\ timeout' = req.timeout
    /\ stage' = "cache"
    /\ UNCHANGED <<given, canceled, err, loads, times, total, store, plans, counts>>

\* The suite of the packages the request selects; a failure of any of them is
\* a hard error.
TimeSuite ==
    /\ stage = "baseline"
    /\ req.timeout = 0
    /\ Len(times) < BaselineRuns
    /\ \/ FailsWith("baseline") /\ UNCHANGED <<times, total>>
       \/ /\ ~canceled
          /\ Selected \cap failing = {}
          /\ \E d \in Duration : times' = Append(times, d) /\ total' = total + d
          /\ UNCHANGED <<stage, err>>
    /\ UNCHANGED <<given, canceled, loads, timeout, store, plans, counts>>

DeriveTimeout ==
    /\ stage = "baseline"
    /\ req.timeout = 0
    /\ Len(times) = BaselineRuns
    /\ timeout' = Larger(MinBaselineTimeout, Mean * Cpus)
    /\ stage' = "cache"
    /\ UNCHANGED <<given, canceled, err, loads, times, total, store, plans, counts>>

\* openCache: what cannot be opened disables the cache and nothing more.
OpenCache ==
    /\ stage = "cache"
    /\ stage' = "plan"
    /\ store' \in IF req.cache THEN {"none", "open"} ELSE {"none"}
    /\ UNCHANGED <<given, canceled, err, loads, clock, plans, counts>>

-----------------------------------------------------------------------------
(* plan: package after package.  A precompute is a step, as each of them     *)
(* starts processes and asks for itself whether the context is done.         *)

Here == req.packages[at]
Planning == stage = "plan" /\ at \in DOMAIN req.packages

IsMutable(f) == f \notin TestFile
Skipped == \/ ModuleOf[Here] = NoModule
           \/ \A i \in DOMAIN FilesOf[Here] : ~IsMutable(FilesOf[Here][i])

\* Run answers with an empty result, Estimate with none.
PlanFails(e) ==
    /\ Fail(e)
    /\ UNCHANGED plans

SkipPackage ==
    /\ Planning
    /\ step = "scope"
    /\ Skipped
    /\ at' = at + 1
    /\ UNCHANGED <<given, canceled, stage, err, loads, clock, store, fileAt,
                   step, pre, memo, jobs, counts>>

Computing(s) == Planning /\ ~Skipped /\ ~Estimating /\ step = s

\* Mutant of PlanScope: a demoted package keeps a half-built map.
PlanScopeKeeps ==
    /\ Computing("scope")
    /\ \E s \in {req.scope} \cup (IF req.scope = "impact" THEN {"package"} ELSE {}) :
          pre' = [Unplanned EXCEPT !.scope = s,
                                   !.cover = IF req.scope = "impact" THEN Here ELSE Nothing]
    /\ step' = "tce"
    /\ UNCHANGED <<given, canceled, stage, err, loads, clock, store, at,
                   fileAt, memo, jobs, counts>>

\* planScope: a coverage map that cannot be built demotes this package, unless
\* it is the cancellation that kept it from being built.
PlanScope ==
    /\ Computing("scope")
    /\ \/ /\ req.scope # "impact"
          /\ pre' = [Unplanned EXCEPT !.scope = req.scope]
          /\ step' = "tce"
          /\ UNCHANGED <<stage, err, at, fileAt, memo, jobs>>
       \/ /\ req.scope = "impact" /\ ~canceled
          /\ \/ pre' = [Unplanned EXCEPT !.scope = "impact", !.cover = Here]
             \/ pre' = [Unplanned EXCEPT !.scope = "package"]
          /\ step' = "tce"
          /\ UNCHANGED <<stage, err, at, fileAt, memo, jobs>>
       \/ /\ req.scope = "impact" /\ canceled
          /\ PlanFails("canceled")
    /\ UNCHANGED <<given, canceled, loads, clock, store, counts>>

\* planTCEBaseline, which a package that does not compile goes without, and
\* planClosure, which asks for the scope the package was left with.
PlanTCE ==
    /\ Computing("tce")
    /\ \/ /\ req.tce => ~canceled
          /\ \E t \in IF req.tce THEN {Here, Nothing} ELSE {Nothing} :
                pre' = [pre EXCEPT
                    !.tce = t,
                    !.closure = IF pre.scope # "full" /\ Here \in closures
                                  THEN Here ELSE Nothing]
          /\ step' = "fingerprint"
          /\ UNCHANGED <<stage, err, at, fileAt, memo, jobs>>
       \/ /\ req.tce /\ canceled
          /\ PlanFails("canceled")
    /\ UNCHANGED <<given, canceled, loads, clock, store, counts>>

\* Mutant of Remembered: what is remembered serves closures too.
RememberedForAll == ModuleOf[Here] \in DOMAIN memo

\* Only the whole module's is remembered.
Remembered == pre.closure = Nothing /\ ModuleOf[Here] \in DOMAIN memo

Fresh == IF pre.closure = Nothing THEN OfModule(ModuleOf[Here]) ELSE OfClosure(pre.closure)

PlanFingerprint ==
    /\ Computing("fingerprint")
    /\ LET Keep(fp) == /\ pre' = [pre EXCEPT !.fingerprint = fp]
                       /\ step' = "jobs"
                       /\ UNCHANGED <<stage, err, at, fileAt, jobs>>
       IN \/ ~req.cache /\ Keep(NoFingerprint) /\ UNCHANGED memo
          \/ req.cache /\ canceled /\ PlanFails("canceled")
          \/ /\ req.cache /\ ~canceled /\ Remembered
             /\ Keep(memo[ModuleOf[Here]])
             /\ UNCHANGED memo
          \/ /\ req.cache /\ ~canceled /\ ~Remembered
             /\ PlanFails("fingerprint")
          \/ /\ req.cache /\ ~canceled /\ ~Remembered
             /\ Keep(Fresh)
             /\ memo' = IF pre.closure # Nothing THEN memo
                        ELSE [m \in DOMAIN memo \cup {ModuleOf[Here]} |->
                                IF m = ModuleOf[Here] THEN Fresh ELSE memo[m]]
    /\ UNCHANGED <<given, canceled, loads, clock, store, counts>>

\* bindMutators: typed operators need a package that type-checks.
BoundMutators(p) ==
    IF ~NeedsTypes \/ p \in typed THEN Mutators ELSE Mutators \ TypedOperator

\* syntaxFor: a file that cgo rewrote is not among those type-checked, so that
\* mutateFile parses it afresh.
TypedTree(p, f) == NeedsTypes /\ p \in typed /\ f \notin CgoFile

Job(p, f) ==
    [pkg |-> p, file |-> f, mutators |-> BoundMutators(p), tree |-> TypedTree(p, f),
     scope |-> pre.scope, cover |-> pre.cover, tce |-> pre.tce,
     closure |-> pre.closure, fingerprint |-> pre.fingerprint]

AddingJobs == /\ Planning /\ ~Skipped
              /\ step = IF Estimating THEN "scope" ELSE "jobs"
NextFile == FilesOf[Here][fileAt]

\* Mutant of AddJob: test files are jobs like any other.
AddJobOfTests ==
    /\ AddingJobs
    /\ fileAt \in DOMAIN FilesOf[Here]
    /\ fileAt' = fileAt + 1
    /\ jobs' = Append(jobs, Job(Here, NextFile))
    /\ UNCHANGED <<given, canceled, stage, err, loads, clock, store, at, step, pre,
                   memo, counts>>

\* planPackage: the files in order, test files left out, and a job for each.
AddJob ==
    /\ AddingJobs
    /\ fileAt \in DOMAIN FilesOf[Here]
    /\ fileAt' = fileAt + 1
    /\ \/ IsMutable(NextFile) /\ jobs' = Append(jobs, Job(Here, NextFile))
       \/ ~IsMutable(NextFile) /\ UNCHANGED jobs
    /\ UNCHANGED <<given, canceled, stage, err, loads, clock, store, at, step, pre,
                   memo, counts>>

EndPackage ==
    /\ AddingJobs
    /\ fileAt \notin DOMAIN FilesOf[Here]
    /\ at' = at + 1
    /\ fileAt' = 1
    /\ step' = "scope"
    /\ pre' = Unplanned
    /\ UNCHANGED <<given, canceled, stage, err, loads, clock, store, memo, jobs, counts>>

\* The matches the walk of a job reports: an operator that was named twice
\* matches twice, a typed one on a fresh tree nothing.
Namings(o) == IF req.operators = <<>> THEN {0}
              ELSE {i \in DOMAIN req.operators : req.operators[i] = o}
Effective(j) == IF j.tree THEN j.mutators ELSE j.mutators \ TypedOperator
Offers(j) == UNION {{o} \X (Namings(o) \X (1 .. Finds[o][j.file])) : o \in Effective(j)}
Matches(j) == Cardinality(Offers(j))

EndPlan ==
    /\ stage = "plan"
    /\ at \notin DOMAIN req.packages
    /\ stage' = IF Estimating THEN "walk" ELSE "execute"
    /\ walks' = IF Estimating THEN [i \in DOMAIN jobs |-> "waiting"] ELSE <<>>
    /\ left' = IF Estimating THEN [i \in DOMAIN jobs |-> Matches(jobs[i])] ELSE <<>>
    /\ UNCHANGED <<given, canceled, err, loads, clock, store, plans, tally, preview>>

\* The mutation run itself, of module Engine; then the store is closed.
Execute ==
    /\ stage = "execute"
    /\ stage' = "returned"
    /\ \/ ~canceled /\ err' = "none"
       \/ err' = "failed run"
       \/ canceled /\ err' = "canceled"
    /\ store' = IF store = "open" THEN "closed" ELSE store
    /\ UNCHANGED <<given, canceled, loads, clock, plans, counts>>

-----------------------------------------------------------------------------
(* Estimate: file workers that report matches to one consumer, and then a    *)
(* sample per package.                                                       *)

Walkers == {i \in DOMAIN walks : walks[i] = "walking"}
Waiting == {i \in DOMAIN walks : walks[i] = "waiting"}
Doomed == canceled \/ \E i \in DOMAIN walks : walks[i] = "failed"

\* Mutant of Slots: the limit is taken as it was given; none starts at zero.
SlotsAsGiven == req.parallel

\* Options.parallel.
Slots == Larger(1, req.parallel)

\* execute starts the files in order, as slots become free; a file that does
\* not parse fails at once.
StartJob ==
    /\ stage = "walk"
    /\ Cardinality(Walkers) < Slots
    /\ \E i \in Waiting, place \in {"walking", "failed"} :
        /\ \A k \in Waiting : i <= k
        /\ walks' = [walks EXCEPT ![i] = place]
    /\ UNCHANGED <<given, canceled, stage, err, loads, clock, store, plans, left,
                   tally, preview>>

\* Mutant of Counted: every hit gives its package a place.
CountedTwice(t, p) ==
    [order |-> Append(t.order, p), hits |-> [t.hits EXCEPT ![p] = @ + 1]]

\* estimateTally.consume: a package takes its place with its first hit.
Counted(t, p) ==
    [order |-> IF t.hits[p] = 0 THEN Append(t.order, p) ELSE t.order,
     hits |-> [t.hits EXCEPT ![p] = @ + 1]]

Hit ==
    /\ stage = "walk" /\ ~Doomed
    /\ \E i \in Walkers :
        /\ left[i] > 0
        /\ left' = [left EXCEPT ![i] = @ - 1]
        /\ tally' = Counted(tally, jobs[i].pkg)
    /\ UNCHANGED <<given, canceled, stage, err, loads, clock, store, plans, walks,
                   preview>>

\* A walk ends when nothing is left; until then it asks, visit by visit,
\* whether the group's context is done.
EndWalk ==
    /\ stage = "walk"
    /\ \E i \in Walkers :
        \/ left[i] = 0 /\ walks' = [walks EXCEPT ![i] = "done"]
        \/ Doomed /\ walks' = [walks EXCEPT ![i] = "failed"]
    /\ UNCHANGED <<given, canceled, stage, err, loads, clock, store, plans, left,
                   tally, preview>>

WalksEnd ==
    /\ stage = "walk"
    /\ \A i \in DOMAIN walks : walks[i] \in {"done", "failed"}
    /\ IF \E i \in DOMAIN walks : walks[i] = "failed"
         THEN Fail("failed walk")
         ELSE stage' = "time" /\ UNCHANGED err
    /\ UNCHANGED <<given, canceled, loads, clock, store, plans, counts>>

\* What each package is timed by; a suite that fails counts as taking no time.
Sample(baseline) ==
    preview' = Append(preview, [pkg |-> tally.order[Len(preview) + 1],
                                mutants |-> tally.hits[tally.order[Len(preview) + 1]],
                                baseline |-> baseline])

\* buildEstimateResult: under the full scope the first sample serves for all.
TimePackage ==
    /\ stage = "time"
    /\ Len(preview) < Len(tally.order)
    /\ \/ req.scope = "full" /\ preview # <<>> /\ Sample(preview[1].baseline)
       \/ /\ req.scope # "full" \/ preview = <<>>
          /\ \/ Sample(0)
             \/ /\ ~canceled
                /\ failing \cap (IF req.scope = "full" THEN Selected
                                 ELSE {tally.order[Len(preview) + 1]}) = {}
                /\ \E d \in Duration : Sample(d)
    /\ UNCHANGED <<given, canceled, stage, err, loads, clock, store, plans, walks,
                   left, tally>>

Previewed ==
    /\ stage = "time"
    /\ Len(preview) = Len(tally.order)
    /\ stage' = "returned"
    /\ UNCHANGED <<given, canceled, err, loads, clock, store, plans, counts>>

-----------------------------------------------------------------------------

Prologue == \/ Resolve \/ Load \/ SkipTypes \/ LoadTyped \/ LoadClosures
            \/ ExplicitTimeout \/ TimeSuite \/ DeriveTimeout \/ OpenCache
Plan == \/ SkipPackage \/ PlanScope \/ PlanTCE \/ PlanFingerprint \/ AddJob \/ EndPackage
        \/ EndPlan
Preview == StartJob \/ Hit \/ EndWalk \/ WalksEnd \/ TimePackage \/ Previewed

Progress == Prologue \/ Plan \/ Execute \/ Preview
Next == Cancel \/ Progress

\* Every subprocess ends, or is killed when the context is done; and the go
\* scheduler runs every worker.
Spec == Init /\ [][Next]_vars /\ WF_vars(Progress)

-----------------------------------------------------------------------------
(* Properties.                                                               *)

Stages == {"resolve", "load", "types", "closures", "baseline", "cache", "plan",
           "execute", "walk", "time", "returned"}

\* A run and an estimate both walk each file of the selected packages that is
\* not a test, in a module, exactly once, in the order of the packages, with
\* the same operators on the same kind of tree: what an estimate counts is what
\* a run would test.
Walked(p) == {f \in {FilesOf[p][i] : i \in DOMAIN FilesOf[p]} :
                ModuleOf[p] # NoModule /\ f \notin TestFile}
Place(p) == CHOOSE i \in DOMAIN req.packages : req.packages[i] = p
EachFileOnce ==
    Planned =>
        /\ \A p \in Selected : \A f \in Walked(p) :
              Cardinality({i \in DOMAIN jobs : jobs[i].pkg = p /\ jobs[i].file = f}) = 1
        /\ \A i \in DOMAIN jobs :
              /\ jobs[i].pkg \in Selected /\ jobs[i].file \in Walked(jobs[i].pkg)
              /\ \A k \in DOMAIN jobs : i < k => Place(jobs[i].pkg) <= Place(jobs[k].pkg)

\* The verdicts of a job are cached under a fingerprint of the very tree its
\* workspaces are made from: its own package's closure, or its own module,
\* whichever packages were planned before it.
FingerprintRight ==
    req.mode = "run" /\ Planned =>
        \A i \in DOMAIN jobs :
            jobs[i].fingerprint =
                IF ~req.cache THEN NoFingerprint
                ELSE IF jobs[i].closure # Nothing THEN OfClosure(jobs[i].pkg)
                ELSE OfModule(ModuleOf[jobs[i].pkg])

\* A package that cannot be measured is judged by all its own tests, and no
\* other package is the worse for it; a job under impact scope has the map of
\* its own package, and what a job has of another package's it never sees.
DemotionLocal ==
    req.mode = "run" =>
        \A i \in DOMAIN jobs :
            LET j == jobs[i]
            IN /\ j.scope # req.scope => req.scope = "impact" /\ j.scope = "package"
               /\ j.cover = IF j.scope = "impact" THEN j.pkg ELSE Nothing
               /\ j.closure \in {Nothing, j.pkg} /\ j.tce \in {Nothing, j.pkg}
               /\ j.scope = "full" => j.closure = Nothing
               /\ \A k \in DOMAIN jobs : jobs[k].pkg = j.pkg =>
                    jobs[k].scope = j.scope /\ jobs[k].fingerprint = j.fingerprint

\* A typed operator works on the tree that was type-checked or not at all: it
\* is bound in no package without types, and there no syntax tree is kept.  In
\* a file that cgo rewrote it is bound and finds nothing.
TypedSeesItsTree ==
    \A i \in DOMAIN jobs :
        jobs[i].mutators \cap TypedOperator # {} =>
            jobs[i].pkg \in typed /\ (jobs[i].tree \/ jobs[i].file \in CgoFile)

\* Each file is walked once, by operators that find what they need there.
JobsAreRight == EachFileOnce /\ TypedSeesItsTree

\* A mutant is not killed for being slow: what was measured fits into the
\* budget that was derived from it, up to what the division loses, on a machine
\* with as many processors as there are measurements.
TimeoutFair ==
    stage \in {"cache", "plan", "execute"} /\ req.timeout = 0 /\ ~Estimating =>
        /\ timeout >= MinBaselineTimeout
        /\ Cpus >= BaselineRuns =>
              \A i \in DOMAIN times : times[i] < timeout + BaselineRuns

\* The packages whose tests judge a mutant of a job.
Judges(j) == IF j.scope = "full" THEN {p \in Package : ModuleOf[p] = ModuleOf[j.pkg]}
             ELSE {j.pkg}

\* "Every verdict a mutation run produces is relative to a suite that passes on
\* unmutated code": no test that judges a mutant failed before.
JudgedByPassingTests ==
    stage = "execute" /\ req.timeout = 0 =>
        \A i \in DOMAIN jobs : Judges(jobs[i]) \cap failing = {}

\* That much of it the code does see to: of the packages that were selected
\* none failed, so that a narrower scope is judged by passing tests.
MeasuredTestsPass ==
    stage = "execute" /\ req.timeout = 0 =>
        \A i \in DOMAIN jobs : Judges(jobs[i]) \cap Selected \cap failing = {}

\* A budget that was not given comes from tests that pass and leaves room for them.
BaselineSound == TimeoutFair /\ MeasuredTestsPass

\* The store that was opened is closed when Run returns, except after a failed
\* plan, which returns before it.
StoreClosed ==
    stage = "returned" /\ store = "open" => at \in DOMAIN req.packages

\* A preview has every package in which the walk found something, once, with
\* all it found, whatever order the workers reported in.
Found(p) == Cardinality(UNION {{i} \X (1 .. Matches(jobs[i])) :
                                  i \in {k \in DOMAIN jobs : jobs[k].pkg = p}})
EstimateExact ==
    stage = "returned" /\ err = "none" /\ Estimating =>
        /\ {preview[i].pkg : i \in DOMAIN preview} = {p \in Package : Found(p) > 0}
        /\ \A i \in DOMAIN preview :
              /\ preview[i].mutants = Found(preview[i].pkg)
              /\ \A k \in DOMAIN preview : preview[i].pkg = preview[k].pkg => i = k

\* Whatever the go command says, and whenever the user cancels, the call
\* returns, and not before the store is closed, but for a failed plan.
Returned == <>(stage = "returned" /\ StoreClosed)

=============================================================================
