------------------------------- MODULE Engine -------------------------------
(***************************************************************************)
(* One mutation run of internal/mutate, from the moment Run has its plan   *)
(* to the moment it returns a Result: the errgroup of file workers with    *)
(* its limit, the sequential walk each worker makes over its file, the     *)
(* life of one mutant inside runner.run, the cache store and the collector *)
(* with their consumer goroutines, and the order in which Run shuts them   *)
(* down.  The processes are Run's own goroutine (variable main), one       *)
(* worker per file job (pc, pos, ast, src, out), the two consumers (store  *)
(* and slot, sink and result) and the user, who may cancel at any time.    *)
(*                                                                         *)
(* A visit is what the walk offers at one position: a suppression that     *)
(* anchors there, or one mutation of one operator at one node.  What the   *)
(* walk reads but never changes is given by the constants: which mutations *)
(* go/printer masks (NoOp), which lines no test covers (Uncovered), which  *)
(* compile to the baseline's code (TceSame), which verdicts the index of   *)
(* an earlier run answers (Index), which ids the replay filter lets pass   *)
(* (Wanted).  What `go test' says is a choice, made when it is asked.      *)
(***************************************************************************)
EXTENDS Integers, Sequences, FiniteSets

CONSTANTS
    NumJobs,      \* file jobs, in plan order
    Parallel,     \* Options.parallel(): the errgroup's limit
    Mutation,     \* mutations the operators offer, over all files
    Suppression,  \* nodes a //nomutant directive anchors to
    Walk,         \* Walk[j]: the visits of job j in ast.Inspect order
    Rank,         \* the sort key (file, line, operator, description)
    Replay,       \* Options.MutantID is set
    Wanted,       \* mutations the replay filter lets through
    NoOp,         \* mutations whose printed file equals the baseline
    Uncovered,    \* under ScopeImpact, mutations on a line no test executes
    TceSame,      \* under TCE, mutations that compile to the baseline's code
    Index,        \* verdicts loaded from the cache, by mutation
    StoreOpen     \* the cache store could be opened

Jobs    == 1 .. NumJobs
Visit   == Mutation \cup Suppression
Verdict == {"Killed", "Survived", "NotViable"}
Outcome == Verdict \cup {"Equivalent", "Suppressed", "none"}
Entry   == [item : Visit, verdict : Outcome, src : SUBSET Mutation]
Error   == {"none", "canceled", "failed"}

ASSUME EngineAssumption ==
    /\ NumJobs \in Nat
    /\ Parallel \in Nat \ {0}
    /\ Mutation \cap Suppression = {}
    /\ Walk \in [Jobs -> Seq(Visit)]
    /\ \A j, k \in Jobs : \A a \in DOMAIN Walk[j], b \in DOMAIN Walk[k] :
          Walk[j][a] = Walk[k][b] => j = k /\ a = b
    /\ Rank \in [Visit -> Nat]
    /\ Replay \in BOOLEAN
    /\ Wanted \subseteq Mutation
    /\ ~Replay => Wanted = Mutation
    /\ NoOp \subseteq Mutation
    /\ Uncovered \subseteq Mutation
    /\ TceSame \subseteq Mutation
    /\ DOMAIN Index \subseteq Mutation
    /\ \A m \in DOMAIN Index : Index[m] \in Verdict \cup {"Equivalent"}
    /\ StoreOpen \in BOOLEAN

VARIABLES
    main,      \* where Run is: spawning, closing store, closing sink, done
    next,      \* the next job execute hands to group.Go
    sem,       \* tokens taken from the errgroup's semaphore
    canceled,  \* the caller's context is done
    groupErr,  \* the error errgroup keeps: the first one
    pc,        \* pc[j]: where worker j is
    pos,       \* pos[j]: the visit its walk has reached
    ast,       \* ast[j]: the mutations now applied to its tree
    src,       \* src[j]: the mutations in the source it last printed
    out,       \* out[j]: the outcome it holds for the current visit
    store,     \* the cacheStore: open, closing, closed
    slot,      \* the record its consumer has received and not yet written
    werr,      \* cacheStore.werr is set
    log,       \* records appended to the cache file by this run
    sink,      \* the collector: open, closing, closed
    result,    \* what its consumer has accumulated, in arrival order
    late       \* history: entries received once the group's context was done

mainVars   == <<main, next>>
ctxVars    == <<canceled, groupErr>>
workerVars == <<pc, pos, ast, src, out>>
storeVars  == <<store, slot, werr, log>>
sinkVars   == <<sink, result, late>>
vars == <<mainVars, sem, ctxVars, workerVars, storeVars, sinkVars>>

\* The group's context: derived from the caller's, canceled by the first error.
Cancelled == canceled \/ groupErr # "none"

Item(j) == Walk[j][pos[j]]
Holding(j) == [item |-> Item(j), verdict |-> out[j], src |-> src[j]]

\* Workers inside a visit, and workers that hold a token of the semaphore.
Busy   == {"applied", "testing", "recording", "sending"}
Active == Busy \cup {"started", "walking"}

\* The verdicts a mutation may get without running its tests.
IndexHit(m) == ~Replay /\ m \in DOMAIN Index

Init ==
    /\ main = "spawning"
    /\ next = 1
    /\ sem = 0
    /\ canceled = FALSE
    /\ groupErr = "none"
    /\ pc = [j \in Jobs |-> "queued"]
    /\ pos = [j \in Jobs |-> 1]
    /\ ast = [j \in Jobs |-> {}]
    /\ src = [j \in Jobs |-> {}]
    /\ out = [j \in Jobs |-> "none"]
    /\ store = IF StoreOpen THEN "open" ELSE "closed"
    /\ slot = <<>>
    /\ werr = FALSE
    /\ log = <<>>
    /\ sink = "open"
    /\ result = <<>>
    /\ late = 0

-----------------------------------------------------------------------------
(* The user: a signal cancels the caller's context, at any time.           *)

Cancel ==
    /\ ~canceled
    /\ main # "done"
    /\ canceled' = TRUE
    /\ UNCHANGED <<mainVars, sem, groupErr, workerVars, storeVars, sinkVars>>

-----------------------------------------------------------------------------
(* A worker: mutateFile, visitNode, visitMutations and runner.run.         *)

\* Mutant of Finish: the token is given back twice.
FinishReleasingTwice(j, err) ==
    /\ pc' = [pc EXCEPT ![j] = "ended"]
    /\ sem' = sem - 2
    /\ groupErr' = IF groupErr = "none" THEN err ELSE groupErr
    /\ UNCHANGED <<mainVars, canceled, pos, src, out, storeVars, sinkVars>>

\* mutateFile returns err; errgroup gives its token back and keeps the first
\* error, whose recording is what cancels the group's context.
Finish(j, err) ==
    /\ pc' = [pc EXCEPT ![j] = "ended"]
    /\ sem' = sem - 1
    /\ groupErr' = IF groupErr = "none" THEN err ELSE groupErr
    /\ UNCHANGED <<mainVars, canceled, pos, src, out, storeVars, sinkVars>>

\* A step of the worker inside its walk: it keeps its token, no error arises.
Stays(j, place) ==
    /\ pc' = [pc EXCEPT ![j] = place]
    /\ UNCHANGED <<mainVars, sem, ctxVars>>

\* Mutant of Revert: the deferred Revert is forgotten.
NoRevert(j) == UNCHANGED ast

Revert(j) == ast' = [ast EXCEPT ![j] = @ \ {Item(j)}]

\* mutateFile's head: the context is checked before the file is parsed.
OpenFile(j) ==
    /\ pc[j] = "started"
    /\ ~Cancelled
    /\ Stays(j, "walking")
    /\ UNCHANGED <<pos, ast, src, out, storeVars, sinkVars>>

\* Mutant of SeeCancel: a canceled walk returns nil.
SeeCancelQuietly(j) ==
    /\ pc[j] \in {"started", "walking"}
    /\ Cancelled
    /\ Finish(j, "none")
    /\ UNCHANGED ast

\* The checks of the context at the head, at every node and at every mutation.
SeeCancel(j) ==
    /\ pc[j] \in {"started", "walking"}
    /\ Cancelled
    /\ Finish(j, "canceled")
    /\ UNCHANGED ast

ParseFails(j) ==
    /\ pc[j] = "started"
    /\ ~Cancelled
    /\ Finish(j, "failed")
    /\ UNCHANGED ast

EndOfWalk(j) ==
    /\ pc[j] = "walking"
    /\ pos[j] > Len(Walk[j])
    /\ Finish(j, "none")
    /\ UNCHANGED ast

\* Mutant of AtVisit: the context is looked at only at the head of the file.
AtVisitUnchecked(j) ==
    /\ pc[j] = "walking"
    /\ pos[j] <= Len(Walk[j])

AtVisit(j) ==
    /\ pc[j] = "walking"
    /\ pos[j] <= Len(Walk[j])
    /\ ~Cancelled

VisitSuppressed(j) ==
    /\ AtVisit(j)
    /\ Item(j) \in Suppression
    /\ out' = [out EXCEPT ![j] = "Suppressed"]
    /\ src' = [src EXCEPT ![j] = {}]
    /\ Stays(j, "sending")
    /\ UNCHANGED <<pos, ast, storeVars, sinkVars>>

\* Mutant of SkipUnwanted: the first id that does not match ends the walk.
SkipRestOfFile(j) ==
    /\ AtVisit(j)
    /\ Item(j) \in Mutation \ Wanted
    /\ Finish(j, "none")
    /\ UNCHANGED ast

\* The replay filter: the id is computed, the runner is not called.
SkipUnwanted(j) ==
    /\ AtVisit(j)
    /\ Item(j) \in Mutation \ Wanted
    /\ pos' = [pos EXCEPT ![j] = @ + 1]
    /\ Stays(j, "walking")
    /\ UNCHANGED <<ast, src, out, storeVars, sinkVars>>

\* runner.run: Apply, then print the whole file as the tree now stands.
ApplyMutation(j) ==
    /\ AtVisit(j)
    /\ Item(j) \in Wanted
    /\ ast' = [ast EXCEPT ![j] = @ \cup {Item(j)}]
    /\ src' = [src EXCEPT ![j] = ast'[j]]
    /\ out' = [out EXCEPT ![j] = "none"]
    /\ Stays(j, "applied")
    /\ UNCHANGED <<pos, storeVars, sinkVars>>

\* runner.run returns without running anything: the deferred Revert fires.
ReturnAtOnce(j, verdict) ==
    /\ out' = [out EXCEPT ![j] = verdict]
    /\ Revert(j)
    /\ Stays(j, "sending")
    /\ UNCHANGED <<pos, src, storeVars, sinkVars>>

\* Mutant of IsNoChange: a masked mutation is reported like any other.
NoChangeReported(j) ==
    /\ pc[j] = "applied"
    /\ src[j] \subseteq NoOp
    /\ ReturnAtOnce(j, "Survived")

\* The printed file equals the baseline: nothing to report, on to the next.
IsNoChange(j) ==
    /\ pc[j] = "applied"
    /\ src[j] \subseteq NoOp
    /\ Revert(j)
    /\ pos' = [pos EXCEPT ![j] = @ + 1]
    /\ Stays(j, "walking")
    /\ UNCHANGED <<src, out, storeVars, sinkVars>>

IsUncovered(j) ==
    /\ pc[j] = "applied"
    /\ ~(src[j] \subseteq NoOp)
    /\ Item(j) \in Uncovered
    /\ ReturnAtOnce(j, "Survived")

CacheHit(j) ==
    /\ pc[j] = "applied"
    /\ ~(src[j] \subseteq NoOp)
    /\ Item(j) \notin Uncovered
    /\ IndexHit(Item(j))
    /\ ReturnAtOnce(j, Index[Item(j)])

\* Workspace copied, mutated file written into it; TCE and go test come next.
BuildWorkspace(j) ==
    /\ pc[j] = "applied"
    /\ ~(src[j] \subseteq NoOp)
    /\ Item(j) \notin Uncovered
    /\ ~IndexHit(Item(j))
    /\ Stays(j, "testing")
    /\ UNCHANGED <<pos, ast, src, out, storeVars, sinkVars>>

\* A verdict that cost a run: through the store when there is one, while the
\* mutation is still applied; otherwise straight back to the walk.
Deliver(j, verdict) ==
    /\ out' = [out EXCEPT ![j] = verdict]
    /\ IF StoreOpen
         THEN Stays(j, "recording") /\ UNCHANGED ast
         ELSE Stays(j, "sending") /\ Revert(j)
    /\ UNCHANGED <<pos, src, storeVars, sinkVars>>

\* The compile may have ended before the context did: no check in between.
TceFilters(j) ==
    /\ pc[j] = "testing"
    /\ Item(j) \in TceSame
    /\ Deliver(j, "Equivalent")

\* goTest returned with the context still live.  A timeout counts as Killed.
TestEnds(j) ==
    /\ pc[j] = "testing"
    /\ ~Cancelled
    /\ \E verdict \in Verdict : Deliver(j, verdict)

\* goTest gives way to a context that is done.
TestCanceled(j) ==
    /\ pc[j] = "testing"
    /\ Cancelled
    /\ Finish(j, "canceled")
    /\ Revert(j)

\* Something the mutant needs failed: printing the file, building the
\* workspace, writing into it, starting the toolchain.
MutantFails(j) ==
    /\ pc[j] \in {"applied", "testing"}
    /\ Finish(j, "failed")
    /\ Revert(j)

\* cacheStore.record: the send completes when the consumer receives.
Record(j) ==
    /\ pc[j] = "recording"
    /\ store = "open"
    /\ slot = <<>>
    /\ slot' = <<Holding(j)>>
    /\ Revert(j)
    /\ Stays(j, "sending")
    /\ UNCHANGED <<pos, src, out, store, werr, log, sinkVars>>

\* Mutant of Send: a visit whose entry was sent may be taken up again.
SendThenRetry(j) ==
    /\ pc[j] = "sending"
    /\ sink = "open"
    /\ result' = Append(result, Holding(j))
    /\ pos' \in {pos, [pos EXCEPT ![j] = @ + 1]}
    /\ src' = [src EXCEPT ![j] = {}]
    /\ out' = [out EXCEPT ![j] = "none"]
    /\ Stays(j, "walking")
    /\ UNCHANGED <<ast, storeVars, sink, late>>

\* collector.mutant, .suppression, .equivalent: the consumer appends.
Send(j) ==
    /\ pc[j] = "sending"
    /\ sink = "open"
    /\ result' = Append(result, Holding(j))
    /\ late' = IF Cancelled THEN late + 1 ELSE late
    /\ pos' = [pos EXCEPT ![j] = @ + 1]
    /\ src' = [src EXCEPT ![j] = {}]
    /\ out' = [out EXCEPT ![j] = "none"]
    /\ Stays(j, "walking")
    /\ UNCHANGED <<ast, storeVars, sink>>

Proceeds(j) ==
    \/ OpenFile(j) \/ SeeCancel(j) \/ EndOfWalk(j)
    \/ VisitSuppressed(j) \/ SkipUnwanted(j) \/ ApplyMutation(j)
    \/ IsNoChange(j) \/ IsUncovered(j) \/ CacheHit(j) \/ BuildWorkspace(j)
    \/ TceFilters(j) \/ TestEnds(j) \/ TestCanceled(j)
    \/ Record(j) \/ Send(j)

Fails(j) == ParseFails(j) \/ MutantFails(j)

-----------------------------------------------------------------------------
(* The cache store's consumer.                                             *)

\* One Encode per record; after one failed write the rest is dropped.
StoreWrite ==
    /\ slot # <<>>
    /\ \/ ~werr /\ log' = log \o slot /\ UNCHANGED werr
       \/ werr' = TRUE /\ UNCHANGED log
    /\ slot' = <<>>
    /\ UNCHANGED <<mainVars, sem, ctxVars, workerVars, store, sinkVars>>

\* The range loop ends once the channel is closed and drained; then fsync.
StoreExit ==
    /\ store = "closing"
    /\ slot = <<>>
    /\ store' = "closed"
    /\ werr' \in {werr, TRUE}
    /\ UNCHANGED <<mainVars, sem, ctxVars, workerVars, slot, log, sinkVars>>

-----------------------------------------------------------------------------
(* Run's own goroutine: execute, store.close, sink.close.                  *)

\* group.Go blocks for a token, then starts the worker.  The loop does not
\* look at the context: after an error every remaining job still starts.
Spawn ==
    /\ main = "spawning"
    /\ next <= NumJobs
    /\ sem < Parallel
    /\ sem' = sem + 1
    /\ next' = next + 1
    /\ pc' = [pc EXCEPT ![next] = "started"]
    /\ UNCHANGED <<main, ctxVars, pos, ast, src, out, storeVars, sinkVars>>

\* Mutant of WaitReturns: a done context lets Run go on without its workers.
WaitReturnsOnCancel ==
    /\ main = "spawning"
    /\ next > NumJobs
    /\ Cancelled \/ \A j \in Jobs : pc[j] = "ended"
    /\ main' = "closingSink"
    /\ sink' = "closing"
    /\ UNCHANGED <<next, sem, ctxVars, workerVars, storeVars, result, late>>

\* group.Wait returns; close(records) follows at once if there is a store.
WaitReturns ==
    /\ main = "spawning"
    /\ next > NumJobs
    /\ \A j \in Jobs : pc[j] = "ended"
    /\ IF StoreOpen
         THEN main' = "closingStore" /\ store' = "closing" /\ UNCHANGED sink
         ELSE main' = "closingSink" /\ sink' = "closing" /\ UNCHANGED store
    /\ UNCHANGED <<next, sem, ctxVars, workerVars, slot, werr, log, result, late>>

\* Mutant of StoreClosed: close does not wait for the consumer.
StoreNotAwaited ==
    /\ main = "closingStore"
    /\ main' = "closingSink"
    /\ sink' = "closing"
    /\ UNCHANGED <<next, sem, ctxVars, workerVars, storeVars, result, late>>

StoreClosed ==
    /\ main = "closingStore"
    /\ store = "closed"
    /\ main' = "closingSink"
    /\ sink' = "closing"
    /\ UNCHANGED <<next, sem, ctxVars, workerVars, storeVars, result, late>>

\* consume sees its channels closed, sorts, publishes; Run returns.
SinkClosed ==
    /\ main = "closingSink"
    /\ sink' = "closed"
    /\ main' = "done"
    /\ UNCHANGED <<next, sem, ctxVars, workerVars, storeVars, result, late>>

Terminated == main = "done" /\ UNCHANGED vars

Next ==
    \/ Cancel
    \/ \E j \in Jobs : Proceeds(j) \/ Fails(j)
    \/ StoreWrite
    \/ StoreExit
    \/ Spawn
    \/ WaitReturns
    \/ StoreClosed
    \/ SinkClosed
    \/ Terminated

Safe == Init /\ [][Next]_vars

\* Goroutines are scheduled, channel operations complete, and every child
\* process ends: goTest's deadline kills it.  No failure and no signal need ever
\* happen, so no progress may depend on one.
Fairness ==
    /\ \A j \in Jobs : WF_vars(Proceeds(j))
    /\ WF_vars(StoreWrite)
    /\ WF_vars(StoreExit)
    /\ WF_vars(Spawn)
    /\ WF_vars(WaitReturns)
    /\ WF_vars(StoreClosed)
    /\ WF_vars(SinkClosed)

Spec == Safe /\ Fairness

-----------------------------------------------------------------------------
(* What Run hands back: the collector's three lists, each sorted stably.   *)

\* Mutant of Before: the lists stay in the order of arrival.
ArrivedBefore(a, b) == a < b

\* The order of two entries: by the sort key, and where it ties by arrival.
Before(a, b) ==
    \/ Rank[result[a].item] < Rank[result[b].item]
    \/ Rank[result[a].item] = Rank[result[b].item] /\ a < b

\* A stable sort puts an entry of K after those of K that come before it.
Place(K, b) == Cardinality({a \in K : Before(a, b)}) + 1

Section(verdicts) ==
    LET K == {i \in DOMAIN result : result[i].verdict \in verdicts}
    IN  [n \in 1 .. Cardinality(K) |-> result[CHOOSE b \in K : Place(K, b) = n]]

Report == [mutants      |-> Section(Verdict),
           suppressions |-> Section({"Suppressed"}),
           equivalents  |-> Section({"Equivalent"})]

-----------------------------------------------------------------------------
(* Properties.                                                             *)

RangeOf(s) == {s[i] : i \in DOMAIN s}
Visited == UNION {{Walk[j][p] : p \in DOMAIN Walk[j]} : j \in Jobs}

\* The run owes an entry for every suppression and for every mutation the
\* replay filter passes that changes the printed file.
Owed == Visited \cap (Suppression \cup (Wanted \ NoOp))

\* Entries whose verdict cost a compile or a test run.
Executed(e) ==
    /\ e.item \in Mutation \ Uncovered
    /\ ~IndexHit(e.item)

TypeOK ==
    /\ main \in {"spawning", "closingStore", "closingSink", "done"}
    /\ next \in 1 .. NumJobs + 1
    /\ sem \in 0 .. Parallel
    /\ canceled \in BOOLEAN
    /\ groupErr \in Error
    /\ pc \in [Jobs -> Active \cup {"queued", "ended"}]
    /\ pos \in [Jobs -> Nat \ {0}]
    /\ ast \in [Jobs -> SUBSET Mutation]
    /\ src \in [Jobs -> SUBSET Mutation]
    /\ out \in [Jobs -> Outcome]
    /\ store \in {"open", "closing", "closed"}
    /\ slot \in Seq(Entry)
    /\ werr \in BOOLEAN
    /\ log \in Seq(Entry)
    /\ sink \in {"open", "closing", "closed"}
    /\ result \in Seq(Entry)
    /\ late \in Nat

\* Every verdict reported or written to the cache was reached with exactly its
\* own mutation in the printed file: none left over from an earlier visit of
\* the same tree, whichever way that visit ended (runner.run's deferred Revert).
OneMutationAtATime ==
    \A e \in RangeOf(result) \cup RangeOf(log) \cup RangeOf(slot) :
        e.src = IF e.item \in Suppression THEN {} ELSE {e.item}

\* No visit is reported twice, however the workers and the consumer interleave.
ReportedOnce ==
    \A a, b \in DOMAIN result : result[a].item = result[b].item => a = b

\* A Run that returns no error has lost nothing: a canceled or failed run never
\* passes for a complete one, which mutateRun's gate on the score relies on.
CompleteUnlessError ==
    main = "done" /\ groupErr = "none" =>
        {result[i].item : i \in DOMAIN result} = Owed

\* After the context of the group is done, at most one more entry arrives from
\* each worker in flight: a Ctrl+C does not go on through the module.
PromptStop == late <= Parallel

\* The limit of the errgroup bounds the files, hence the test suites, at once.
AtMostParallel == Cardinality({j \in Jobs : pc[j] \in Active}) <= Parallel

\* Both channels are closed only when no worker is left that could send: a send
\* on a closed channel would panic (the contract of both close methods).
NoSendAfterClose ==
    /\ store # "open" => \A j \in Jobs : pc[j] # "recording"
    /\ sink # "open" => \A j \in Jobs : pc[j] \notin Active

\* When Run returns, every verdict that cost a run is in the cache file, unless
\* a write failed; also for the partial result of an interrupted run.
CachedBeforeReturn ==
    main = "done" /\ StoreOpen /\ ~werr =>
        \A e \in RangeOf(result) : Executed(e) => e \in RangeOf(log)

\* The report does not depend on scheduling: each list is in the order of the
\* sort keys, and where these tie, in the order of the file's walk.
Precedes(a, b) ==
    \/ Rank[a] < Rank[b]
    \/ /\ Rank[a] = Rank[b]
       /\ \A j \in Jobs : \A p, q \in DOMAIN Walk[j] :
             Walk[j][p] = a /\ Walk[j][q] = b => p < q

InReportOrder(s) ==
    \A a, b \in DOMAIN s : a < b => Precedes(s[a].item, s[b].item)

ReportOrder ==
    main = "done" =>
        /\ InReportOrder(Report.mutants)
        /\ InReportOrder(Report.suppressions)
        /\ InReportOrder(Report.equivalents)

-----------------------------------------------------------------------------
(* Engine implements MutationRun.                                          *)

\* The outcomes that each visit can have.
Possible(v) ==
    CASE v \in Suppression -> {"Suppressed"}
      [] v \in Uncovered -> {"Survived"}
      [] v \in Mutation \ Uncovered /\ IndexHit(v) -> {Index[v]}
      [] OTHER -> Verdict \cup (IF v \in TceSame THEN {"Equivalent"} ELSE {})

Run == INSTANCE MutationRun WITH
         Owed     <- Owed,
         Possible <- Possible,
         reported <- {<<e.item, e.verdict>> : e \in RangeOf(result)},
         returned <- main = "done",
         err      <- IF main = "done" THEN groupErr ELSE "none"

\* Engine implements MutationRun: every step of a worker, a consumer or Run is
\* a step of what Run promises or leaves it unchanged, and the run ends.
ImplementsRun == Run!Spec
=============================================================================
