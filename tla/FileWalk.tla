------------------------------ MODULE FileWalk ------------------------------
(***************************************************************************)
(* Which mutations of a file are handed to the runner, under which ids and *)
(* with which tests: the coverage map of impact scope (planScope,          *)
(* buildImpact), then mutateFile's walk with its function pattern, its     *)
(* //nomutant directives, its ids (idDeduper, mutantID), the replay of one *)
(* id and the walk that only counts (Estimate).                            *)
(*                                                                         *)
(* A file's nodes stand in the order in which ast.Inspect reaches them;    *)
(* those below node n are n + 1 .. until.  An id is the tuple that is      *)
(* hashed: the hash is taken to be injective.                              *)
(***************************************************************************)
EXTENDS Naturals, Sequences, FiniteSets

CONSTANTS
    Files,      \* the files considered
    Op,         \* names of operators
    TypedOp,    \* those that need type information
    Test,       \* the package's tests
    Line        \* line numbers

\* block: the counted block that a node's execution counts in, 0 for none.
\* by: the tests that execute the node.  offers: the mutations that operators
\* offer for it, as <<operator, index>> in the order of the registry.
Node == [kind   : {"func", "inert", "other"},
         line   : Line,
         col    : Nat,
         last   : Line,
         until  : Nat,
         offers : Seq(Op \X Nat),
         block  : Nat,
         by     : SUBSET Test]

\* ran: for each test the blocks with a count above 0 in its profile.
File == [nodes      : Seq(Node),
         directives : SUBSET Line,
         blocks     : Seq([first : Line, last : Line]),
         ran        : [Test -> SUBSET Nat]]

SamePlace(m, n) == m.line = n.line /\ m.col = n.col

\* What go/ast and go/parser guarantee: subtrees nest, and of two nodes in one
\* place one is below the other (a chain a + b + c starts at a three times).
\* An operator offers each index of a node once.
WellFormed(f) ==
    LET N == Len(f.nodes)
        At(n) == f.nodes[n]
    IN  /\ N > 0
        /\ \A n \in 1..N :
             /\ At(n).until \in n..N
             /\ \A m \in n..At(n).until : At(m).until <= At(n).until
             /\ \A m \in n+1..N : SamePlace(At(n), At(m)) => m <= At(n).until
             /\ \A i, j \in 1..Len(At(n).offers) :
                   At(n).offers[i] = At(n).offers[j] => i = j

ASSUME FileWalkAssumption ==
    /\ Files \subseteq File
    /\ \A f \in Files : WellFormed(f)
    /\ TypedOp \subseteq Op
    /\ Line \subseteq Nat
    /\ IsFiniteSet(Test)

VARIABLES
    file,       \* the content of fileJob.path
    types,      \* the package was loaded with its types
    matched,    \* the functions that FuncPattern matches
    estimate,   \* the walk has a tally and no sink
    replay,     \* fileJob.mutantID: <<>> or <<an id>>
    canceled,   \* the context is done
    scope,      \* impact or package
    unmeasured, \* tests whose coverage is yet to be merged
    covers,     \* impactMap.lines of this file
    phase,      \* measuring, opening, walking, ended
    err,        \* what mutateFile returns: none, canceled, failed
    at,         \* the node that is visited, or is next
    k,          \* its next offer; 0 when it is yet to be visited
    dedup,      \* idDeduper
    handed,     \* what was handed to the runner
    tally,      \* estimateTally's count
    suppressed  \* the nodes whose suppression was reported

givens   == <<file, types, matched, estimate, replay>>
planVars == <<scope, unmeasured, covers>>
walkVars == <<at, k, dedup>>
outVars  == <<handed, tally, suppressed>>
vars == <<givens, canceled, planVars, phase, err, walkVars, outVars>>

Nodes == 1..Len(file.nodes)
At(n) == file.nodes[n]
Offer(n, i) == At(n).offers[i]

\* idDeduper's key; the id is this with the rank.
Key(n, i) == <<At(n).line, At(n).col, Offer(n, i)[1], Offer(n, i)[2]>>
Keys == UNION {{Key(n, i) : i \in DOMAIN At(n).offers} : n \in Nodes}

\* Mutant of Rank: the id of before idDeduper.
NoRank(n, i) == 0

Rank(n, i) == dedup[Key(n, i)]
Id(n, i) == <<Key(n, i), Rank(n, i)>>

-----------------------------------------------------------------------------
(* What the walk ought to do, said without it.                             *)

Ancestors(n) == {a \in Nodes : n \in a..At(a).until}

\* An id's rank counts the earlier nodes of the file in the same place with the
\* same offer, whether or not this run's walk comes by them.
Sightings(n, i) ==
    {m \in 1..n-1 : \E j \in DOMAIN At(m).offers : Key(m, j) = Key(n, i)}
StableId(n, i) == <<Key(n, i), Cardinality(Sightings(n, i))>>

Filtered(n) == At(n).kind = "func" /\ n \notin matched

\* The line above the first, or the last line.
Anchored(n) ==
    /\ At(n).kind # "inert"
    /\ At(n).line \in {l + 1 : l \in file.directives} \/ At(n).last \in file.directives

Left(n) == Filtered(n) \/ Anchored(n)

Offers == UNION {{n} \X DOMAIN At(n).offers : n \in Nodes}
Bound(n, i) == types \/ Offer(n, i)[1] \notin TypedOp

Wanted ==
    {o \in Offers :
        /\ \A a \in Ancestors(o[1]) : ~Left(a)
        /\ Bound(o[1], o[2])
        /\ replay \in {<<>>, <<StableId(o[1], o[2])>>}}

\* One report for each outermost directive that is reached.
ToReport ==
    {n \in Nodes : /\ Anchored(n) /\ ~Filtered(n)
                   /\ \A a \in Ancestors(n) \ {n} : ~Left(a)}

-----------------------------------------------------------------------------
Init ==
    /\ file \in Files
    /\ types \in BOOLEAN
    /\ matched \in SUBSET {n \in Nodes : At(n).kind = "func"}
    /\ estimate \in BOOLEAN
    /\ replay \in {<<>>} \cup {<<StableId(o[1], o[2])>> : o \in Offers}
    /\ canceled = FALSE
    /\ scope \in {"impact", "package"}
    /\ unmeasured = Test
    /\ covers = [l \in Line |-> {}]
    /\ phase = IF scope = "impact" /\ ~estimate THEN "measuring" ELSE "opening"
    /\ err = "none"
    /\ at = 1 /\ k = 0
    /\ dedup = [key \in Keys |-> 0]
    /\ handed = {} /\ tally = 0 /\ suppressed = {}

Cancel ==
    /\ ~canceled
    /\ canceled' = TRUE
    /\ UNCHANGED <<givens, planVars, phase, err, walkVars, outVars>>

Stop(e) ==
    /\ phase' = "ended"
    /\ err' = e
    /\ UNCHANGED <<givens, canceled, planVars, walkVars, outVars>>

\* The context is looked at before each test is measured, before the file is
\* parsed, at each node and before each mutation.
SeeCanceled ==
    /\ canceled
    /\ \/ phase = "measuring" /\ unmeasured # {}
       \/ phase = "opening"
       \/ /\ phase = "walking" /\ at \in Nodes
          /\ k \in {0} \cup {i \in DOMAIN At(at).offers : Bound(at, i)}
    /\ Stop("canceled")

-----------------------------------------------------------------------------
(* planScope: one run of each test alone.                                  *)

\* mergeBlocks: every line of every block that the test's profile counts.
MergedLines(t) ==
    UNION {file.blocks[b].first..file.blocks[b].last : b \in file.ran[t]}

MeasureTest(t) ==
    /\ phase = "measuring"
    /\ t \in unmeasured
    /\ ~canceled
    /\ unmeasured' = unmeasured \ {t}
    /\ covers' = [l \in Line |->
                    IF l \in MergedLines(t) THEN covers[l] \cup {t} ELSE covers[l]]
    /\ UNCHANGED <<givens, canceled, scope, phase, err, walkVars, outVars>>

Measured ==
    /\ phase = "measuring"
    /\ unmeasured = {}
    /\ phase' = "opening"
    /\ UNCHANGED <<givens, canceled, planVars, err, walkVars, outVars>>

\* Mutant of MeasureFails: what was measured so far is made do with.
MeasureFailsKept ==
    /\ phase = "measuring"
    /\ unmeasured = {} => Test = {}
    /\ ~canceled
    /\ phase' = "opening"
    /\ UNCHANGED <<givens, canceled, planVars, err, walkVars, outVars>>

\* Whatever goes wrong costs the package its map, not the run its life.
MeasureFails ==
    /\ phase = "measuring"
    /\ unmeasured = {} => Test = {}
    /\ ~canceled
    /\ scope' = "package"
    /\ covers' = [l \in Line |-> {}]
    /\ phase' = "opening"
    /\ UNCHANGED <<givens, canceled, unmeasured, err, walkVars, outVars>>

-----------------------------------------------------------------------------
(* mutateFile and visitNode.                                               *)

OpenFile ==
    /\ phase = "opening"
    /\ ~canceled
    /\ phase' = "walking"
    /\ UNCHANGED <<givens, canceled, planVars, err, walkVars, outVars>>

\* The file is parsed unless it came with its types, and printed once.
ParseFails ==
    /\ phase = "opening"
    /\ ~canceled
    /\ Stop("failed")

AtNode ==
    /\ phase = "walking"
    /\ at \in Nodes
    /\ k = 0
    /\ ~canceled
    /\ UNCHANGED <<givens, canceled, planVars, phase, err, dedup, handed, tally>>

VisitFiltered ==
    /\ AtNode
    /\ Filtered(at)
    /\ at' = At(at).until + 1
    /\ UNCHANGED <<k, suppressed>>

\* Mutant of VisitSuppressed: only the node itself is left out.
VisitSuppressedAlone ==
    /\ AtNode
    /\ ~Filtered(at)
    /\ Anchored(at)
    /\ at' = at + 1
    /\ suppressed' = IF estimate THEN suppressed ELSE suppressed \cup {at}
    /\ UNCHANGED k

VisitSuppressed ==
    /\ AtNode
    /\ ~Filtered(at)
    /\ Anchored(at)
    /\ at' = At(at).until + 1
    /\ suppressed' = IF estimate THEN suppressed ELSE suppressed \cup {at}
    /\ UNCHANGED k

VisitNode ==
    /\ AtNode
    /\ ~Left(at)
    /\ k' = 1
    /\ UNCHANGED <<at, suppressed>>

LeaveNode ==
    /\ phase = "walking"
    /\ at \in Nodes
    /\ k = Len(At(at).offers) + 1
    /\ at' = at + 1
    /\ k' = 0
    /\ UNCHANGED <<givens, canceled, planVars, phase, err, dedup, outVars>>

EndWalk ==
    /\ phase = "walking"
    /\ at \notin Nodes
    /\ Stop("none")

-----------------------------------------------------------------------------
(* visitMutations.                                                         *)

AtOffer ==
    /\ phase = "walking"
    /\ at \in Nodes
    /\ k \in DOMAIN At(at).offers
    /\ UNCHANGED <<givens, canceled, planVars, phase, err, at, suppressed>>

\* bindMutators kept the operator out of this package's set.
NotOffered ==
    /\ AtOffer
    /\ ~Bound(at, k)
    /\ k' = k + 1
    /\ UNCHANGED <<dedup, handed, tally>>

Ranked ==
    /\ AtOffer
    /\ Bound(at, k)
    /\ ~canceled
    /\ dedup' = [dedup EXCEPT ![Key(at, k)] = @ + 1]
    /\ k' = k + 1

Chosen == replay \in {<<>>, <<Id(at, k)>>}

\* Mutant of SkipUnwanted: an id is counted when its mutant is run.
SkipBeforeRank ==
    /\ AtOffer
    /\ Bound(at, k)
    /\ ~canceled
    /\ ~Chosen
    /\ k' = k + 1
    /\ UNCHANGED <<dedup, handed, tally>>

SkipUnwanted ==
    /\ Ranked
    /\ ~Chosen
    /\ UNCHANGED <<handed, tally>>

Count ==
    /\ Ranked
    /\ Chosen
    /\ estimate
    /\ tally' = tally + 1
    /\ UNCHANGED handed

\* testArgs: under impact scope covering, and not even a test run when that is
\* empty, for the mutant has survived.
Tests(n) == IF scope = "impact" THEN covers[At(n).line] ELSE Test

HandOver ==
    /\ Ranked
    /\ Chosen
    /\ ~estimate
    /\ handed' = handed \cup
          {[node |-> at, offer |-> k, id |-> Id(at, k), tests |-> Tests(at)]}
    /\ UNCHANGED tally

RunFails ==
    /\ phase = "walking"
    /\ at \in Nodes /\ k \in DOMAIN At(at).offers
    /\ Bound(at, k) /\ Chosen /\ ~estimate /\ ~canceled
    /\ Stop("failed")

Done == phase = "ended" /\ UNCHANGED vars

Next ==
    \/ Cancel \/ SeeCanceled
    \/ \E t \in Test : MeasureTest(t)
    \/ Measured \/ MeasureFails
    \/ OpenFile \/ ParseFails
    \/ VisitFiltered \/ VisitSuppressed \/ VisitNode \/ LeaveNode \/ EndWalk
    \/ NotOffered \/ SkipUnwanted \/ Count \/ HandOver \/ RunFails
    \/ Done

Spec == Init /\ [][Next]_vars

-----------------------------------------------------------------------------
(* Properties.                                                             *)

Entry == [node : Nodes, offer : Nat, id : Keys \X Nat, tests : SUBSET Test]

TypeOK ==
    /\ file \in Files
    /\ types \in BOOLEAN /\ estimate \in BOOLEAN /\ canceled \in BOOLEAN
    /\ matched \subseteq Nodes
    /\ scope \in {"impact", "package"}
    /\ unmeasured \subseteq Test
    /\ covers \in [Line -> SUBSET Test]
    /\ phase \in {"measuring", "opening", "walking", "ended"}
    /\ err \in {"none", "canceled", "failed"}
    /\ at \in 1..Len(file.nodes) + 1
    /\ k \in Nat /\ (at \in Nodes => k <= Len(At(at).offers) + 1)
    /\ dedup \in [Keys -> Nat]
    /\ handed \subseteq Entry
    /\ tally \in Nat
    /\ suppressed \subseteq Nodes

\* No two mutants of a file share an id: a replay, a cached verdict and a comment
\* in a review each name one mutation (mutantID and idDeduper, where chains of
\* operators start in one place).
UniqueIds == \A a, b \in handed : a.id = b.id => a = b

\* A mutant has the same id in every run over the same source: the function
\* pattern, a directive, missing types, a replay and whatever else decides which
\* nodes this walk visits have no part in it.
StableIds == \A e \in handed : e.id = StableId(e.node, e.offer)

\* A walk that ends has handed over what is wanted and nothing else, and all of
\* it unless it failed: a replay finds its mutant, an estimate counts what a run
\* would do, and a directive takes out its subtree and is reported once.
WalkIsExact ==
    phase = "ended" =>
        LET given == {<<e.node, e.offer>> : e \in handed}
        IN  /\ given \subseteq Wanted
            /\ suppressed \subseteq ToReport
            /\ err = "none" =>
                 IF estimate
                 THEN tally = Cardinality(Wanted) /\ suppressed = {}
                 ELSE given = Wanted /\ suppressed = ToReport

\* Every test that executes a mutated node is among those that the mutant is
\* tested with: "running them could not possibly produce a different verdict".
NothingMissed == \A e \in handed : At(e.node).by \subseteq e.tests
=============================================================================
