--------------------------- MODULE PlannerProofs ---------------------------
(***************************************************************************)
(* Theorems about Planner for every set of packages, files, operators and  *)
(* requests: what the jobs of a run are, how much time a mutant has, and   *)
(* what an estimate counts, whatever the go command says and whenever the  *)
(* call is canceled.                                                       *)
(***************************************************************************)
EXTENDS Planner, FiniteSetTheorems, TLAPS

-----------------------------------------------------------------------------
(* The inductive invariant.                                                *)

\* Which call is where, and that nothing is planned before its stage.
FlowInv ==
    /\ req \in Request
    /\ stage \in Stages
    /\ stage \in {"closures", "baseline", "cache", "execute"} => ~Estimating
    /\ stage \in {"walk", "time"} => Estimating
    /\ stage \in {"resolve", "load", "types", "closures", "baseline", "cache"} =>
          jobs = <<>> /\ step = "scope" /\ at = 1 /\ fileAt = 1
    /\ at \in Nat \ {0}

\* The baseline was measured on tests that passed.
BaselineInv ==
    /\ times # <<>> => Selected \cap failing = {}
    /\ stage \in {"cache", "plan", "execute"} /\ ~Estimating /\ req.timeout = 0 =>
          Selected \cap failing = {}

\* A store is open only between its opening and the end of the run; a run that
\* left it open was planning a package.
StoreInv ==
    /\ store \in {"none", "open", "closed"}
    /\ store # "none" => ~Estimating /\ stage \in {"plan", "execute", "returned"}
    /\ stage = "returned" /\ store = "open" => at \in DOMAIN req.packages

\* What was precomputed for package p.
ScopeOf(x, p) ==
    /\ x.scope # req.scope => req.scope = "impact" /\ x.scope = "package"
    /\ x.cover = IF x.scope = "impact" THEN p ELSE Nothing
TreeOf(x, p) ==
    /\ x.closure \in {Nothing, p} /\ x.tce \in {Nothing, p}
    /\ x.scope = "full" => x.closure = Nothing
FingerprintOf(x, p) ==
    x.fingerprint = IF ~req.cache THEN NoFingerprint
                    ELSE IF x.closure # Nothing THEN OfClosure(p)
                    ELSE OfModule(ModuleOf[p])

\* What is remembered of a module is that module's, and the results so far are
\* the present package's.
PreInv ==
    /\ step \in {"scope", "tce", "fingerprint", "jobs"}
    /\ pre = [scope |-> pre.scope, cover |-> pre.cover, tce |-> pre.tce,
              closure |-> pre.closure, fingerprint |-> pre.fingerprint]
    /\ \A m \in DOMAIN memo : memo[m] = OfModule(m)
    /\ Planning /\ ~Estimating =>
          /\ step # "scope" => ScopeOf(pre, Here)
          /\ step \in {"fingerprint", "jobs"} => TreeOf(pre, Here)
          /\ step = "jobs" => FingerprintOf(pre, Here)

\* A job belongs to a package that was reached, agrees with the other jobs of
\* that package, and has what was precomputed for it and no other.
JobsInv ==
    /\ jobs \in Seq({jobs[i] : i \in DOMAIN jobs})
    /\ \A i \in DOMAIN jobs :
          /\ \E k \in DOMAIN req.packages : k <= at /\ jobs[i].pkg = req.packages[k]
          /\ jobs[i].mutators \cap TypedOperator # {} =>
                jobs[i].pkg \in typed /\ (jobs[i].tree \/ jobs[i].file \in CgoFile)
          /\ ~Estimating =>
                /\ ScopeOf(jobs[i], jobs[i].pkg)
                /\ TreeOf(jobs[i], jobs[i].pkg)
                /\ FingerprintOf(jobs[i], jobs[i].pkg)
                /\ \A k \in DOMAIN jobs : jobs[k].pkg = jobs[i].pkg =>
                      /\ jobs[k].scope = jobs[i].scope
                      /\ jobs[k].fingerprint = jobs[i].fingerprint
                /\ Planning /\ jobs[i].pkg = Here =>
                      /\ step = "jobs"
                      /\ jobs[i].scope = pre.scope
                      /\ jobs[i].fingerprint = pre.fingerprint

\* A job is the k-th file of the n-th package; plan has passed that place.
JobOf(j, n, k) == j.pkg = req.packages[n] /\ j.file = FilesOf[req.packages[n]][k]
Behind(n, k) == n < at \/ (n = at /\ k < fileAt)
Mutates(n, k) == /\ ModuleOf[req.packages[n]] # NoModule
                 /\ IsMutable(FilesOf[req.packages[n]][k])

\* The jobs are the mutable files of the places passed, each once and in order.
FilesInv ==
    /\ at <= Len(req.packages) + 1
    /\ fileAt \in Nat \ {0}
    /\ Planning /\ ~AddingJobs => fileAt = 1
    /\ Planned => at \notin DOMAIN req.packages
    /\ \A i \in DOMAIN jobs : \E n \in DOMAIN req.packages :
          \E k \in DOMAIN FilesOf[req.packages[n]] :
             Behind(n, k) /\ Mutates(n, k) /\ JobOf(jobs[i], n, k)
    /\ \A n \in DOMAIN req.packages : \A k \in DOMAIN FilesOf[req.packages[n]] :
          Behind(n, k) /\ Mutates(n, k) => \E i \in DOMAIN jobs : JobOf(jobs[i], n, k)
    /\ \A i, k \in DOMAIN jobs :
          /\ jobs[i].pkg = jobs[k].pkg /\ jobs[i].file = jobs[k].file => i = k
          /\ i < k => Place(jobs[i].pkg) <= Place(jobs[k].pkg)

\* The measurements add up to the total, and the budget is what comes of it.
TimesInv ==
    /\ times \in Seq(Duration)
    /\ total \in Nat
    /\ \A i \in DOMAIN times : times[i] <= total
    /\ stage \in {"cache", "plan", "execute"} /\ req.timeout = 0 /\ ~Estimating =>
          timeout = Larger(MinBaselineTimeout, Mean * Cpus)

\* Estimate: what the walk of job i has reported, what was counted, and what
\* has been timed so far.
Reported(p) == UNION {{i} \X (left[i] + 1 .. Matches(jobs[i])) :
                         i \in {k \in DOMAIN jobs : jobs[k].pkg = p}}
Counting == Estimating /\ (stage \in {"walk", "time"} \/ (stage = "returned" /\ err = "none"))
Ended == stage \in {"time", "returned"}

WalkInv ==
    /\ DOMAIN left = DOMAIN jobs /\ DOMAIN walks = DOMAIN jobs
    /\ \A i \in DOMAIN jobs : /\ left[i] \in 0 .. Matches(jobs[i])
                              /\ walks[i] = "done" \/ Ended => left[i] = 0

\* Every match reported is counted for its package, which has its place then.
TallyInv ==
    /\ tally = [order |-> tally.order, hits |-> tally.hits]
    /\ tally.hits \in [Package -> Nat]
    /\ \A p \in Package : /\ IsFiniteSet(Reported(p))
                          /\ tally.hits[p] = Cardinality(Reported(p))
    /\ tally.order \in Seq(Package)
    /\ \A p \in Package : tally.hits[p] > 0 <=> \E i \in DOMAIN tally.order : tally.order[i] = p
    /\ \A i, k \in DOMAIN tally.order : tally.order[i] = tally.order[k] => i = k

PreviewInv ==
    /\ preview \in Seq({preview[i] : i \in DOMAIN preview})
    /\ Len(preview) <= Len(tally.order)
    /\ preview # <<>> => Ended
    /\ \A i \in DOMAIN preview : /\ preview[i].pkg = tally.order[i]
                                 /\ preview[i].mutants = tally.hits[tally.order[i]]
    /\ stage = "returned" => Len(preview) = Len(tally.order)

EstimateInv ==
    /\ stage # "returned" => err = "none"
    /\ ~Counting /\ stage # "returned" => tally = NoTally /\ preview = <<>>
    /\ Counting => WalkInv /\ TallyInv /\ PreviewInv

\* A job has registered operators alone.
OperatorsInv ==
    /\ stage \notin {"resolve", "returned"} => Mutators \subseteq Operator
    /\ \A i \in DOMAIN jobs : jobs[i].mutators \subseteq Operator

IInv == /\ FlowInv /\ BaselineInv /\ StoreInv /\ PreInv /\ JobsInv
        /\ FilesInv /\ TimesInv /\ OperatorsInv /\ EstimateInv

\* A sequence that grows by one element.
LEMMA Appended ==
    ASSUME NEW s, s \in Seq({s[i] : i \in DOMAIN s}), NEW e, NEW t, t = Append(s, e)
    PROVE  /\ t \in Seq({t[i] : i \in DOMAIN t})
           /\ Len(s) + 1 \notin DOMAIN s
           /\ DOMAIN t = DOMAIN s \cup {Len(s) + 1}
           /\ t[Len(s) + 1] = e
           /\ \A i \in DOMAIN s : t[i] = s[i]
<1> DEFINE S == {s[i] : i \in DOMAIN s}
<1>1. s \in Seq(S \cup {e})
  OBVIOUS
<1>2. /\ Len(t) = Len(s) + 1 /\ Len(s) \in Nat
      /\ DOMAIN s = 1 .. Len(s) /\ DOMAIN t = 1 .. Len(s) + 1
      /\ t[Len(s) + 1] = e
      /\ \A i \in DOMAIN s : t[i] = s[i]
      /\ t \in Seq(S \cup {e})
  BY <1>1
<1>3. \A i \in 1 .. Len(t) : t[i] \in {t[k] : k \in DOMAIN t}
  BY <1>2
<1> QED
  BY <1>2, <1>3

\* A request names its packages once.
LEMMA RequestFacts ==
    ASSUME req \in Request
    PROVE  /\ req.packages \in Seq(Package)
           /\ \A i, k \in DOMAIN req.packages : req.packages[i] = req.packages[k] => i = k
           /\ req.scope \in Scope
BY PlannerAssumption DEF RequestType

-----------------------------------------------------------------------------
(* It holds at the start and is preserved by every step.                   *)

LEMMA InitIInv == Init => IInv
<1> SUFFICES ASSUME Init PROVE IInv
  OBVIOUS
<1> USE DEF Init
<1>1. FlowInv
  BY DEF FlowInv, Stages
<1>2. BaselineInv
  BY DEF BaselineInv, Estimating
<1>3. StoreInv
  BY DEF StoreInv
<1>4. PreInv
  BY DEF PreInv, Unplanned, Planning
<1>5. JobsInv
  BY DEF JobsInv
<1>6. FilesInv
  <2>1. /\ req.packages \in Seq(Package) /\ Len(req.packages) \in Nat
        /\ \A p \in Package : FilesOf[p] \in Seq(STRING)
    BY RequestFacts, PlannerAssumption
  <2>2. \A n \in DOMAIN req.packages : \A k \in DOMAIN FilesOf[req.packages[n]] : ~Behind(n, k)
    BY <2>1 DEF Behind
  <2> QED
    BY <2>1, <2>2 DEF FilesInv, Planning, Planned
<1>7. TimesInv
  BY DEF TimesInv
<1>8. OperatorsInv
  BY DEF OperatorsInv
<1>9. EstimateInv
  BY DEF EstimateInv, Counting
<1> QED
  BY <1>1, <1>2, <1>3, <1>4, <1>5, <1>6, <1>7, <1>8, <1>9 DEF IInv

\* The actions that neither plan nor touch a job: everything but the package loop.
Elsewhere == \/ Cancel \/ Resolve \/ Load \/ SkipTypes \/ LoadTyped \/ LoadClosures
             \/ ExplicitTimeout \/ TimeSuite \/ DeriveTimeout \/ OpenCache
             \/ EndPlan \/ Execute \/ Preview

\* The package loop.
Loop == \/ SkipPackage \/ PlanScope \/ PlanTCE \/ PlanFingerprint \/ AddJob \/ EndPackage

LEMMA FlowStep == IInv /\ [Next]_vars => FlowInv'
<1> SUFFICES ASSUME IInv, [Next]_vars PROVE FlowInv'
  OBVIOUS
<1> USE DEF IInv, FlowInv, Stages, Estimating, given, Fail, FailsWith, plans
<1>1. CASE Cancel
  BY <1>1 DEF Cancel
<1>2. CASE Resolve \/ Load \/ SkipTypes \/ LoadTyped \/ LoadClosures
  BY <1>2 DEF Resolve, Load, SkipTypes, LoadTyped, LoadClosures, AfterTypes
<1>3. CASE ExplicitTimeout \/ TimeSuite \/ DeriveTimeout \/ OpenCache
  BY <1>3 DEF ExplicitTimeout, TimeSuite, DeriveTimeout, OpenCache
<1>4. CASE Loop
  <2>1. CASE PlanScope \/ PlanTCE
    BY <2>1 DEF PlanScope, PlanTCE, Computing, Planning, PlanFails, plans
  <2>2. CASE PlanFingerprint
    BY <2>2 DEF PlanFingerprint, Computing, Planning, PlanFails, plans
  <2>3. CASE SkipPackage \/ AddJob \/ EndPackage
    BY <2>3 DEF SkipPackage, AddJob, EndPackage, AddingJobs, Planning
  <2> QED
    BY <1>4, <2>1, <2>2, <2>3 DEF Loop
<1>5. CASE EndPlan \/ Execute
  BY <1>5 DEF EndPlan, Execute
<1>6. CASE Preview
  BY <1>6 DEF Preview, StartJob, Hit, EndWalk, WalksEnd, TimePackage, Previewed
<1>7. CASE UNCHANGED vars
  BY <1>7 DEF vars
<1> QED
  BY <1>1, <1>2, <1>3, <1>4, <1>5, <1>6, <1>7 DEF Next, Progress, Prologue, Plan, Loop

LEMMA BaselineStep == IInv /\ [Next]_vars => BaselineInv'
<1> SUFFICES ASSUME IInv, [Next]_vars PROVE BaselineInv'
  OBVIOUS
<1> USE DEF IInv, BaselineInv, Estimating, Selected, given, Fail, FailsWith
<1>1. CASE ExplicitTimeout \/ OpenCache
  BY <1>1 DEF ExplicitTimeout, OpenCache, FlowInv, clock
<1>2. CASE TimeSuite
  BY <1>2 DEF TimeSuite, FlowInv
<1>3. CASE DeriveTimeout
  BY <1>3, PlannerAssumption DEF DeriveTimeout, FlowInv
<1>4. CASE Cancel \/ Resolve \/ Load \/ SkipTypes \/ LoadTyped \/ LoadClosures
  BY <1>4 DEF Cancel, Resolve, Load, SkipTypes, LoadTyped, LoadClosures, AfterTypes,
              FlowInv, clock
<1>5. CASE SkipPackage \/ PlanScope \/ PlanTCE \/ PlanFingerprint \/ AddJob \/ EndPackage
  BY <1>5 DEF SkipPackage, PlanScope, PlanTCE, PlanFingerprint, AddJob, EndPackage,
              AddingJobs, Computing, Planning, PlanFails, plans, clock
<1>6. CASE EndPlan \/ Execute
  BY <1>6 DEF EndPlan, Execute, clock
<1>7. CASE Preview
  BY <1>7 DEF Preview, StartJob, Hit, EndWalk, WalksEnd, TimePackage, Previewed, clock
<1>8. CASE UNCHANGED vars
  BY <1>8 DEF vars, clock
<1> QED
  BY <1>1, <1>2, <1>3, <1>4, <1>5, <1>6, <1>7, <1>8 DEF Next, Progress, Prologue, Plan

LEMMA StoreStep == IInv /\ [Next]_vars => StoreInv'
<1> SUFFICES ASSUME IInv, [Next]_vars PROVE StoreInv'
  OBVIOUS
<1> USE DEF IInv, FlowInv, StoreInv, Estimating, given, plans, Fail, FailsWith
<1>1. CASE OpenCache
  BY <1>1 DEF OpenCache
<1>2. CASE Execute \/ EndPlan
  BY <1>2 DEF Execute, EndPlan
<1>3. CASE Cancel \/ Resolve \/ Load \/ SkipTypes \/ LoadTyped \/ LoadClosures
  BY <1>3 DEF Cancel, Resolve, Load, SkipTypes, LoadTyped, LoadClosures, AfterTypes
<1>4. CASE ExplicitTimeout \/ TimeSuite \/ DeriveTimeout
  BY <1>4 DEF ExplicitTimeout, TimeSuite, DeriveTimeout
<1>5. CASE PlanScope \/ PlanTCE \/ PlanFingerprint
  BY <1>5 DEF PlanScope, PlanTCE, PlanFingerprint, Computing, Planning, PlanFails, plans
<1>6. CASE SkipPackage \/ AddJob \/ EndPackage
  BY <1>6 DEF SkipPackage, AddJob, EndPackage, AddingJobs, Planning
<1>7. CASE Preview
  BY <1>7 DEF Preview, StartJob, Hit, EndWalk, WalksEnd, TimePackage, Previewed
<1>8. CASE UNCHANGED vars
  BY <1>8 DEF vars
<1> QED
  BY <1>1, <1>2, <1>3, <1>4, <1>5, <1>6, <1>7, <1>8 DEF Next, Progress, Prologue, Plan

\* Outside the package loop no job and nothing precomputed changes, and the
\* planning of a run begins with nothing planned.
LEMMA ElsewhereSame ==
    ASSUME IInv, Elsewhere \/ UNCHANGED vars
    PROVE  /\ UNCHANGED <<req, at, fileAt, step, pre, memo, jobs>>
           /\ typed' = typed \/ jobs = <<>>
           /\ stage' = "plan" => stage = "plan" \/ (jobs = <<>> /\ step = "scope" /\ fileAt = 1)
           /\ Planned' => Planned \/ at \notin DOMAIN req.packages
<1> USE DEF IInv, FlowInv, Estimating, Planned, given, plans, Fail, FailsWith
<1>1. CASE Cancel \/ Resolve \/ Load \/ SkipTypes \/ LoadTyped \/ LoadClosures
  BY <1>1 DEF Cancel, Resolve, Load, SkipTypes, LoadTyped, LoadClosures, AfterTypes, loads
<1>2. CASE ExplicitTimeout \/ TimeSuite \/ DeriveTimeout \/ OpenCache
  BY <1>2 DEF ExplicitTimeout, TimeSuite, DeriveTimeout, OpenCache, loads
<1>3. CASE EndPlan \/ Execute
  BY <1>3 DEF EndPlan, Execute, loads
<1>4. CASE Preview
  <2>1. CASE StartJob \/ Hit \/ EndWalk \/ WalksEnd
    BY <2>1 DEF StartJob, Hit, EndWalk, WalksEnd, loads
  <2>2. CASE TimePackage \/ Previewed
    BY <2>2 DEF TimePackage, Previewed, loads
  <2> QED
    BY <1>4, <2>1, <2>2 DEF Preview
<1>5. CASE UNCHANGED vars
  BY <1>5 DEF vars
<1> QED
  BY <1>1, <1>2, <1>3, <1>4, <1>5 DEF Elsewhere

LEMMA PreStep == IInv /\ [Next]_vars => PreInv'
<1> SUFFICES ASSUME IInv, [Next]_vars PROVE PreInv'
  OBVIOUS
<1> USE DEF IInv, PreInv, Estimating, Planning, Here
<1>1. CASE Elsewhere \/ UNCHANGED vars
  BY <1>1, ElsewhereSame DEF ScopeOf, TreeOf, FingerprintOf
<1>2. CASE SkipPackage
  BY <1>2 DEF SkipPackage, given, FlowInv
<1>3. CASE PlanScope
  <2> USE DEF PlanScope, Computing, given
  <2>1. CASE PlanFails("canceled")
    BY <1>3, <2>1 DEF PlanFails, plans, Fail
  <2>2. CASE pre' = [Unplanned EXCEPT !.scope = req.scope] /\ req.scope # "impact"
    BY <1>3, <2>2 DEF Unplanned, ScopeOf
  <2>3. CASE pre' = [Unplanned EXCEPT !.scope = "impact", !.cover = Here] /\ req.scope = "impact"
    BY <1>3, <2>3 DEF PlanFails, plans, Fail, Unplanned, ScopeOf
  <2>4. CASE pre' = [Unplanned EXCEPT !.scope = "package"] /\ req.scope = "impact"
    BY <1>3, <2>4 DEF PlanFails, plans, Fail, Unplanned, ScopeOf
  <2> QED
    BY <1>3, <2>1, <2>2, <2>3, <2>4
<1>4. CASE PlanTCE
  <2> USE DEF PlanTCE, Computing, given
  <2>1. CASE PlanFails("canceled")
    BY <1>4, <2>1 DEF PlanFails, plans, Fail
  <2>2. CASE \E t, c \in {Here, Nothing} :
               /\ pre' = [pre EXCEPT !.tce = t, !.closure = c]
               /\ pre.scope = "full" => c = Nothing
               /\ step' = "fingerprint" /\ UNCHANGED <<stage, at, memo>>
    BY <1>4, <2>2 DEF ScopeOf, TreeOf
  <2> QED
    BY <1>4, <2>1, <2>2
<1>5. CASE PlanFingerprint
  <2> USE DEF PlanFingerprint, Computing, given, ScopeOf, TreeOf
  <2>1. CASE PlanFails("canceled") \/ PlanFails("fingerprint")
    BY <1>5, <2>1 DEF PlanFails, plans, Fail
  <2>2. CASE ~req.cache /\ pre' = [pre EXCEPT !.fingerprint = NoFingerprint]
    BY <1>5, <2>2 DEF PlanFails, plans, Fail, FingerprintOf
  <2>3. CASE req.cache /\ Remembered /\ pre' = [pre EXCEPT !.fingerprint = memo[ModuleOf[Here]]]
    BY <1>5, <2>3 DEF PlanFails, plans, Fail, FingerprintOf, Remembered
  <2>4. CASE req.cache /\ ~Remembered /\ pre' = [pre EXCEPT !.fingerprint = Fresh]
    BY <1>5, <2>4 DEF PlanFails, plans, Fail, FingerprintOf, Remembered, Fresh, TreeOf
  <2> QED
    BY <1>5, <2>1, <2>2, <2>3, <2>4
<1>6. CASE AddJob
  BY <1>6 DEF AddJob, given, ScopeOf, TreeOf, FingerprintOf
<1>7. CASE EndPackage
  BY <1>7 DEF EndPackage, given, Unplanned
<1> QED
  BY <1>1, <1>2, <1>3, <1>4, <1>5, <1>6, <1>7 DEF Next, Progress, Prologue, Plan, Elsewhere

\* No job is yet of the package that comes next.
LEMMA NoJobAhead ==
    ASSUME IInv, Planning, at + 1 \in DOMAIN req.packages, NEW i \in DOMAIN jobs
    PROVE  jobs[i].pkg # req.packages[at + 1]
<1>1. PICK k \in DOMAIN req.packages : k <= at /\ jobs[i].pkg = req.packages[k]
  BY DEF IInv, JobsInv
<1>2. k # at + 1
  BY <1>1, RequestFacts DEF IInv, FlowInv
<1> QED
  BY <1>1, <1>2, RequestFacts DEF IInv, FlowInv

LEMMA JobsStep == IInv /\ [Next]_vars => JobsInv'
<1> SUFFICES ASSUME IInv, [Next]_vars PROVE JobsInv'
  OBVIOUS
<1>1. CASE Elsewhere \/ UNCHANGED vars
  <2>1. UNCHANGED <<req, at, step, pre, memo, jobs>>
    BY <1>1, ElsewhereSame
  <2>2. CASE jobs = <<>>
    BY <2>1, <2>2 DEF JobsInv
  <2>3. CASE typed' = typed /\ (stage' = "plan" => stage = "plan")
    BY <2>1, <2>3 DEF IInv, JobsInv, ScopeOf, TreeOf, FingerprintOf, Planning, Here, Estimating
  <2> QED
    BY <1>1, <2>2, <2>3, ElsewhereSame
<1>2. CASE SkipPackage \/ EndPackage
  <2>1. /\ Planning
        /\ UNCHANGED <<req, jobs, typed>>
        /\ at' = at + 1
    BY <1>2 DEF SkipPackage, EndPackage, AddingJobs, given, loads
  <2>2. at \in Nat /\ jobs \in Seq({jobs[i] : i \in DOMAIN jobs})
    BY DEF IInv, FlowInv, JobsInv
  <2>3. \A i \in DOMAIN jobs : ~ (Planning' /\ jobs[i].pkg = Here')
    BY <2>1, NoJobAhead DEF Planning, Here
  <2>4. \A i \in DOMAIN jobs : \E k \in DOMAIN req.packages : k <= at + 1 /\ jobs[i].pkg = req.packages[k]
    <3> TAKE i \in DOMAIN jobs
    <3>1. PICK k \in DOMAIN req.packages : k <= at /\ jobs[i].pkg = req.packages[k]
      BY DEF IInv, JobsInv
    <3>2. k \in Nat
      BY RequestFacts DEF IInv, FlowInv
    <3> QED
      BY <2>2, <3>1, <3>2
  <2> QED
    BY <2>1, <2>2, <2>3, <2>4 DEF IInv, JobsInv, ScopeOf, TreeOf, FingerprintOf, Estimating
<1>3. CASE PlanScope \/ PlanTCE \/ PlanFingerprint
  <2>1. /\ Planning /\ ~Estimating /\ step # "jobs"
        /\ UNCHANGED <<req, jobs, typed, at>>
    BY <1>3 DEF PlanScope, PlanTCE, PlanFingerprint, Computing, PlanFails, plans, given, loads
  <2>2. \A i \in DOMAIN jobs : jobs[i].pkg # Here
    BY <2>1 DEF IInv, JobsInv
  <2> QED
    BY <2>1, <2>2 DEF IInv, JobsInv, ScopeOf, TreeOf, FingerprintOf, Estimating, Planning, Here
<1>4. CASE AddJob /\ ~IsMutable(NextFile)
  <2>1. UNCHANGED <<req, stage, typed, at, step, pre, jobs>>
    BY <1>4 DEF AddJob, given, loads
  <2> QED
    BY <2>1 DEF IInv, JobsInv, ScopeOf, TreeOf, FingerprintOf, Estimating, Planning, Here
<1>5. CASE AddJob /\ IsMutable(NextFile)
  <2> DEFINE e == Job(Here, NextFile)
             n == Len(jobs) + 1
  <2>1. /\ Planning /\ step = (IF Estimating THEN "scope" ELSE "jobs")
        /\ jobs' = Append(jobs, e)
        /\ UNCHANGED <<req, stage, typed, at, step, pre>>
    BY <1>5 DEF AddJob, AddingJobs, given, loads
  <2>2. jobs \in Seq({jobs[i] : i \in DOMAIN jobs})
    BY DEF IInv, JobsInv
  <2>3. /\ jobs' \in Seq({jobs'[i] : i \in DOMAIN jobs'})
        /\ n \notin DOMAIN jobs
        /\ DOMAIN jobs' = DOMAIN jobs \cup {n}
        /\ jobs'[n] = e
        /\ \A i \in DOMAIN jobs : jobs'[i] = jobs[i]
    <3> HIDE DEF e
    <3> QED
      BY <2>1, <2>2, Appended
  <2>4. /\ e.pkg = Here /\ e.scope = pre.scope /\ e.cover = pre.cover /\ e.tce = pre.tce
        /\ e.closure = pre.closure /\ e.fingerprint = pre.fingerprint
    BY DEF Job
  <2>5. e.mutators \cap TypedOperator # {} => e.pkg \in typed /\ (e.tree \/ e.file \in CgoFile)
    BY DEF Job, BoundMutators, TypedTree, NeedsTypes
  <2>6. ~Estimating => ScopeOf(e, e.pkg) /\ TreeOf(e, e.pkg) /\ FingerprintOf(e, e.pkg)
    <3> HIDE DEF e
    <3> QED
      BY <2>1, <2>4 DEF IInv, PreInv, ScopeOf, TreeOf, FingerprintOf
  <2> HIDE DEF e, n
  <2>7. at \in DOMAIN req.packages /\ at <= at
    BY <2>1 DEF Planning, IInv, FlowInv
  <2>8. \A i \in DOMAIN jobs' :
          /\ \E k \in DOMAIN req.packages : k <= at /\ jobs'[i].pkg = req.packages[k]
          /\ jobs'[i].mutators \cap TypedOperator # {} =>
                jobs'[i].pkg \in typed /\ (jobs'[i].tree \/ jobs'[i].file \in CgoFile)
          /\ ~Estimating =>
                ScopeOf(jobs'[i], jobs'[i].pkg) /\ TreeOf(jobs'[i], jobs'[i].pkg)
                   /\ FingerprintOf(jobs'[i], jobs'[i].pkg)
    BY <2>3, <2>4, <2>5, <2>6, <2>7 DEF IInv, JobsInv, Here
  <2>9. ~Estimating =>
          \A i \in DOMAIN jobs' : jobs'[i].pkg = Here =>
                jobs'[i].scope = pre.scope /\ jobs'[i].fingerprint = pre.fingerprint
    BY <2>1, <2>3, <2>4 DEF IInv, JobsInv
  <2>10. ~Estimating =>
          \A i, k \in DOMAIN jobs' : jobs'[k].pkg = jobs'[i].pkg =>
                jobs'[k].scope = jobs'[i].scope /\ jobs'[k].fingerprint = jobs'[i].fingerprint
    BY <2>3, <2>4, <2>9 DEF IInv, JobsInv
  <2> QED
    BY <2>1, <2>3, <2>8, <2>9, <2>10
       DEF JobsInv, ScopeOf, TreeOf, FingerprintOf, Estimating, Planning, Here
<1> QED
  BY <1>1, <1>2, <1>3, <1>4, <1>5 DEF Next, Progress, Prologue, Plan, Elsewhere

-----------------------------------------------------------------------------
(* The files.                                                              *)

LEMMA PlaceOf ==
    ASSUME req \in Request, NEW n \in DOMAIN req.packages
    PROVE  Place(req.packages[n]) = n
BY RequestFacts DEF Place

LEMMA FilesStep == IInv /\ [Next]_vars => FilesInv'
<1> SUFFICES ASSUME IInv, [Next]_vars PROVE FilesInv'
  OBVIOUS
<1> USE DEF Behind, Mutates, JobOf
<1>0. /\ req \in Request /\ req.packages \in Seq(Package)
      /\ at \in Nat \ {0} /\ fileAt \in Nat \ {0}
      /\ \A i, k \in DOMAIN req.packages : req.packages[i] = req.packages[k] => i = k
      /\ \A p \in Package : FilesOf[p] \in Seq(STRING)
  BY RequestFacts, PlannerAssumption DEF IInv, FlowInv, FilesInv
<1>1. CASE Elsewhere \/ UNCHANGED vars
  <2>1. /\ UNCHANGED <<req, at, fileAt, step, jobs>>
        /\ stage' = "plan" => stage = "plan" \/ fileAt = 1
        /\ Planned' => Planned \/ at \notin DOMAIN req.packages
    BY <1>1, ElsewhereSame
  <2>2. (Planning /\ ~AddingJobs => fileAt = 1)'
    BY <2>1 DEF IInv, FilesInv, Planning, AddingJobs, Skipped, Here, Estimating
  <2> QED
    BY <2>1, <2>2 DEF IInv, FilesInv, Place
<1>2. CASE PlanScope \/ PlanTCE \/ PlanFingerprint
  <2>1. /\ Planning /\ ~AddingJobs
        /\ UNCHANGED <<req, at, fileAt, jobs>>
        /\ stage' \in {"plan", "returned"}
    BY <1>2 DEF PlanScope, PlanTCE, PlanFingerprint, Computing, PlanFails, Fail, plans, given,
                Planning, AddingJobs
  <2>2. fileAt = 1
    BY <2>1 DEF IInv, FilesInv
  <2> QED
    BY <2>1, <2>2 DEF IInv, FilesInv, Place, Planned
<1>3. CASE SkipPackage \/ EndPackage
  <2>1. /\ Planning
        /\ UNCHANGED <<req, stage, jobs>>
        /\ at' = at + 1 /\ fileAt' = 1
        /\ Skipped \/ fileAt \notin DOMAIN FilesOf[Here]
    <3>1. CASE EndPackage
      BY <3>1 DEF EndPackage, AddingJobs, given
    <3>2. CASE SkipPackage
      BY <3>2 DEF SkipPackage, AddingJobs, IInv, FilesInv, given
    <3> QED
      BY <1>3, <3>1, <3>2
  <2>2. at \in DOMAIN req.packages /\ at + 1 <= Len(req.packages) + 1 /\ stage = "plan"
    BY <1>0, <2>1 DEF Planning
  <2>3. ASSUME NEW n \in DOMAIN req.packages, NEW k \in DOMAIN FilesOf[req.packages[n]]
        PROVE  /\ Behind(n, k) => Behind(n, k)'
               /\ Behind(n, k)' /\ Mutates(n, k) => Behind(n, k)
    <3>1. n \in Nat /\ k \in Nat \ {0} /\ DOMAIN FilesOf[req.packages[n]] = 1 .. Len(FilesOf[req.packages[n]])
      BY <1>0
    <3>2. CASE n # at
      BY <1>0, <2>1, <3>1, <3>2
    <3>3. CASE n = at /\ Skipped
      <4>1. ~Mutates(n, k)
        BY <3>3 DEF Skipped, Here
      <4> QED
        BY <1>0, <2>1, <3>3, <4>1
    <3>4. CASE n = at /\ fileAt \notin DOMAIN FilesOf[Here]
      BY <1>0, <2>1, <3>1, <3>4 DEF Here
    <3> QED
      BY <2>1, <3>2, <3>3, <3>4
  <2> HIDE DEF Behind
  <2>4. \A i \in DOMAIN jobs : \E n \in DOMAIN req.packages :
          \E k \in DOMAIN FilesOf[req.packages[n]] :
             Behind(n, k)' /\ Mutates(n, k) /\ JobOf(jobs[i], n, k)
    BY <2>3 DEF IInv, FilesInv
  <2>5. \A n \in DOMAIN req.packages : \A k \in DOMAIN FilesOf[req.packages[n]] :
          Behind(n, k)' /\ Mutates(n, k) => \E i \in DOMAIN jobs : JobOf(jobs[i], n, k)
    BY <2>3 DEF IInv, FilesInv
  <2>6. /\ (at <= Len(req.packages) + 1)' /\ (fileAt \in Nat \ {0})'
        /\ (Planning /\ ~AddingJobs => fileAt = 1)' /\ ~Planned'
    BY <2>1, <2>2 DEF Planned
  <2>7. (\A i \in DOMAIN jobs : \E n \in DOMAIN req.packages :
            \E k \in DOMAIN FilesOf[req.packages[n]] :
               Behind(n, k) /\ Mutates(n, k) /\ JobOf(jobs[i], n, k))'
    BY <2>1, <2>4
  <2>8. (\A n \in DOMAIN req.packages : \A k \in DOMAIN FilesOf[req.packages[n]] :
            Behind(n, k) /\ Mutates(n, k) => \E i \in DOMAIN jobs : JobOf(jobs[i], n, k))'
    BY <2>1, <2>5
  <2>9. (\A i, k \in DOMAIN jobs :
            /\ jobs[i].pkg = jobs[k].pkg /\ jobs[i].file = jobs[k].file => i = k
            /\ i < k => Place(jobs[i].pkg) <= Place(jobs[k].pkg))'
    <3>1. \A p : Place(p)' = Place(p)
      BY <2>1 DEF Place
    <3>2. \A i, k \in DOMAIN jobs :
            /\ jobs[i].pkg = jobs[k].pkg /\ jobs[i].file = jobs[k].file => i = k
            /\ i < k => Place(jobs[i].pkg) <= Place(jobs[k].pkg)
      BY DEF IInv, FilesInv
    <3> QED
      BY <2>1, <3>1, <3>2
  <2> HIDE DEF Mutates, JobOf
  <2> QED
    BY <2>6, <2>7, <2>8, <2>9 DEF FilesInv
<1>4. CASE AddJob
  <2>1. /\ Planning /\ AddingJobs
        /\ at \in DOMAIN req.packages
        /\ fileAt \in DOMAIN FilesOf[Here]
        /\ fileAt' = fileAt + 1
        /\ UNCHANGED <<req, stage, at, step>>
        /\ stage = "plan"
    BY <1>4 DEF AddJob, AddingJobs, Planning, given
  <2>2. AddingJobs' /\ Place(Here)' = Place(Here)
    BY <2>1 DEF AddingJobs, Planning, Skipped, Here, Estimating, Place
  <2>3. ASSUME NEW n \in DOMAIN req.packages, NEW k \in DOMAIN FilesOf[req.packages[n]]
        PROVE  Behind(n, k)' <=> Behind(n, k) \/ (n = at /\ k = fileAt)
    BY <1>0, <2>1
  <2>4. CASE ~IsMutable(NextFile)
    <3>1. jobs' = jobs
      BY <1>4, <2>4 DEF AddJob
    <3>2. ~Mutates(at, fileAt)
      BY <2>4 DEF NextFile, Here
    <3> HIDE DEF Behind, Mutates
    <3>3. \A i \in DOMAIN jobs : \E n \in DOMAIN req.packages :
            \E k \in DOMAIN FilesOf[req.packages[n]] :
               Behind(n, k)' /\ Mutates(n, k) /\ JobOf(jobs[i], n, k)
      BY <2>3 DEF IInv, FilesInv
    <3>4. \A n \in DOMAIN req.packages : \A k \in DOMAIN FilesOf[req.packages[n]] :
            Behind(n, k)' /\ Mutates(n, k) => \E i \in DOMAIN jobs : JobOf(jobs[i], n, k)
      BY <2>3, <3>2 DEF IInv, FilesInv
    <3>5. fileAt' \in Nat \ {0} /\ at <= Len(req.packages) + 1 /\ ~Planned
      BY <1>0, <2>1 DEF Planned
    <3>6. \A i, k \in DOMAIN jobs :
            /\ jobs[i].pkg = jobs[k].pkg /\ jobs[i].file = jobs[k].file => i = k
            /\ i < k => Place(jobs[i].pkg) <= Place(jobs[k].pkg)
      BY DEF IInv, FilesInv
    <3> QED
      BY <2>1, <2>2, <3>1, <3>3, <3>4, <3>5, <3>6 DEF FilesInv, Planned, Place, Mutates
  <2>5. CASE IsMutable(NextFile)
    <3> DEFINE e == Job(Here, NextFile)
               m == Len(jobs) + 1
    <3>1. jobs' = Append(jobs, e) /\ jobs \in Seq({jobs[i] : i \in DOMAIN jobs})
      BY <1>4, <2>5 DEF AddJob, IInv, JobsInv
    <3>2. /\ m \notin DOMAIN jobs
          /\ DOMAIN jobs' = DOMAIN jobs \cup {m}
          /\ jobs'[m] = e
          /\ \A i \in DOMAIN jobs : jobs'[i] = jobs[i]
      <4> HIDE DEF e
      <4> QED
        BY <3>1, Appended
    <3>3. \A i \in DOMAIN jobs : i < m /\ ~ (m < i)
      BY <3>1
    <3>4. JobOf(e, at, fileAt) /\ Mutates(at, fileAt)
      BY <2>1, <2>5 DEF Job, NextFile, Here, AddingJobs, Skipped
    <3> HIDE DEF e, m
    <3>5. \A i \in DOMAIN jobs : ~ (jobs[i].pkg = e.pkg /\ jobs[i].file = e.file)
      <4> SUFFICES ASSUME NEW i \in DOMAIN jobs, jobs[i].pkg = e.pkg, jobs[i].file = e.file
                   PROVE  FALSE
        OBVIOUS
      <4>1. PICK n \in DOMAIN req.packages : \E k \in DOMAIN FilesOf[req.packages[n]] :
               Behind(n, k) /\ JobOf(jobs[i], n, k)
        BY DEF IInv, FilesInv
      <4>2. PICK k \in DOMAIN FilesOf[req.packages[n]] : Behind(n, k) /\ JobOf(jobs[i], n, k)
        BY <4>1
      <4>3. n = at
        BY <1>0, <2>1, <3>4, <4>2
      <4>4. k = fileAt
        BY <1>0, <2>1, <3>4, <4>2, <4>3, PlannerAssumption DEF Here
      <4> QED
        BY <1>0, <4>2, <4>3, <4>4
    <3>6. \A i \in DOMAIN jobs : Place(jobs[i].pkg) <= Place(e.pkg)
      <4> TAKE i \in DOMAIN jobs
      <4>1. PICK n \in DOMAIN req.packages : \E k \in DOMAIN FilesOf[req.packages[n]] :
               Behind(n, k) /\ JobOf(jobs[i], n, k)
        BY DEF IInv, FilesInv
      <4>2. n <= at /\ jobs[i].pkg = req.packages[n]
        BY <1>0, <4>1
      <4>3. Place(jobs[i].pkg) = n /\ Place(e.pkg) = at
        BY <1>0, <2>1, <3>4, <4>2, PlaceOf
      <4> QED
        BY <4>2, <4>3
    <3>7. Place(e.pkg) <= Place(e.pkg)
      BY <1>0, <2>1, <3>4, PlaceOf
    <3> HIDE DEF Behind, Mutates
    <3>8. \A i \in DOMAIN jobs' : \E n \in DOMAIN req.packages :
            \E k \in DOMAIN FilesOf[req.packages[n]] :
               Behind(n, k)' /\ Mutates(n, k) /\ JobOf(jobs'[i], n, k)
      <4> TAKE i \in DOMAIN jobs'
      <4>1. CASE i = m
        BY <2>1, <2>3, <3>2, <3>4, <4>1 DEF Here
      <4>2. CASE i \in DOMAIN jobs
        BY <2>3, <3>2, <4>2 DEF IInv, FilesInv
      <4> QED
        BY <3>2, <4>1, <4>2
    <3>9. \A n \in DOMAIN req.packages : \A k \in DOMAIN FilesOf[req.packages[n]] :
            Behind(n, k)' /\ Mutates(n, k) => \E i \in DOMAIN jobs' : JobOf(jobs'[i], n, k)
      <4> SUFFICES ASSUME NEW n \in DOMAIN req.packages,
                          NEW k \in DOMAIN FilesOf[req.packages[n]],
                          Behind(n, k)', Mutates(n, k)
                   PROVE  \E i \in DOMAIN jobs' : JobOf(jobs'[i], n, k)
        OBVIOUS
      <4>1. CASE Behind(n, k)
        <5>1. PICK i \in DOMAIN jobs : JobOf(jobs[i], n, k)
          BY <4>1 DEF IInv, FilesInv
        <5> QED
          BY <3>2, <5>1
      <4>2. CASE n = at /\ k = fileAt
        BY <3>2, <3>4, <4>2
      <4> QED
        BY <2>3, <4>1, <4>2
    <3>10. \A i, k \in DOMAIN jobs' :
             jobs'[i].pkg = jobs'[k].pkg /\ jobs'[i].file = jobs'[k].file => i = k
      BY <3>2, <3>5 DEF IInv, FilesInv
    <3>11. \A i, k \in DOMAIN jobs' : i < k => Place(jobs'[i].pkg) <= Place(jobs'[k].pkg)
      BY <3>2, <3>3, <3>6, <3>7 DEF IInv, FilesInv
    <3> QED
      BY <1>0, <2>1, <2>2, <3>8, <3>9, <3>10, <3>11 DEF IInv, FilesInv, Planned, Place, Mutates
  <2> QED
    BY <2>4, <2>5
<1> QED
  BY <1>1, <1>2, <1>3, <1>4 DEF Next, Progress, Prologue, Plan, Elsewhere

-----------------------------------------------------------------------------
(* The budget.                                                             *)

\* What a division loses is less than the divisor.
LEMMA Division ==
    ASSUME NEW n \in Nat, NEW d \in Nat \ {0}
    PROVE  n \div d \in Nat /\ n < d * (n \div d) + d
OBVIOUS

\* baselineTimeout: the mean, once for every processor, makes up for the sum.
LEMMA MeanCovers ==
    ASSUME total \in Nat, Cpus >= BaselineRuns
    PROVE  Mean * Cpus \in Nat /\ total < Mean * Cpus + BaselineRuns
<1>1. Mean \in Nat /\ total < BaselineRuns * Mean + BaselineRuns
  BY Division, PlannerAssumption DEF Mean
<1>2. Mean * Cpus \in Nat /\ BaselineRuns * Mean \in Nat
  BY <1>1, PlannerAssumption
<1>3. BaselineRuns * Mean <= Mean * Cpus
  <2>1. \A a, b, c \in Nat : a <= b => a * c <= c * b
    OBVIOUS
  <2> QED
    BY <1>1, <2>1, PlannerAssumption
<1>4. \A a, b, c, d \in Nat : a < b + d /\ b <= c => a < c + d
  OBVIOUS
<1> QED
  BY <1>1, <1>2, <1>3, <1>4, PlannerAssumption

LEMMA TimesStep == IInv /\ [Next]_vars => TimesInv'
<1> SUFFICES ASSUME IInv, [Next]_vars PROVE TimesInv'
  OBVIOUS
<1> USE DEF IInv, FlowInv, TimesInv, Estimating, given, plans, Mean, Fail, FailsWith
<1>1. CASE TimeSuite
  <2>1. CASE UNCHANGED <<times, total>>
    BY <1>1, <2>1 DEF TimeSuite
  <2>2. CASE \E d \in Duration : times' = Append(times, d) /\ total' = total + d
    <3>1. PICK d \in Duration : times' = Append(times, d) /\ total' = total + d
      BY <2>2
    <3>2. d \in Nat
      BY PlannerAssumption
    <3>3. times' \in Seq(Duration) /\ total' \in Nat
      BY <3>1, <3>2
    <3>5. \A i \in DOMAIN times : times[i] \in Nat
      <4>1. times \in Seq(Duration)
        OBVIOUS
      <4>2. \A i \in DOMAIN times : times[i] \in Duration
        BY <4>1
      <4> QED
        BY <4>2, PlannerAssumption
    <3>4. \A i \in DOMAIN times' : times'[i] <= total'
      BY <3>1, <3>2, <3>3, <3>5
    <3> QED
      BY <1>1, <3>3, <3>4 DEF TimeSuite
  <2> QED
    BY <1>1, <2>1, <2>2 DEF TimeSuite
<1>2. CASE ExplicitTimeout \/ DeriveTimeout \/ OpenCache
  BY <1>2 DEF ExplicitTimeout, DeriveTimeout, OpenCache, clock
<1>3. CASE Cancel \/ Resolve \/ Load \/ SkipTypes \/ LoadTyped \/ LoadClosures
  BY <1>3 DEF Cancel, Resolve, Load, SkipTypes, LoadTyped, LoadClosures, AfterTypes, clock
<1>4. CASE PlanScope \/ PlanTCE \/ PlanFingerprint
  BY <1>4 DEF PlanScope, PlanTCE, PlanFingerprint, Computing, Planning, PlanFails, clock
<1>5. CASE SkipPackage \/ AddJob \/ EndPackage
  BY <1>5 DEF SkipPackage, AddJob, EndPackage, AddingJobs, Planning, clock
<1>6. CASE EndPlan \/ Execute
  BY <1>6 DEF EndPlan, Execute, clock
<1>7. CASE Preview
  BY <1>7 DEF Preview, StartJob, Hit, EndWalk, WalksEnd, TimePackage, Previewed, clock
<1>8. CASE UNCHANGED vars
  BY <1>8 DEF vars
<1> QED
  BY <1>1, <1>2, <1>3, <1>4, <1>5, <1>6, <1>7, <1>8 DEF Next, Progress, Prologue, Plan

-----------------------------------------------------------------------------
(* What an estimate counts.                                                *)

LEMMA OperatorsStep == IInv /\ [Next]_vars => OperatorsInv'
<1> SUFFICES ASSUME IInv, [Next]_vars PROVE OperatorsInv'
  OBVIOUS
<1> USE DEF IInv, OperatorsInv
<1>1. CASE Elsewhere \/ UNCHANGED vars
  <2>1. UNCHANGED <<req, jobs>> /\ Mutators' = Mutators
    BY <1>1, ElsewhereSame DEF Mutators
  <2>2. stage = "resolve" /\ stage' \notin {"resolve", "returned"} => Mutators \subseteq Operator
    BY <1>1 DEF Elsewhere, Cancel, Resolve, Load, SkipTypes, LoadTyped, LoadClosures,
                ExplicitTimeout, TimeSuite, DeriveTimeout, OpenCache, EndPlan, Execute, Preview,
                StartJob, Hit, EndWalk, WalksEnd, TimePackage, Previewed, Fail, vars
  <2>3. stage = "returned" => stage' = "returned"
    BY <1>1 DEF Elsewhere, Cancel, Resolve, Load, SkipTypes, LoadTyped, LoadClosures,
                ExplicitTimeout, TimeSuite, DeriveTimeout, OpenCache, EndPlan, Execute, Preview,
                StartJob, Hit, EndWalk, WalksEnd, TimePackage, Previewed, vars
  <2> QED
    BY <2>1, <2>2, <2>3
<1>2. CASE SkipPackage \/ PlanScope \/ PlanTCE \/ PlanFingerprint \/ EndPackage
  <2>1. UNCHANGED <<req, jobs>> /\ stage = "plan"
    BY <1>2 DEF SkipPackage, PlanScope, PlanTCE, PlanFingerprint, EndPackage, AddingJobs,
                Computing, Planning, PlanFails, plans, given
  <2> QED
    BY <2>1 DEF Mutators
<1>3. CASE AddJob
  <2> DEFINE e == Job(Here, NextFile)
  <2>1. /\ UNCHANGED <<req, stage>> /\ stage = "plan"
        /\ jobs' = jobs \/ jobs' = Append(jobs, e)
        /\ jobs \in Seq({jobs[i] : i \in DOMAIN jobs})
    BY <1>3 DEF AddJob, AddingJobs, Planning, JobsInv, given
  <2>2. e.mutators \subseteq Operator
    BY <2>1 DEF Job, BoundMutators
  <2> HIDE DEF e
  <2>3. CASE jobs' = Append(jobs, e)
    BY <2>1, <2>2, <2>3, Appended DEF Mutators
  <2> QED
    BY <2>1, <2>3 DEF Mutators
<1> QED
  BY <1>1, <1>2, <1>3 DEF Next, Progress, Prologue, Plan, Elsewhere

\* A job's matches are finitely many.
LEMMA MatchesFinite ==
    ASSUME IInv, NEW i \in DOMAIN jobs
    PROVE  Matches(jobs[i]) \in Nat
<1> DEFINE j == jobs[i]
           Of(o) == {o} \X (Namings(o) \X (1 .. Finds[o][j.file]))
           E == Effective(j)
<1>1. E \subseteq Operator
  BY DEF Effective, IInv, OperatorsInv
<1>2. j.file \in File
  <2>1. PICK n \in DOMAIN req.packages : \E k \in DOMAIN FilesOf[req.packages[n]] : JobOf(j, n, k)
    BY DEF IInv, FilesInv
  <2>2. req.packages[n] \in Package
    BY RequestFacts DEF IInv, FlowInv
  <2> QED
    BY <2>1, <2>2 DEF File, JobOf
<1>3. \A o \in E : IsFiniteSet(Of(o))
  <2> SUFFICES ASSUME NEW o \in E PROVE IsFiniteSet(Of(o))
    OBVIOUS
  <2>1. Finds[o][j.file] \in Nat
    BY <1>1, <1>2, PlannerAssumption
  <2>2. IsFiniteSet(1 .. Finds[o][j.file])
    BY <2>1, FS_Interval
  <2>3. IsFiniteSet(Namings(o))
    <3>1. IsFiniteSet({0})
      BY FS_Singleton
    <3>2. req.operators \in Seq(Operator \cup {"unknown"})
      BY PlannerAssumption DEF RequestType, IInv, FlowInv
    <3>3. IsFiniteSet(DOMAIN req.operators)
      BY <3>2, FS_Interval
    <3>4. IsFiniteSet({k \in DOMAIN req.operators : req.operators[k] = o})
      BY <3>3, FS_Subset
    <3> QED
      BY <3>1, <3>4 DEF Namings
  <2>4. IsFiniteSet(Namings(o) \X (1 .. Finds[o][j.file]))
    BY <2>2, <2>3, FS_Product
  <2>5. IsFiniteSet({o})
    BY FS_Singleton
  <2> QED
    BY <2>4, <2>5, FS_Product
<1>4. IsFiniteSet({Of(o) : o \in E})
  <2> DEFINE f == [o \in E |-> Of(o)]
  <2>1. f \in Surjection(E, {Of(o) : o \in E})
    BY DEF Surjection
  <2>2. IsFiniteSet(E)
    BY <1>1, PlannerAssumption, FS_Subset
  <2> QED
    BY <2>1, <2>2, FS_Surjection
<1>5. IsFiniteSet(UNION {Of(o) : o \in E})
  <2> HIDE DEF Of, E
  <2> QED
    BY <1>3, <1>4, FS_UNION
<1>6. Offers(j) = UNION {Of(o) : o \in E}
  BY DEF Offers
<1> QED
  BY <1>5, <1>6, FS_CardinalityType DEF Matches

LEMMA WalkFacts ==
    ASSUME WalkInv, NEW k \in DOMAIN jobs
    PROVE  /\ left[k] \in 0 .. Matches(jobs[k])
           /\ walks[k] = "done" => left[k] = 0
           /\ Ended => left[k] = 0
<1>1. left[k] \in 0 .. Matches(jobs[k])
  BY DEF WalkInv
<1>2. walks[k] = "done" => left[k] = 0
  BY DEF WalkInv
<1>3. Ended => left[k] = 0
  BY DEF WalkInv
<1> QED
  BY <1>1, <1>2, <1>3

LEMMA InReported ==
    ASSUME NEW p, NEW x
    PROVE  x \in Reported(p) <=>
              \E i \in DOMAIN jobs : /\ jobs[i].pkg = p
                                     /\ \E n \in left[i] + 1 .. Matches(jobs[i]) : x = <<i, n>>
BY DEF Reported

\* The packages of the jobs are packages.
LEMMA JobsOfPackages ==
    ASSUME IInv, NEW i \in DOMAIN jobs
    PROVE  jobs[i].pkg \in Package
BY RequestFacts DEF IInv, FlowInv, FilesInv, JobOf

\* Before the walk nothing is counted, and a step that fails ends the estimate.
LEMMA BeforeTheWalk ==
    ASSUME IInv, Prologue \/ Loop \/ Execute
    PROVE  EstimateInv'
<1> USE DEF IInv, FlowInv, Fail, FailsWith, given, counts, plans, Stages
<1>0. ~Counting /\ ~Counting' /\ UNCHANGED <<tally, preview>> /\ stage # "returned"
      /\ (stage' # "returned" => err' = err)
  <2> USE DEF Counting, Estimating
  <2>1. CASE Resolve \/ Load \/ SkipTypes \/ LoadTyped \/ LoadClosures
    BY <2>1 DEF Resolve, Load, SkipTypes, LoadTyped, LoadClosures, AfterTypes
  <2>2. CASE ExplicitTimeout \/ TimeSuite \/ DeriveTimeout \/ OpenCache
    BY <2>2 DEF ExplicitTimeout, TimeSuite, DeriveTimeout, OpenCache
  <2>3. CASE PlanScope \/ PlanTCE
    BY <2>3 DEF PlanScope, PlanTCE, Computing, Planning, PlanFails
  <2>4. CASE PlanFingerprint
    BY <2>4 DEF PlanFingerprint, Computing, Planning, PlanFails
  <2>5. CASE SkipPackage \/ AddJob \/ EndPackage
    BY <2>5 DEF SkipPackage, AddJob, EndPackage, AddingJobs, Planning
  <2>6. CASE Execute
    BY <2>6 DEF Execute
  <2> QED
    BY <2>1, <2>2, <2>3, <2>4, <2>5, <2>6 DEF Prologue, Loop
<1> QED
  BY <1>0 DEF EstimateInv, NoTally

\* estimateTally.consume: one match more, counted for the package it is in.
LEMMA HitCounts ==
    ASSUME IInv, Hit
    PROVE  WalkInv' /\ TallyInv'
<1>0. /\ UNCHANGED <<req, jobs, walks, stage>> /\ stage = "walk" /\ Counting
      /\ WalkInv /\ TallyInv
  BY DEF Hit, IInv, FlowInv, Stages, EstimateInv, Counting, given, plans
<1>1. PICK i \in Walkers : /\ left[i] > 0
                           /\ left' = [left EXCEPT ![i] = @ - 1]
                           /\ tally' = Counted(tally, jobs[i].pkg)
  BY DEF Hit
<1> DEFINE M(k) == Matches(jobs[k])
           p == jobs[i].pkg
<1>2. i \in DOMAIN jobs /\ p \in Package /\ walks[i] = "walking"
  BY <1>0, JobsOfPackages DEF Walkers, WalkInv
<1>3. /\ \A k \in DOMAIN jobs : M(k) \in Nat /\ left[k] \in 0 .. M(k)
      /\ left[i] \in 1 .. M(i)
  <2>1. \A k \in DOMAIN jobs : M(k) \in Nat /\ left[k] \in 0 .. M(k)
    BY <1>0, MatchesFinite, WalkFacts
  <2> HIDE DEF M
  <2> QED
    BY <1>1, <1>2, <2>1
<1>4. \A k \in DOMAIN jobs : Matches(jobs[k])' = M(k)
  BY <1>0 DEF Matches, Offers, Effective, Namings
<1>5. /\ DOMAIN left' = DOMAIN jobs
      /\ left'[i] = left[i] - 1
      /\ \A k \in DOMAIN jobs \ {i} : left'[k] = left[k]
  BY <1>0, <1>1, <1>2 DEF WalkInv
<1> HIDE DEF M
<1>6. WalkInv'
  <2>1. \A k \in DOMAIN jobs : left'[k] \in 0 .. M(k)
    BY <1>3, <1>5
  <2>2. \A k \in DOMAIN jobs : walks[k] = "done" => left'[k] = 0
    <3>1. \A k \in DOMAIN jobs : walks[k] = "done" => left[k] = 0
      BY <1>0, WalkFacts
    <3> QED
      BY <1>2, <1>5, <3>1
  <2> QED
    BY <1>0, <1>4, <1>5, <2>1, <2>2 DEF WalkInv, Ended
<1>7. ASSUME NEW q \in Package
      PROVE  Reported(q)' = IF q = p THEN Reported(q) \cup {<<i, left[i]>>} ELSE Reported(q)
  <2>1. ASSUME NEW x
        PROVE  x \in Reported(q) <=>
                 \E k \in DOMAIN jobs : jobs[k].pkg = q /\ \E n \in left[k] + 1 .. M(k) : x = <<k, n>>
    BY InReported DEF M
  <2>2. ASSUME NEW x
        PROVE  x \in Reported(q)' <=>
                 \E k \in DOMAIN jobs : jobs[k].pkg = q /\ \E n \in left'[k] + 1 .. M(k) : x = <<k, n>>
    BY <1>0, <1>4 DEF Reported
  <2>3. left'[i] + 1 .. M(i) = (left[i] + 1 .. M(i)) \cup {left[i]}
    BY <1>3, <1>5
  <2>4. ASSUME NEW x, x \in Reported(q)'
        PROVE  x \in Reported(q) \/ (q = p /\ x = <<i, left[i]>>)
    <3>1. PICK k \in DOMAIN jobs : jobs[k].pkg = q /\ \E n \in left'[k] + 1 .. M(k) : x = <<k, n>>
      BY <2>2, <2>4
    <3>2. CASE k = i
      BY <2>1, <2>3, <3>1, <3>2
    <3>3. CASE k # i
      BY <1>5, <2>1, <3>1, <3>3
    <3> QED
      BY <3>2, <3>3
  <2>5. ASSUME NEW x, x \in Reported(q)
        PROVE  x \in Reported(q)'
    <3>1. PICK k \in DOMAIN jobs : jobs[k].pkg = q /\ \E n \in left[k] + 1 .. M(k) : x = <<k, n>>
      BY <2>1, <2>5
    <3>2. CASE k = i
      BY <2>2, <2>3, <3>1, <3>2
    <3>3. CASE k # i
      BY <1>5, <2>2, <3>1, <3>3
    <3> QED
      BY <3>2, <3>3
  <2>6. q = p => <<i, left[i]>> \in Reported(q)'
    BY <1>2, <2>2, <2>3
  <2> QED
    BY <2>4, <2>5, <2>6
<1>8. <<i, left[i]>> \notin Reported(p)
  <2> SUFFICES ASSUME <<i, left[i]>> \in Reported(p) PROVE FALSE
    OBVIOUS
  <2>1. PICK k \in DOMAIN jobs : \E n \in left[k] + 1 .. M(k) : <<i, left[i]>> = <<k, n>>
    BY InReported DEF M
  <2>2. left[i] \in left[i] + 1 .. M(i)
    BY <2>1
  <2> QED
    BY <1>3, <2>2
<1> DEFINE n == Len(tally.order) + 1
<1>9. /\ tally'.hits = [tally.hits EXCEPT ![p] = @ + 1]
      /\ tally'.order = IF tally.hits[p] = 0 THEN Append(tally.order, p) ELSE tally.order
      /\ tally' = [order |-> tally'.order, hits |-> tally'.hits]
  BY <1>1 DEF Counted
<1>10. /\ tally.hits \in [Package -> Nat]
       /\ tally.order \in Seq(Package)
  BY <1>0 DEF TallyInv
<1> HIDE DEF p
<1>11. ASSUME NEW q \in Package
       PROVE  /\ IsFiniteSet(Reported(q)') /\ tally'.hits[q] = Cardinality(Reported(q)')
              /\ tally'.hits[q] > 0 <=> q = p \/ tally.hits[q] > 0
  <2>1. IsFiniteSet(Reported(q)) /\ tally.hits[q] = Cardinality(Reported(q)) /\ tally.hits[q] \in Nat
    BY <1>0, <1>10 DEF TallyInv
  <2>2. CASE q = p
    BY <1>7, <1>8, <1>9, <1>10, <2>1, <2>2, FS_AddElement
  <2>3. CASE q # p
    BY <1>7, <1>9, <1>10, <2>1, <2>3
  <2> QED
    BY <2>2, <2>3
<1>12. /\ tally'.order \in Seq(Package)
       /\ \A q \in Package : tally'.hits[q] > 0 <=> \E k \in DOMAIN tally'.order : tally'.order[k] = q
       /\ \A k, m \in DOMAIN tally'.order : tally'.order[k] = tally'.order[m] => k = m
  <2>1. /\ \A q \in Package : tally.hits[q] > 0 <=> \E k \in DOMAIN tally.order : tally.order[k] = q
        /\ \A k, m \in DOMAIN tally.order : tally.order[k] = tally.order[m] => k = m
        /\ tally.hits[p] \in Nat
    BY <1>0, <1>2, <1>10 DEF TallyInv, p
  <2>2. CASE tally.hits[p] = 0
    <3>1. /\ tally'.order \in Seq(Package)
          /\ DOMAIN tally'.order = DOMAIN tally.order \cup {n}
          /\ tally'.order[n] = p
          /\ \A k \in DOMAIN tally.order : tally'.order[k] = tally.order[k]
      BY <1>2, <1>9, <1>10, <2>2 DEF p
    <3>2. \A k \in DOMAIN tally.order : tally.order[k] # p
      BY <1>2, <2>1, <2>2 DEF p
    <3> HIDE DEF n
    <3> QED
      BY <1>11, <2>1, <3>1, <3>2
  <2>3. CASE tally.hits[p] # 0
    BY <1>2, <1>9, <1>10, <1>11, <2>1, <2>3 DEF p
  <2> QED
    BY <2>2, <2>3
<1>13. tally'.hits \in [Package -> Nat]
  BY <1>2, <1>9, <1>10 DEF p
<1> QED
  BY <1>6, <1>9, <1>11, <1>12, <1>13 DEF TallyInv

LEMMA EstimateStep == IInv /\ [Next]_vars => EstimateInv'
<1> SUFFICES ASSUME IInv, [Next]_vars PROVE EstimateInv'
  OBVIOUS
<1>0. /\ EstimateInv
      /\ stage \in {"walk", "time"} => Counting /\ WalkInv /\ TallyInv /\ PreviewInv /\ err = "none"
  BY DEF IInv, FlowInv, EstimateInv, Counting
<1>1. CASE Prologue \/ Loop \/ Execute
  BY <1>1, BeforeTheWalk
\* What changes neither the counts nor the place among the stages.
<1>2. ASSUME UNCHANGED <<req, jobs, left, tally, preview>>,
             ~Ended' \/ Ended
      PROVE  /\ TallyInv => TallyInv'
             /\ DOMAIN walks' = DOMAIN walks /\ WalkInv
                   /\ (\A i \in DOMAIN jobs : walks'[i] = "done" => walks[i] = "done" \/ left[i] = 0)
                => WalkInv'
  <2>1. \A k \in DOMAIN jobs : Matches(jobs[k])' = Matches(jobs[k])
    BY <1>2 DEF Matches, Offers, Effective, Namings
  <2>2. \A p : Reported(p)' = Reported(p)
    BY <1>2, <2>1 DEF Reported
  <2> QED
    BY <1>2, <2>1, <2>2 DEF TallyInv, WalkInv
<1>3. CASE Cancel \/ UNCHANGED vars
  <2>1. UNCHANGED <<req, jobs, left, tally, preview, walks, stage, err>>
    BY <1>3 DEF Cancel, vars, given, plans, counts
  <2> QED
    BY <1>0, <1>2, <2>1 DEF EstimateInv, Counting, Estimating, Ended, PreviewInv
<1>4. CASE EndPlan
  <2>1. /\ UNCHANGED <<req, jobs, err, tally, preview>>
        /\ stage = "plan" /\ stage' = (IF Estimating THEN "walk" ELSE "execute")
        /\ tally = NoTally /\ preview = <<>> /\ err = "none"
    BY <1>0, <1>4 DEF EndPlan, EstimateInv, Counting, given, plans
  <2>2. CASE ~Estimating
    BY <2>1, <2>2 DEF EstimateInv, Counting, Estimating
  <2>3. CASE Estimating
    <3>1. /\ walks' = [i \in DOMAIN jobs |-> "waiting"]
          /\ left' = [i \in DOMAIN jobs |-> Matches(jobs[i])]
      BY <1>4, <2>3 DEF EndPlan
    <3>2. \A k \in DOMAIN jobs : Matches(jobs[k])' = Matches(jobs[k]) /\ Matches(jobs[k]) \in Nat
      BY <2>1, MatchesFinite DEF Matches, Offers, Effective, Namings
    <3>3. WalkInv'
      BY <2>1, <2>3, <3>1, <3>2 DEF WalkInv, Ended
    <3>4. \A p : Reported(p)' = {}
      <4> TAKE p
      <4>1. \A k \in DOMAIN jobs : left'[k] + 1 .. Matches(jobs[k]) = {}
        BY <3>1, <3>2
      <4> QED
        BY <2>1, <3>2, <4>1 DEF Reported
    <3>5. TallyInv'
      <4>1. /\ tally'.order = <<>> /\ tally'.hits = [p \in Package |-> 0]
            /\ tally' = [order |-> tally'.order, hits |-> tally'.hits]
        BY <2>1 DEF NoTally
      <4>2. \A p \in Package : IsFiniteSet(Reported(p)') /\ tally'.hits[p] = Cardinality(Reported(p)')
        BY <3>4, <4>1, FS_EmptySet
      <4> QED
        BY <4>1, <4>2 DEF TallyInv
    <3>6. PreviewInv'
      BY <2>1, <2>3 DEF PreviewInv, NoTally, Ended
    <3> QED
      BY <2>1, <2>3, <3>3, <3>5, <3>6 DEF EstimateInv, Counting, Estimating
  <2> QED
    BY <2>2, <2>3
<1>5. CASE StartJob \/ EndWalk
  <2>1. /\ UNCHANGED <<req, jobs, left, tally, preview, stage, err>> /\ stage = "walk"
        /\ DOMAIN walks' = DOMAIN walks
        /\ \A i \in DOMAIN walks : walks'[i] = "done" => walks[i] = "done" \/ left[i] = 0
    BY <1>5 DEF StartJob, EndWalk, Waiting, Walkers, given, plans
  <2>2. WalkInv' /\ TallyInv'
    BY <1>0, <1>2, <2>1 DEF Ended, WalkInv
  <2>3. PreviewInv'
    BY <1>0, <2>1 DEF PreviewInv, Ended
  <2> QED
    BY <1>0, <2>1, <2>2, <2>3 DEF EstimateInv, Counting, Estimating
<1>6. CASE Hit
  <2>1. UNCHANGED <<req, preview, stage, err>> /\ stage = "walk"
    BY <1>6 DEF Hit, given
  <2>2. PreviewInv'
    <3>1. preview = <<>>
      BY <1>0, <2>1 DEF PreviewInv, Ended
    <3>2. tally'.order \in Seq(Package)
      BY <1>6, HitCounts DEF TallyInv
    <3> QED
      BY <2>1, <3>1, <3>2 DEF PreviewInv
  <2> QED
    BY <1>0, <1>6, <2>1, <2>2, HitCounts DEF EstimateInv, Counting, Estimating
<1>7. CASE WalksEnd
  <2>1. UNCHANGED <<req, jobs, left, tally, preview, walks>> /\ stage = "walk"
    BY <1>7 DEF WalksEnd, given, plans, counts
  <2>2. CASE Fail("failed walk")
    BY <2>1, <2>2 DEF Fail, EstimateInv, Counting
  <2>3. CASE /\ ~ \E i \in DOMAIN walks : walks[i] = "failed"
             /\ stage' = "time" /\ UNCHANGED err
    <3>1. \A i \in DOMAIN walks : walks[i] = "done"
      BY <1>7, <2>3 DEF WalksEnd
    <3>2. \A k \in DOMAIN jobs : Matches(jobs[k])' = Matches(jobs[k])
      BY <2>1 DEF Matches, Offers, Effective, Namings
    <3>3. \A p : Reported(p)' = Reported(p)
      BY <2>1, <3>2 DEF Reported
    <3>4. WalkInv'
      <4>1. \A k \in DOMAIN jobs : left[k] \in 0 .. Matches(jobs[k]) /\ left[k] = 0
        BY <1>0, <2>1, <3>1, WalkFacts DEF WalkInv
      <4> QED
        BY <1>0, <2>1, <3>2, <4>1 DEF WalkInv
    <3>5. TallyInv'
      BY <1>0, <2>1, <3>3 DEF TallyInv
    <3>6. PreviewInv'
      BY <1>0, <2>1, <2>3 DEF PreviewInv, Ended
    <3> QED
      BY <1>0, <2>1, <2>3, <3>4, <3>5, <3>6 DEF EstimateInv, Counting, Estimating
  <2> QED
    BY <1>7, <2>2, <2>3 DEF WalksEnd
<1>8. CASE TimePackage
  <2>1. /\ UNCHANGED <<req, jobs, left, tally, walks, stage, err>> /\ stage = "time"
        /\ Len(preview) < Len(tally.order)
        /\ \E d : Sample(d)
    BY <1>8 DEF TimePackage, given, plans
  <2>2. WalkInv' /\ TallyInv'
    <3>1. \A k \in DOMAIN jobs : Matches(jobs[k])' = Matches(jobs[k])
      BY <2>1 DEF Matches, Offers, Effective, Namings
    <3>2. \A p : Reported(p)' = Reported(p)
      BY <2>1, <3>1 DEF Reported
    <3> QED
      BY <1>0, <2>1, <3>1, <3>2 DEF WalkInv, TallyInv, Ended
  <2>3. PreviewInv'
    <3>1. PICK d : Sample(d)
      BY <2>1
    <3> DEFINE n == Len(preview) + 1
               e == [pkg |-> tally.order[n], mutants |-> tally.hits[tally.order[n]], baseline |-> d]
    <3>2. preview' = Append(preview, e) /\ preview \in Seq({preview[i] : i \in DOMAIN preview})
      BY <1>0, <2>1, <3>1 DEF Sample, PreviewInv
    <3>3. e.pkg = tally.order[n] /\ e.mutants = tally.hits[tally.order[n]]
      OBVIOUS
    <3>4. /\ preview' \in Seq({preview'[i] : i \in DOMAIN preview'})
          /\ DOMAIN preview' = DOMAIN preview \cup {n}
          /\ preview'[n] = e
          /\ \A i \in DOMAIN preview : preview'[i] = preview[i]
      <4> HIDE DEF e
      <4> QED
        BY <3>2, Appended
    <3>5. Len(preview') <= Len(tally.order)
      <4>1. Len(preview') = Len(preview) + 1 /\ Len(preview) \in Nat
        <5> HIDE DEF e
        <5> QED
          BY <3>2
      <4>2. Len(tally.order) \in Nat
        BY <1>0, <2>1 DEF TallyInv
      <4> QED
        BY <2>1, <4>1, <4>2
    <3> HIDE DEF e, n
    <3>6. \A i \in DOMAIN preview' : /\ preview'[i].pkg = tally.order[i]
                                     /\ preview'[i].mutants = tally.hits[tally.order[i]]
      BY <1>0, <2>1, <3>3, <3>4 DEF PreviewInv
    <3> QED
      BY <2>1, <3>4, <3>5, <3>6 DEF PreviewInv, Ended
  <2> QED
    BY <1>0, <2>1, <2>2, <2>3 DEF EstimateInv, Counting, Estimating
<1>9. CASE Previewed
  <2>1. /\ UNCHANGED <<req, jobs, left, tally, preview, walks, err>> /\ stage = "time"
        /\ stage' = "returned" /\ Len(preview) = Len(tally.order)
    BY <1>9 DEF Previewed, given, plans, counts
  <2>2. WalkInv' /\ TallyInv'
    BY <1>0, <1>2, <2>1 DEF Ended, WalkInv
  <2>3. PreviewInv'
    BY <1>0, <2>1 DEF PreviewInv, Ended
  <2> QED
    BY <2>1, <2>2, <2>3 DEF EstimateInv
<1> QED
  BY <1>1, <1>3, <1>4, <1>5, <1>6, <1>7, <1>8, <1>9
     DEF Next, Progress, Plan, Loop, Preview

-----------------------------------------------------------------------------
(* The invariant.                                                          *)

\* The invariant: each job planned carries the scope, the tree and the
\* fingerprint that its package's own plan gave it, and nothing but the phases
\* already passed has left its mark on the run.
THEOREM InvariantHolds == Spec => []IInv
<1>1. IInv /\ [Next]_vars => IInv'
  BY FlowStep, BaselineStep, StoreStep, PreStep, JobsStep, FilesStep, TimesStep,
     OperatorsStep, EstimateStep DEF IInv
<1> QED
  BY <1>1, InitIInv, PTL DEF Spec

-----------------------------------------------------------------------------
(* The theorems.                                                           *)

\* planCacheFingerprint: verdicts are cached under a fingerprint of the very tree
\* they were made on, though the module's fingerprint is remembered from package
\* to package and a closure's is not.
THEOREM FingerprintsAreRight == Spec => []FingerprintRight
<1>1. IInv => FingerprintRight
  BY DEF IInv, JobsInv, TreeOf, FingerprintOf, FingerprintRight, Estimating
<1> QED
  BY <1>1, InvariantHolds, PTL

\* planScope, planPrecompute: a package that is demoted is demoted alone, and no
\* job has what was precomputed for another package.
THEOREM DemotionsAreLocal == Spec => []DemotionLocal
<1>1. IInv => DemotionLocal
  BY DEF IInv, JobsInv, ScopeOf, TreeOf, DemotionLocal, Estimating
<1> QED
  BY <1>1, InvariantHolds, PTL

\* bindMutators, syntaxFor: no operator that needs types walks a tree that has none,
\* but for the files that cgo rewrote.
THEOREM TypedOperatorsSeeTypes == Spec => []TypedSeesItsTree
<1>1. IInv => TypedSeesItsTree
  BY DEF IInv, JobsInv, TypedSeesItsTree
<1> QED
  BY <1>1, InvariantHolds, PTL

\* resolveTimeout: without a timeout of the user's no mutant is tested beside
\* selected packages whose tests fail anyway.
THEOREM BaselineIsGreen == Spec => []MeasuredTestsPass
<1>1. IInv => MeasuredTestsPass
  BY DEF IInv, FlowInv, BaselineInv, MeasuredTestsPass, Estimating
<1> QED
  BY <1>1, InvariantHolds, PTL

\* Run: the verdict store is closed, except when a package's plan failed.
THEOREM StoreIsClosed == Spec => []StoreClosed
<1>1. IInv => StoreClosed
  BY DEF IInv, StoreInv, StoreClosed
<1> QED
  BY <1>1, InvariantHolds, PTL

\* planPackage: a run walks each file of its packages that is not a test once, in
\* order, and so does the estimate that is to say what the run would do.
THEOREM FilesAreWalkedOnce == Spec => []EachFileOnce
<1>1. IInv => EachFileOnce
  <2> SUFFICES ASSUME IInv, Planned PROVE EachFileOnce
    BY DEF EachFileOnce
  <2>0. /\ req \in Request /\ req.packages \in Seq(Package)
        /\ \A n \in DOMAIN req.packages : n < at
    <3>1. /\ req \in Request /\ req.packages \in Seq(Package) /\ at \in Nat \ {0}
          /\ at \notin DOMAIN req.packages
      BY RequestFacts DEF IInv, FlowInv, FilesInv
    <3>2. DOMAIN req.packages = 1 .. Len(req.packages) /\ Len(req.packages) \in Nat
      BY <3>1
    <3> QED
      BY <3>1, <3>2
  <2>1. ASSUME NEW p \in Selected, NEW f \in Walked(p)
        PROVE  Cardinality({i \in DOMAIN jobs : jobs[i].pkg = p /\ jobs[i].file = f}) = 1
    <3>1. PICK n \in DOMAIN req.packages : p = req.packages[n]
      BY DEF Selected
    <3>2. PICK k \in DOMAIN FilesOf[p] : f = FilesOf[p][k]
      BY DEF Walked
    <3>3. Behind(n, k) /\ Mutates(n, k)
      BY <2>0, <3>1, <3>2 DEF Behind, Mutates, Walked, IsMutable
    <3>4. PICK i \in DOMAIN jobs : jobs[i].pkg = p /\ jobs[i].file = f
      BY <3>1, <3>2, <3>3 DEF IInv, FilesInv, JobOf
    <3>5. {m \in DOMAIN jobs : jobs[m].pkg = p /\ jobs[m].file = f} = {i}
      BY <3>4 DEF IInv, FilesInv
    <3> QED
      BY <3>5, FS_Singleton
  <2>2. ASSUME NEW i \in DOMAIN jobs
        PROVE  jobs[i].pkg \in Selected /\ jobs[i].file \in Walked(jobs[i].pkg)
    BY DEF IInv, FilesInv, JobOf, Mutates, IsMutable, Selected, Walked
  <2> QED
    BY <2>1, <2>2 DEF EachFileOnce, IInv, FilesInv
<1> QED
  BY <1>1, InvariantHolds, PTL

\* plan, bindMutators: both halves of what a run of the planner checks of its jobs.
THEOREM JobsAreAllRight == Spec => []JobsAreRight
BY FilesAreWalkedOnce, TypedOperatorsSeeTypes, PTL DEF JobsAreRight

\* resolveTimeout, baselineTimeout: a budget that was derived leaves room for what
\* was measured, on tests that passed.
THEOREM BudgetsAreSound == Spec => []BaselineSound
<1>1. IInv => TimeoutFair
  <2> SUFFICES ASSUME IInv, stage \in {"cache", "plan", "execute"}, req.timeout = 0, ~Estimating
               PROVE  /\ timeout >= MinBaselineTimeout
                      /\ Cpus >= BaselineRuns =>
                            \A i \in DOMAIN times : times[i] < timeout + BaselineRuns
    BY DEF TimeoutFair
  <2>1. timeout = Larger(MinBaselineTimeout, Mean * Cpus) /\ total \in Nat
        /\ \A i \in DOMAIN times : times[i] \in Nat /\ times[i] <= total
    <3>1. times \in Seq(Duration)
      BY DEF IInv, TimesInv
    <3>2. \A i \in DOMAIN times : times[i] \in Duration
      BY <3>1
    <3> QED
      BY <3>2, PlannerAssumption DEF IInv, TimesInv
  <2> DEFINE budget == Mean * Cpus
  <2>2. budget \in Nat
    <3>1. Mean \in Nat
      BY <2>1, Division, PlannerAssumption DEF Mean
    <3> QED
      BY <3>1, PlannerAssumption
  <2>3. Cpus >= BaselineRuns => total < budget + BaselineRuns
    BY <2>1, MeanCovers
  <2> HIDE DEF budget
  <2>4. timeout >= MinBaselineTimeout /\ timeout >= budget /\ timeout \in Nat
    BY <2>1, <2>2, PlannerAssumption DEF Larger, budget
  <2>5. \A a, b, c, d, r \in Nat : a <= b /\ b < c + r /\ c <= d => a < d + r
    OBVIOUS
  <2> QED
    BY <2>1, <2>2, <2>3, <2>4, <2>5, PlannerAssumption
<1>2. IInv => BaselineSound
  BY <1>1 DEF IInv, FlowInv, BaselineInv, MeasuredTestsPass, BaselineSound, Estimating
<1> QED
  BY <1>2, InvariantHolds, PTL

\* estimateTally, buildEstimateResult: the preview has each package in which there
\* is something to mutate, once, with the count of the run that would follow.
THEOREM EstimatesAreExact == Spec => []EstimateExact
<1>1. IInv => EstimateExact
  <2> SUFFICES ASSUME IInv, stage = "returned", err = "none", Estimating
               PROVE  /\ {preview[i].pkg : i \in DOMAIN preview} = {p \in Package : Found(p) > 0}
                      /\ \A i \in DOMAIN preview :
                            /\ preview[i].mutants = Found(preview[i].pkg)
                            /\ \A k \in DOMAIN preview : preview[i].pkg = preview[k].pkg => i = k
    BY DEF EstimateExact
  <2>1. WalkInv /\ TallyInv /\ PreviewInv /\ Ended
    BY DEF IInv, EstimateInv, Counting, Ended
  <2>2. \A p \in Package : tally.hits[p] = Found(p)
    <3> TAKE p \in Package
    <3>1. \A i \in DOMAIN jobs : left[i] + 1 = 1
      BY <2>1 DEF WalkInv
    <3>2. Reported(p) = UNION {{i} \X (1 .. Matches(jobs[i])) : i \in {k \in DOMAIN jobs : jobs[k].pkg = p}}
      BY <3>1 DEF Reported
    <3> QED
      BY <2>1, <3>2 DEF TallyInv, Found
  <2>3. /\ DOMAIN preview = DOMAIN tally.order
        /\ \A i \in DOMAIN tally.order : tally.order[i] \in Package
    <3>1. preview \in Seq({preview[i] : i \in DOMAIN preview}) /\ Len(preview) = Len(tally.order)
      BY <2>1 DEF PreviewInv
    <3>2. tally.order \in Seq(Package)
      BY <2>1 DEF TallyInv
    <3> QED
      BY <3>1, <3>2
  <2>4. /\ \A p \in Package : Found(p) > 0 <=> \E i \in DOMAIN tally.order : tally.order[i] = p
        /\ \A i, k \in DOMAIN tally.order : tally.order[i] = tally.order[k] => i = k
    BY <2>1, <2>2 DEF TallyInv
  <2>5. \A i \in DOMAIN preview : /\ preview[i].pkg = tally.order[i]
                                 /\ preview[i].mutants = Found(preview[i].pkg)
    <3>1. \A i \in DOMAIN preview : /\ preview[i].pkg = tally.order[i]
                                   /\ preview[i].mutants = tally.hits[tally.order[i]]
      BY <2>1 DEF PreviewInv
    <3> QED
      BY <2>2, <2>3, <3>1
  <2>6. {preview[i].pkg : i \in DOMAIN preview} = {p \in Package : Found(p) > 0}
    BY <2>3, <2>4, <2>5
  <2> QED
    BY <2>3, <2>4, <2>5, <2>6
<1> QED
  BY <1>1, InvariantHolds, PTL

=============================================================================
