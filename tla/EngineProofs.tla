---------------------------- MODULE EngineProofs ----------------------------
(***************************************************************************)
(* Theorems about Engine for every plan, limit and outcome of the tests:   *)
(* the types and the count of the semaphore first, then one section for    *)
(* each safety property, with an invariant of its own that is inductive    *)
(* relative to those before it, then the refinement of MutationRun.        *)
(***************************************************************************)
EXTENDS Engine, FiniteSetTheorems, TLAPS

-----------------------------------------------------------------------------
(* Counting workers.                                                       *)

Count(f, S) == Cardinality({j \in Jobs : f[j] \in S})

\* The jobs are finitely many, so they can be counted, up to NumJobs.
LEMMA CountType ==
    ASSUME NEW f, NEW S
    PROVE  /\ IsFiniteSet({j \in Jobs : f[j] \in S})
           /\ Count(f, S) \in Nat
<1>1. IsFiniteSet(Jobs)
  BY EngineAssumption, FS_Interval DEF Jobs
<1> QED
  BY <1>1, FS_Subset, FS_CardinalityType DEF Count

\* A worker that comes into S adds one to the count.
LEMMA CountEnter ==
    ASSUME NEW f, NEW S, NEW j \in Jobs, NEW v \in S,
           f = [k \in Jobs |-> f[k]], f[j] \notin S
    PROVE  Count([f EXCEPT ![j] = v], S) = Count(f, S) + 1
<1> DEFINE A == {k \in Jobs : f[k] \in S}
           g == [f EXCEPT ![j] = v]
<1>1. IsFiniteSet(A) /\ j \notin A
  BY CountType
<1>2. {k \in Jobs : g[k] \in S} = A \cup {j}
  OBVIOUS
<1>3. Cardinality(A \cup {j}) = Cardinality(A) + 1
  BY <1>1, FS_AddElement
<1> QED
  BY <1>2, <1>3 DEF Count

\* A worker that leaves S takes one from the count.
LEMMA CountLeave ==
    ASSUME NEW f, NEW S, NEW j \in Jobs, NEW v,
           f = [k \in Jobs |-> f[k]], f[j] \in S, v \notin S
    PROVE  /\ Count([f EXCEPT ![j] = v], S) = Count(f, S) - 1
           /\ Count(f, S) >= 1
<1> DEFINE A == {k \in Jobs : f[k] \in S}
           g == [f EXCEPT ![j] = v]
<1>1. IsFiniteSet(A) /\ j \in A
  BY CountType
<1>2. {k \in Jobs : g[k] \in S} = A \ {j}
  OBVIOUS
<1>3. Cardinality(A \ {j}) = Cardinality(A) - 1
  BY <1>1, FS_RemoveElement
<1>4. IsFiniteSet(A \ {j}) /\ Cardinality(A \ {j}) \in Nat /\ Cardinality(A) \in Nat
  BY <1>1, FS_Subset, FS_CardinalityType
<1> QED
  BY <1>2, <1>3, <1>4 DEF Count

\* A worker that stays on its side of S leaves the count as it is.
LEMMA CountStay ==
    ASSUME NEW f, NEW S, NEW j \in Jobs, NEW v,
           f = [k \in Jobs |-> f[k]], f[j] \in S <=> v \in S
    PROVE  Count([f EXCEPT ![j] = v], S) = Count(f, S)
<1> DEFINE g == [f EXCEPT ![j] = v]
<1>1. {k \in Jobs : g[k] \in S} = {k \in Jobs : f[k] \in S}
  OBVIOUS
<1> QED
  BY <1>1 DEF Count

\* Fewer workers, lower count.
LEMMA CountFewer ==
    ASSUME NEW f, NEW S, NEW g, NEW T,
           \A j \in Jobs : f[j] \in S => g[j] \in T
    PROVE  Count(f, S) <= Count(g, T)
<1> DEFINE A == {j \in Jobs : f[j] \in S}
           B == {j \in Jobs : g[j] \in T}
<1>1. IsFiniteSet(B) /\ A \subseteq B
  BY CountType
<1>2. Cardinality(A) <= Cardinality(B)
  BY <1>1, FS_Subset
<1> QED
  BY <1>2 DEF Count

-----------------------------------------------------------------------------
(* The inductive invariant, part one: where the workers are.               *)

\* A worker inside runner.run, with its mutation applied.
Inside == {"applied", "testing", "recording"}

\* The semaphore counts the workers that hold a token, jobs not yet spawned are
\* the ones from next on, and a worker in a visit has a visit to be in.
WorkersInv ==
    /\ sem = Count(pc, Active)
    /\ \A j \in Jobs : pc[j] = "queued" <=> j >= next
    /\ \A j \in Jobs : pc[j] \in Busy => pos[j] <= Len(Walk[j])
    /\ \A j \in Jobs : pc[j] \in Inside => Item(j) \in Mutation

LEMMA InitWorkers == Init => TypeOK /\ WorkersInv
<1> SUFFICES ASSUME Init PROVE TypeOK /\ WorkersInv
  OBVIOUS
<1>1. TypeOK
  <2>1. /\ next \in 1 .. NumJobs + 1 /\ sem \in 0 .. Parallel /\ late \in Nat
        /\ store \in {"open", "closing", "closed"} /\ groupErr \in Error
    BY EngineAssumption DEF Init, Error
  <2>2. /\ pc \in [Jobs -> Active \cup {"queued", "ended"}]
        /\ pos \in [Jobs -> Nat \ {0}]
        /\ ast \in [Jobs -> SUBSET Mutation]
        /\ src \in [Jobs -> SUBSET Mutation]
        /\ out \in [Jobs -> Outcome]
    BY DEF Init, Outcome
  <2>3. slot \in Seq(Entry) /\ log \in Seq(Entry) /\ result \in Seq(Entry)
    BY DEF Init
  <2> QED
    BY <2>1, <2>2, <2>3 DEF Init, TypeOK
<1>2. {j \in Jobs : pc[j] \in Active} = {}
  BY DEF Init, Active, Busy
<1>3. sem = Count(pc, Active)
  BY <1>2, FS_EmptySet DEF Init, Count
<1>4. \A j \in Jobs : pc[j] = "queued" /\ j >= next
  BY EngineAssumption DEF Init, Jobs
<1>5. \A j \in Jobs : pc[j] \notin Busy /\ pc[j] \notin Inside
  BY <1>4 DEF Busy, Inside
<1> QED
  BY <1>1, <1>3, <1>4, <1>5 DEF WorkersInv

\* A step inside the walk keeps the token.
LEMMA StaysCounted ==
    ASSUME TypeOK, WorkersInv, NEW j \in Jobs, NEW place \in Active,
           pc[j] \in Active, Stays(j, place)
    PROVE  /\ pc' \in [Jobs -> Active \cup {"queued", "ended"}]
           /\ sem' = Count(pc', Active)
           /\ \A k \in Jobs : pc'[k] = "queued" <=> k >= next'
<1>1. Count(pc', Active) = Count(pc, Active)
  <2>1. pc = [k \in Jobs |-> pc[k]] /\ pc' = [pc EXCEPT ![j] = place]
    BY DEF TypeOK, Stays
  <2>2. Count([pc EXCEPT ![j] = place], Active) = Count(pc, Active)
    BY <2>1, CountStay
  <2> QED
    BY <2>1, <2>2
<1>2. \A k \in Jobs : pc'[k] = "queued" <=> pc[k] = "queued"
  BY DEF TypeOK, Stays, Active, Busy
<1>3. pc' \in [Jobs -> Active \cup {"queued", "ended"}]
  BY DEF TypeOK, Stays
<1>4. sem' = sem /\ next' = next
  BY DEF Stays, mainVars
<1> QED
  BY <1>1, <1>2, <1>3, <1>4 DEF WorkersInv

\* A worker that returns gives its token back, and had one to give.
LEMMA FinishCounted ==
    ASSUME TypeOK, WorkersInv, NEW j \in Jobs, NEW err \in Error,
           pc[j] \in Active, Finish(j, err)
    PROVE  /\ pc' \in [Jobs -> Active \cup {"queued", "ended"}]
           /\ sem' = Count(pc', Active)
           /\ sem' \in 0 .. Parallel
           /\ groupErr' \in Error
           /\ \A k \in Jobs : pc'[k] = "queued" <=> k >= next'
<1>1. "ended" \notin Active
  BY DEF Active, Busy
<1>2. Count(pc', Active) = Count(pc, Active) - 1 /\ Count(pc, Active) >= 1
  BY <1>1, CountLeave DEF TypeOK, Finish
<1>3. \A k \in Jobs : pc'[k] = "queued" <=> pc[k] = "queued"
  BY DEF TypeOK, Finish, Active, Busy
<1> QED
  BY <1>2, <1>3, EngineAssumption DEF TypeOK, WorkersInv, Finish, mainVars

\* Every step of a worker that goes on in its walk.
Goes(j) ==
    \/ OpenFile(j) \/ VisitSuppressed(j) \/ SkipUnwanted(j) \/ ApplyMutation(j)
    \/ IsNoChange(j) \/ IsUncovered(j) \/ CacheHit(j) \/ BuildWorkspace(j)
    \/ TceFilters(j) \/ TestEnds(j) \/ Record(j) \/ Send(j)

\* Every step of a worker with which mutateFile returns.
Quits(j) ==
    SeeCancel(j) \/ EndOfWalk(j) \/ TestCanceled(j) \/ ParseFails(j) \/ MutantFails(j)

\* What a worker holds in a visit has the type of an entry.
LEMMA HoldingType ==
    ASSUME TypeOK, WorkersInv, NEW j \in Jobs, pc[j] \in Busy
    PROVE  Holding(j) \in Entry
<1>1. pos[j] \in DOMAIN Walk[j]
  BY EngineAssumption DEF TypeOK, WorkersInv
<1>2. Item(j) \in Visit
  BY <1>1, EngineAssumption DEF Item
<1> QED
  BY <1>2 DEF TypeOK, Holding, Entry

\* What they have in common.
Kept ==
    /\ WorkersInv'
    /\ pos' \in [Jobs -> Nat \ {0}]
    /\ pc' \in [Jobs -> Active \cup {"queued", "ended"}]
    /\ UNCHANGED <<main, next, sem, canceled, groupErr>>

\* The common part of those steps: what is left to show is about the worker's
\* own position and tree, and about what it hands to a consumer.
LEMMA GoesCommon ==
    ASSUME TypeOK, WorkersInv, NEW j \in Jobs, NEW place \in Active,
           pc[j] \in Active, Stays(j, place),
           pos' = pos \/ (pos' = [pos EXCEPT ![j] = @ + 1] /\ place = "walking"),
           place \in Busy => pos[j] <= Len(Walk[j]),
           place \in Inside => Item(j) \in Mutation
    PROVE  Kept
<1>1. /\ pc' \in [Jobs -> Active \cup {"queued", "ended"}]
      /\ sem' = Count(pc', Active)
      /\ \A k \in Jobs : pc'[k] = "queued" <=> k >= next'
  BY StaysCounted
<1>2. pos' \in [Jobs -> Nat \ {0}] /\ \A k \in Jobs \ {j} : pos'[k] = pos[k]
  <2>1. CASE pos' = pos
    BY <2>1 DEF TypeOK
  <2>2. CASE pos' = [pos EXCEPT ![j] = @ + 1]
    <3>1. pos[j] + 1 \in Nat \ {0}
      BY DEF TypeOK
    <3> QED
      BY <2>2, <3>1 DEF TypeOK
  <2> QED
    BY <2>1, <2>2
<1>3. pc'[j] = place /\ \A k \in Jobs \ {j} : pc'[k] = pc[k]
  BY DEF TypeOK, Stays
<1>4. place \in Busy \cup Inside => pos' = pos
  BY DEF Busy, Inside
<1>5. \A k \in Jobs : pc'[k] \in Busy => pos'[k] <= Len(Walk[k])
  BY <1>2, <1>3, <1>4 DEF WorkersInv
<1>6. \A k \in Jobs : pc'[k] \in Inside => Walk[k][pos'[k]] \in Mutation
  BY <1>2, <1>3, <1>4 DEF WorkersInv, Item
<1> QED
  BY <1>1, <1>2, <1>5, <1>6 DEF Kept, WorkersInv, Item, Stays, mainVars, ctxVars

\* Taking the mutation off the tree keeps it a set of mutations.
LEMMA RevertType ==
    ASSUME TypeOK, NEW j \in Jobs, Revert(j)
    PROVE  ast' \in [Jobs -> SUBSET Mutation]
  BY DEF TypeOK, Revert

LEMMA GoesWorkers ==
    ASSUME TypeOK, WorkersInv, NEW j \in Jobs, Goes(j)
    PROVE  TypeOK' /\ WorkersInv'
<1> USE DEF storeVars, sinkVars
<1> DEFINE Moves(place) ==
             /\ pc[j] \in Active /\ place \in Active /\ Stays(j, place)
             /\ \/ pos' = pos
                \/ pos' = [pos EXCEPT ![j] = @ + 1] /\ place = "walking"
             /\ place \in Busy => pos[j] <= Len(Walk[j])
             /\ place \in Inside => Item(j) \in Mutation
<1>0. ASSUME NEW place, Moves(place) PROVE Kept
  BY <1>0, GoesCommon
<1> HIDE DEF Moves
<1>1. CASE OpenFile(j)
  <2>1. Moves("walking")
    BY <1>1 DEF Moves, OpenFile, Active, Busy, Inside
  <2>2. Kept
    BY <1>0, <2>1
  <2> QED
    BY <1>1, <2>2 DEF OpenFile, Kept, TypeOK
<1>2. CASE VisitSuppressed(j)
  <2>1. pc[j] \in Active /\ pos[j] <= Len(Walk[j])
    BY <1>2 DEF VisitSuppressed, AtVisit, Active
  <2>2. out' \in [Jobs -> Outcome] /\ src' \in [Jobs -> SUBSET Mutation]
    BY <1>2 DEF VisitSuppressed, TypeOK, Outcome
  <2>3. Moves("sending")
    BY <1>2, <2>1, <2>2 DEF Moves, VisitSuppressed, Active, Busy, Inside
  <2>4. Kept
    BY <1>0, <2>3
  <2> QED
    BY <1>2, <2>1, <2>2, <2>4 DEF VisitSuppressed, Kept, TypeOK
<1>3. CASE SkipUnwanted(j)
  <2>1. Moves("walking")
    BY <1>3 DEF Moves, SkipUnwanted, AtVisit, Active, Busy, Inside
  <2>2. Kept
    BY <1>0, <2>1
  <2> QED
    BY <1>3, <2>2 DEF SkipUnwanted, AtVisit, Kept, TypeOK
<1>4. CASE ApplyMutation(j)
  <2>1. /\ pc[j] \in Active /\ pos[j] <= Len(Walk[j])
        /\ Item(j) \in Mutation
    BY <1>4, EngineAssumption DEF ApplyMutation, AtVisit, Active
  <2>2. ast' \in [Jobs -> SUBSET Mutation]
    BY <1>4, <2>1 DEF ApplyMutation, TypeOK
  <2>3. src' \in [Jobs -> SUBSET Mutation] /\ out' \in [Jobs -> Outcome]
    BY <1>4, <2>2 DEF ApplyMutation, TypeOK, Outcome
  <2>4. Moves("applied")
    BY <1>4, <2>1, <2>2, <2>3 DEF Moves, ApplyMutation, Active, Busy, Inside
  <2>5. Kept
    BY <1>0, <2>4
  <2> QED
    BY <1>4, <2>1, <2>2, <2>3, <2>5 DEF ApplyMutation, Kept, TypeOK
<1>5. CASE IsNoChange(j)
  <2>1. Moves("walking")
    BY <1>5 DEF Moves, IsNoChange, Active, Busy, Inside
  <2>2. Kept
    BY <1>0, <2>1
  <2> QED
    BY <1>5, <2>2, RevertType DEF IsNoChange, Kept, TypeOK
<1>6. ASSUME NEW verdict \in Outcome, pc[j] = "applied", ReturnAtOnce(j, verdict)
      PROVE  TypeOK' /\ WorkersInv'
  <2>1. out' \in [Jobs -> Outcome]
    BY <1>6 DEF ReturnAtOnce, TypeOK
  <2>2. pos[j] <= Len(Walk[j])
    BY <1>6 DEF WorkersInv, Busy
  <2>3. Moves("sending")
    BY <1>6, <2>1, <2>2 DEF Moves, ReturnAtOnce, Active, Busy, Inside
  <2>4. Kept
    BY <1>0, <2>3
  <2> QED
    BY <1>6, <2>1, <2>2, RevertType, <2>4 DEF ReturnAtOnce, Kept, TypeOK
<1>7. CASE IsUncovered(j)
  BY <1>6, <1>7 DEF IsUncovered, Outcome, Verdict
<1>8. CASE CacheHit(j)
  <2>1. Index[Item(j)] \in Outcome
    BY <1>8, EngineAssumption DEF CacheHit, IndexHit, Outcome
  <2> QED
    BY <1>6, <1>8, <2>1 DEF CacheHit
<1>9. CASE BuildWorkspace(j)
  <2>1. pos[j] <= Len(Walk[j]) /\ Item(j) \in Mutation
    BY <1>9 DEF BuildWorkspace, WorkersInv, Busy, Inside
  <2>2. Moves("testing")
    BY <1>9, <2>1 DEF Moves, BuildWorkspace, Active, Busy, Inside
  <2>3. Kept
    BY <1>0, <2>2
  <2> QED
    BY <1>9, <2>1, <2>3 DEF BuildWorkspace, Kept, TypeOK
<1>10. ASSUME NEW verdict \in Outcome, pc[j] = "testing", Deliver(j, verdict)
       PROVE  TypeOK' /\ WorkersInv'
  <2>1. out' \in [Jobs -> Outcome]
    BY <1>10 DEF Deliver, TypeOK
  <2>2. pos[j] <= Len(Walk[j]) /\ Item(j) \in Mutation
    BY <1>10 DEF WorkersInv, Busy, Inside
  <2>3. ast' \in [Jobs -> SUBSET Mutation]
    BY <1>10, RevertType DEF Deliver, TypeOK
  <2>4. Stays(j, "recording") \/ Stays(j, "sending")
    BY <1>10 DEF Deliver
  <2>5. Moves("recording") \/ Moves("sending")
    BY <1>10, <2>1, <2>2, <2>3, <2>4 DEF Moves, Deliver, Active, Busy, Inside
  <2>6. Kept
    BY <1>0, <2>5
  <2> QED
    BY <1>10, <2>1, <2>2, <2>3, <2>4, <2>6 DEF Deliver, Kept, TypeOK
<1>11. CASE TceFilters(j)
  BY <1>10, <1>11 DEF TceFilters, Outcome
<1>12. CASE TestEnds(j)
  BY <1>10, <1>12 DEF TestEnds, Outcome
<1>13. CASE Record(j)
  <2>1. pc[j] \in Busy /\ pos[j] <= Len(Walk[j])
    BY <1>13 DEF Record, WorkersInv, Busy
  <2>2. slot' \in Seq(Entry)
    BY <1>13, <2>1, HoldingType DEF Record
  <2>3. Moves("sending")
    BY <1>13, <2>1, <2>2 DEF Moves, Record, Active, Busy, Inside
  <2>4. Kept
    BY <1>0, <2>3
  <2> QED
    BY <1>13, <2>1, <2>2, RevertType, <2>4 DEF Record, Kept, TypeOK
<1>14. CASE Send(j)
  <2>1. result' \in Seq(Entry)
    BY <1>14, HoldingType DEF Send, TypeOK, Busy
  <2>2. src' \in [Jobs -> SUBSET Mutation] /\ out' \in [Jobs -> Outcome]
    BY <1>14 DEF Send, TypeOK, Outcome
  <2>3. late' \in Nat
    BY <1>14 DEF Send, TypeOK
  <2>4. Moves("walking")
    BY <1>14, <2>1, <2>2, <2>3 DEF Moves, Send, Active, Busy, Inside
  <2>5. Kept
    BY <1>0, <2>4
  <2> QED
    BY <1>14, <2>1, <2>2, <2>3, <2>5 DEF Send, Kept, TypeOK
<1> QED
  BY <1>1, <1>2, <1>3, <1>4, <1>5, <1>7, <1>8, <1>9, <1>11, <1>12, <1>13,
     <1>14 DEF Goes

LEMMA QuitsWorkers ==
    ASSUME TypeOK, WorkersInv, NEW j \in Jobs, Quits(j)
    PROVE  TypeOK' /\ WorkersInv'
<1>1. PICK err \in Error : Finish(j, err)
  BY DEF Quits, SeeCancel, EndOfWalk, TestCanceled, ParseFails, MutantFails, Error
<1>2. pc[j] \in Active
  BY DEF Quits, SeeCancel, EndOfWalk, TestCanceled, ParseFails, MutantFails,
         Active, Busy
<1>3. ast' \in [Jobs -> SUBSET Mutation]
  <2>1. UNCHANGED ast \/ Revert(j)
    BY DEF Quits, SeeCancel, EndOfWalk, TestCanceled, ParseFails, MutantFails
  <2> QED
    BY <2>1, RevertType DEF TypeOK
<1>4. /\ pc' \in [Jobs -> Active \cup {"queued", "ended"}]
      /\ sem' = Count(pc', Active) /\ sem' \in 0 .. Parallel
      /\ groupErr' \in Error
      /\ \A k \in Jobs : pc'[k] = "queued" <=> k >= next'
  BY <1>1, <1>2, FinishCounted
<1>5. pos' = pos /\ \A k \in Jobs : pc'[k] = pc[k] \/ pc'[k] = "ended"
  BY <1>1 DEF Finish, TypeOK
<1>6. /\ \A k \in Jobs : pc'[k] \in Busy => pos'[k] <= Len(Walk[k])
      /\ \A k \in Jobs : pc'[k] \in Inside => Walk[k][pos'[k]] \in Mutation
  BY <1>5 DEF WorkersInv, Item, Busy, Inside
<1>7. TypeOK'
  BY <1>1, <1>3, <1>4 DEF TypeOK, Finish, mainVars, storeVars, sinkVars
<1> QED
  BY <1>4, <1>6, <1>7 DEF WorkersInv, Item

\* group.Go takes a token for a worker that had none.
LEMMA SpawnWorkers ==
    ASSUME TypeOK, WorkersInv, Spawn
    PROVE  TypeOK' /\ WorkersInv'
<1>1. next \in Jobs /\ next' = next + 1 /\ next' \in 1 .. NumJobs + 1
  BY EngineAssumption DEF Spawn, TypeOK, Jobs
<1>2. pc[next] = "queued"
  BY <1>1 DEF WorkersInv, TypeOK
<1>3. "started" \in Active /\ "queued" \notin Active
  BY DEF Active, Busy
<1>4. Count(pc', Active) = Count(pc, Active) + 1
  <2>1. pc = [k \in Jobs |-> pc[k]] /\ pc' = [pc EXCEPT ![next] = "started"]
    BY DEF Spawn, TypeOK
  <2> QED
    BY <1>1, <1>2, <1>3, <2>1, CountEnter
<1>5. sem' = Count(pc', Active) /\ sem' \in 0 .. Parallel
  BY <1>4, EngineAssumption DEF Spawn, TypeOK, WorkersInv
<1>6. /\ pc' \in [Jobs -> Active \cup {"queued", "ended"}]
      /\ pc'[next] = "started" /\ \A k \in Jobs \ {next} : pc'[k] = pc[k]
  BY <1>1, <1>3 DEF Spawn, TypeOK
<1>7. \A k \in Jobs : pc'[k] = "queued" <=> k >= next'
  <2> TAKE k \in Jobs
  <2>1. k \in Int /\ next \in Int
    BY <1>1 DEF Jobs
  <2>2. CASE k = next
    BY <2>1, <2>2, <1>1, <1>6
  <2>3. CASE k # next
    BY <2>1, <2>3, <1>1, <1>6 DEF WorkersInv
  <2> QED
    BY <2>2, <2>3
<1>8. TypeOK'
  BY <1>1, <1>5, <1>6 DEF Spawn, TypeOK, ctxVars, storeVars, sinkVars
<1>9. pos' = pos /\ "started" \notin Busy \cup Inside
  BY DEF Spawn, Busy, Inside
<1>10. /\ \A k \in Jobs : pc'[k] \in Busy => pos'[k] <= Len(Walk[k])
       /\ \A k \in Jobs : pc'[k] \in Inside => Walk[k][pos'[k]] \in Mutation
  BY <1>6, <1>9 DEF WorkersInv, Item
<1> QED
  BY <1>5, <1>7, <1>8, <1>10 DEF WorkersInv, Item

\* The steps of the user, of the consumers and of Run after the last spawn leave
\* the workers alone.
Elsewhere ==
    Cancel \/ StoreWrite \/ StoreExit \/ WaitReturns \/ StoreClosed \/ SinkClosed

LEMMA ElsewhereWorkers ==
    ASSUME TypeOK, WorkersInv, Elsewhere \/ UNCHANGED vars
    PROVE  TypeOK' /\ WorkersInv'
<1> USE DEF mainVars, ctxVars, workerVars, storeVars, sinkVars
<1>1. /\ next' = next /\ sem' = sem /\ groupErr' = groupErr
      /\ pc' = pc /\ pos' = pos /\ ast' = ast /\ src' = src /\ out' = out
  BY DEF Elsewhere, Cancel, StoreWrite, StoreExit, WaitReturns, StoreClosed,
         SinkClosed, vars
<1>2. WorkersInv'
  BY <1>1 DEF WorkersInv, Item, Count
<1>3. main' \in {"spawning", "closingStore", "closingSink", "done"}
  BY DEF Elsewhere, Cancel, StoreWrite, StoreExit, WaitReturns, StoreClosed,
         SinkClosed, vars, TypeOK
<1>4. canceled' \in BOOLEAN /\ late' = late /\ result' = result
  BY DEF Elsewhere, Cancel, StoreWrite, StoreExit, WaitReturns, StoreClosed,
         SinkClosed, vars, TypeOK
<1>5. store' \in {"open", "closing", "closed"} /\ sink' \in {"open", "closing", "closed"}
  BY DEF Elsewhere, Cancel, StoreWrite, StoreExit, WaitReturns, StoreClosed,
         SinkClosed, vars, TypeOK
<1>6. slot' \in Seq(Entry) /\ werr' \in BOOLEAN /\ log' \in Seq(Entry)
  <2>1. CASE StoreWrite
    <3>1. slot' \in Seq(Entry)
      BY <2>1 DEF StoreWrite
    <3>2. log \o slot \in Seq(Entry)
      BY DEF TypeOK
    <3> QED
      BY <2>1, <3>1, <3>2 DEF StoreWrite, TypeOK
  <2>2. CASE UNCHANGED <<slot, log>>
    BY <2>2 DEF Elsewhere, Cancel, StoreWrite, StoreExit, WaitReturns,
         StoreClosed, SinkClosed, vars, TypeOK
  <2> QED
    BY <2>1, <2>2 DEF Elsewhere, Cancel, StoreExit, WaitReturns, StoreClosed,
         SinkClosed, vars
<1>7. TypeOK'
  BY <1>1, <1>3, <1>4, <1>5, <1>6 DEF TypeOK
<1> QED
  BY <1>2, <1>7

\* Every step is one of a worker, a spawn, or one of the rest.
LEMMA StepCases ==
    ASSUME [Next]_vars
    PROVE  \/ \E j \in Jobs : Goes(j) \/ Quits(j)
           \/ Spawn
           \/ Elsewhere \/ UNCHANGED vars
  BY DEF Next, Terminated, Proceeds, Fails, Goes, Quits, Elsewhere

LEMMA NextWorkers == TypeOK /\ WorkersInv /\ [Next]_vars => TypeOK' /\ WorkersInv'
  BY StepCases, GoesWorkers, QuitsWorkers, SpawnWorkers, ElsewhereWorkers

\* The variables keep their types in every run, and the semaphore counts the
\* workers that hold one of its tokens.
THEOREM TypeCorrect == Spec => [](TypeOK /\ WorkersInv)
  BY InitWorkers, NextWorkers, PTL DEF Spec, Safe

\* The limit of the errgroup bounds the files, hence the test suites, at once:
\* for every number of jobs, limit, plan and outcome.
THEOREM Bounded == Spec => []AtMostParallel
<1>1. TypeOK /\ WorkersInv => AtMostParallel
  BY DEF TypeOK, WorkersInv, AtMostParallel, Count
<1> QED
  BY <1>1, TypeCorrect, PTL
-----------------------------------------------------------------------------
(* One mutation at a time.                                                 *)

\* The source an entry for visit v must have been reached with.
OwnSource(v) == IF v \in Suppression THEN {} ELSE {v}

\* The tree of a worker carries the mutation of the visit it is inside of and
\* nothing else; what it printed last goes with the visit it will report.
Own(j) ==
    /\ ast[j] = IF pc[j] \in Inside THEN {Item(j)} ELSE {}
    /\ pc[j] \in Inside => src[j] = {Item(j)}
    /\ pc[j] = "sending" => src[j] = OwnSource(Item(j))

TreeInv ==
    /\ \A j \in Jobs : Own(j)
    /\ OneMutationAtATime

LEMMA InitTree == Init => TreeInv
  BY DEF Init, TreeInv, Own, OneMutationAtATime, RangeOf, Inside, Jobs

\* A worker's step is about its own tree.
LEMMA OthersOwn ==
    ASSUME TypeOK, TreeInv, NEW j \in Jobs,
           \A k \in Jobs \ {j} : /\ pc'[k] = pc[k] /\ pos'[k] = pos[k]
                                 /\ ast'[k] = ast[k] /\ src'[k] = src[k],
           Own(j)'
    PROVE  \A k \in Jobs : Own(k)'
<1> TAKE k \in Jobs
<1>1. CASE k # j
  BY <1>1 DEF TreeInv, Own, Item
<1>2. CASE k = j
  BY <1>2
<1> QED
  BY <1>1, <1>2

\* The worker's variables change at j only.
LEMMA WorkerFrame ==
    ASSUME TypeOK, NEW j \in Jobs, Goes(j) \/ Quits(j)
    PROVE  /\ \A k \in Jobs \ {j} : /\ pc'[k] = pc[k] /\ pos'[k] = pos[k]
                                    /\ ast'[k] = ast[k] /\ src'[k] = src[k]
           /\ UNCHANGED mainVars
<1>1. CASE Quits(j)
  BY <1>1 DEF TypeOK, Quits, SeeCancel, EndOfWalk, TestCanceled, ParseFails,
              MutantFails, Finish, Revert
<1>2. CASE Goes(j)
  <2>1. CASE OpenFile(j) \/ VisitSuppressed(j) \/ SkipUnwanted(j) \/ ApplyMutation(j)
    BY <2>1 DEF TypeOK, OpenFile, VisitSuppressed, SkipUnwanted, ApplyMutation,
                Stays
  <2>2. CASE IsNoChange(j) \/ IsUncovered(j) \/ CacheHit(j) \/ BuildWorkspace(j)
    BY <2>2 DEF TypeOK, IsNoChange, IsUncovered, CacheHit, BuildWorkspace,
                ReturnAtOnce, Revert, Stays
  <2>3. CASE TceFilters(j) \/ TestEnds(j)
    BY <2>3 DEF TypeOK, TceFilters, TestEnds, Deliver, Revert, Stays
  <2>4. CASE Record(j) \/ Send(j)
    BY <2>4 DEF TypeOK, Record, Send, Revert, Stays
  <2> QED
    BY <1>2, <2>1, <2>2, <2>3, <2>4 DEF Goes
<1> QED
  BY <1>1, <1>2

\* Reverting takes off exactly what the worker had applied.
LEMMA RevertedOwn ==
    ASSUME TypeOK, TreeInv, NEW j \in Jobs, pc[j] \in Inside, Revert(j)
    PROVE  ast'[j] = {}
  BY DEF TypeOK, TreeInv, Own, Revert

LEMMA GoesOwn ==
    ASSUME TypeOK, WorkersInv, TreeInv, NEW j \in Jobs, Goes(j)
    PROVE  Own(j)'
<1> USE DEF Inside
<1>1. \A place : Stays(j, place) => pc'[j] = place
  BY DEF TypeOK, Stays
<1>2. CASE OpenFile(j)
  BY <1>1, <1>2 DEF OpenFile, TreeInv, Own, Item
<1>3. CASE VisitSuppressed(j)
  <2>1. src'[j] = {} /\ pc'[j] = "sending" /\ pos' = pos /\ ast' = ast
    BY <1>1, <1>3 DEF VisitSuppressed, TypeOK
  <2> QED
    BY <1>3, <2>1 DEF VisitSuppressed, AtVisit, TreeInv, Own, Item, OwnSource
<1>4. CASE SkipUnwanted(j)
  BY <1>1, <1>4 DEF SkipUnwanted, AtVisit, TreeInv, Own, Item
<1>5. CASE ApplyMutation(j)
  <2>1. ast[j] = {} /\ pc'[j] = "applied" /\ pos' = pos
    BY <1>1, <1>5 DEF ApplyMutation, AtVisit, TreeInv, Own
  <2>2. ast'[j] = {Item(j)} /\ src'[j] = {Item(j)}
    BY <1>5, <2>1 DEF ApplyMutation, TypeOK
  <2> QED
    BY <2>1, <2>2 DEF Own, Item
<1>6. CASE IsNoChange(j)
  <2>1. ast'[j] = {} /\ pc'[j] = "walking"
    BY <1>1, <1>6, RevertedOwn DEF IsNoChange
  <2> QED
    BY <2>1 DEF Own
\* What an Inside worker holds is its own mutation, and no suppression.
<1>7. pc[j] \in Inside => src[j] = OwnSource(Item(j))
  BY EngineAssumption DEF WorkersInv, TreeInv, Own, OwnSource
<1>8. ASSUME pc[j] \in Inside, Stays(j, "sending"), Revert(j), UNCHANGED <<pos, src>>
      PROVE  Own(j)'
  <2>1. ast'[j] = {} /\ pc'[j] = "sending"
    BY <1>1, <1>8, RevertedOwn
  <2> QED
    BY <1>7, <1>8, <2>1 DEF Own, Item
<1>9. ASSUME pc[j] \in Inside, Stays(j, "recording") \/ Stays(j, "testing"),
             UNCHANGED <<pos, ast, src>>
      PROVE  Own(j)'
  BY <1>1, <1>9 DEF TreeInv, Own, Item
<1>10. CASE IsUncovered(j) \/ CacheHit(j)
  BY <1>8, <1>10 DEF IsUncovered, CacheHit, ReturnAtOnce
<1>11. CASE BuildWorkspace(j)
  BY <1>9, <1>11 DEF BuildWorkspace
<1>12. CASE TceFilters(j) \/ TestEnds(j)
  BY <1>8, <1>9, <1>12 DEF TceFilters, TestEnds, Deliver
<1>13. CASE Record(j)
  BY <1>8, <1>13 DEF Record
<1>14. CASE Send(j)
  BY <1>1, <1>14 DEF Send, TreeInv, Own
<1> QED
  BY <1>2, <1>3, <1>4, <1>5, <1>6, <1>10, <1>11, <1>12, <1>13, <1>14 DEF Goes

LEMMA QuitsOwn ==
    ASSUME TypeOK, TreeInv, NEW j \in Jobs, Quits(j)
    PROVE  Own(j)'
<1> USE DEF Inside
<1>1. pc'[j] = "ended"
  BY DEF Quits, SeeCancel, EndOfWalk, TestCanceled, ParseFails, MutantFails,
         Finish, TypeOK
<1>2. ast'[j] = {}
  <2>1. CASE Revert(j) /\ pc[j] \in Inside
    BY <2>1, RevertedOwn
  <2>2. CASE UNCHANGED ast /\ pc[j] \notin Inside
    BY <2>2 DEF TreeInv, Own
  <2> QED
    BY <2>1, <2>2 DEF Quits, SeeCancel, EndOfWalk, TestCanceled, ParseFails,
                      MutantFails
<1> QED
  BY <1>1, <1>2 DEF Own

\* The entries: only Record and Send make one, StoreWrite moves one.
LEMMA EntriesOwn ==
    ASSUME TypeOK, WorkersInv, TreeInv, [Next]_vars
    PROVE  OneMutationAtATime'
<1> DEFINE Owned(s) == \A i \in DOMAIN s : s[i].src = OwnSource(s[i].item)
<1>1. Owned(slot) /\ Owned(log) /\ Owned(result)
  BY DEF TreeInv, OneMutationAtATime, RangeOf, OwnSource
<1>2. SUFFICES Owned(slot') /\ Owned(log') /\ Owned(result')
  <2>1. \A s : Owned(s) => \A e \in RangeOf(s) : e.src = OwnSource(e.item)
    BY DEF RangeOf
  <2>2. \A e \in RangeOf(slot') \cup RangeOf(log') \cup RangeOf(result') :
           e.src = OwnSource(e.item)
    BY <1>2, <2>1
  <2> QED
    BY <2>2 DEF OneMutationAtATime, RangeOf, OwnSource
<1>3. ASSUME NEW j \in Jobs, pc[j] \in {"recording", "sending"}
      PROVE  Holding(j).src = OwnSource(Holding(j).item)
  BY <1>3, EngineAssumption DEF WorkersInv, TreeInv, Own, OwnSource, Inside, Holding
<1>4. ASSUME NEW j \in Jobs, Record(j) PROVE Owned(slot') /\ UNCHANGED <<log, result>>
  BY <1>3, <1>4 DEF Record, sinkVars
<1>5. ASSUME NEW j \in Jobs, Send(j) PROVE Owned(result') /\ UNCHANGED <<log, slot>>
  BY <1>1, <1>3, <1>5 DEF Send, TypeOK, storeVars
<1>6. CASE StoreWrite
  <2>1. slot' = <<>> /\ result' = result
    BY <1>6 DEF StoreWrite, sinkVars
  <2>2. Owned(log \o slot)
    BY <1>1 DEF TypeOK
  <2>3. log' = log \/ log' = log \o slot
    BY <1>6 DEF StoreWrite
  <2>4. Owned(log')
    BY <1>1, <2>2, <2>3
  <2>5. Owned(slot')
    BY <2>1
  <2> QED
    BY <1>1, <2>1, <2>4, <2>5
<1>7. CASE UNCHANGED <<slot, log, result>>
  BY <1>1, <1>7
<1>8. \/ UNCHANGED <<slot, log, result>> \/ StoreWrite
      \/ \E j \in Jobs : Record(j) \/ Send(j)
  <2>1. ASSUME NEW j \in Jobs, Goes(j), ~Record(j), ~Send(j)
        PROVE  UNCHANGED <<slot, log, result>>
    BY <2>1 DEF Goes, OpenFile, VisitSuppressed, SkipUnwanted, ApplyMutation,
                IsNoChange, IsUncovered, CacheHit, BuildWorkspace, TceFilters,
                TestEnds, ReturnAtOnce, Deliver, storeVars, sinkVars
  <2>2. ASSUME NEW j \in Jobs, Quits(j) PROVE UNCHANGED <<slot, log, result>>
    BY <2>2 DEF Quits, SeeCancel, EndOfWalk, TestCanceled, ParseFails,
                MutantFails, Finish, storeVars, sinkVars
  <2>3. Spawn \/ UNCHANGED vars => UNCHANGED <<slot, log, result>>
    BY DEF Spawn, vars, storeVars, sinkVars
  <2>4. Elsewhere => StoreWrite \/ UNCHANGED <<slot, log, result>>
    BY DEF Elsewhere, Cancel, StoreExit, WaitReturns, StoreClosed, SinkClosed,
           storeVars, sinkVars
  <2> QED
    BY <2>1, <2>2, <2>3, <2>4, StepCases
<1> QED
  BY <1>1, <1>4, <1>5, <1>6, <1>7, <1>8

LEMMA NextTree ==
    ASSUME TypeOK, WorkersInv, TreeInv, [Next]_vars
    PROVE  TreeInv'
<1>1. \A j \in Jobs : Own(j)'
  <2>1. ASSUME NEW j \in Jobs, Goes(j) \/ Quits(j) PROVE \A k \in Jobs : Own(k)'
    BY <2>1, WorkerFrame, OthersOwn, GoesOwn, QuitsOwn
  <2>2. CASE Spawn
    <3>1. PICK n \in Jobs : n = next
      BY <2>2, EngineAssumption DEF Spawn, TypeOK, Jobs
    <3>2. pc[n] = "queued"
      BY <3>1 DEF WorkersInv, Jobs
    <3>3. /\ \A k \in Jobs \ {n} : pc'[k] = pc[k]
          /\ pc'[n] = "started"
          /\ pos' = pos /\ ast' = ast /\ src' = src
      BY <2>2, <3>1 DEF Spawn, TypeOK
    <3>4. Own(n)'
      BY <3>2, <3>3 DEF TreeInv, Own, Inside
    <3> QED
      BY <3>3, <3>4, OthersOwn
  <2>3. CASE Elsewhere \/ UNCHANGED vars
    <3>1. UNCHANGED <<pc, pos, ast, src>>
      BY <2>3 DEF Elsewhere, Cancel, StoreWrite, StoreExit, WaitReturns,
                  StoreClosed, SinkClosed, vars, workerVars
    <3> QED
      BY <3>1 DEF TreeInv, Own, Item
  <2> QED
    BY <2>1, <2>2, <2>3, StepCases
<1> QED
  BY <1>1, EntriesOwn DEF TreeInv

\* Every verdict a run reports or writes to the cache was reached with exactly
\* its own mutation in the printed file, however the visits before it ended:
\* the deferred Revert of runner.run leaves the shared tree as it found it.
THEOREM VerdictsAreOwn == Spec => []OneMutationAtATime
<1>1. Init => TreeInv
  BY InitTree
<1>2. TypeOK /\ WorkersInv /\ TreeInv /\ [Next]_vars => TreeInv'
  BY NextTree
<1>3. TreeInv => OneMutationAtATime
  BY DEF TreeInv
<1> QED
  BY <1>1, <1>2, <1>3, TypeCorrect, PTL DEF Spec, Safe

-----------------------------------------------------------------------------
(* No send on a closed channel.                                            *)

\* Run leaves its spawning loop only when every worker has ended, closes a
\* channel only after that, and only a run with a store has records to send.
ShutdownInv ==
    /\ main # "spawning" => \A j \in Jobs : pc[j] = "ended"
    /\ sink # "open" => main # "spawning"
    /\ StoreOpen /\ store # "open" => main # "spawning"
    /\ ~StoreOpen => \A j \in Jobs : pc[j] # "recording"

LEMMA InitShutdown == Init => ShutdownInv
  BY DEF Init, ShutdownInv

LEMMA NextShutdown ==
    ASSUME TypeOK, WorkersInv, ShutdownInv, [Next]_vars
    PROVE  ShutdownInv'
<1> USE DEF mainVars, workerVars, storeVars, sinkVars
<1>1. ASSUME NEW j \in Jobs, Goes(j) \/ Quits(j) PROVE ShutdownInv'
  <2>1. pc[j] # "ended" /\ UNCHANGED main
    BY <1>1, WorkerFrame DEF Goes, OpenFile, VisitSuppressed, SkipUnwanted,
       ApplyMutation, AtVisit, IsNoChange, IsUncovered, CacheHit, BuildWorkspace,
       TceFilters, TestEnds, Record, Send, Quits, SeeCancel, EndOfWalk,
       TestCanceled, ParseFails, MutantFails
  <2>2. main = "spawning"
    BY <2>1 DEF ShutdownInv
  <2>3. UNCHANGED <<sink, store>>
    <3>1. CASE Quits(j)
      BY <3>1 DEF Quits, SeeCancel, EndOfWalk, TestCanceled, ParseFails,
                  MutantFails, Finish
    <3>2. CASE Goes(j)
      BY <3>2 DEF Goes, OpenFile, VisitSuppressed, SkipUnwanted, ApplyMutation,
                  IsNoChange, IsUncovered, CacheHit, BuildWorkspace, TceFilters,
                  TestEnds, ReturnAtOnce, Deliver, Record, Send
    <3> QED
      BY <1>1, <3>1, <3>2
  <2>4. ~StoreOpen => pc'[j] # "recording"
    <3>1. CASE Quits(j)
      BY <3>1 DEF Quits, SeeCancel, EndOfWalk, TestCanceled, ParseFails,
                  MutantFails, Finish, TypeOK
    <3>2. CASE TceFilters(j) \/ TestEnds(j)
      BY <3>2 DEF TceFilters, TestEnds, Deliver, Stays, TypeOK
    <3>3. CASE Goes(j) /\ ~TceFilters(j) /\ ~TestEnds(j)
      BY <3>3 DEF Goes, OpenFile, VisitSuppressed, SkipUnwanted, ApplyMutation,
                  IsNoChange, IsUncovered, CacheHit, BuildWorkspace,
                  ReturnAtOnce, Record, Send, Stays, TypeOK
    <3> QED
      BY <1>1, <3>1, <3>2, <3>3
  <2>5. \A k \in Jobs \ {j} : pc'[k] = pc[k]
    BY <1>1, WorkerFrame
  <2>6. ~StoreOpen => \A k \in Jobs : pc'[k] # "recording"
    BY <2>4, <2>5 DEF ShutdownInv
  <2> QED
    BY <2>1, <2>2, <2>3, <2>6 DEF ShutdownInv
<1>2. CASE Spawn
  <2>1. PICK n \in Jobs : n = next
    BY <1>2, EngineAssumption DEF Spawn, TypeOK, Jobs
  <2>2. \A k \in Jobs : pc'[k] = pc[k] \/ pc'[k] = "started"
    BY <1>2, <2>1 DEF Spawn, TypeOK
  <2> QED
    BY <1>2, <2>2 DEF Spawn, ShutdownInv
<1>3. CASE Elsewhere \/ UNCHANGED vars
  BY <1>3 DEF Elsewhere, Cancel, StoreWrite, StoreExit, WaitReturns, StoreClosed,
              SinkClosed, vars, ShutdownInv
<1> QED
  BY <1>1, <1>2, <1>3, StepCases

\* A worker never sends to a consumer that has been closed: such a send panics.
THEOREM NoPanic == Spec => []NoSendAfterClose
<1>1. Init => ShutdownInv
  BY InitShutdown
<1>2. TypeOK /\ WorkersInv /\ ShutdownInv /\ [Next]_vars => ShutdownInv'
  BY NextShutdown
<1>3. ShutdownInv => NoSendAfterClose
  BY DEF ShutdownInv, NoSendAfterClose, Active, Busy
<1> QED
  BY <1>1, <1>2, <1>3, TypeCorrect, PTL DEF Spec, Safe

-----------------------------------------------------------------------------
(* A canceled run stops.                                                   *)

\* An entry that arrives late was in flight when the context was done.
LateInv ==
    /\ ~Cancelled => late = 0
    /\ Cancelled => late + Count(pc, Busy) <= Parallel

LEMMA InitLate == Init => LateInv
  BY DEF Init, LateInv, Cancelled

\* Workers in a visit are among those that hold a token.
LEMMA BusyBound ==
    ASSUME TypeOK, WorkersInv
    PROVE  Count(pc, Busy) \in Nat /\ Count(pc, Busy) <= Parallel
<1>1. Count(pc, Busy) <= Count(pc, Active)
  BY CountFewer DEF Active
<1>2. Count(pc, Busy) \in Nat /\ Count(pc, Active) \in Nat
  BY CountType
<1>3. Count(pc, Active) <= Parallel
  BY EngineAssumption DEF TypeOK, WorkersInv
<1> QED
  BY <1>1, <1>2, <1>3, EngineAssumption

\* A step of the workers that brings none into a visit and reports nothing.
LEMMA NoneEnters ==
    ASSUME TypeOK, WorkersInv, LateInv, UNCHANGED late,
           TypeOK', WorkersInv', Cancelled => Cancelled',
           Cancelled => \A j \in Jobs : pc'[j] \in Busy => pc[j] \in Busy
    PROVE  LateInv'
<1>1. Count(pc', Busy) \in Nat /\ Count(pc, Busy) \in Nat
  BY CountType
<1>2. CASE ~Cancelled
  <2>1. Count(pc', Busy) <= Count(pc', Active)
    BY CountFewer DEF Active
  <2>2. Count(pc', Active) \in Nat /\ Count(pc', Active) <= Parallel
    BY CountType, EngineAssumption DEF TypeOK, WorkersInv
  <2>3. late' = 0
    BY <1>2 DEF LateInv
  <2> QED
    BY <1>1, <2>1, <2>2, <2>3, EngineAssumption DEF LateInv
<1>3. CASE Cancelled
  <2>1. Count(pc', Busy) <= Count(pc, Busy)
    BY <1>3, CountFewer
  <2> QED
    BY <1>1, <1>3, <2>1, EngineAssumption DEF LateInv, TypeOK
<1> QED
  BY <1>2, <1>3

LEMMA NextLate ==
    ASSUME TypeOK, WorkersInv, LateInv, [Next]_vars
    PROVE  LateInv'
<1> USE DEF mainVars, ctxVars, workerVars, storeVars, sinkVars
<1>1. TypeOK' /\ WorkersInv'
  BY NextWorkers
<1>2. Cancelled => Cancelled'
  <2>1. ASSUME NEW j \in Jobs, Goes(j) \/ Quits(j) PROVE Cancelled => Cancelled'
    <3>1. CASE Quits(j)
      BY <3>1 DEF Quits, SeeCancel, EndOfWalk, TestCanceled, ParseFails,
                  MutantFails, Finish, Cancelled
    <3>2. CASE Goes(j)
      BY <3>2 DEF Goes, OpenFile, VisitSuppressed, SkipUnwanted, ApplyMutation,
                  IsNoChange, IsUncovered, CacheHit, BuildWorkspace, TceFilters,
                  TestEnds, ReturnAtOnce, Deliver, Record, Send, Stays, Cancelled
    <3> QED
      BY <2>1, <3>1, <3>2
  <2>2. Spawn \/ Elsewhere \/ UNCHANGED vars =>
           groupErr' = groupErr /\ (canceled' = canceled \/ canceled' = TRUE)
    BY DEF Spawn, Elsewhere, Cancel, StoreWrite, StoreExit, WaitReturns,
           StoreClosed, SinkClosed, vars
  <2>3. groupErr' = groupErr /\ (canceled' = canceled \/ canceled' = TRUE) =>
           (Cancelled => Cancelled')
    BY DEF Cancelled
  <2> QED
    BY <2>1, <2>2, <2>3, StepCases
<1>3. ASSUME NEW j \in Jobs, Send(j) PROVE LateInv'
  <2>1. /\ pc = [k \in Jobs |-> pc[k]] /\ pc' = [pc EXCEPT ![j] = "walking"]
        /\ pc[j] \in Busy /\ "walking" \notin Busy
    BY <1>3 DEF Send, Stays, TypeOK, Busy
  <2>2. Count(pc', Busy) = Count(pc, Busy) - 1
    BY <2>1, CountLeave
  <2>3. Cancelled' <=> Cancelled
    BY <1>3 DEF Send, Stays, Cancelled
  <2>4. Count(pc, Busy) \in Nat /\ late \in Nat
    BY CountType DEF TypeOK
  <2>5. late' = IF Cancelled THEN late + 1 ELSE late
    BY <1>3 DEF Send
  <2> QED
    BY <2>2, <2>3, <2>4, <2>5, EngineAssumption DEF LateInv
<1>4. ASSUME NEW j \in Jobs, Goes(j) \/ Quits(j), ~Send(j) PROVE LateInv'
  <2>1. UNCHANGED late
    <3>1. CASE Quits(j)
      BY <3>1 DEF Quits, SeeCancel, EndOfWalk, TestCanceled, ParseFails,
                  MutantFails, Finish
    <3>2. CASE Goes(j)
      BY <3>2, <1>4 DEF Goes, OpenFile, VisitSuppressed, SkipUnwanted,
                  ApplyMutation, IsNoChange, IsUncovered, CacheHit,
                  BuildWorkspace, TceFilters, TestEnds, ReturnAtOnce, Deliver,
                  Record
    <3> QED
      BY <1>4, <3>1, <3>2
  <2>2. Cancelled => (pc'[j] \in Busy => pc[j] \in Busy)
    <3>1. CASE Quits(j)
      BY <3>1 DEF Quits, SeeCancel, EndOfWalk, TestCanceled, ParseFails,
                  MutantFails, Finish, TypeOK, Busy
    <3>2. CASE VisitSuppressed(j) \/ SkipUnwanted(j) \/ ApplyMutation(j)
      BY <3>2 DEF VisitSuppressed, SkipUnwanted, ApplyMutation, AtVisit
    <3>3. CASE OpenFile(j) \/ IsNoChange(j)
      BY <3>3 DEF OpenFile, IsNoChange, Stays, TypeOK, Busy
    <3>4. CASE IsUncovered(j) \/ CacheHit(j) \/ BuildWorkspace(j) \/ TceFilters(j)
                 \/ TestEnds(j) \/ Record(j)
      BY <3>4 DEF IsUncovered, CacheHit, BuildWorkspace, TceFilters, TestEnds,
                  Record, Busy
    <3> QED
      BY <1>4, <3>1, <3>2, <3>3, <3>4 DEF Goes
  <2>3. \A k \in Jobs \ {j} : pc'[k] = pc[k]
    BY <1>4, WorkerFrame
  <2>4. Cancelled => \A k \in Jobs : pc'[k] \in Busy => pc[k] \in Busy
    BY <2>2, <2>3
  <2> QED
    BY <1>1, <1>2, <2>1, <2>4, NoneEnters
<1>5. CASE Spawn
  <2>1. PICK n \in Jobs : n = next
    BY <1>5, EngineAssumption DEF Spawn, TypeOK, Jobs
  <2>2. \A k \in Jobs : pc'[k] \in Busy => pc[k] \in Busy
    BY <1>5, <2>1 DEF Spawn, TypeOK, Busy
  <2>3. UNCHANGED late
    BY <1>5 DEF Spawn
  <2> QED
    BY <1>1, <1>2, <2>2, <2>3, NoneEnters
<1>6. CASE Elsewhere \/ UNCHANGED vars
  <2>1. UNCHANGED <<pc, late>>
    BY <1>6 DEF Elsewhere, Cancel, StoreWrite, StoreExit, WaitReturns,
                StoreClosed, SinkClosed, vars
  <2> QED
    BY <1>1, <1>2, <2>1, NoneEnters
<1> QED
  BY <1>3, <1>4, <1>5, <1>6, StepCases

\* After Ctrl+C or the first error, a worker reports at most the mutant it had
\* in hand: however many files the plan holds, no more than the limit follow.
THEOREM StopsPromptly == Spec => []PromptStop
<1>1. Init => LateInv
  BY InitLate
<1>2. TypeOK /\ WorkersInv /\ LateInv /\ [Next]_vars => LateInv'
  BY NextLate
<1>3. TypeOK /\ WorkersInv /\ LateInv => PromptStop
  BY BusyBound, EngineAssumption DEF LateInv, PromptStop, TypeOK
<1> QED
  BY <1>1, <1>2, <1>3, TypeCorrect, PTL DEF Spec, Safe

-----------------------------------------------------------------------------
(* Each owed visit is reported once, and all of them without an error.     *)

\* The visits a worker's walk has left behind.
Behind(j) == {Walk[j][p] : p \in {q \in DOMAIN Walk[j] : q < pos[j]}}
Past == UNION {Behind(j) : j \in Jobs}
Reported == {result[i].item : i \in DOMAIN result}

\* What a worker is doing with the visit it is in, and that it ended early only
\* with an error.
Work(j) ==
    /\ pc[j] = "applied" => Item(j) \in Wanted
    /\ pc[j] \in {"testing", "recording"} => Item(j) \in Wanted \ NoOp
    /\ pc[j] = "sending" => Item(j) \in Owed
    /\ pc[j] = "ended" /\ groupErr = "none" => pos[j] > Len(Walk[j])

ReportInv ==
    /\ ReportedOnce
    /\ Reported = Owed \cap Past
    /\ \A j \in Jobs : Work(j)

LEMMA InitReport == Init => ReportInv
<1> SUFFICES ASSUME Init PROVE ReportInv
  OBVIOUS
<1>1. Past = {}
  BY EngineAssumption DEF Init, Past, Behind
<1>2. Reported = {} /\ ReportedOnce
  BY DEF Init, Reported, ReportedOnce
<1>3. \A j \in Jobs : Work(j)
  BY DEF Init, Work
<1> QED
  BY <1>1, <1>2, <1>3 DEF ReportInv

\* A worker in front of a visit has it in no worker's past: no visit is twice
\* in the walks.
LEMMA ItemAhead ==
    ASSUME TypeOK, NEW j \in Jobs, pos[j] <= Len(Walk[j])
    PROVE  pos[j] \in DOMAIN Walk[j] /\ Item(j) \in Visited /\ Item(j) \notin Past
<1>1. pos[j] \in DOMAIN Walk[j]
  BY EngineAssumption DEF TypeOK
<1>2. ASSUME NEW k \in Jobs, Item(j) \in Behind(k) PROVE FALSE
  <2>1. PICK q \in DOMAIN Walk[k] : q < pos[k] /\ Walk[k][q] = Item(j)
    BY <1>2 DEF Behind
  <2>2. k = j /\ q = pos[j]
    BY <1>1, <2>1, EngineAssumption DEF Item
  <2> QED
    BY <2>1, <2>2 DEF TypeOK
<1> QED
  BY <1>1, <1>2 DEF Past, Visited, Item

\* The walk goes on by one visit.
LEMMA PastGrows ==
    ASSUME TypeOK, NEW j \in Jobs, pos[j] <= Len(Walk[j]), pos' = [pos EXCEPT ![j] = @ + 1]
    PROVE  Past' = Past \cup {Item(j)}
<1>1. pos[j] \in DOMAIN Walk[j] /\ pos[j] \in Nat
  BY ItemAhead DEF TypeOK
<1>2. \A q \in DOMAIN Walk[j] : q < pos[j] + 1 <=> q < pos[j] \/ q = pos[j]
  BY <1>1, EngineAssumption
<1>3. Behind(j)' = Behind(j) \cup {Item(j)}
  BY <1>1, <1>2 DEF Behind, Item, TypeOK
<1>4. \A k \in Jobs \ {j} : Behind(k)' = Behind(k)
  BY DEF Behind, TypeOK
<1> QED
  BY <1>3, <1>4 DEF Past

\* A worker's step is about its own visit; an error only makes less of its end.
LEMMA OthersWork ==
    ASSUME TypeOK, ReportInv, NEW j \in Jobs, Goes(j) \/ Quits(j),
           groupErr' = "none" => groupErr = "none", Work(j)'
    PROVE  \A k \in Jobs : Work(k)'
<1> TAKE k \in Jobs
<1>1. CASE k # j
  <2>1. pc'[k] = pc[k] /\ pos'[k] = pos[k]
    BY <1>1, WorkerFrame
  <2> QED
    BY <2>1 DEF ReportInv, Work, Item
<1>2. CASE k = j
  BY <1>2
<1> QED
  BY <1>1, <1>2

\* Where nothing moves on and nothing arrives.
LEMMA SameReport ==
    ASSUME ReportInv, UNCHANGED <<pos, result>>, \A k \in Jobs : Work(k)'
    PROVE  ReportInv'
  BY DEF ReportInv, ReportedOnce, Reported, Past, Behind

\* A visit that is left without an entry is not owed one.
LEMMA PassedReport ==
    ASSUME TypeOK, ReportInv, NEW j \in Jobs, pos[j] <= Len(Walk[j]),
           pos' = [pos EXCEPT ![j] = @ + 1], result' = result, Item(j) \notin Owed,
           \A k \in Jobs : Work(k)'
    PROVE  ReportInv'
<1>1. Past' = Past \cup {Item(j)}
  BY PastGrows
<1>2. Reported' = Reported /\ ReportedOnce'
  BY DEF Reported, ReportedOnce, ReportInv
<1>3. Owed' = Owed
  BY DEF Owed, Visited
<1> QED
  BY <1>1, <1>2, <1>3 DEF ReportInv

LEMMA SentReport ==
    ASSUME TypeOK, WorkersInv, ReportInv, NEW j \in Jobs, Send(j),
           \A k \in Jobs : Work(k)'
    PROVE  ReportInv'
<1>1. pos[j] <= Len(Walk[j]) /\ Item(j) \in Owed /\ pc[j] = "sending"
  BY DEF Send, WorkersInv, ReportInv, Work, Busy
<1>2. Past' = Past \cup {Item(j)}
  BY <1>1, PastGrows DEF Send
<1>3. /\ DOMAIN result' = DOMAIN result \cup {Len(result) + 1}
      /\ Len(result) + 1 \notin DOMAIN result
      /\ result'[Len(result) + 1].item = Item(j)
      /\ \A i \in DOMAIN result : result'[i] = result[i]
  <2>1. result \in Seq(Entry) /\ Holding(j) \in Entry /\ Holding(j).item = Item(j)
    BY <1>1, HoldingType DEF TypeOK, Holding, Busy
  <2>2. result' = Append(result, Holding(j))
    BY DEF Send
  <2> QED
    BY <2>1, <2>2
<1>4. Item(j) \notin Reported
  BY <1>1, ItemAhead DEF ReportInv
<1>5. Reported' = Reported \cup {Item(j)}
  BY <1>3 DEF Reported
<1>6. ReportedOnce'
  BY <1>3, <1>4 DEF ReportedOnce, Reported, ReportInv
<1>7. Owed' = Owed
  BY DEF Owed, Visited
<1> QED
  BY <1>1, <1>2, <1>5, <1>6, <1>7 DEF ReportInv

LEMMA GoesReport ==
    ASSUME TypeOK, WorkersInv, TreeInv, ReportInv, NEW j \in Jobs, Goes(j)
    PROVE  ReportInv'
<1>1. \A place : Stays(j, place) => pc'[j] = place /\ groupErr' = groupErr
  BY DEF TypeOK, Stays, ctxVars
<1>2. pc[j] \in Busy => Item(j) \in Visited
  BY ItemAhead DEF WorkersInv
<1>3. ASSUME UNCHANGED <<pos, result>>, groupErr' = groupErr, Work(j)' PROVE ReportInv'
  BY <1>3, OthersWork, SameReport
<1>4. ASSUME pos[j] <= Len(Walk[j]), pos' = [pos EXCEPT ![j] = @ + 1], result' = result,
             Item(j) \notin Owed, Stays(j, "walking")
      PROVE  ReportInv'
  <2>1. pc'[j] = "walking" /\ groupErr' = groupErr
    BY <1>1, <1>4
  <2>2. \A k \in Jobs : Work(k)'
    BY <2>1, OthersWork DEF Work
  <2> QED
    BY <1>4, <2>2, PassedReport
<1>5. CASE OpenFile(j)
  BY <1>1, <1>3, <1>5 DEF OpenFile, Work, sinkVars
<1>6. CASE VisitSuppressed(j)
  <2>1. Item(j) \in Owed
    BY <1>6, ItemAhead DEF VisitSuppressed, AtVisit, Owed
  <2> QED
    BY <1>1, <1>3, <1>6, <2>1 DEF VisitSuppressed, Work, Item, sinkVars, Owed, Visited
<1>7. CASE SkipUnwanted(j)
  <2>1. Item(j) \notin Owed
    BY <1>7, EngineAssumption DEF SkipUnwanted, Owed
  <2> QED
    BY <1>4, <1>7, <2>1 DEF SkipUnwanted, AtVisit, sinkVars
<1>8. CASE ApplyMutation(j)
  BY <1>1, <1>3, <1>8 DEF ApplyMutation, Work, Item, sinkVars
<1>9. CASE IsNoChange(j)
  <2>1. Item(j) \in NoOp /\ pos[j] <= Len(Walk[j])
    BY <1>9 DEF IsNoChange, TreeInv, Own, Inside, WorkersInv, Busy
  <2>2. Item(j) \notin Owed
    BY <2>1, EngineAssumption DEF Owed
  <2> QED
    BY <1>4, <1>9, <2>1, <2>2 DEF IsNoChange, sinkVars
<1>10. CASE IsUncovered(j) \/ CacheHit(j) \/ BuildWorkspace(j)
  <2>1. Item(j) \in Wanted \ NoOp
    BY <1>10 DEF IsUncovered, CacheHit, BuildWorkspace, TreeInv, Own, Inside,
                 ReportInv, Work
  <2>2. Item(j) \in Owed
    BY <1>2, <1>10, <2>1 DEF IsUncovered, CacheHit, BuildWorkspace, Busy, Owed
  <2>3. pc'[j] \in {"sending", "testing"} /\ groupErr' = groupErr
        /\ UNCHANGED <<pos, result>>
    BY <1>1, <1>10 DEF IsUncovered, CacheHit, BuildWorkspace, ReturnAtOnce, sinkVars
  <2> QED
    BY <1>3, <2>1, <2>2, <2>3 DEF Work, Item, Owed, Visited
<1>11. CASE TceFilters(j) \/ TestEnds(j) \/ Record(j)
  <2>1. Item(j) \in Wanted \ NoOp /\ pc[j] \in Busy
    BY <1>11 DEF TceFilters, TestEnds, Record, ReportInv, Work, Busy
  <2>2. Item(j) \in Owed
    BY <1>2, <2>1 DEF Owed
  <2>3. pc'[j] \in {"sending", "recording"} /\ groupErr' = groupErr
        /\ UNCHANGED <<pos, result>>
    BY <1>1, <1>11 DEF TceFilters, TestEnds, Record, Deliver, sinkVars
  <2> QED
    BY <1>3, <2>1, <2>2, <2>3 DEF Work, Item, Owed, Visited
<1>12. CASE Send(j)
  <2>1. pc'[j] = "walking" /\ groupErr' = groupErr
    BY <1>1, <1>12 DEF Send
  <2>2. Work(j)'
    BY <2>1 DEF Work
  <2> QED
    BY <1>12, <2>1, <2>2, OthersWork, SentReport
<1> QED
  BY <1>5, <1>6, <1>7, <1>8, <1>9, <1>10, <1>11, <1>12 DEF Goes

LEMMA QuitsReport ==
    ASSUME TypeOK, ReportInv, NEW j \in Jobs, Quits(j)
    PROVE  ReportInv'
<1>1. pc'[j] = "ended" /\ UNCHANGED <<pos, result>>
  BY DEF Quits, SeeCancel, EndOfWalk, TestCanceled, ParseFails, MutantFails, Finish,
         TypeOK, sinkVars
<1>2. groupErr' = "none" => EndOfWalk(j) /\ groupErr = "none"
  BY DEF Quits, SeeCancel, EndOfWalk, TestCanceled, ParseFails, MutantFails, Finish
<1>3. Work(j)'
  BY <1>1, <1>2 DEF EndOfWalk, Work
<1> QED
  BY <1>1, <1>2, <1>3, OthersWork, SameReport

LEMMA NextReport ==
    ASSUME TypeOK, WorkersInv, TreeInv, ReportInv, [Next]_vars
    PROVE  ReportInv'
<1>1. CASE Spawn
  <2>1. PICK n \in Jobs : n = next
    BY <1>1, EngineAssumption DEF Spawn, TypeOK, Jobs
  <2>2. \A k \in Jobs : pc'[k] = pc[k] \/ pc'[k] = "started"
    BY <1>1, <2>1 DEF Spawn, TypeOK
  <2>3. UNCHANGED <<pos, result, groupErr>>
    BY <1>1 DEF Spawn, ctxVars, sinkVars
  <2>4. \A k \in Jobs : Work(k)'
    BY <2>2, <2>3 DEF ReportInv, Work, Item
  <2> QED
    BY <2>3, <2>4, SameReport
<1>2. CASE Elsewhere \/ UNCHANGED vars
  <2>1. UNCHANGED <<pc, pos, result, groupErr>>
    BY <1>2 DEF Elsewhere, Cancel, StoreWrite, StoreExit, WaitReturns, StoreClosed,
                SinkClosed, vars, workerVars, ctxVars, sinkVars
  <2>2. \A k \in Jobs : Work(k)'
    BY <2>1 DEF ReportInv, Work, Item
  <2> QED
    BY <2>1, <2>2, SameReport
<1> QED
  BY <1>1, <1>2, GoesReport, QuitsReport, StepCases

LEMMA ReportHolds == Spec => [](TreeInv /\ ShutdownInv /\ ReportInv)
<1>1. Init => TreeInv /\ ShutdownInv /\ ReportInv
  BY InitTree, InitShutdown, InitReport
<1>2. TypeOK /\ WorkersInv /\ TreeInv /\ ShutdownInv /\ ReportInv /\ [Next]_vars
        => TreeInv' /\ ShutdownInv' /\ ReportInv'
  BY NextTree, NextShutdown, NextReport
<1> QED
  BY <1>1, <1>2, TypeCorrect, PTL DEF Spec, Safe

\* No visit is reported twice: a worker moves on with the entry it sends, and
\* no other worker walks the same node.
THEOREM EachOnce == Spec => []ReportedOnce
<1>1. ReportInv => ReportedOnce
  BY DEF ReportInv
<1> QED
  BY <1>1, ReportHolds, PTL

\* A Run that returns no error reports every suppression and every mutation that
\* changes the printed file: only the end of its walk lets a worker end in peace.
THEOREM NothingLost == Spec => []CompleteUnlessError
<1>1. ASSUME ShutdownInv, ReportInv, TypeOK PROVE CompleteUnlessError
  <2> SUFFICES ASSUME main = "done", groupErr = "none" PROVE Reported = Owed
    BY DEF CompleteUnlessError, Reported
  <2>1. ASSUME NEW j \in Jobs, NEW p \in DOMAIN Walk[j] PROVE Walk[j][p] \in Past
    <3>1. pos[j] > Len(Walk[j]) /\ pos[j] \in Nat
      BY <1>1 DEF ShutdownInv, ReportInv, Work, TypeOK
    <3>2. p < pos[j]
      BY <3>1, EngineAssumption
    <3> QED
      BY <3>2 DEF Past, Behind
  <2>2. Owed \subseteq Past
    BY <2>1 DEF Owed, Visited
  <2> QED
    BY <1>1, <2>2 DEF ReportInv
<1>2. ShutdownInv /\ ReportInv /\ TypeOK => CompleteUnlessError
  BY <1>1
<1> QED
  BY <1>2, ReportHolds, TypeCorrect, PTL

-----------------------------------------------------------------------------
(* What was paid for is in the cache.                                      *)

\* The records written, and the one that is being written.
Stored == RangeOf(log) \cup RangeOf(slot)

\* Unless a write failed, an executed entry is kept before it is sent.
KeptInv ==
    /\ StoreOpen /\ ~werr =>
          /\ \A i \in DOMAIN result : Executed(result[i]) => result[i] \in Stored
          /\ \A j \in Jobs :
                pc[j] = "sending" /\ Executed(Holding(j)) => Holding(j) \in Stored
    /\ StoreOpen /\ store = "closed" => slot = <<>>
    /\ StoreOpen /\ main \in {"closingSink", "done"} => store = "closed"

LEMMA InitKept == Init => KeptInv
  BY DEF Init, KeptInv

\* A worker's step writes nothing and changes what no other worker holds.
LEMMA KeptFrame ==
    ASSUME TypeOK, NEW j \in Jobs, Goes(j) \/ Quits(j)
    PROVE  /\ \A k \in Jobs \ {j} : pc'[k] = pc[k] /\ Holding(k)' = Holding(k)
           /\ UNCHANGED <<main, store, werr, log>>
           /\ slot' = slot \/ Record(j)
           /\ result' = result \/ Send(j)
<1> USE DEF storeVars, sinkVars
<1>1. \A k \in Jobs \ {j} : out'[k] = out[k]
  <2>1. CASE Quits(j)
    BY <2>1 DEF Quits, SeeCancel, EndOfWalk, TestCanceled, ParseFails, MutantFails,
                Finish
  <2>2. CASE Goes(j)
    BY <2>2 DEF TypeOK, Goes, OpenFile, VisitSuppressed, SkipUnwanted, ApplyMutation,
                IsNoChange, IsUncovered, CacheHit, BuildWorkspace, TceFilters,
                TestEnds, ReturnAtOnce, Deliver, Record, Send
  <2> QED
    BY <2>1, <2>2
<1>2. \A k \in Jobs \ {j} : pc'[k] = pc[k] /\ Holding(k)' = Holding(k)
  BY <1>1, WorkerFrame DEF Holding, Item
<1>3. main' = main
  BY WorkerFrame DEF mainVars
<1>4. /\ UNCHANGED <<store, werr, log>>
      /\ slot' = slot \/ Record(j)
      /\ result' = result \/ Send(j)
  <2>1. CASE Quits(j)
    BY <2>1 DEF Quits, SeeCancel, EndOfWalk, TestCanceled, ParseFails, MutantFails,
                Finish
  <2>2. CASE Goes(j)
    BY <2>2 DEF Goes, OpenFile, VisitSuppressed, SkipUnwanted, ApplyMutation,
                IsNoChange, IsUncovered, CacheHit, BuildWorkspace, TceFilters,
                TestEnds, ReturnAtOnce, Deliver, Record, Send
  <2> QED
    BY <2>1, <2>2
<1> QED
  BY <1>2, <1>3, <1>4

\* What a worker comes to hold for the collector: nothing that cost a run,
\* or what it has just recorded.
LEMMA NewlyHeld ==
    ASSUME TypeOK, WorkersInv, NEW j \in Jobs, Goes(j) \/ Quits(j), StoreOpen,
           pc'[j] = "sending"
    PROVE  ~Executed(Holding(j)') \/ Record(j)
<1>1. \A place : Stays(j, place) => pc'[j] = place
  BY DEF TypeOK, Stays
<1>2. CASE Quits(j)
  BY <1>2 DEF Quits, SeeCancel, EndOfWalk, TestCanceled, ParseFails, MutantFails,
              Finish, TypeOK
<1>3. CASE VisitSuppressed(j)
  BY <1>3, EngineAssumption DEF VisitSuppressed, Executed, Holding, Item
<1>4. CASE IsUncovered(j) \/ CacheHit(j)
  BY <1>4 DEF IsUncovered, CacheHit, ReturnAtOnce, Executed, Holding, Item
<1>5. CASE TceFilters(j) \/ TestEnds(j)
  BY <1>1, <1>5 DEF TceFilters, TestEnds, Deliver
<1>6. CASE OpenFile(j) \/ SkipUnwanted(j) \/ ApplyMutation(j) \/ IsNoChange(j)
             \/ BuildWorkspace(j) \/ Send(j)
  BY <1>1, <1>6 DEF OpenFile, SkipUnwanted, ApplyMutation, IsNoChange, BuildWorkspace,
                    Send
<1> QED
  BY <1>2, <1>3, <1>4, <1>5, <1>6 DEF Goes

LEMMA WorkerKept ==
    ASSUME TypeOK, WorkersInv, KeptInv, NEW j \in Jobs, Goes(j) \/ Quits(j)
    PROVE  KeptInv'
<1>1. /\ \A k \in Jobs \ {j} : pc'[k] = pc[k] /\ Holding(k)' = Holding(k)
      /\ UNCHANGED <<main, store, werr, log>>
      /\ slot' = slot \/ Record(j)
      /\ result' = result \/ Send(j)
  BY KeptFrame
<1>2. Stored \subseteq Stored'
  <2>1. CASE Record(j)
    BY <1>1, <2>1 DEF Record, Stored, RangeOf
  <2>2. CASE slot' = slot
    BY <1>1, <2>2 DEF Stored
  <2> QED
    BY <1>1, <2>1, <2>2
<1>3. ASSUME StoreOpen, ~werr', NEW i \in DOMAIN result', Executed(result'[i])
      PROVE  result'[i] \in Stored'
  <2>1. CASE i \in DOMAIN result /\ result'[i] = result[i]
    BY <1>1, <1>2, <1>3, <2>1 DEF KeptInv
  <2>2. CASE Send(j) /\ result'[i] = Holding(j)
    BY <1>1, <1>2, <1>3, <2>2 DEF KeptInv, Send
  <2>3. CASE Send(j)
    <3>1. result \in Seq(Entry) /\ Holding(j) \in Entry /\ result' = Append(result, Holding(j))
      BY <2>3, HoldingType DEF Send, TypeOK, Busy
    <3> QED
      BY <2>1, <2>2, <2>3, <3>1
  <2> QED
    BY <1>1, <2>1, <2>3
<1>4. ASSUME StoreOpen, ~werr', NEW k \in Jobs, pc'[k] = "sending", Executed(Holding(k)')
      PROVE  Holding(k)' \in Stored'
  <2>1. CASE k # j
    BY <1>1, <1>2, <1>4, <2>1 DEF KeptInv
  <2>2. CASE k = j
    <3>1. Record(j)
      BY <1>4, <2>2, NewlyHeld
    <3>2. slot' = <<Holding(j)>> /\ UNCHANGED <<pos, src, out>>
      BY <3>1 DEF Record
    <3> QED
      BY <2>2, <3>2 DEF Stored, RangeOf, Holding, Item
  <2> QED
    BY <2>1, <2>2
<1>5. StoreOpen /\ store' = "closed" => slot' = <<>>
  BY <1>1 DEF KeptInv, Record
<1> QED
  BY <1>1, <1>3, <1>4, <1>5 DEF KeptInv, Executed, IndexHit

\* The consumer moves a record from the slot to the file, or fails.
LEMMA StoreKept ==
    ASSUME TypeOK, KeptInv, StoreWrite
    PROVE  KeptInv'
<1>1. /\ slot' = <<>> /\ UNCHANGED <<main, store, result>>
      /\ UNCHANGED <<pc, pos, src, out>>
      /\ ~werr' => ~werr /\ log' = log \o slot
  BY DEF StoreWrite, mainVars, workerVars, sinkVars
<1>2. ~werr' => Stored' = Stored
  <2> SUFFICES ASSUME ~werr' PROVE Stored' = Stored
    OBVIOUS
  <2>1. RangeOf(log \o slot) = RangeOf(log) \cup RangeOf(slot)
    <3>1. /\ log \in Seq(Entry) /\ slot \in Seq(Entry)
          /\ DOMAIN log = 1 .. Len(log) /\ DOMAIN slot = 1 .. Len(slot)
          /\ Len(log) \in Nat /\ Len(slot) \in Nat
      BY DEF TypeOK
    <3>2. /\ DOMAIN (log \o slot) = 1 .. Len(log) + Len(slot)
          /\ \A i \in 1 .. Len(log) : (log \o slot)[i] = log[i]
          /\ \A i \in 1 .. Len(slot) : (log \o slot)[Len(log) + i] = slot[i]
      BY <3>1
    <3>3. RangeOf(log) \cup RangeOf(slot) \subseteq RangeOf(log \o slot)
      <4>1. \A i \in DOMAIN log : i \in DOMAIN (log \o slot) /\ log[i] = (log \o slot)[i]
        BY <3>1, <3>2
      <4>2. \A i \in DOMAIN slot : /\ Len(log) + i \in DOMAIN (log \o slot)
                                   /\ slot[i] = (log \o slot)[Len(log) + i]
        BY <3>1, <3>2
      <4> QED
        BY <4>1, <4>2 DEF RangeOf
    <3>4. ASSUME NEW i \in 1 .. Len(log) + Len(slot)
          PROVE  (log \o slot)[i] \in RangeOf(log) \cup RangeOf(slot)
      <4>1. CASE i <= Len(log)
        BY <3>1, <3>2, <4>1 DEF RangeOf
      <4>2. CASE i > Len(log)
        <5>1. i - Len(log) \in 1 .. Len(slot) /\ i = Len(log) + (i - Len(log))
          BY <3>1, <4>2
        <5> QED
          BY <3>1, <3>2, <5>1 DEF RangeOf
      <4> QED
        BY <3>1, <4>1, <4>2
    <3> QED
      BY <3>2, <3>3, <3>4 DEF RangeOf
  <2>2. RangeOf(slot') = {}
    BY <1>1 DEF RangeOf
  <2> QED
    BY <1>1, <2>1, <2>2 DEF Stored, RangeOf
<1> QED
  BY <1>1, <1>2 DEF KeptInv, Executed, IndexHit, Holding, Item

LEMMA NextKept ==
    ASSUME TypeOK, WorkersInv, ShutdownInv, KeptInv, [Next]_vars
    PROVE  KeptInv'
<1> USE DEF mainVars, ctxVars, workerVars, storeVars, sinkVars
<1>1. CASE Spawn
  <2>1. PICK n \in Jobs : n = next
    BY <1>1, EngineAssumption DEF Spawn, TypeOK, Jobs
  <2>2. \A k \in Jobs : pc'[k] = "sending" => pc[k] = "sending"
    BY <1>1, <2>1 DEF Spawn, TypeOK
  <2>3. UNCHANGED <<main, pos, src, out, store, slot, werr, log, result>>
    BY <1>1 DEF Spawn
  <2>4. Stored' = Stored /\ \A k \in Jobs : Holding(k)' = Holding(k)
    BY <2>3 DEF Stored, RangeOf, Holding, Item
  <2> QED
    BY <2>2, <2>3, <2>4 DEF KeptInv, Executed, IndexHit
<1>2. CASE Cancel \/ UNCHANGED vars
  <2>1. UNCHANGED <<main, pc, pos, src, out, store, slot, werr, log, result>>
    BY <1>2 DEF Cancel, vars
  <2>2. Stored' = Stored /\ \A k \in Jobs : Holding(k)' = Holding(k)
    BY <2>1 DEF Stored, RangeOf, Holding, Item
  <2> QED
    BY <2>1, <2>2 DEF KeptInv, Executed, IndexHit
<1>3. CASE StoreExit
  <2>a. UNCHANGED <<main, pc, pos, src, out, slot, log, result>>
    BY <1>3 DEF StoreExit
  <2>b. slot = <<>> /\ store' = "closed"
    BY <1>3 DEF StoreExit
  <2>c. ~werr' => ~werr
    <3>1. werr' \in {werr, TRUE}
      BY <1>3 DEF StoreExit
    <3>2. werr' = werr \/ werr' = TRUE
      BY <3>1, Zenon
    <3> QED
      BY <3>2, Zenon
  <2>1. /\ UNCHANGED <<main, pc, pos, src, out, slot, log, result>>
        /\ ~werr' => ~werr
        /\ slot = <<>> /\ store' = "closed"
    BY <2>a, <2>b, <2>c, Zenon
  <2>2. Stored' = Stored /\ \A k \in Jobs : Holding(k)' = Holding(k)
    BY <2>1 DEF Stored, RangeOf, Holding, Item
  <2> QED
    BY <2>1, <2>2 DEF KeptInv, Executed, IndexHit
<1>4. CASE WaitReturns \/ StoreClosed \/ SinkClosed
  <2>1. UNCHANGED <<pc, pos, src, out, slot, werr, log, result>>
    BY <1>4 DEF WaitReturns, StoreClosed, SinkClosed
  <2>2. StoreOpen => /\ store' = "closed" => store = "closed"
                     /\ main' \in {"closingSink", "done"} => store' = "closed"
    BY <1>4 DEF WaitReturns, StoreClosed, SinkClosed, KeptInv
  <2>3. Stored' = Stored /\ \A k \in Jobs : Holding(k)' = Holding(k)
    BY <2>1 DEF Stored, RangeOf, Holding, Item
  <2> QED
    BY <2>1, <2>2, <2>3 DEF KeptInv, Executed, IndexHit
<1> QED
  BY <1>1, <1>2, <1>3, <1>4, StoreKept, WorkerKept, StepCases DEF Elsewhere

\* When Run returns, every verdict that cost a compile or a test run is in the
\* cache file, unless a write failed: Run waits for the store's consumer, and a
\* worker hands an entry to the store before the collector gets it.
THEOREM WorkIsKept == Spec => []CachedBeforeReturn
<1>1. TypeOK /\ WorkersInv /\ ShutdownInv /\ KeptInv /\ [Next]_vars => KeptInv'
  BY NextKept
<1>2. KeptInv => CachedBeforeReturn
  <2> SUFFICES ASSUME KeptInv, main = "done", StoreOpen, ~werr,
                      NEW i \in DOMAIN result, Executed(result[i])
               PROVE  result[i] \in RangeOf(log)
    BY DEF CachedBeforeReturn, RangeOf
  <2>1. slot = <<>> /\ result[i] \in Stored
    BY DEF KeptInv
  <2> QED
    BY <2>1 DEF Stored, RangeOf
<1> QED
  BY <1>1, <1>2, InitKept, ReportHolds, TypeCorrect, PTL DEF Spec, Safe

-----------------------------------------------------------------------------
(* The order of the report.                                                *)

\* The entries of one walk arrive in its order.
OrderInv ==
    \A a, b \in DOMAIN result : a < b =>
        \A j \in Jobs : \A p, q \in DOMAIN Walk[j] :
            Walk[j][p] = result[a].item /\ Walk[j][q] = result[b].item => p < q

LEMMA InitOrder == Init => OrderInv
  BY DEF Init, OrderInv

\* A step either leaves what the collector has or appends what a worker holds.
LEMMA Arrivals ==
    ASSUME [Next]_vars
    PROVE  result' = result \/ \E j \in Jobs : Send(j)
<1> USE DEF sinkVars
<1>1. ASSUME NEW j \in Jobs, Goes(j) PROVE result' = result \/ Send(j)
  BY <1>1 DEF Goes, OpenFile, VisitSuppressed, SkipUnwanted, ApplyMutation, IsNoChange,
     IsUncovered, CacheHit, BuildWorkspace, TceFilters, TestEnds, Record, ReturnAtOnce,
     Deliver
<1>2. ASSUME NEW j \in Jobs, Quits(j) PROVE result' = result
  BY <1>2 DEF Quits, SeeCancel, EndOfWalk, TestCanceled, ParseFails, MutantFails, Finish
<1>3. CASE Spawn \/ Elsewhere \/ UNCHANGED vars
  BY <1>3 DEF Spawn, Elsewhere, Cancel, StoreWrite, StoreExit, WaitReturns, StoreClosed,
     SinkClosed, vars
<1> QED
  BY <1>1, <1>2, <1>3, StepCases

\* What a sent entry is and where it goes.
LEMMA Sent ==
    ASSUME TypeOK, WorkersInv, NEW j \in Jobs, Send(j)
    PROVE  /\ DOMAIN result' = DOMAIN result \cup {Len(result) + 1}
           /\ Len(result) \in Nat /\ DOMAIN result = 1 .. Len(result)
           /\ result'[Len(result) + 1] = Holding(j)
           /\ \A i \in DOMAIN result : result'[i] = result[i]
           /\ Holding(j).item = Item(j) /\ Holding(j).verdict = out[j]
           /\ pos[j] <= Len(Walk[j]) /\ pc[j] = "sending"
<1>1. pc[j] = "sending" /\ pc[j] \in Busy
  BY DEF Send, Busy
<1>2. result \in Seq(Entry) /\ Holding(j) \in Entry
  BY <1>1, HoldingType DEF TypeOK
<1>3. result' = Append(result, Holding(j))
  BY DEF Send
<1>4. Holding(j).item = Item(j) /\ Holding(j).verdict = out[j]
  BY DEF Holding
<1> QED
  BY <1>1, <1>2, <1>3, <1>4 DEF WorkersInv

LEMMA NextOrder ==
    ASSUME TypeOK, WorkersInv, ReportInv, OrderInv, [Next]_vars
    PROVE  OrderInv'
<1>1. CASE result' = result
  BY <1>1 DEF OrderInv
<1>2. ASSUME NEW j \in Jobs, Send(j) PROVE OrderInv'
  <2> SUFFICES ASSUME NEW a \in DOMAIN result', NEW b \in DOMAIN result', a < b,
                      NEW k \in Jobs, NEW p \in DOMAIN Walk[k], NEW q \in DOMAIN Walk[k],
                      Walk[k][p] = result'[a].item, Walk[k][q] = result'[b].item
               PROVE  p < q
    BY DEF OrderInv
  <2>1. a \in DOMAIN result /\ result'[a] = result[a]
    BY <1>2, Sent
  <2>2. CASE b \in DOMAIN result
    BY <1>2, <2>1, <2>2, Sent DEF OrderInv
  <2>3. CASE b = Len(result) + 1
    <3>1. Walk[k][q] = Item(j) /\ pos[j] \in DOMAIN Walk[j]
      BY <1>2, <2>3, Sent, ItemAhead
    <3>2. k = j /\ q = pos[j]
      BY <3>1, EngineAssumption DEF Item
    <3>3. Walk[k][p] \in Past
      BY <2>1 DEF ReportInv, Reported
    <3>4. PICK i \in Jobs : Walk[k][p] \in Behind(i)
      BY <3>3 DEF Past
    <3>5. PICK r \in DOMAIN Walk[i] : r < pos[i] /\ Walk[i][r] = Walk[k][p]
      BY <3>4 DEF Behind
    <3>6. i = k /\ r = p
      BY <3>5, EngineAssumption
    <3> QED
      BY <3>2, <3>5, <3>6
  <2> QED
    BY <1>2, <2>2, <2>3, Sent
<1> QED
  BY <1>1, <1>2, Arrivals

\* Entries that can be sorted: finitely many, each with a key.
Sortable(K) == K \subseteq DOMAIN result

Ahead(K, b) == {a \in K : Before(a, b)}

LEMMA SortableType ==
    ASSUME TypeOK, NEW K, Sortable(K)
    PROVE  /\ K \subseteq Nat /\ IsFiniteSet(K) /\ Cardinality(K) \in Nat
           /\ \A i \in K : Rank[result[i].item] \in Nat
<1>1. DOMAIN result = 1 .. Len(result) /\ Len(result) \in Nat
  BY DEF TypeOK
<1>2. IsFiniteSet(1 .. Len(result))
  BY <1>1, FS_Interval
<1>3. IsFiniteSet(K) /\ Cardinality(K) \in Nat
  BY <1>1, <1>2, FS_Subset, FS_CardinalityType DEF Sortable
<1>4. \A i \in DOMAIN result : result[i].item \in Visit
  <2>1. \A i \in DOMAIN result : result[i] \in Entry
    BY DEF TypeOK
  <2>2. \A e \in Entry : e.item \in Visit
    BY DEF Entry
  <2> QED
    BY <2>1, <2>2
<1> QED
  BY <1>1, <1>3, <1>4, EngineAssumption DEF Sortable

\* Before is a strict order of all entries.
LEMMA BeforeOrders ==
    ASSUME TypeOK, NEW K, Sortable(K)
    PROVE  /\ \A a \in K : ~Before(a, a)
           /\ \A a, b \in K : a = b \/ Before(a, b) \/ Before(b, a)
           /\ \A a, b, c \in K : Before(a, b) /\ Before(b, c) => Before(a, c)
  BY SortableType DEF Before

LEMMA AheadType ==
    ASSUME TypeOK, NEW K, Sortable(K), NEW b \in K
    PROVE  /\ IsFiniteSet(Ahead(K, b)) /\ Cardinality(Ahead(K, b)) \in Nat
           /\ Place(K, b) = Cardinality(Ahead(K, b)) + 1
           /\ Place(K, b) \in 1 .. Cardinality(K)
<1>1. IsFiniteSet(K) /\ Cardinality(K) \in Nat /\ Ahead(K, b) \subseteq K
  BY SortableType DEF Ahead
<1>2. /\ IsFiniteSet(Ahead(K, b)) /\ Cardinality(Ahead(K, b)) <= Cardinality(K)
      /\ Cardinality(K) = Cardinality(Ahead(K, b)) => K = Ahead(K, b)
  BY <1>1, FS_Subset
<1>3. Cardinality(Ahead(K, b)) \in Nat
  BY <1>2, FS_CardinalityType
<1>4. b \notin Ahead(K, b)
  BY BeforeOrders DEF Ahead
<1> QED
  BY <1>1, <1>2, <1>3, <1>4 DEF Place, Ahead

\* An earlier entry has a lower place.
LEMMA PlaceRises ==
    ASSUME TypeOK, NEW K, Sortable(K), NEW b \in K, NEW c \in K, Before(b, c)
    PROVE  Place(K, b) < Place(K, c)
<1>1. b \notin Ahead(K, b) /\ Ahead(K, b) \cup {b} \subseteq Ahead(K, c)
  BY BeforeOrders DEF Ahead
<1>2. Cardinality(Ahead(K, b) \cup {b}) = Cardinality(Ahead(K, b)) + 1
  BY <1>1, AheadType, FS_AddElement
<1>3. Cardinality(Ahead(K, b) \cup {b}) <= Cardinality(Ahead(K, c))
  BY <1>1, AheadType, FS_Subset
<1> QED
  BY <1>2, <1>3, AheadType

\* Each place is taken.
LEMMA PlacesTaken ==
    ASSUME TypeOK, NEW K, Sortable(K), NEW n \in 1 .. Cardinality(K)
    PROVE  \E b \in K : Place(K, b) = n
<1> DEFINE N == 1 .. Cardinality(K)
           f == [b \in K |-> Place(K, b)]
<1>1. Cardinality(K) \in Nat /\ IsFiniteSet(K)
  BY SortableType
<1>2. IsFiniteSet(N) /\ Cardinality(N) = Cardinality(K)
  BY <1>1, FS_Interval
<1>3. f \in [K -> N]
  BY AheadType
<1>4. ASSUME NEW b \in K, NEW c \in K, Place(K, b) = Place(K, c) PROVE b = c
  <2>1. Place(K, b) \in Nat /\ Place(K, c) \in Nat
    BY AheadType, <1>1
  <2>2. ~Before(b, c) /\ ~Before(c, b)
    BY <1>4, <2>1, PlaceRises
  <2> QED
    BY <2>2, BeforeOrders
<1>5. f \in Injection(K, N)
  BY <1>3, <1>4 DEF Injection, IsInjective
<1>6. f \in Surjection(K, N)
  BY <1>2, <1>5, FS_Injection
<1> QED
  BY <1>6 DEF Surjection

\* A section lists its entries in the order of Before, which ends where ties are
\* broken by the order of arrival.
LEMMA SectionInOrder ==
    ASSUME TypeOK, OrderInv, NEW verdicts
    PROVE  InReportOrder(Section(verdicts))
<1> DEFINE K == {i \in DOMAIN result : result[i].verdict \in verdicts}
           At(n) == CHOOSE b \in K : Place(K, b) = n
<1>1. Sortable(K)
  BY DEF Sortable
<1>2. /\ DOMAIN Section(verdicts) = 1 .. Cardinality(K)
      /\ \A n \in 1 .. Cardinality(K) : Section(verdicts)[n] = result[At(n)]
  BY DEF Section
<1> HIDE DEF K
<1>3. \A n \in 1 .. Cardinality(K) : At(n) \in K /\ Place(K, At(n)) = n
  BY <1>1, PlacesTaken
<1> HIDE DEF At
<1>4. ASSUME NEW m \in 1 .. Cardinality(K), NEW n \in 1 .. Cardinality(K), m < n
      PROVE  Precedes(result[At(m)].item, result[At(n)].item)
  <2>1. At(m) \in K /\ At(n) \in K /\ Place(K, At(m)) = m /\ Place(K, At(n)) = n
    BY <1>3
  <2>2. ~Before(At(n), At(m)) /\ At(m) # At(n)
    <3>1. m \in Nat /\ n \in Nat /\ ~(n < m) /\ m # n
      BY <1>1, <1>4, SortableType
    <3> QED
      BY <1>1, <2>1, <3>1, PlaceRises
  <2>3. Before(At(m), At(n))
    BY <1>1, <2>1, <2>2, BeforeOrders
  <2>4. At(m) \in DOMAIN result /\ At(n) \in DOMAIN result
    BY <1>1, <2>1 DEF Sortable
  <2> QED
    BY <2>3, <2>4 DEF Before, OrderInv, Precedes
<1> QED
  BY <1>2, <1>4 DEF InReportOrder

\* The report is the same for every schedule of the workers: in the order of the
\* sort keys, and of the walk where these tie.
THEOREM ReportIsInOrder == Spec => []ReportOrder
<1>1. Init => OrderInv
  BY InitOrder
<1>2. TypeOK /\ WorkersInv /\ ReportInv /\ OrderInv /\ [Next]_vars => OrderInv'
  BY NextOrder
<1>3. TypeOK /\ OrderInv => ReportOrder
  BY SectionInOrder DEF ReportOrder, Report
<1> QED
  BY <1>1, <1>2, <1>3, TypeCorrect, ReportHolds, PTL DEF Spec, Safe

-----------------------------------------------------------------------------
(* Engine implements MutationRun.                                          *)

\* The outcome a worker takes from its visit is one that the visit can have.
Fitting(j) ==
    /\ pc[j] \in {"testing", "recording"} =>
          Item(j) \in Mutation \ Uncovered /\ ~IndexHit(Item(j))
    /\ pc[j] \in {"recording", "sending"} => out[j] \in Possible(Item(j))

OutcomeInv == \A j \in Jobs : Fitting(j)

\* A verdict that is not cached and cost a compile or a test.
LEMMA PossibleRun ==
    ASSUME NEW v \in Mutation \ Uncovered, ~IndexHit(v)
    PROVE  Possible(v) = Verdict \cup (IF v \in TceSame THEN {"Equivalent"} ELSE {})
  BY EngineAssumption DEF Possible

\* One that was there without.
LEMMA PossibleAtOnce ==
    /\ \A v \in Suppression : Possible(v) = {"Suppressed"}
    /\ \A v \in Uncovered : Possible(v) = {"Survived"}
    /\ \A v \in Mutation \ Uncovered : IndexHit(v) => Possible(v) = {Index[v]}
  BY EngineAssumption DEF Possible

LEMMA OthersFitting ==
    ASSUME TypeOK, OutcomeInv, NEW j \in Jobs, Goes(j) \/ Quits(j), Fitting(j)'
    PROVE  OutcomeInv'
<1> SUFFICES ASSUME NEW k \in Jobs, k # j PROVE Fitting(k)'
  BY DEF OutcomeInv
<1>1. pc'[k] = pc[k] /\ pos'[k] = pos[k]
  BY WorkerFrame
<1>2. out'[k] = out[k]
  <2>1. CASE Quits(j)
    BY <2>1 DEF Quits, SeeCancel, EndOfWalk, TestCanceled, ParseFails, MutantFails, Finish
  <2>2. CASE Goes(j)
    BY <2>2 DEF TypeOK, Goes, OpenFile, VisitSuppressed, SkipUnwanted, ApplyMutation,
       IsNoChange, IsUncovered, CacheHit, BuildWorkspace, TceFilters, TestEnds, Record,
       Send, ReturnAtOnce, Deliver
  <2> QED
    BY <2>1, <2>2
<1> QED
  BY <1>1, <1>2 DEF OutcomeInv, Fitting, Item, IndexHit, Possible

LEMMA GoesFitting ==
    ASSUME TypeOK, WorkersInv, OutcomeInv, NEW j \in Jobs, Goes(j)
    PROVE  Fitting(j)'
<1>1. \A place : Stays(j, place) => pc'[j] = place
  BY DEF TypeOK, Stays
<1>2. CASE OpenFile(j) \/ SkipUnwanted(j) \/ ApplyMutation(j) \/ IsNoChange(j) \/ Send(j)
  <2>1. pc'[j] \in {"walking", "applied"}
    BY <1>1, <1>2 DEF OpenFile, SkipUnwanted, ApplyMutation, IsNoChange, Send
  <2> QED
    BY <2>1 DEF Fitting
<1>3. ASSUME NEW o, out' = [out EXCEPT ![j] = o], pos' = pos, o \in Possible(Item(j)),
             \/ pc'[j] = "sending"
             \/ /\ pc'[j] = "recording"
                /\ Item(j) \in Mutation \ Uncovered /\ ~IndexHit(Item(j))
      PROVE  Fitting(j)'
  <2>1. out'[j] = o /\ Item(j)' = Item(j)
    BY <1>3 DEF TypeOK, Item
  <2>2. Possible(Item(j))' = Possible(Item(j)) /\ IndexHit(Item(j))' = IndexHit(Item(j))
    BY <2>1 DEF Possible, IndexHit
  <2> QED
    BY <1>3, <2>1, <2>2 DEF Fitting
<1>4. CASE VisitSuppressed(j)
  <2>1. "Suppressed" \in Possible(Item(j))
    BY <1>4, PossibleAtOnce DEF VisitSuppressed
  <2> QED
    BY <1>1, <1>3, <1>4, <2>1 DEF VisitSuppressed
<1>5. CASE IsUncovered(j)
  <2>1. "Survived" \in Possible(Item(j))
    BY <1>5, PossibleAtOnce DEF IsUncovered
  <2> QED
    BY <1>1, <1>3, <1>5, <2>1 DEF IsUncovered, ReturnAtOnce
<1>6. pc[j] = "applied" => Item(j) \in Mutation
  BY DEF WorkersInv, Inside
<1>7. CASE CacheHit(j)
  <2>1. Index[Item(j)] \in Possible(Item(j))
    BY <1>6, <1>7, PossibleAtOnce DEF CacheHit
  <2> QED
    BY <1>1, <1>3, <1>7, <2>1 DEF CacheHit, ReturnAtOnce
<1>8. CASE BuildWorkspace(j)
  BY <1>1, <1>6, <1>8 DEF BuildWorkspace, Fitting, Item, IndexHit
<1>9. CASE TceFilters(j) \/ TestEnds(j)
  <2>1. Item(j) \in Mutation \ Uncovered /\ ~IndexHit(Item(j))
    BY <1>9 DEF TceFilters, TestEnds, OutcomeInv, Fitting
  <2>2. PICK o \in Possible(Item(j)) : Deliver(j, o)
    BY <1>9, <2>1, PossibleRun DEF TceFilters, TestEnds
  <2>3. out' = [out EXCEPT ![j] = o] /\ pos' = pos /\ pc'[j] \in {"recording", "sending"}
    BY <1>1, <2>2 DEF Deliver
  <2> QED
    BY <1>3, <2>1, <2>3
<1>10. CASE Record(j)
  <2>1. pc'[j] = "sending" /\ UNCHANGED <<pos, out>> /\ out[j] \in Possible(Item(j))
    BY <1>1, <1>10 DEF Record, OutcomeInv, Fitting
  <2> QED
    BY <2>1 DEF Fitting, Item, Possible, IndexHit
<1> QED
  BY <1>2, <1>4, <1>5, <1>7, <1>8, <1>9, <1>10 DEF Goes

LEMMA NextOutcome ==
    ASSUME TypeOK, WorkersInv, OutcomeInv, [Next]_vars
    PROVE  OutcomeInv'
<1>1. ASSUME NEW j \in Jobs, Goes(j) PROVE OutcomeInv'
  BY <1>1, GoesFitting, OthersFitting
<1>2. ASSUME NEW j \in Jobs, Quits(j) PROVE OutcomeInv'
  <2>1. pc'[j] = "ended"
    BY <1>2 DEF Quits, SeeCancel, EndOfWalk, TestCanceled, ParseFails, MutantFails, Finish,
       TypeOK
  <2>2. Fitting(j)'
    BY <2>1 DEF Fitting
  <2> QED
    BY <1>2, <2>2, OthersFitting
<1>3. CASE Spawn
  <2>1. PICK n \in Jobs : n = next
    BY <1>3, EngineAssumption DEF Spawn, TypeOK, Jobs
  <2>2. \A k \in Jobs : pc'[k] = pc[k] \/ pc'[k] = "started"
    BY <1>3, <2>1 DEF Spawn, TypeOK
  <2>3. UNCHANGED <<pos, out>>
    BY <1>3 DEF Spawn
  <2> QED
    BY <2>2, <2>3 DEF OutcomeInv, Fitting, Item, Possible, IndexHit
<1>4. CASE Elsewhere \/ UNCHANGED vars
  <2>1. UNCHANGED <<pc, pos, out>>
    BY <1>4 DEF Elsewhere, Cancel, StoreWrite, StoreExit, WaitReturns, StoreClosed,
                SinkClosed, vars, workerVars
  <2> QED
    BY <2>1 DEF OutcomeInv, Fitting, Item, Possible, IndexHit
<1> QED
  BY <1>1, <1>2, <1>3, <1>4, StepCases

\* The mapped state.
Collected == {<<e.item, e.verdict>> : e \in RangeOf(result)}

LEMMA CollectedSettled == {r[1] : r \in Collected} = Reported
<1>1. Collected = {<<result[i].item, result[i].verdict>> : i \in DOMAIN result}
  BY DEF Collected, RangeOf
<1>2. ASSUME NEW r \in Collected PROVE r[1] \in Reported
  <2>1. PICK i \in DOMAIN result : r = <<result[i].item, result[i].verdict>>
    BY <1>1
  <2>2. r[1] = result[i].item
    BY <2>1
  <2> QED
    BY <2>2 DEF Reported
<1>3. ASSUME NEW i \in DOMAIN result PROVE \E r \in Collected : r[1] = result[i].item
  <2>1. <<result[i].item, result[i].verdict>> \in Collected
    BY <1>1
  <2>2. <<result[i].item, result[i].verdict>>[1] = result[i].item
    OBVIOUS
  <2> QED
    BY <2>1, <2>2
<1> QED
  BY <1>2, <1>3 DEF Reported

\* An entry that arrives is a step of Collect.
LEMMA SendCollects ==
    ASSUME TypeOK, WorkersInv, ShutdownInv, ReportInv, OutcomeInv, NEW j \in Jobs, Send(j)
    PROVE  Run!Collect
<1>1. /\ pos[j] <= Len(Walk[j]) /\ pc[j] = "sending"
      /\ Collected' = Collected \cup {<<Item(j), out[j]>>}
  <2>1. Collected' = {<<result'[i].item, result'[i].verdict>> : i \in DOMAIN result'}
    BY DEF Collected, RangeOf
  <2>2. Collected = {<<result[i].item, result[i].verdict>> : i \in DOMAIN result}
    BY DEF Collected, RangeOf
  <2> QED
    BY <2>1, <2>2, Sent
<1>2. Item(j) \in Owed \ Reported
  BY <1>1, ItemAhead DEF ReportInv, Work
<1>3. out[j] \in Possible(Item(j))
  BY <1>1 DEF OutcomeInv, Fitting
<1>4. main # "done" /\ main' = main
  BY <1>1 DEF ShutdownInv, Send, Stays, mainVars
<1> QED
  BY <1>1, <1>2, <1>3, <1>4, CollectedSettled DEF Run!Collect, Run!Settled, Collected

\* The end of Run is a step of Return, and without an error only if all is there.
LEMMA ClosingReturns ==
    ASSUME TypeOK, ShutdownInv, ReportInv, SinkClosed
    PROVE  Run!Return
<1>1. main = "closingSink" /\ main' = "done" /\ result' = result /\ groupErr' = groupErr
  BY DEF SinkClosed, sinkVars, ctxVars
<1>2. groupErr \in Error
  BY DEF TypeOK
<1>3. groupErr = "none" => Owed = Reported
  <2> SUFFICES ASSUME groupErr = "none" PROVE Owed \subseteq Past
    BY DEF ReportInv
  <2>1. ASSUME NEW j \in Jobs, NEW p \in DOMAIN Walk[j] PROVE Walk[j][p] \in Past
    <3>1. pos[j] > Len(Walk[j]) /\ pos[j] \in Nat
      BY <1>1 DEF ShutdownInv, ReportInv, Work, TypeOK
    <3>2. p < pos[j]
      BY <3>1, EngineAssumption
    <3> QED
      BY <3>2 DEF Past, Behind
  <2> QED
    BY <2>1 DEF Owed, Visited
<1> QED
  BY <1>1, <1>2, <1>3, CollectedSettled DEF Run!Return, Run!Settled, Collected, Error

\* Every other step leaves what Run promises as it is.
LEMMA OthersStutter ==
    ASSUME TypeOK, WorkersInv, ShutdownInv, [Next]_vars, ~SinkClosed, result' = result
    PROVE  UNCHANGED Run!vars
<1>1. Collected' = Collected
  BY DEF Collected, RangeOf
<1>2. (main' = "done") = (main = "done") /\ (main = "done" => groupErr' = groupErr)
  <2>1. ASSUME NEW j \in Jobs, Goes(j) \/ Quits(j) PROVE main' = main /\ main # "done"
    <3>1. pc[j] # "ended"
      BY <2>1 DEF Goes, OpenFile, VisitSuppressed, SkipUnwanted,
       ApplyMutation, AtVisit, IsNoChange, IsUncovered, CacheHit, BuildWorkspace,
       TceFilters, TestEnds, Record, Send, Quits, SeeCancel, EndOfWalk,
       TestCanceled, ParseFails, MutantFails
    <3> QED
      BY <2>1, <3>1, WorkerFrame DEF ShutdownInv, mainVars
  <2>2. CASE Spawn \/ WaitReturns \/ StoreClosed
    BY <2>2 DEF Spawn, WaitReturns, StoreClosed
  <2>3. CASE Cancel \/ StoreWrite \/ StoreExit \/ UNCHANGED vars
    BY <2>3 DEF Cancel, StoreWrite, StoreExit, vars, mainVars, ctxVars
  <2> QED
    BY <2>1, <2>2, <2>3, StepCases DEF Elsewhere
<1> QED
  BY <1>1, <1>2 DEF Run!vars, Collected

\* A run of the engine is one that MutationRun allows: whatever its workers do at
\* once, its caller sees owed visits settled one at a time with an outcome each can
\* have, then the return, without an error only if none is missing.
THEOREM Implements == Spec => Run!Safe
<1>1. Init => Run!Init
  BY DEF Init, Run!Init, RangeOf
<1>2. Init => OutcomeInv
  BY DEF Init, OutcomeInv, Fitting
<1>3. TypeOK /\ WorkersInv /\ OutcomeInv /\ [Next]_vars => OutcomeInv'
  BY NextOutcome
<1>4. TypeOK /\ WorkersInv /\ ShutdownInv /\ ReportInv /\ OutcomeInv /\ [Next]_vars
        => [Run!Next]_(Run!vars)
  BY Arrivals, SendCollects, ClosingReturns, OthersStutter DEF Run!Next
<1> QED
  BY <1>1, <1>2, <1>3, <1>4, TypeCorrect, ReportHolds, PTL DEF Spec, Safe, Run!Safe
=============================================================================
