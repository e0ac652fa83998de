--------------------------- MODULE FileWalkProofs ---------------------------
(***************************************************************************)
(* For every file, every set of directives, every pattern and every replay:*)
(* the walk hands over exactly what is wanted, under ids that tell mutants *)
(* apart and do not depend on what this walk happened to visit.            *)
(*                                                                         *)
(* A node is visited if and only if nothing at or above it is left out     *)
(* (Visited), so what the walk has done is a function of how far it is     *)
(* (Passed): idDeduper's counts, the mutants handed over, the tally and    *)
(* the suppressions reported are each the part of a fixed set that lies    *)
(* behind the walk.  Nodes in one place are one below the other, so none   *)
(* of a visited node's earlier namesakes has been skipped.                 *)
(***************************************************************************)
EXTENDS FileWalk, FiniteSetTheorems, FunctionTheorems, TLAPS

Visited(n) == \A a \in Ancestors(n) : ~Left(a)
Passed(n, i) == n < at \/ (n = at /\ i < k)

\* The visited nodes behind the walk in key's place with key's offer.
Seen(key) ==
    {n \in Nodes :
        /\ Visited(n)
        /\ \E i \in DOMAIN At(n).offers :
              Bound(n, i) /\ Passed(n, i) /\ Key(n, i) = key}

Owed == {o \in Wanted : Passed(o[1], o[2])}
Given == {<<e.node, e.offer>> : e \in handed}

\* Where the walk can be: nothing above its node is left out.
PosInv ==
    /\ file \in Files
    /\ at \in 1..Len(file.nodes) + 1
    /\ k \in Nat
    /\ k > 0 => at \in Nodes /\ ~Left(at) /\ k <= Len(At(at).offers) + 1
    /\ at \in Nodes => \A a \in Ancestors(at) \ {at} : ~Left(a)
    /\ phase \in {"measuring", "opening"} => at = 1 /\ k = 0 /\ handed = {}
    /\ phase = "ended" /\ err = "none" => at \notin Nodes

\* What is behind it.
CountInv ==
    /\ dedup \in [Keys -> Nat]
    /\ \A key \in Keys : dedup[key] = Cardinality(Seen(key))

OutInv ==
    /\ \A e \in handed :
         /\ e = [node |-> e.node, offer |-> e.offer, id |-> e.id, tests |-> e.tests]
         /\ e.node \in Nodes /\ e.offer \in DOMAIN At(e.node).offers
         /\ e.id = StableId(e.node, e.offer)
         /\ e.tests = Tests(e.node)
    /\ Given = IF estimate THEN {} ELSE Owed
    /\ estimate => tally = Cardinality(Owed)

ReportInv ==
    suppressed = IF estimate THEN {} ELSE {n \in ToReport : n < at}

Inv == PosInv /\ CountInv /\ OutInv /\ ReportInv

-----------------------------------------------------------------------------
(* Files.                                                                  *)

\* The assumption about files, for the file at hand.
LEMMA FileFacts ==
  ASSUME file \in Files
  PROVE  /\ Len(file.nodes) \in Nat /\ Len(file.nodes) > 0
         /\ \A n \in Nodes :
              /\ At(n) \in Node
              /\ At(n).until \in n..Len(file.nodes)
              /\ \A m \in n..At(n).until : At(m).until <= At(n).until
              /\ \A m \in n+1..Len(file.nodes) :
                    SamePlace(At(n), At(m)) => m <= At(n).until
              /\ Len(At(n).offers) \in Nat
              /\ DOMAIN At(n).offers = 1..Len(At(n).offers)
              /\ \A i \in DOMAIN At(n).offers : Offer(n, i) \in Op \X Nat
              /\ \A i, j \in DOMAIN At(n).offers :
                    Offer(n, i) = Offer(n, j) => i = j
  <1>1. file \in File /\ WellFormed(file) BY FileWalkAssumption
  <1>2. file.nodes \in Seq(Node) BY <1>1 DEF File
  <1>3. \A n \in Nodes : At(n) \in Node BY <1>2 DEF Nodes, At
  <1>4. \A n \in Nodes : At(n).offers \in Seq(Op \X Nat) BY <1>3 DEF Node
  <1>5. \A n \in Nodes :
          /\ Len(At(n).offers) \in Nat
          /\ DOMAIN At(n).offers = 1..Len(At(n).offers)
          /\ \A i \in DOMAIN At(n).offers : Offer(n, i) \in Op \X Nat
    BY <1>4 DEF Offer
  <1>6. Len(file.nodes) \in Nat /\ Len(file.nodes) > 0
    BY <1>1, <1>2 DEF WellFormed
  <1>7. ASSUME NEW n \in Nodes
        PROVE  /\ At(n).until \in n..Len(file.nodes)
               /\ \A m \in n..At(n).until : At(m).until <= At(n).until
               /\ \A m \in n+1..Len(file.nodes) :
                     SamePlace(At(n), At(m)) => m <= At(n).until
               /\ \A i, j \in 1..Len(At(n).offers) :
                     Offer(n, i) = Offer(n, j) => i = j
    BY <1>1, <1>7 DEF WellFormed, Nodes, At, Offer
  <1> QED BY <1>3, <1>5, <1>6, <1>7

\* What is above a node above n is above n.
LEMMA AboveAbove ==
  ASSUME file \in Files, NEW n \in Nodes, NEW m \in Ancestors(n), NEW a \in Ancestors(m)
  PROVE  a \in Ancestors(n)
  <1>1. m \in Nodes /\ n \in m..At(m).until /\ a \in Nodes /\ m \in a..At(a).until
    BY DEF Ancestors
  <1>2. At(m).until <= At(a).until BY <1>1, FileFacts
  <1>3. At(m).until \in Nat /\ At(a).until \in Nat BY <1>1, FileFacts DEF Nodes
  <1> QED BY <1>1, <1>2, <1>3 DEF Ancestors, Nodes

\* A key names its place, operator and index.
LEMMA KeyFacts ==
  ASSUME file \in Files, NEW m \in Nodes, NEW n \in Nodes,
         NEW j \in DOMAIN At(m).offers, NEW i \in DOMAIN At(n).offers,
         Key(m, j) = Key(n, i)
  PROVE  SamePlace(At(m), At(n)) /\ Offer(m, j) = Offer(n, i)
  <1>1. Offer(m, j) \in Op \X Nat /\ Offer(n, i) \in Op \X Nat BY FileFacts
  <1> QED BY <1>1 DEF Key, SamePlace

\* Of two nodes with a key in common the first is above the other.
LEMMA NamesakeAbove ==
  ASSUME file \in Files, NEW n \in Nodes, NEW i \in DOMAIN At(n).offers,
         NEW m \in Sightings(n, i)
  PROVE  m \in Ancestors(n)
  <1>1. m \in Nodes /\ m < n /\ \E j \in DOMAIN At(m).offers : Key(m, j) = Key(n, i)
    BY DEF Sightings, Nodes
  <1>2. SamePlace(At(m), At(n)) BY <1>1, KeyFacts
  <1>3. n <= At(m).until BY <1>1, <1>2, FileFacts DEF Nodes
  <1> QED BY <1>1, <1>3, FileFacts DEF Ancestors, Nodes

LEMMA SightingsFinite ==
  ASSUME file \in Files, NEW n \in Nodes, NEW i
  PROVE  IsFiniteSet(Sightings(n, i))
  <1>1. IsFiniteSet(1..n-1) BY FS_Interval DEF Nodes
  <1> QED BY <1>1, FS_Subset DEF Sightings

\* Stable ids tell the offers of a file apart.
LEMMA StableIdsDiffer ==
  ASSUME file \in Files, NEW m \in Nodes, NEW n \in Nodes,
         NEW j \in DOMAIN At(m).offers, NEW i \in DOMAIN At(n).offers,
         StableId(m, j) = StableId(n, i)
  PROVE  m = n /\ j = i
  <1>1. Key(m, j) = Key(n, i)
        /\ Cardinality(Sightings(m, j)) = Cardinality(Sightings(n, i))
    BY DEF StableId
  <1>2. ASSUME NEW a \in Nodes, NEW b \in Nodes,
               NEW c \in DOMAIN At(a).offers, NEW d \in DOMAIN At(b).offers,
               Key(a, c) = Key(b, d), a < b
        PROVE  Cardinality(Sightings(a, c)) < Cardinality(Sightings(b, d))
    <2>1. Sightings(a, c) \cup {a} \subseteq Sightings(b, d)
      BY <1>2 DEF Sightings, Nodes
    <2>2. a \notin Sightings(a, c) BY DEF Sightings, Nodes
    <2>3. IsFiniteSet(Sightings(a, c)) /\ IsFiniteSet(Sightings(b, d))
      BY SightingsFinite
    <2>4. Cardinality(Sightings(a, c) \cup {a}) = Cardinality(Sightings(a, c)) + 1
      BY <2>2, <2>3, FS_AddElement
    <2>5. Cardinality(Sightings(a, c) \cup {a}) <= Cardinality(Sightings(b, d))
      BY <2>1, <2>3, FS_Subset
    <2>6. Cardinality(Sightings(a, c)) \in Nat /\ Cardinality(Sightings(b, d)) \in Nat
      BY <2>3, FS_CardinalityType
    <2> QED BY <2>4, <2>5, <2>6
  <1>3. Cardinality(Sightings(m, j)) \in Nat BY SightingsFinite, FS_CardinalityType
  <1>4. ~(m < n) BY <1>1, <1>2, <1>3
  <1>5. ~(n < m) BY <1>1, <1>2, <1>3
  <1>6. m = n BY <1>4, <1>5 DEF Nodes
  <1>7. Offer(m, j) = Offer(n, i) BY <1>1, KeyFacts
  <1> QED BY <1>6, <1>7, FileFacts

-----------------------------------------------------------------------------
(* The walk.                                                               *)

\* A node that the walk has entered is one that it should.
LEMMA EnteredIsVisited ==
  ASSUME PosInv, at \in Nodes, ~Left(at) PROVE Visited(at)
  BY DEF PosInv, Visited

\* Behind the walk, a key of the node at hand was seen once for each of the
\* file's earlier nodes that have it: none of them was skipped.
LEMMA SeenIsSightings ==
  ASSUME PosInv, k > 0, k \in DOMAIN At(at).offers, Bound(at, k)
  PROVE  /\ at \in Nodes
         /\ Seen(Key(at, k)) = Sightings(at, k)
         /\ IsFiniteSet(Sightings(at, k))
  <1>1. at \in Nodes /\ file \in Files /\ Visited(at)
    BY EnteredIsVisited DEF PosInv
  <1>2. ASSUME NEW m \in Sightings(at, k) PROVE m \in Seen(Key(at, k))
    <2>1. m \in Ancestors(at) BY <1>1, <1>2, NamesakeAbove
    <2>2. m \in Nodes /\ m < at BY <1>1, <1>2 DEF Sightings, Nodes
    <2>3. PICK j \in DOMAIN At(m).offers : Key(m, j) = Key(at, k)
      BY <1>2 DEF Sightings
    <2>4. Offer(m, j) = Offer(at, k) BY <1>1, <2>2, <2>3, KeyFacts
    <2>5. Bound(m, j) BY <2>4 DEF Bound
    <2>6. Visited(m) BY <1>1, <2>1, <2>2, AboveAbove DEF Visited
    <2> QED BY <2>2, <2>3, <2>5, <2>6 DEF Seen, Passed
  <1>3. ASSUME NEW m \in Seen(Key(at, k)) PROVE m \in Sightings(at, k)
    <2>1. m \in Nodes BY <1>3 DEF Seen
    <2>2. PICK j \in DOMAIN At(m).offers : Passed(m, j) /\ Key(m, j) = Key(at, k)
      BY <1>3 DEF Seen
    <2>3. CASE m = at
      <3>1. Offer(m, j) = Offer(at, k) BY <1>1, <2>1, <2>2, KeyFacts
      <3>2. j = k BY <1>1, <2>3, <3>1, FileFacts
      <3>3. j < k BY <2>2, <2>3, <1>1 DEF Passed, Nodes
      <3> QED BY <3>2, <3>3 DEF PosInv
    <2>4. CASE m # at
      <3>1. m < at BY <2>2, <2>4 DEF Passed
      <3> QED BY <1>1, <2>1, <2>2, <3>1 DEF Sightings, Nodes
    <2> QED BY <2>3, <2>4
  <1>4. IsFiniteSet(Sightings(at, k)) BY <1>1, SightingsFinite
  <1> QED BY <1>1, <1>2, <1>3, <1>4

\* So the id that the walk gives is the stable one.
LEMMA IdIsStable ==
  ASSUME PosInv, CountInv, k > 0, k \in DOMAIN At(at).offers, Bound(at, k)
  PROVE  Id(at, k) = StableId(at, k)
  <1>1. at \in Nodes /\ Seen(Key(at, k)) = Sightings(at, k) BY SeenIsSightings
  <1>2. Key(at, k) \in Keys BY <1>1 DEF Keys
  <1> QED BY <1>1, <1>2 DEF CountInv, Id, Rank, StableId

\* What a file, a pattern and a replay fix.
LEMMA FixedByGivens ==
  ASSUME UNCHANGED givens
  PROVE  /\ file' = file /\ estimate' = estimate /\ replay' = replay
         /\ Nodes' = Nodes /\ Keys' = Keys /\ Offers' = Offers
         /\ \A n : At(n)' = At(n) /\ Left(n)' = Left(n)
                   /\ Ancestors(n)' = Ancestors(n) /\ Visited(n)' = Visited(n)
         /\ \A n, i : /\ Offer(n, i)' = Offer(n, i) /\ Bound(n, i)' = Bound(n, i)
                      /\ Key(n, i)' = Key(n, i) /\ StableId(n, i)' = StableId(n, i)
         /\ Wanted' = Wanted /\ ToReport' = ToReport
  <1>1. /\ file' = file /\ types' = types /\ matched' = matched
        /\ estimate' = estimate /\ replay' = replay
    BY DEF givens
  <1>2. Nodes' = Nodes /\ \A n : At(n)' = At(n) BY <1>1 DEF Nodes, At
  <1>3. \A n, i : Offer(n, i)' = Offer(n, i) /\ Bound(n, i)' = Bound(n, i)
                  /\ Key(n, i)' = Key(n, i)
    BY <1>1 DEF Offer, Bound, Key, At
  <1>4. Keys' = Keys /\ Offers' = Offers BY <1>2, <1>3 DEF Keys, Offers
  <1>5. \A n : Filtered(n)' = Filtered(n) /\ Anchored(n)' = Anchored(n)
    BY <1>1 DEF Filtered, Anchored, At
  <1>6. \A n : Left(n)' = Left(n) /\ Ancestors(n)' = Ancestors(n)
    BY <1>2, <1>5 DEF Left, Ancestors
  <1>7. \A n : Visited(n)' = Visited(n) BY <1>6 DEF Visited
  <1>8. \A n, i : StableId(n, i)' = StableId(n, i)
    <2>1. \A n, i : Sightings(n, i)' = Sightings(n, i)
      BY <1>2, <1>3 DEF Sightings
    <2> QED BY <1>3, <2>1 DEF StableId
  <1>9. Wanted' = Wanted
    BY <1>1, <1>3, <1>4, <1>6, <1>8 DEF Wanted
  <1>10. ToReport' = ToReport
    BY <1>2, <1>5, <1>6 DEF ToReport
  <1> QED BY <1>1, <1>2, <1>3, <1>4, <1>6, <1>7, <1>8, <1>9, <1>10

\* A step that takes the walk past nothing that it should have visited.
LEMMA NothingPassed ==
  ASSUME UNCHANGED <<givens, dedup, handed, tally, scope, covers>>,
         CountInv, OutInv,
         \A n \in Nodes : \A i \in DOMAIN At(n).offers :
            Visited(n) /\ Bound(n, i) => (Passed(n, i)' <=> Passed(n, i))
  PROVE  CountInv' /\ OutInv'
  <1> USE FixedByGivens
  <1>1. UNCHANGED <<dedup, handed, tally, scope, covers>> /\ UNCHANGED givens
    OBVIOUS
  <1>2. \A key : Seen(key)' = Seen(key) BY <1>1 DEF Seen
  <1>3. Owed' = Owed
    <2>1. \A o \in Wanted : /\ o[1] \in Nodes /\ o[2] \in DOMAIN At(o[1]).offers
                            /\ Visited(o[1]) /\ Bound(o[1], o[2])
      BY DEF Wanted, Offers, Visited
    <2>2. \A o \in Wanted : Passed(o[1], o[2])' <=> Passed(o[1], o[2])
      BY <2>1
    <2> QED BY <1>1, <2>2 DEF Owed
  <1>4. CountInv' BY <1>1, <1>2 DEF CountInv
  <1>5. \A n : Tests(n)' = Tests(n) BY <1>1 DEF Tests
  <1>6. Given' = Given BY <1>1 DEF Given
  <1>7. OutInv' BY <1>1, <1>3, <1>5, <1>6 DEF OutInv
  <1> QED BY <1>4, <1>7

\* Where the walk goes, nothing above is left out: to the next node ...
LEMMA ClearBelow ==
  ASSUME PosInv, at \in Nodes, ~Left(at), at + 1 \in Nodes
  PROVE  \A a \in Ancestors(at + 1) \ {at + 1} : ~Left(a)
  <1> SUFFICES ASSUME NEW a \in Ancestors(at + 1) \ {at + 1} PROVE ~Left(a)
    OBVIOUS
  <1>1. a \in Nodes /\ a <= at /\ at + 1 <= At(a).until /\ At(a).until \in Nat
    BY FileFacts DEF Ancestors, Nodes, PosInv
  <1>2. a \in Ancestors(at) BY <1>1 DEF Ancestors, Nodes
  <1> QED BY <1>2 DEF PosInv

\* ... and past a subtree.
LEMMA ClearAfter ==
  ASSUME PosInv, at \in Nodes, At(at).until + 1 \in Nodes
  PROVE  \A a \in Ancestors(At(at).until + 1) \ {At(at).until + 1} : ~Left(a)
  <1> DEFINE next == At(at).until + 1
  <1> SUFFICES ASSUME NEW a \in Ancestors(next) \ {next} PROVE ~Left(a)
    OBVIOUS
  <1>1. file \in Files /\ At(at).until \in at..Len(file.nodes)
    BY FileFacts DEF PosInv
  <1>2. a \in Nodes /\ a <= At(at).until /\ next <= At(a).until
        /\ At(a).until \in Nat /\ At(at).until \in Nat
    BY <1>1, FileFacts DEF Ancestors, Nodes
  <1>3. a < at
    <2>1. CASE a \in at..At(at).until
      <3>1. At(a).until <= At(at).until BY <1>1, <2>1, FileFacts
      <3> QED BY <1>2, <3>1
    <2> QED BY <1>2, <2>1 DEF Nodes
  <1>4. a \in Ancestors(at) /\ a # at BY <1>1, <1>2, <1>3 DEF Ancestors, Nodes
  <1> QED BY <1>4 DEF PosInv

\* Nothing at or below a node that is left out is visited, or reported but it.
LEMMA NoneBelow ==
  ASSUME file \in Files, NEW a \in Nodes, Left(a), NEW n \in a..At(a).until
  PROVE  n \in Nodes /\ ~Visited(n) /\ (n # a => n \notin ToReport)
  <1>1. n \in Nodes BY FileFacts DEF Nodes
  <1>2. a \in Ancestors(n) BY <1>1 DEF Ancestors
  <1> QED BY <1>1, <1>2 DEF Visited, ToReport

-----------------------------------------------------------------------------
(* The steps.                                                              *)

\* A step that does not move the walk.
LEMMA Standstill ==
  ASSUME Inv, UNCHANGED <<givens, walkVars, outVars>>,
         UNCHANGED <<scope, covers>> \/ phase \in {"measuring", "opening"},
         phase' \in {"measuring", "opening"} => phase \in {"measuring", "opening"},
         phase' = "ended" /\ err' = "none" => at \notin Nodes
  PROVE  Inv'
  <1>1. UNCHANGED <<at, k, dedup, handed, tally, suppressed>>
    BY DEF walkVars, outVars
  <1>2. UNCHANGED givens OBVIOUS
  <1> USE FixedByGivens, <1>2
  <1>3. PosInv' BY <1>1 DEF Inv, PosInv
  <1>4. \A n, i : Passed(n, i)' = Passed(n, i) BY <1>1 DEF Passed
  <1>5. CountInv' /\ OutInv'
    <2>1. CASE UNCHANGED <<scope, covers>>
      BY <1>1, <1>4, <2>1, NothingPassed DEF Inv
    <2>2. CASE phase \in {"measuring", "opening"}
      <3>1. handed = {} /\ handed' = {} BY <1>1, <2>2 DEF Inv, PosInv
      <3>2. \A key : Seen(key)' = Seen(key) BY <1>4 DEF Seen
      <3>3. Owed' = Owed BY <1>4 DEF Owed
      <3>4. CountInv' BY <1>1, <3>2 DEF Inv, CountInv
      <3>5. Given' = Given BY <3>1 DEF Given
      <3>6. OutInv' BY <1>1, <3>1, <3>3, <3>5 DEF Inv, OutInv
      <3> QED BY <3>4, <3>6
    <2> QED BY <2>1, <2>2
  <1>6. ReportInv' BY <1>1 DEF Inv, ReportInv
  <1> QED BY <1>3, <1>5, <1>6 DEF Inv

\* Into a node that is not left out.
LEMMA VisitNodeInv == ASSUME Inv, VisitNode PROVE Inv'
  <1>1. /\ phase = "walking" /\ at \in Nodes /\ k = 0 /\ ~Left(at)
        /\ k' = 1 /\ at' = at
        /\ UNCHANGED <<phase, err, dedup, handed, tally, suppressed, scope, covers>>
        /\ UNCHANGED givens
    BY DEF VisitNode, AtNode, planVars
  <1> USE FixedByGivens, <1>1
  <1>2. file \in Files /\ Len(At(at).offers) \in Nat BY FileFacts DEF Inv, PosInv
  <1>3. PosInv' BY <1>2 DEF Inv, PosInv
  <1>4. \A n \in Nodes : \A i \in DOMAIN At(n).offers : Passed(n, i)' <=> Passed(n, i)
    BY <1>2, FileFacts DEF Passed
  <1>5. CountInv' /\ OutInv' BY <1>4, NothingPassed DEF Inv
  <1>6. ReportInv' BY DEF Inv, ReportInv
  <1> QED BY <1>3, <1>5, <1>6 DEF Inv

\* On from a node all of whose offers were seen.
LEMMA LeaveNodeInv == ASSUME Inv, LeaveNode PROVE Inv'
  <1>1. /\ phase = "walking" /\ at \in Nodes /\ k = Len(At(at).offers) + 1
        /\ k' = 0 /\ at' = at + 1
        /\ UNCHANGED <<phase, err, dedup, handed, tally, suppressed, scope, covers>>
        /\ UNCHANGED givens
    BY DEF LeaveNode, planVars, outVars
  <1> USE FixedByGivens, <1>1
  <1>2. file \in Files /\ Len(At(at).offers) \in Nat /\ Len(file.nodes) \in Nat
        /\ at \in 1..Len(file.nodes)
    BY FileFacts DEF Inv, PosInv, Nodes
  <1>3. ~Left(at) BY <1>2 DEF Inv, PosInv
  <1>4. PosInv'
    <2>1. at + 1 \in Nodes => \A a \in Ancestors(at + 1) \ {at + 1} : ~Left(a)
      BY <1>3, ClearBelow DEF Inv
    <2> QED BY <1>2, <2>1 DEF Inv, PosInv
  <1>5. \A n \in Nodes : \A i \in DOMAIN At(n).offers : Passed(n, i)' <=> Passed(n, i)
    BY <1>2, FileFacts DEF Passed, Nodes
  <1>6. CountInv' /\ OutInv' BY <1>5, NothingPassed DEF Inv
  <1>7. ReportInv'
    <2>1. at \notin ToReport BY <1>3 DEF ToReport, Left
    <2>2. \A n \in ToReport : (n < at + 1) <=> (n < at)
      BY <1>2, <2>1 DEF ToReport, Nodes
    <2>3. {n \in ToReport : n < at + 1} = {n \in ToReport : n < at} BY <2>2
    <2>4. {n \in ToReport : n < at}' = {n \in ToReport : n < at + 1} OBVIOUS
    <2>5. suppressed' = suppressed /\ estimate' = estimate OBVIOUS
    <2> HIDE FixedByGivens
    <2> QED BY <2>3, <2>4, <2>5 DEF Inv, ReportInv
  <1> QED BY <1>4, <1>6, <1>7 DEF Inv

\* Past a subtree that is left out.
LEMMA SkipInv ==
  ASSUME Inv, VisitFiltered \/ VisitSuppressed PROVE Inv'
  <1>1. /\ phase = "walking" /\ at \in Nodes /\ k = 0 /\ Left(at)
        /\ k' = 0 /\ at' = At(at).until + 1
        /\ UNCHANGED <<phase, err, dedup, handed, tally, scope, covers>>
        /\ UNCHANGED givens
    BY DEF VisitFiltered, VisitSuppressed, AtNode, planVars, Left
  <1> USE FixedByGivens, <1>1
  <1>2. file \in Files /\ Len(file.nodes) \in Nat /\ at \in 1..Len(file.nodes)
        /\ At(at).until \in at..Len(file.nodes)
    BY FileFacts DEF Inv, PosInv, Nodes
  <1>3. PosInv' BY <1>2, ClearAfter DEF Inv, PosInv
  <1>4. \A n \in Nodes : \A i \in DOMAIN At(n).offers :
           Visited(n) => (Passed(n, i)' <=> Passed(n, i))
    <2> TAKE n \in Nodes
    <2> TAKE i \in DOMAIN At(n).offers
    <2>1. CASE n \in at..At(at).until BY <1>2, <2>1, NoneBelow
    <2>2. CASE n \notin at..At(at).until
      <3>1. n \in Nat /\ i \in Nat /\ i > 0 BY <1>2, FileFacts DEF Nodes
      <3> QED BY <1>2, <2>2, <3>1 DEF Passed
    <2> QED BY <2>1, <2>2
  <1>5. CountInv' /\ OutInv' BY <1>4, NothingPassed DEF Inv
  <1>6. \A n \in ToReport : (n < At(at).until + 1) <=> (n < at \/ n = at)
    <2> TAKE n \in ToReport
    <2>1. n \in Nodes /\ n \in Nat BY DEF ToReport, Nodes
    <2>2. n \notin at + 1..At(at).until BY <1>2, NoneBelow
    <2> QED BY <1>2, <2>1, <2>2
  <1>7. ReportInv'
    <2>1. CASE VisitFiltered
      <3>1. at \notin ToReport /\ suppressed' = suppressed
        BY <2>1 DEF VisitFiltered, ToReport
      <3>2. {n \in ToReport : n < at}' = {n \in ToReport : n < at} BY <1>6, <3>1
      <3> QED BY <3>1, <3>2 DEF Inv, ReportInv
    <2>2. CASE VisitSuppressed
      <3>1. at \in ToReport
        BY <2>2 DEF VisitSuppressed, ToReport, Inv, PosInv
      <3>2. suppressed' = IF estimate THEN suppressed ELSE suppressed \cup {at}
        BY <2>2 DEF VisitSuppressed
      <3>3. {n \in ToReport : n < at}' = {n \in ToReport : n < at} \cup {at}
        BY <1>6, <3>1
      <3> QED BY <3>2, <3>3 DEF Inv, ReportInv
    <2> QED BY <2>1, <2>2
  <1> QED BY <1>3, <1>5, <1>7 DEF Inv

\* Past an operator that the package does without.
LEMMA NotOfferedInv == ASSUME Inv, NotOffered PROVE Inv'
  <1>1. /\ phase = "walking" /\ at \in Nodes /\ k \in DOMAIN At(at).offers
        /\ ~Bound(at, k) /\ k' = k + 1 /\ at' = at
        /\ UNCHANGED <<phase, err, dedup, handed, tally, suppressed, scope, covers>>
        /\ UNCHANGED givens
    BY DEF NotOffered, AtOffer, planVars
  <1> USE FixedByGivens, <1>1
  <1>2. file \in Files /\ Len(At(at).offers) \in Nat
        /\ k \in 1..Len(At(at).offers)
    BY FileFacts DEF Inv, PosInv
  <1>3. PosInv' BY <1>2 DEF Inv, PosInv
  <1>4. \A n \in Nodes : \A i \in DOMAIN At(n).offers :
           Visited(n) /\ Bound(n, i) => (Passed(n, i)' <=> Passed(n, i))
    BY <1>2, FileFacts DEF Passed
  <1>5. CountInv' /\ OutInv' BY <1>4, NothingPassed DEF Inv
  <1>6. ReportInv' BY DEF Inv, ReportInv
  <1> QED BY <1>3, <1>5, <1>6 DEF Inv

\* Past an offer that is given a rank: it joins the node's key's sightings, and
\* what is owed if it is chosen.
LEMMA RankedStep ==
  ASSUME Inv, Ranked
  PROVE  /\ PosInv' /\ CountInv' /\ ReportInv'
         /\ Owed' = IF Chosen THEN Owed \cup {<<at, k>>} ELSE Owed
         /\ <<at, k>> \notin Owed
  <1>1. /\ phase = "walking" /\ at \in Nodes /\ k \in DOMAIN At(at).offers
        /\ Bound(at, k) /\ k' = k + 1 /\ at' = at
        /\ dedup' = [dedup EXCEPT ![Key(at, k)] = @ + 1]
        /\ UNCHANGED <<phase, err, suppressed, scope, covers>>
        /\ UNCHANGED givens
    BY DEF Ranked, AtOffer, planVars
  <1> USE FixedByGivens, <1>1
  <1>2. file \in Files /\ Len(At(at).offers) \in Nat
        /\ k \in 1..Len(At(at).offers) /\ Len(file.nodes) \in Nat
        /\ at \in 1..Len(file.nodes)
    BY FileFacts DEF Inv, PosInv, Nodes
  <1>3. PosInv' BY <1>2 DEF Inv, PosInv
  <1>4. ReportInv' BY DEF Inv, ReportInv
  <1>5. ~Left(at) /\ Visited(at)
    BY <1>2, EnteredIsVisited DEF Inv, PosInv
  <1>6. \A n \in Nodes : \A i \in DOMAIN At(n).offers :
           Passed(n, i)' <=> (Passed(n, i) \/ (n = at /\ i = k))
    BY <1>2, FileFacts DEF Passed
  <1>7. CountInv'
    <2>1. Key(at, k) \in Keys BY DEF Keys
    <2>2. \A key : key = Key(at, k) => Seen(key)' = Seen(key) \cup {at}
      BY <1>5, <1>6 DEF Seen
    <2>3. \A key : key # Key(at, k) => Seen(key)' = Seen(key)
      BY <1>6 DEF Seen
    <2>4. /\ Seen(Key(at, k)) = Sightings(at, k)
          /\ IsFiniteSet(Sightings(at, k))
          /\ at \notin Sightings(at, k)
      BY <1>2, SeenIsSightings DEF Inv, Sightings
    <2>5. Cardinality(Seen(Key(at, k)) \cup {at}) = Cardinality(Seen(Key(at, k))) + 1
      BY <2>4, FS_AddElement
    <2>6. dedup' \in [Keys -> Nat] BY <2>1 DEF Inv, CountInv
    <2>7. ASSUME NEW key \in Keys PROVE dedup'[key] = Cardinality(Seen(key)')
      <3>1. CASE key = Key(at, k) BY <2>1, <2>2, <2>5, <3>1 DEF Inv, CountInv
      <3>2. CASE key # Key(at, k) BY <2>3, <3>2 DEF Inv, CountInv
      <3> QED BY <3>1, <3>2
    <2> QED BY <2>6, <2>7 DEF CountInv
  <1>8. \A o \in Wanted : /\ o = <<o[1], o[2]>> /\ o[1] \in Nodes
                          /\ o[2] \in DOMAIN At(o[1]).offers
    BY DEF Wanted, Offers
  <1>9. <<at, k>> \in Wanted <=> Chosen
    <2>1. <<at, k>> \in Offers BY DEF Offers
    <2>2. Id(at, k) = StableId(at, k) BY <1>2, IdIsStable DEF Inv
    <2> QED BY <1>5, <2>1, <2>2 DEF Wanted, Chosen, Visited
  <1>10. \A o \in Wanted : Passed(o[1], o[2])' <=>
                             (Passed(o[1], o[2]) \/ o = <<at, k>>)
    BY <1>6, <1>8
  <1>11. Owed' = IF Chosen THEN Owed \cup {<<at, k>>} ELSE Owed
    BY <1>9, <1>10 DEF Owed
  <1>12. <<at, k>> \notin Owed BY <1>2 DEF Owed, Passed
  <1> QED BY <1>3, <1>4, <1>7, <1>11, <1>12

\* There are finitely many offers.
LEMMA OwedFinite == ASSUME file \in Files PROVE IsFiniteSet(Owed)
  <1> DEFINE OfNode == [n \in Nodes |-> {n} \X DOMAIN At(n).offers]
             Parts == {{n} \X DOMAIN At(n).offers : n \in Nodes}
  <1>1. IsFiniteSet(Nodes)
    <2>1. Len(file.nodes) \in Int /\ 1 \in Int BY FileFacts
    <2> QED BY <2>1, FS_Interval DEF Nodes
  <1>2. \A n \in Nodes : IsFiniteSet({n} \X DOMAIN At(n).offers)
    <2> TAKE n \in Nodes
    <2>1. DOMAIN At(n).offers = 1..Len(At(n).offers) /\ Len(At(n).offers) \in Int
          /\ 1 \in Int
      BY FileFacts
    <2>2. IsFiniteSet(DOMAIN At(n).offers) BY <2>1, FS_Interval
    <2>3. IsFiniteSet({n}) BY FS_Singleton
    <2> QED BY <2>2, <2>3, FS_Product
  <1>3. IsFiniteSet(Parts)
    <2>1. OfNode \in [Nodes -> Parts] OBVIOUS
    <2>2. \A T \in Parts : \E n \in Nodes : OfNode[n] = T OBVIOUS
    <2> HIDE DEF OfNode, Parts
    <2>3. OfNode \in Surjection(Nodes, Parts) BY <2>1, <2>2, Fun_IsSurj
    <2> QED BY <1>1, <2>3, FS_Surjection
  <1>4. IsFiniteSet(Offers)
    <2>1. \A T \in Parts : IsFiniteSet(T) BY <1>2
    <2>2. Offers = UNION Parts BY DEF Offers
    <2> HIDE DEF Parts
    <2> QED BY <1>3, <2>1, <2>2, FS_UNION
  <1>5. Owed \subseteq Offers BY DEF Owed, Wanted
  <1> QED BY <1>4, <1>5, FS_Subset

\* What is owed is nothing before the walk, ...
LEMMA InitInv == Init => Inv
  <1> SUFFICES ASSUME Init PROVE Inv OBVIOUS
  <1> USE DEF Init
  <1>1. file \in Files /\ Len(file.nodes) \in Nat /\ Len(file.nodes) > 0
    BY FileFacts
  <1>2. \A n \in Nodes : \A i \in DOMAIN At(n).offers : ~Passed(n, i)
    BY <1>1, FileFacts DEF Passed, Nodes
  <1>3. PosInv
    <2>1. 1 \in Nodes /\ \A a \in Ancestors(1) \ {1} : FALSE
      BY <1>1, FileFacts DEF Nodes, Ancestors
    <2> QED BY <1>1, <2>1 DEF PosInv
  <1>4. CountInv
    <2>1. \A key : Seen(key) = {} BY <1>2 DEF Seen
    <2> QED BY <2>1, FS_EmptySet DEF CountInv
  <1>5. OutInv
    <2>1. Owed = {} BY <1>2 DEF Owed, Wanted, Offers
    <2>2. Given = {} BY DEF Given
    <2> QED BY <2>1, <2>2, FS_EmptySet DEF OutInv
  <1>6. ReportInv
    <2>1. {n \in ToReport : n < at} = {} BY DEF ToReport, Nodes
    <2> QED BY <2>1 DEF ReportInv
  <1> QED BY <1>3, <1>4, <1>5, <1>6 DEF Inv

\* ... unchanged by an offer that the replay is not after, ...
LEMMA SkipUnwantedInv == ASSUME Inv, SkipUnwanted PROVE Inv'
  <1>1. /\ Ranked /\ ~Chosen /\ UNCHANGED <<handed, tally, scope, covers>>
        /\ UNCHANGED givens
    BY DEF SkipUnwanted, Ranked, AtOffer, planVars
  <1>2. Owed' = Owed BY <1>1, RankedStep
  <1>3. \A n : Tests(n)' = Tests(n) BY <1>1, FixedByGivens DEF Tests
  <1>4. Given' = Given BY <1>1 DEF Given
  <1>5. OutInv' BY <1>1, <1>2, <1>3, <1>4, FixedByGivens DEF Inv, OutInv
  <1> QED BY <1>1, <1>5, RankedStep DEF Inv

\* ... one more for an offer that is counted, ...
LEMMA CountStepInv == ASSUME Inv, Count PROVE Inv'
  <1>1. /\ Ranked /\ Chosen /\ estimate /\ tally' = tally + 1
        /\ UNCHANGED <<handed, scope, covers>> /\ UNCHANGED givens
    BY DEF Count, Ranked, AtOffer, planVars
  <1>2. Owed' = Owed \cup {<<at, k>>} /\ <<at, k>> \notin Owed BY <1>1, RankedStep
  <1>3. IsFiniteSet(Owed) BY OwedFinite DEF Inv, PosInv
  <1>4. Cardinality(Owed') = Cardinality(Owed) + 1 BY <1>2, <1>3, FS_AddElement
  <1>5. Given' = Given /\ Given = {} BY <1>1 DEF Given, Inv, OutInv
  <1>6. handed = {} BY <1>5 DEF Given
  <1>7. OutInv' BY <1>1, <1>4, <1>5, <1>6, FixedByGivens DEF Inv, OutInv
  <1> QED BY <1>1, <1>7, RankedStep DEF Inv

\* ... or handed over under its stable id.
LEMMA HandOverInv == ASSUME Inv, HandOver PROVE Inv'
  <1> DEFINE entry ==
        [node |-> at, offer |-> k, id |-> Id(at, k), tests |-> Tests(at)]
  <1>1. /\ Ranked /\ Chosen /\ ~estimate /\ handed' = handed \cup {entry}
        /\ UNCHANGED <<tally, scope, covers>> /\ UNCHANGED givens
    BY DEF HandOver, Ranked, AtOffer, planVars
  <1>2. Owed' = Owed \cup {<<at, k>>} BY <1>1, RankedStep
  <1>3. at \in Nodes /\ k \in DOMAIN At(at).offers /\ Bound(at, k) /\ k > 0
    BY <1>1, FileFacts DEF Ranked, AtOffer, Inv, PosInv
  <1>4. Id(at, k) = StableId(at, k) BY <1>3, IdIsStable DEF Inv
  <1>5. \A n : Tests(n)' = Tests(n) BY <1>1, FixedByGivens DEF Tests
  <1>6. Given' = Given \cup {<<at, k>>}
    <2>1. entry.node = at /\ entry.offer = k OBVIOUS
    <2> HIDE DEF entry
    <2>2. Given' = {<<e.node, e.offer>> : e \in handed \cup {entry}}
      BY <1>1 DEF Given
    <2> QED BY <2>1, <2>2 DEF Given
  <1>7. ASSUME NEW e \in handed'
        PROVE  /\ e = [node |-> e.node, offer |-> e.offer, id |-> e.id,
                       tests |-> e.tests]
               /\ e.node \in Nodes /\ e.offer \in DOMAIN At(e.node).offers
               /\ e.id = StableId(e.node, e.offer)
               /\ e.tests = Tests(e.node)
    <2>1. CASE e \in handed BY <2>1 DEF Inv, OutInv
    <2>2. CASE e = entry BY <1>3, <1>4, <2>2
    <2> QED BY <1>1, <2>1, <2>2
  <1>8. OutInv'
    <2>1. Given = Owed BY <1>1 DEF Inv, OutInv
    <2> QED BY <1>1, <1>2, <1>5, <1>6, <1>7, <2>1, FixedByGivens DEF OutInv
  <1> QED BY <1>1, <1>8, RankedStep DEF Inv

\* A step is one that moves the walk or one that does not.
LEMMA NextInv == Inv /\ [Next]_vars => Inv'
  <1> SUFFICES ASSUME Inv, [Next]_vars PROVE Inv' OBVIOUS
  <1>1. CASE UNCHANGED vars \/ Done
    BY <1>1, Standstill DEF vars, planVars, Done, Inv, PosInv
  <1>2. CASE Cancel
    BY <1>2, Standstill DEF Cancel, planVars, Inv, PosInv
  <1>3. CASE SeeCanceled
    BY <1>3, Standstill DEF SeeCanceled, Stop, planVars
  <1>4. CASE \E t \in Test : MeasureTest(t)
    BY <1>4, Standstill DEF MeasureTest
  <1>5. CASE Measured
    BY <1>5, Standstill DEF Measured, planVars
  <1>6. CASE MeasureFails
    BY <1>6, Standstill DEF MeasureFails
  <1>7. CASE OpenFile
    BY <1>7, Standstill DEF OpenFile, planVars
  <1>8. CASE ParseFails
    BY <1>8, Standstill DEF ParseFails, Stop, planVars
  <1>9. CASE EndWalk
    BY <1>9, Standstill DEF EndWalk, Stop, planVars
  <1>10. CASE RunFails
    BY <1>10, Standstill DEF RunFails, Stop, planVars
  <1>11. CASE VisitFiltered \/ VisitSuppressed BY <1>11, SkipInv
  <1>12. CASE VisitNode BY <1>12, VisitNodeInv
  <1>13. CASE LeaveNode BY <1>13, LeaveNodeInv
  <1>14. CASE NotOffered BY <1>14, NotOfferedInv
  <1>15. CASE SkipUnwanted BY <1>15, SkipUnwantedInv
  <1>16. CASE Count BY <1>16, CountStepInv
  <1>17. CASE HandOver BY <1>17, HandOverInv
  <1> QED BY <1>1, <1>2, <1>3, <1>4, <1>5, <1>6, <1>7, <1>8, <1>9, <1>10, <1>11,
             <1>12, <1>13, <1>14, <1>15, <1>16, <1>17 DEF Next

-----------------------------------------------------------------------------
(* Theorems.                                                               *)

\* For every file, pattern, set of directives and replay, the id of a mutant is
\* that of its place in the whole file: idDeduper counts the nodes that the walk
\* comes by, and it comes by all that matter.
THEOREM IdsAreStable == Spec => []StableIds
  <1>1. Inv => StableIds BY DEF Inv, OutInv, StableIds
  <1> QED BY <1>1, InitInv, NextInv, PTL DEF Spec

\* For every such file, and whatever the tests cover, no two mutants that are
\* handed over have one id.
THEOREM IdsAreUnique == Spec => []UniqueIds
  <1>1. ASSUME Inv PROVE UniqueIds
    <2> SUFFICES ASSUME NEW a \in handed, NEW b \in handed, a.id = b.id PROVE a = b
      BY DEF UniqueIds
    <2>1. a.node = b.node /\ a.offer = b.offer
      BY <1>1, StableIdsDiffer DEF Inv, OutInv, PosInv
    <2> QED BY <1>1, <2>1 DEF Inv, OutInv
  <1> QED BY <1>1, InitInv, NextInv, PTL DEF Spec

\* For every such file, a walk hands over or counts what is wanted: a replay
\* finds its mutant, an estimate counts what a run would hand over, and a
\* directive takes out its subtree.
THEOREM TheWalkIsExact == Spec => []WalkIsExact
  <1>1. ASSUME Inv PROVE WalkIsExact
    <2>1. Given = {<<e.node, e.offer>> : e \in handed} BY DEF Given
    <2>2. Given \subseteq Wanted /\ suppressed \subseteq ToReport
      BY <1>1 DEF Inv, OutInv, Owed, ReportInv
    <2>3. ASSUME phase = "ended", err = "none"
          PROVE  Owed = Wanted /\ {n \in ToReport : n < at} = ToReport
      <3>1. file \in Files /\ at = Len(file.nodes) + 1 /\ Len(file.nodes) \in Nat
        BY <1>1, <2>3, FileFacts DEF Inv, PosInv, Nodes
      <3>2. \A n \in Nodes : n < at BY <3>1 DEF Nodes
      <3> QED BY <3>2 DEF Owed, Wanted, Offers, Passed, ToReport
    <2> QED BY <1>1, <2>1, <2>2, <2>3 DEF Inv, OutInv, ReportInv, WalkIsExact
  <1> QED BY <1>1, InitInv, NextInv, PTL DEF Spec

\* What impact scope asks of a file for its lines to stand for its nodes: each
\* execution of a node with offers counts in a block that contains its line.
EveryOfferCounted(f) ==
    \A n \in 1..Len(f.nodes) : \A t \in f.nodes[n].by :
        f.nodes[n].offers # <<>> =>
            \E b \in f.ran[t] : f.nodes[n].line \in f.blocks[b].first..f.blocks[b].last

\* The map is complete for the tests that were measured, and a walk that uses it
\* starts after all of them.
CoverInv ==
    /\ covers \in [Line -> SUBSET Test]
    /\ scope \in {"impact", "package"}
    /\ scope = "impact" =>
         \A t \in Test \ unmeasured : \A l \in MergedLines(t) \cap Line : t \in covers[l]
    /\ phase \in {"opening", "walking"} /\ scope = "impact" /\ ~estimate =>
         unmeasured = {}

\* If every offer is counted, impact scope leaves no test of a mutant out: each
\* is tested with all the tests that execute its node, or, when the measurement
\* failed, with the whole package's.
THEOREM ImpactMissesNothing ==
  ASSUME \A f \in Files : EveryOfferCounted(f) PROVE Spec => []NothingMissed
  <1> DEFINE I == Inv /\ CoverInv /\ NothingMissed
  <1>1. Init => I
    <2> SUFFICES ASSUME Init PROVE CoverInv /\ NothingMissed BY InitInv
    <2> QED BY DEF Init, CoverInv, NothingMissed
  <1>2. ASSUME I, [Next]_vars PROVE (CoverInv /\ NothingMissed)'
    <2>1. CASE \/ UNCHANGED vars \/ Done \/ Cancel \/ SeeCanceled \/ OpenFile
               \/ ParseFails \/ EndWalk \/ RunFails \/ VisitFiltered
               \/ VisitSuppressed \/ VisitNode \/ LeaveNode \/ NotOffered
               \/ SkipUnwanted \/ Count \/ Measured
      <3>1. UNCHANGED <<file, estimate, scope, unmeasured, covers, handed>>
        BY <2>1 DEF vars, givens, planVars, walkVars, outVars, Done, Cancel,
           SeeCanceled, OpenFile, ParseFails, EndWalk, RunFails, VisitFiltered,
           VisitSuppressed, VisitNode, LeaveNode, NotOffered, SkipUnwanted, Count,
           Measured, Stop, AtNode, AtOffer, Ranked
      <3>2. phase' = phase \/ phase' = "ended"
            \/ (phase' = "opening" /\ unmeasured = {})
            \/ (phase' = "walking" /\ phase = "opening")
        BY <2>1 DEF vars, Done, Cancel,
           SeeCanceled, OpenFile, ParseFails, EndWalk, RunFails, VisitFiltered,
           VisitSuppressed, VisitNode, LeaveNode, NotOffered, SkipUnwanted, Count,
           Measured, Stop, AtNode, AtOffer, Ranked
      <3>3. \A t : MergedLines(t)' = MergedLines(t) BY <3>1 DEF MergedLines
      <3>4. CoverInv' BY <1>2, <3>1, <3>2, <3>3 DEF CoverInv
      <3>5. \A n : At(n)' = At(n) BY <3>1 DEF At
      <3> QED BY <1>2, <3>1, <3>4, <3>5 DEF NothingMissed
    <2>2. CASE \E t \in Test : MeasureTest(t)
      <3> PICK t \in Test : MeasureTest(t) BY <2>2
      <3>1. /\ phase = "measuring" /\ phase' = phase /\ UNCHANGED <<scope, handed>>
            /\ UNCHANGED givens /\ unmeasured' = unmeasured \ {t}
            /\ covers' = [l \in Line |->
                   IF l \in MergedLines(t) THEN covers[l] \cup {t} ELSE covers[l]]
        BY DEF MeasureTest, outVars
      <3>2. file' = file BY <3>1 DEF givens
      <3>3. \A u : MergedLines(u)' = MergedLines(u) BY <3>2 DEF MergedLines
      <3>4. CoverInv' BY <1>2, <3>1, <3>3 DEF CoverInv
      <3>5. \A n : At(n)' = At(n) BY <3>2 DEF At
      <3> QED BY <1>2, <3>1, <3>4, <3>5 DEF NothingMissed
    <2>3. CASE MeasureFails
      <3>1. CoverInv' BY <2>3 DEF MeasureFails, CoverInv
      <3>2. handed' = handed /\ \A n : At(n)' = At(n)
        BY <2>3 DEF MeasureFails, outVars, givens, At
      <3> QED BY <1>2, <3>1, <3>2 DEF NothingMissed
    <2>4. CASE HandOver
      <3> DEFINE entry ==
            [node |-> at, offer |-> k, id |-> Id(at, k), tests |-> Tests(at)]
      <3>1. /\ phase = "walking" /\ phase' = phase /\ ~estimate
            /\ at \in Nodes /\ k \in DOMAIN At(at).offers
            /\ UNCHANGED <<scope, unmeasured, covers>> /\ UNCHANGED givens
            /\ handed' = handed \cup {entry}
        BY <2>4 DEF HandOver, Ranked, AtOffer, planVars
      <3>2. file' = file /\ estimate' = estimate BY <3>1 DEF givens
      <3>3. \A u : MergedLines(u)' = MergedLines(u) BY <3>2 DEF MergedLines
      <3>4. CoverInv' BY <1>2, <3>1, <3>2, <3>3 DEF CoverInv
      <3>5. At(at).by \subseteq Tests(at)
        <4>1. file \in Files /\ At(at) \in Node /\ at \in 1..Len(file.nodes)
          BY <1>2, <3>1, FileFacts DEF Inv, PosInv, Nodes
        <4>2. At(at).by \subseteq Test /\ At(at).line \in Line BY <4>1 DEF Node
        <4>3. CASE scope = "impact"
          <5> SUFFICES ASSUME NEW t \in At(at).by PROVE t \in covers[At(at).line]
            BY <4>3 DEF Tests
          <5>1. At(at).offers # <<>> BY <3>1
          <5>2. PICK b \in file.ran[t] :
                  At(at).line \in file.blocks[b].first..file.blocks[b].last
            BY <4>1, <5>1 DEF EveryOfferCounted, At
          <5>3. At(at).line \in MergedLines(t) BY <5>2 DEF MergedLines
          <5>4. unmeasured = {} BY <1>2, <3>1, <4>3 DEF CoverInv
          <5> QED BY <1>2, <4>2, <4>3, <5>3, <5>4 DEF CoverInv
        <4>4. CASE scope # "impact" BY <4>2, <4>4 DEF Tests
        <4> QED BY <4>3, <4>4
      <3>6. entry.node = at /\ entry.tests = Tests(at) OBVIOUS
      <3>7. \A n : At(n)' = At(n) BY <3>2 DEF At
      <3> HIDE DEF entry
      <3> QED BY <1>2, <3>1, <3>4, <3>5, <3>6, <3>7 DEF NothingMissed
    <2> QED BY <1>2, <2>1, <2>2, <2>3, <2>4 DEF Next
  <1>3. I /\ [Next]_vars => I' BY <1>2, NextInv
  <1> QED BY <1>1, <1>3, PTL DEF Spec

-----------------------------------------------------------------------------
(* Types.                                                                  *)

\* What Inv leaves open.
RestInv ==
    /\ types \in BOOLEAN /\ estimate \in BOOLEAN /\ canceled \in BOOLEAN
    /\ matched \subseteq Nodes
    /\ scope \in {"impact", "package"}
    /\ unmeasured \subseteq Test
    /\ covers \in [Line -> SUBSET Test]
    /\ phase \in {"measuring", "opening", "walking", "ended"}
    /\ err \in {"none", "canceled", "failed"}
    /\ tally \in Nat

LEMMA RestInit == Init => RestInv
  <1> SUFFICES ASSUME Init PROVE RestInv OBVIOUS
  <1>1. covers \in [Line -> SUBSET Test] BY DEF Init
  <1>2. /\ types \in BOOLEAN /\ estimate \in BOOLEAN /\ canceled \in BOOLEAN
        /\ matched \subseteq Nodes /\ unmeasured \subseteq Test
    BY DEF Init
  <1>3. /\ scope \in {"impact", "package"} /\ tally \in Nat
        /\ phase \in {"measuring", "opening", "walking", "ended"}
        /\ err \in {"none", "canceled", "failed"}
    BY DEF Init
  <1> QED BY <1>1, <1>2, <1>3 DEF RestInv

LEMMA RestStep == ASSUME RestInv, [Next]_vars PROVE RestInv'
  <1> USE DEF RestInv, givens, planVars, outVars
  <1>1. UNCHANGED givens
    BY DEF Next, vars, Cancel, SeeCanceled, Stop, MeasureTest, Measured, MeasureFails,
       OpenFile, ParseFails, AtNode, VisitFiltered, VisitSuppressed, VisitNode,
       LeaveNode, EndWalk, AtOffer, NotOffered, Ranked, SkipUnwanted, Count, HandOver,
       RunFails, Done
  <1>2. types' \in BOOLEAN /\ estimate' \in BOOLEAN /\ matched' \subseteq Nodes'
    BY <1>1 DEF Nodes
  <1>3. canceled' \in BOOLEAN /\ err' \in {"none", "canceled", "failed"}
    BY DEF Next, vars, Cancel, SeeCanceled, Stop, MeasureTest, Measured, MeasureFails,
       OpenFile, ParseFails, AtNode, VisitFiltered, VisitSuppressed, VisitNode,
       LeaveNode, EndWalk, AtOffer, NotOffered, Ranked, SkipUnwanted, Count, HandOver,
       RunFails, Done
  <1>4. phase' \in {"measuring", "opening", "walking", "ended"}
    BY DEF Next, vars, Cancel, SeeCanceled, Stop, MeasureTest, Measured, MeasureFails,
       OpenFile, ParseFails, AtNode, VisitFiltered, VisitSuppressed, VisitNode,
       LeaveNode, EndWalk, AtOffer, NotOffered, Ranked, SkipUnwanted, Count, HandOver,
       RunFails, Done
  <1>5. /\ scope' \in {"impact", "package"} /\ unmeasured' \subseteq Test
        /\ covers' \in [Line -> SUBSET Test]
    <2>1. CASE \E t \in Test : MeasureTest(t)
      BY <2>1 DEF MeasureTest
    <2>2. CASE MeasureFails
      BY <2>2 DEF MeasureFails
    <2>3. CASE UNCHANGED planVars
      BY <2>3
    <2> QED
      BY <2>1, <2>2, <2>3 DEF Next, vars, Cancel, SeeCanceled, Stop, Measured, OpenFile,
         ParseFails, AtNode, VisitFiltered, VisitSuppressed, VisitNode, LeaveNode,
         EndWalk, AtOffer, NotOffered, Ranked, SkipUnwanted, Count, HandOver, RunFails,
         Done
  <1>6. tally' \in Nat
    <2>1. CASE Count BY <2>1 DEF Count
    <2>2. CASE ~Count
      BY <2>2 DEF Next, vars, Cancel, SeeCanceled, Stop, MeasureTest, Measured,
         MeasureFails, OpenFile, ParseFails, AtNode, VisitFiltered, VisitSuppressed,
         VisitNode, LeaveNode, EndWalk, AtOffer, NotOffered, Ranked, SkipUnwanted,
         HandOver, RunFails, Done
    <2> QED BY <2>1, <2>2
  <1> QED BY <1>2, <1>3, <1>4, <1>5, <1>6

LEMMA InvTypes == ASSUME Inv, RestInv PROVE TypeOK
  <1>1. file \in Files BY DEF Inv, PosInv
  <1>2. at \in 1..Len(file.nodes) + 1 /\ k \in Nat
    BY DEF Inv, PosInv
  <1>3. at \in Nodes => k <= Len(At(at).offers) + 1
    <2> HAVE at \in Nodes
    <2>1. Len(At(at).offers) \in Nat BY <1>1, FileFacts
    <2> QED BY <2>1 DEF Inv, PosInv
  <1>4. ASSUME NEW e \in handed PROVE e \in Entry
    <2>1. /\ e.node \in Nodes /\ e.offer \in DOMAIN At(e.node).offers
          /\ e.id = StableId(e.node, e.offer) /\ e.tests = Tests(e.node)
          /\ e = [node |-> e.node, offer |-> e.offer, id |-> e.id, tests |-> e.tests]
      BY DEF Inv, OutInv
    <2>2. e.offer \in Nat BY <1>1, <2>1, FileFacts
    <2>3. Key(e.node, e.offer) \in Keys BY <2>1 DEF Keys
    <2>4. Cardinality(Sightings(e.node, e.offer)) \in Nat
      BY <1>1, <2>1, SightingsFinite, FS_CardinalityType
    <2>5. e.id \in Keys \X Nat BY <2>1, <2>3, <2>4 DEF StableId
    <2>6. At(e.node) \in Node BY <1>1, <2>1, FileFacts
    <2>7. e.tests \in SUBSET Test BY <2>1, <2>6 DEF Tests, RestInv, Node
    <2> QED BY <2>1, <2>2, <2>5, <2>7 DEF Entry
  <1>5. suppressed \subseteq Nodes BY DEF Inv, ReportInv, ToReport
  <1>6. dedup \in [Keys -> Nat] BY DEF Inv, CountInv
  <1> QED BY <1>1, <1>2, <1>3, <1>4, <1>5, <1>6 DEF TypeOK, RestInv

\* Every variable keeps its type, whichever file is walked.
THEOREM TypeCorrect == Spec => []TypeOK
  <1>1. Inv /\ RestInv => TypeOK BY InvTypes
  <1>2. Inv /\ RestInv /\ [Next]_vars => Inv' /\ RestInv' BY NextInv, RestStep
  <1> QED BY <1>1, <1>2, InitInv, RestInit, PTL DEF Spec
=============================================================================
