--------------------------- MODULE OperatorProofs ---------------------------
(***************************************************************************)
(* Theorems about OperatorWalk for every file, every package's constants   *)
(* and every choice of operators: what an operator offers fits the slot it *)
(* is for, so that reverting it restores the tree however the walk goes on *)
(* and wherever it is abandoned; what a typed operator puts in is of a     *)
(* type that may stand there; a mutant's expressions have the values that  *)
(* its operator promises; a walk that is not abandoned applies each        *)
(* mutation of each slot as often as its operator is bound; and what it    *)
(* applies is another program each time, but for the cases that are known. *)
(***************************************************************************)
EXTENDS OperatorWalk, FiniteSetTheorems, TLAPS

-----------------------------------------------------------------------------
(* Indices.                                                                *)

\* The k-th of a set of indices is one of them, and has k of them up to it: every
\* index has another number of them up to it.
LEMMA NthIs ==
    ASSUME NEW n \in Nat, NEW I \in SUBSET (1 .. n)
    PROVE  /\ Cardinality(I) \in Nat
           /\ \A k \in 1 .. Cardinality(I) :
                 Nth(I, k) \in I /\ Cardinality({j \in I : j <= Nth(I, k)}) = k
           /\ \A i \in I : \E k \in 1 .. Cardinality(I) : Nth(I, k) = i
<1> DEFINE Upto(i) == {j \in I : j <= i}
           f == [i \in I |-> Cardinality(Upto(i))]
           K == 1 .. Cardinality(I)
<1>1. IsFiniteSet(I) /\ Cardinality(I) \in Nat
  <2>1. IsFiniteSet(1 .. n)
    BY FS_Interval
  <2>2. IsFiniteSet(I)
    BY <2>1, FS_Subset
  <2> QED
    BY <2>2, FS_CardinalityType
<1>2. \A i \in I : /\ IsFiniteSet(Upto(i)) /\ Upto(i) # {}
                   /\ Cardinality(Upto(i)) \in K
  <2> TAKE i \in I
  <2>1. Upto(i) \in SUBSET I /\ i \in Upto(i)
    OBVIOUS
  <2> HIDE DEF Upto
  <2>2. IsFiniteSet(Upto(i)) /\ Cardinality(Upto(i)) <= Cardinality(I)
    BY <1>1, <2>1, FS_Subset
  <2>3. Cardinality(Upto(i)) \in Nat /\ Cardinality(Upto(i)) # 0
    BY <2>1, <2>2, FS_CardinalityType, FS_EmptySet
  <2> QED
    BY <1>1, <2>1, <2>2, <2>3
<1>3. ASSUME NEW i \in I, NEW j \in I, f[i] = f[j] PROVE i = j
  <2>1. ASSUME NEW a \in I, NEW b \in I, a < b PROVE Cardinality(Upto(a)) # Cardinality(Upto(b))
    <3>0. a \in Int /\ b \in Int /\ \A x \in I : x \in Int
      OBVIOUS
    <3>1. \A x \in Upto(a) : x \in Upto(b)
      BY <2>1, <3>0
    <3>2. b \in Upto(b) /\ b \notin Upto(a)
      BY <2>1, <3>0
    <3> HIDE DEF Upto
    <3> QED
      BY <1>2, <3>1, <3>2, FS_Subset
  <2>2. i \in Int /\ j \in Int
    OBVIOUS
  <2> HIDE DEF Upto
  <2>3. Cardinality(Upto(i)) = Cardinality(Upto(j))
    BY <1>3
  <2> QED
    BY <2>1, <2>2, <2>3
<1> HIDE DEF Upto
<1>4. f \in Injection(I, K)
  BY <1>2, <1>3 DEF Injection, IsInjective
<1>5. IsFiniteSet(K) /\ Cardinality(K) = Cardinality(I)
  BY <1>1, FS_Interval
<1>6. f \in Surjection(I, K)
  BY <1>4, <1>5, FS_Injection
<1>7. ASSUME NEW k \in K PROVE Nth(I, k) \in I /\ Cardinality(Upto(Nth(I, k))) = k
  <2>1. \E i \in I : Cardinality(Upto(i)) = k
    BY <1>6 DEF Surjection
  <2> QED
    BY <2>1 DEF Nth, Upto
<1>8. ASSUME NEW i \in I PROVE \E k \in K : Nth(I, k) = i
  <2>1. Cardinality(Upto(i)) \in K
    BY <1>2
  <2>2. f[Nth(I, Cardinality(Upto(i)))] = f[i] /\ Nth(I, Cardinality(Upto(i))) \in I
    BY <1>7, <2>1
  <2>3. Nth(I, Cardinality(Upto(i))) = i
    <3> HIDE DEF f
    <3> QED
      BY <1>3, <2>2
  <2> QED
    BY <2>1, <2>3
<1> QED
  BY <1>1, <1>7, <1>8 DEF Upto

\* Every set of numbers that has one has a least one.
LEMMA Least ==
    ASSUME NEW T \in SUBSET Nat, NEW t \in T
    PROVE  \E a \in T : \A b \in T : a <= b
<1> DEFINE I == {i \in 1 .. t + 1 : i - 1 \in T}
           a == Nth(I, 1)
           Upto == {j \in I : j <= a}
<1>1. t + 1 \in Nat /\ I \in SUBSET (1 .. t + 1) /\ t + 1 \in I
  OBVIOUS
<1>2. IsFiniteSet(I)
  <2>1. IsFiniteSet(1 .. t + 1)
    BY <1>1, FS_Interval
  <2> QED
    BY <1>1, <2>1, FS_Subset
<1>3. 1 \in 1 .. Cardinality(I)
  <2> HIDE DEF I
  <2>1. Cardinality(I) \in Nat /\ Cardinality(I) # 0
    BY <1>1, <1>2, FS_CardinalityType, FS_EmptySet
  <2> QED
    BY <2>1
<1>4. a \in I /\ Cardinality(Upto) = 1
  <2> HIDE DEF I
  <2> QED
    BY <1>1, <1>3, NthIs
<1>5. PICK x : Upto = {x}
  <2>1. IsFiniteSet(Upto)
    <3>1. Upto \in SUBSET I
      OBVIOUS
    <3> HIDE DEF Upto, I
    <3> QED
      BY <1>2, <3>1, FS_Subset
  <2> HIDE DEF Upto
  <2> QED
    BY <1>4, <2>1, FS_Singleton
<1>6. ASSUME NEW b \in T PROVE a - 1 <= b
  <2> HIDE DEF a
  <2>1. CASE b > t
    BY <1>4, <2>1
  <2>2. CASE b <= t
    <3>1. b + 1 \in I
      BY <2>2
    <3>2. a \in Upto /\ (b + 1 <= a => b + 1 \in Upto)
      BY <1>4, <3>1
    <3>3. b + 1 <= a => b + 1 = a
      <4> HIDE DEF Upto
      <4> QED
        BY <1>5, <3>2
    <3> QED
      BY <1>4, <3>3
  <2> QED
    BY <1>4, <2>1, <2>2
<1>7. a - 1 \in T
  BY <1>4
<1> QED
  BY <1>6, <1>7

\* So that Each gives a sequence, of what becomes of the indices in I.
LEMMA Indexed ==
    ASSUME NEW n \in Nat, NEW I \in SUBSET (1 .. n)
    PROVE  /\ Cardinality(I) \in Nat
           /\ \A k \in 1 .. Cardinality(I) : Nth(I, k) \in I
BY NthIs

-----------------------------------------------------------------------------
(* Slots.                                                                  *)

\* A tree of nodes.
IsTree(h) ==
    /\ h = [n \in DOMAIN h |-> h[n]]
    /\ \A n \in DOMAIN h :
          /\ h[n] = [kind |-> h[n].kind, tok |-> h[n].tok, kid |-> h[n].kid, list |-> h[n].list]
          /\ h[n].kid = [i \in DOMAIN h[n].kid |-> h[n].kid[i]]
          /\ h[n].list = [i \in DOMAIN h[n].list |-> h[n].list[i]]

\* A mutation knows what its slot holds.
Fits(h, m) ==
    \/ m.i = 0 /\ m.slot \in {"tok", "kid", "list"} /\ h[m.at][m.slot] = m.from
    \/ m.i # 0 /\ m.slot \in {"kid", "list"} /\ h[m.at][m.slot][m.i] = m.from

LEMMA FilesHaveTrees == \A f \in File : IsTree(f.tree)
<1> SUFFICES ASSUME NEW f \in File PROVE IsTree(f.tree)
  OBVIOUS
<1> DEFINE h == f.tree
<1>1. h \in Seq({h[n] : n \in DOMAIN h})
  BY OperatorsAssumption
<1>2. ASSUME NEW n \in DOMAIN h
      PROVE  /\ h[n] = [kind |-> h[n].kind, tok |-> h[n].tok, kid |-> h[n].kid, list |-> h[n].list]
             /\ h[n].kid \in Seq(DOMAIN h \cup {None}) /\ h[n].list \in Seq(DOMAIN h)
  BY OperatorsAssumption DEF Node
<1> HIDE DEF h
<1>3. h = [n \in DOMAIN h |-> h[n]]
  BY <1>1
<1>4. ASSUME NEW n \in DOMAIN h
      PROVE  /\ h[n].kid = [i \in DOMAIN h[n].kid |-> h[n].kid[i]]
             /\ h[n].list = [i \in DOMAIN h[n].list |-> h[n].list[i]]
  BY <1>2
<1> QED
  BY <1>2, <1>3, <1>4 DEF IsTree, h

\* What is written into a slot and then replaced by what the slot held is gone.
LEMMA WriteBack ==
    ASSUME NEW h, IsTree(h), NEW m, Fits(h, m), NEW v
    PROVE  Write(Write(h, m, v), m, m.from) = h
<1> DEFINE now == Write(h, m, v)
           back == Write(now, m, m.from)
<1>1. /\ h = [n \in DOMAIN h |-> h[n]]
      /\ \A n \in DOMAIN h :
           h[n] = [kind |-> h[n].kind, tok |-> h[n].tok, kid |-> h[n].kid, list |-> h[n].list]
  BY DEF IsTree
<1>2. CASE m.at \notin DOMAIN h
  BY <1>1, <1>2 DEF Write
<1>3. CASE m.at \in DOMAIN h /\ m.i = 0
  <2>1. now = [h EXCEPT ![m.at] = [h[m.at] EXCEPT ![m.slot] = v]]
    BY <1>3 DEF Write
  <2>2. back = [now EXCEPT ![m.at] = [now[m.at] EXCEPT ![m.slot] = m.from]]
    BY <1>3 DEF Write
  <2>3. now[m.at] = [h[m.at] EXCEPT ![m.slot] = v]
    BY <1>3, <2>1
  <2>4. [now[m.at] EXCEPT ![m.slot] = m.from] = h[m.at]
    BY <1>1, <1>3, <2>3 DEF Fits
  <2> HIDE DEF now, back
  <2>5. back = h
    BY <1>1, <1>3, <2>1, <2>2, <2>4
  <2> QED
    BY <2>5 DEF back, now
<1>4. CASE m.at \in DOMAIN h /\ m.i # 0
  <2> DEFINE s == h[m.at][m.slot]
  <2>0. s = [i \in DOMAIN s |-> s[i]] /\ s[m.i] = m.from /\ m.slot \in {"kid", "list"}
    BY <1>4 DEF Fits, IsTree
  <2>1. now = [h EXCEPT ![m.at] = [h[m.at] EXCEPT ![m.slot] = [s EXCEPT ![m.i] = v]]]
    BY <1>4 DEF Write
  <2>2. back = [now EXCEPT ![m.at] =
                   [now[m.at] EXCEPT ![m.slot] = [now[m.at][m.slot] EXCEPT ![m.i] = m.from]]]
    BY <1>4 DEF Write
  <2>3. now[m.at] = [h[m.at] EXCEPT ![m.slot] = [s EXCEPT ![m.i] = v]]
    BY <1>4, <2>1
  <2> HIDE DEF s
  <2>4. now[m.at][m.slot] = [s EXCEPT ![m.i] = v]
    BY <1>1, <1>4, <2>0, <2>3
  <2>5. [now[m.at][m.slot] EXCEPT ![m.i] = m.from] = s
    BY <2>0, <2>4
  <2>6. [now[m.at] EXCEPT ![m.slot] = s] = h[m.at]
    BY <1>1, <1>4, <2>0, <2>3 DEF s
  <2> HIDE DEF now, back
  <2>7. back = h
    BY <1>1, <1>4, <2>1, <2>2, <2>5, <2>6
  <2> QED
    BY <2>7 DEF back, now
<1> QED
  BY <1>2, <1>3, <1>4

-----------------------------------------------------------------------------
(* What the operators offer.                                               *)

\* A sequence, whatever of.
IsSeq(s) == s \in Seq({s[k] : k \in DOMAIN s})

LEMMA Elements ==
    ASSUME NEW S, NEW s \in Seq(S)
    PROVE  IsSeq(s) /\ \A k \in DOMAIN s : s[k] \in S
<1>1. ASSUME NEW k \in DOMAIN s PROVE s[k] \in S
  OBVIOUS
<1>2. s \in Seq({s[k] : k \in DOMAIN s})
  OBVIOUS
<1> QED
  BY <1>1, <1>2 DEF IsSeq

\* What is left of a sequence, the end of it.
Left(s, all) ==
    /\ Len(s) <= Len(all)
    /\ \A k \in DOMAIN s : s[k] = all[Len(all) - Len(s) + k]

LEMMA LeftAll == ASSUME NEW all, IsSeq(all) PROVE Left(all, all)
BY DEF IsSeq, Left

LEMMA LeftRest ==
    ASSUME NEW all, NEW s, IsSeq(all), IsSeq(s), Left(s, all), s # <<>>
    PROVE  /\ Left(Tail(s), all)
           /\ Len(Tail(s)) = Len(s) - 1 /\ Len(s) \in Nat /\ Len(all) \in Nat
           /\ Len(all) - Len(s) + 1 \in DOMAIN all
           /\ Head(s) = all[Len(all) - Len(s) + 1]
<1> DEFINE S == {s[k] : k \in DOMAIN s}
           T == {all[k] : k \in DOMAIN all}
           u == Tail(s)
<1>1. s \in Seq(S) /\ all \in Seq(T)
  BY DEF IsSeq
<1> HIDE DEF S, T
<1>2. /\ Len(s) \in Nat /\ Len(all) \in Nat /\ Len(s) # 0
      /\ DOMAIN s = 1 .. Len(s) /\ DOMAIN all = 1 .. Len(all) /\ Head(s) = s[1]
  BY <1>1
<1>3. u \in Seq(S) /\ Len(u) = Len(s) - 1 /\ \A k \in 1 .. Len(s) - 1 : u[k] = s[k + 1]
  BY <1>1
<1> HIDE DEF u
<1>4. DOMAIN u = 1 .. Len(s) - 1
  BY <1>2, <1>3
<1>5. ASSUME NEW k \in DOMAIN u PROVE u[k] = all[Len(all) - Len(u) + k]
  <2>1. k \in Nat /\ k + 1 \in DOMAIN s /\ u[k] = s[k + 1]
    BY <1>2, <1>3, <1>4
  <2>2. s[k + 1] = all[Len(all) - Len(s) + (k + 1)]
    BY <2>1 DEF Left
  <2>3. Len(all) - Len(s) + (k + 1) = Len(all) - Len(u) + k
    BY <1>2, <1>3, <2>1
  <2> QED
    BY <2>1, <2>2, <2>3
<1>6. Left(u, all)
  BY <1>2, <1>3, <1>5 DEF Left
<1>7. Len(all) - Len(s) + 1 \in DOMAIN all /\ Head(s) = all[Len(all) - Len(s) + 1]
  BY <1>2 DEF Left
<1> QED
  BY <1>2, <1>3, <1>6, <1>7 DEF u

\* What Each gives lists what becomes of the indices, each once.
Lists(s, e) ==
    /\ IsSeq(s)
    /\ \A k \in DOMAIN s : \E i \in DOMAIN e : s[k] = e[i]
    /\ \A i \in DOMAIN e : \E k \in DOMAIN s : s[k] = e[i]
    /\ (\A i, j \in DOMAIN e : e[i] = e[j] => i = j) => \A k, l \in DOMAIN s : s[k] = s[l] => k = l

LEMMA ByIndex == ASSUME NEW n \in Nat, NEW s, s = [k \in 1 .. n |-> s[k]] PROVE IsSeq(s)
<1>1. s \in [1 .. n -> {s[k] : k \in DOMAIN s}]
  OBVIOUS
<1> QED
  BY <1>1 DEF IsSeq

LEMMA EachLists ==
    ASSUME NEW n \in Nat, NEW I \in SUBSET (1 .. n), NEW e, DOMAIN e = I,
           NEW s, s = [k \in 1 .. Cardinality(I) |-> e[Nth(I, k)]]
    PROVE  Lists(s, e)
<1> DEFINE K == 1 .. Cardinality(I)
           Upto(i) == {j \in I : j <= i}
<1>1. /\ Cardinality(I) \in Nat
      /\ \A k \in K : Nth(I, k) \in I /\ Cardinality(Upto(Nth(I, k))) = k
      /\ \A i \in I : \E k \in K : Nth(I, k) = i
  BY NthIs, Zenon
<1> HIDE DEF Upto
<1>2. DOMAIN s = K /\ \A k \in K : s[k] = e[Nth(I, k)]
  OBVIOUS
<1>3. IsSeq(s)
  <2>1. s = [k \in 1 .. Cardinality(I) |-> s[k]]
    OBVIOUS
  <2> QED
    BY <1>1, <2>1, ByIndex
<1> HIDE DEF K
<1>4. \A k \in DOMAIN s : \E i \in DOMAIN e : s[k] = e[i]
  BY <1>1, <1>2
<1>5. \A i \in DOMAIN e : \E k \in DOMAIN s : s[k] = e[i]
  BY <1>1, <1>2
<1>6. ASSUME \A i, j \in DOMAIN e : e[i] = e[j] => i = j, NEW k \in DOMAIN s, NEW l \in DOMAIN s, s[k] = s[l]
      PROVE  k = l
  BY <1>1, <1>2, <1>6
<1> QED
  BY <1>3, <1>4, <1>5, <1>6 DEF Lists

\* A sequence of mutations that fit.
Offering(h, s) == IsSeq(s) /\ \A k \in DOMAIN s : Fits(h, s[k])

LEMMA OfferingNone == ASSUME NEW h PROVE Offering(h, <<>>)
BY DEF Offering, IsSeq

LEMMA OfferingOne == ASSUME NEW h, NEW m, Fits(h, m) PROVE Offering(h, <<m>>)
BY DEF Offering, IsSeq

LEMMA OfferingMany ==
    ASSUME NEW h, NEW n \in Nat, NEW s, s = [k \in 1 .. n |-> s[k]],
           \A k \in 1 .. n : Fits(h, s[k])
    PROVE  Offering(h, s)
<1>1. s \in [1 .. n -> {s[k] : k \in DOMAIN s}]
  OBVIOUS
<1> QED
  BY <1>1, SMTT(30) DEF Offering, IsSeq

LEMMA OfferingBoth ==
    ASSUME NEW h, NEW s, Offering(h, s), NEW t, Offering(h, t)
    PROVE  Offering(h, s \o t)
<1> DEFINE S == {s[k] : k \in DOMAIN s} \cup {t[k] : k \in DOMAIN t}
           u == s \o t
<1>1. s \in Seq(S) /\ t \in Seq(S) /\ \A m \in S : Fits(h, m)
  BY DEF Offering, IsSeq
<1> HIDE DEF S
<1>2. u \in Seq(S)
  BY <1>1
<1> HIDE DEF u
<1>3. IsSeq(u) /\ \A k \in DOMAIN u : u[k] \in S
  BY <1>2, Elements
<1>4. Offering(h, u)
  BY <1>1, <1>3 DEF Offering
<1> QED
  BY <1>4 DEF u

\* Of which the first is reverted, and the others are left.
LEMMA Rest ==
    ASSUME NEW s, IsSeq(s), s # <<>>
    PROVE  LET u == Tail(s) IN
           /\ 1 \in DOMAIN s /\ Head(s) = s[1] /\ IsSeq(u)
           /\ \A k \in DOMAIN u : \E i \in DOMAIN s : u[k] = s[i]
<1> DEFINE S == {s[k] : k \in DOMAIN s}
           u == Tail(s)
<1>1. s \in Seq(S)
  BY DEF IsSeq
<1> HIDE DEF S
<1>2. 1 \in DOMAIN s /\ Head(s) = s[1] /\ u \in Seq(S)
  BY <1>1
<1> HIDE DEF u
<1>3. IsSeq(u) /\ \A k \in DOMAIN u : u[k] \in S
  BY <1>2, Elements
<1> QED
  BY <1>2, <1>3 DEF S, u

LEMMA OfferingRest ==
    ASSUME NEW h, NEW s, Offering(h, s), s # <<>>
    PROVE  Fits(h, Head(s)) /\ Offering(h, Tail(s))
<1> DEFINE u == Tail(s)
<1>1. IsSeq(s)
  BY DEF Offering
<1>2. /\ 1 \in DOMAIN s /\ Head(s) = s[1] /\ IsSeq(u)
      /\ \A k \in DOMAIN u : \E i \in DOMAIN s : u[k] = s[i]
  BY <1>1, Rest
<1> HIDE DEF u
<1>3. Fits(h, Head(s)) /\ Offering(h, u)
  BY <1>2 DEF Offering
<1> QED
  BY <1>3 DEF u

\* The slot of an edit holds what the edit says.
LEMMA EditFits ==
    ASSUME NEW h, NEW n, NEW to, NEW at
    PROVE  /\ Fits(h, Edit(n, "tok", 0, h[n].tok, to, at))
           /\ Fits(h, Edit(n, "list", 0, h[n].list, to, at))
           /\ \A i \in Nat \ {0} : /\ Fits(h, Edit(n, "kid", i, h[n].kid[i], to, at))
                                   /\ Fits(h, Edit(n, "list", i, h[n].list[i], to, at))
BY DEF Fits, Edit

LEMMA TokenOffers ==
    ASSUME NEW h, NEW n, NEW kind, NEW table
    PROVE  Offering(h, SwapToken(h, n, kind, table))
BY EditFits, OfferingNone, OfferingOne DEF SwapToken

LEMMA ClearOffers == ASSUME NEW h, NEW n PROVE Offering(h, Clear(h, n))
BY EditFits, OfferingNone, OfferingOne DEF Clear

LEMMA ShiftOffers == ASSUME NEW f, NEW h, NEW n PROVE Offering(h, Shift(f, h, n))
<1>1. CASE h[n].kind # "lit" \/ h[n].tok.shape \notin {"int", "float"}
  BY <1>1, OfferingNone DEF Shift
<1>2. CASE ~ (h[n].kind # "lit" \/ h[n].tok.shape \notin {"int", "float"})
  <2>1. \E to : Shift(f, h, n) = [k \in 1 .. 2 |-> Edit(n, "tok", 0, h[n].tok, to[k], n)]
    BY <1>2 DEF Shift
  <2>2. PICK to : Shift(f, h, n) = [k \in 1 .. 2 |-> Edit(n, "tok", 0, h[n].tok, to[k], n)]
    BY <2>1
  <2> DEFINE s == Shift(f, h, n)
  <2>3. \A k \in 1 .. 2 : s[k] = Edit(n, "tok", 0, h[n].tok, to[k], n)
    BY <2>2
  <2>4. s = [k \in 1 .. 2 |-> s[k]]
    BY <2>2
  <2> HIDE DEF s
  <2>5. ASSUME NEW k \in 1 .. 2 PROVE Fits(h, s[k])
    BY <2>3, EditFits
  <2>6. Offering(h, s)
    BY <2>4, <2>5, OfferingMany
  <2> QED
    BY <2>6 DEF s
<1> QED
  BY <1>1, <1>2

LEMMA RemoveOffers == ASSUME NEW h, NEW n PROVE Offering(h, RemoveOperand(h, n))
<1>1. CASE h[n].kind = "binary" /\ h[n].tok \in Truths
  <2>1. RemoveOperand(h, n) = [i \in 1 .. 2 |-> Edit(n, "kid", i, h[n].kid[i], Identity(h[n].tok), n)]
    BY <1>1 DEF RemoveOperand
  <2> DEFINE s == RemoveOperand(h, n)
  <2>2. \A i \in 1 .. 2 : s[i] = Edit(n, "kid", i, h[n].kid[i], Identity(h[n].tok), n)
    BY <2>1
  <2>3. s = [i \in 1 .. 2 |-> s[i]]
    BY <2>1
  <2> HIDE DEF s
  <2>4. ASSUME NEW i \in 1 .. 2 PROVE Fits(h, s[i])
    <3>1. i \in Nat \ {0} /\ s[i] = Edit(n, "kid", i, h[n].kid[i], Identity(h[n].tok), n)
      BY <2>2
    <3> QED
      BY <3>1, EditFits
  <2>5. Offering(h, s)
    BY <2>3, <2>4, OfferingMany
  <2> QED
    BY <2>5 DEF s
<1>2. CASE ~ (h[n].kind = "binary" /\ h[n].tok \in Truths)
  BY <1>2, OfferingNone DEF RemoveOperand
<1> QED
  BY <1>1, <1>2

\* A replaced name; of which more is said below.
LEMMA RenameOffers ==
    ASSUME NEW h, NEW n, NEW names
    PROVE  /\ Offering(h, Rename(h, n, names))
           /\ \A k \in DOMAIN Rename(h, n, names) :
                 /\ Rename(h, n, names)[k].at = n
                 /\ Rename(h, n, names)[k].to \in names \cap PackageConst
<1> DEFINE I == {i \in DOMAIN ByName : ByName[i] \in names}
           s == Rename(h, n, names)
<1>1. Len(ByName) \in Nat /\ I \in SUBSET (1 .. Len(ByName)) /\ DOMAIN ByName = 1 .. Len(ByName)
  BY OperatorsAssumption
<1>2. s = [k \in 1 .. Cardinality(I) |-> Edit(n, "tok", 0, h[n].tok, ByName[Nth(I, k)], n)]
  BY DEF Rename, Each
<1>3. Cardinality(I) \in Nat /\ \A k \in 1 .. Cardinality(I) : Nth(I, k) \in I
  BY <1>1, Indexed
<1> HIDE DEF s
<1>4. Offering(h, s)
  <2> HIDE DEF I
  <2>1. s = [k \in 1 .. Cardinality(I) |-> s[k]]
    BY <1>2
  <2>2. \A k \in 1 .. Cardinality(I) : s[k] = Edit(n, "tok", 0, h[n].tok, ByName[Nth(I, k)], n)
    BY <1>2
  <2>3. \A k \in 1 .. Cardinality(I) : Fits(h, s[k])
    BY <2>2, EditFits
  <2> QED
    BY <1>3, <2>1, <2>3, OfferingMany
<1>5. \A k \in DOMAIN s : s[k].at = n /\ s[k].to \in names \cap PackageConst
  BY <1>2, <1>3 DEF Edit, PackageConst, Range
<1> QED
  BY <1>4, <1>5 DEF s

\* unary.Mutate and Remover: a mutation per slot, for some of the slots.
LEMMA StripOffers ==
    ASSUME NEW h, IsTree(h), NEW n \in DOMAIN h,
           h[n].kid \in Seq(DOMAIN h \cup {None}), h[n].list \in Seq(DOMAIN h)
    PROVE  Offering(h, Strip(h, n))
<1> DEFINE slot == IF h[n].kind = "assign" THEN "list" ELSE "kid"
           slots == CASE h[n].kind = "binary" -> h[n].kid
                      [] h[n].kind = "if" -> <<h[n].kid[1]>>
                      [] h[n].kind = "assign" -> h[n].list
                      [] OTHER -> <<>>
           I == {i \in DOMAIN slots : IsUnary(h, slots[i])}
           Of(i) == Edit(n, slot, i, slots[i], h[slots[i]].kid[1], n)
<1>1. Strip(h, n) = [k \in 1 .. Cardinality(I) |-> Of(Nth(I, k))]
  BY DEF Strip, Each
<1>2. Len(slots) \in Nat /\ DOMAIN slots = 1 .. Len(slots)
  <2>1. CASE h[n].kind = "binary"
    BY <2>1
  <2>2. CASE h[n].kind = "if"
    BY <2>2
  <2>3. CASE h[n].kind = "assign"
    BY <2>3
  <2>4. CASE h[n].kind \notin {"binary", "if", "assign"}
    BY <2>4
  <2> QED
    BY <2>1, <2>2, <2>3, <2>4
<1>3. ASSUME NEW i \in DOMAIN slots
      PROVE  i \in Nat \ {0} /\ slots[i] = (IF slot = "kid" THEN h[n].kid[i] ELSE h[n].list[i])
  <2>1. i \in Nat \ {0}
    BY <1>2
  <2>2. CASE h[n].kind = "binary"
    BY <2>1, <2>2
  <2>3. CASE h[n].kind = "if"
    BY <2>1, <2>3
  <2>4. CASE h[n].kind = "assign"
    BY <2>1, <2>4
  <2>5. CASE h[n].kind \notin {"binary", "if", "assign"}
    BY <2>5
  <2> QED
    BY <2>2, <2>3, <2>4, <2>5
<1> HIDE DEF slots
<1>4. \A i \in I : Fits(h, Of(i))
  BY <1>3, EditFits
<1>5. Cardinality(I) \in Nat /\ \A k \in 1 .. Cardinality(I) : Nth(I, k) \in I
  BY <1>2, Indexed
<1> DEFINE all == Strip(h, n)
<1> HIDE DEF I, Of
<1>6. all = [k \in 1 .. Cardinality(I) |-> all[k]] /\ \A k \in 1 .. Cardinality(I) : all[k] = Of(Nth(I, k))
  BY <1>1
<1> HIDE DEF all
<1>7. Offering(h, all)
  BY <1>4, <1>5, <1>6, OfferingMany
<1> QED
  BY <1>7 DEF all

LEMMA StatementOffers ==
    ASSUME NEW h, NEW n, h[n].list \in Seq(DOMAIN h)
    PROVE  Offering(h, RemoveStatements(h, n))
<1> DEFINE s == h[n].list
           I == {i \in DOMAIN s : Removable(h, s[i])}
           Of(i) == Edit(n, "list", i, s[i], Blank, s[i])
<1>1. CASE h[n].kind \notin {"block", "case"}
  BY <1>1, OfferingNone DEF RemoveStatements
<1>2. CASE h[n].kind \in {"block", "case"}
  <2>1. RemoveStatements(h, n) = [k \in 1 .. Cardinality(I) |-> Of(Nth(I, k))]
    BY <1>2 DEF RemoveStatements, Each
  <2>2. Len(s) \in Nat /\ I \in SUBSET (1 .. Len(s))
    OBVIOUS
  <2>3. \A i \in I : Fits(h, Of(i))
    <3>1. \A i \in I : i \in Nat \ {0}
      BY <2>2
    <3> QED
      BY <3>1, EditFits
  <2>4. Cardinality(I) \in Nat /\ \A k \in 1 .. Cardinality(I) : Nth(I, k) \in I
    BY <2>2, Indexed
  <2> DEFINE all == RemoveStatements(h, n)
  <2> HIDE DEF I, Of
  <2>5. all = [k \in 1 .. Cardinality(I) |-> all[k]] /\ \A k \in 1 .. Cardinality(I) : all[k] = Of(Nth(I, k))
    BY <2>1
  <2> HIDE DEF all
  <2>6. Offering(h, all)
    BY <2>3, <2>4, <2>5, OfferingMany
  <2> QED
    BY <2>6 DEF all
<1> QED
  BY <1>1, <1>2

\* Mutate: whichever operator, every mutation it offers fits.
LEMMA MutateOffers ==
    ASSUME NEW f \in File, NEW op \in Range(All), NEW n \in DOMAIN f.tree
    PROVE  Offering(f.tree, Mutate(f, f.tree, op, n))
<1> DEFINE h == f.tree
<1>1. /\ IsTree(h)
      /\ h[n].kid \in Seq(DOMAIN h \cup {None}) /\ h[n].list \in Seq(DOMAIN h)
  BY FilesHaveTrees, OperatorsAssumption
<1> HIDE DEF h
<1>2. Offering(h, ClearCase(h, n)) /\ Offering(h, ClearElse(h, n)) /\ Offering(h, ClearIf(h, n))
  BY ClearOffers, OfferingNone DEF ClearCase, ClearElse, ClearIf
<1>3. Offering(h, ConstSwap(f, h, n))
  BY RenameOffers, OfferingNone DEF ConstSwap
<1>4. Offering(h, LocalConstSwap(f, h, n))
  BY RenameOffers, OfferingNone, OfferingBoth DEF LocalConstSwap
<1>5. Offering(h, Flip(h, n))
  BY TokenOffers DEF Flip
<1>6. Offering(h, Strip(h, n)) /\ Offering(h, RemoveStatements(h, n))
  BY <1>1, StripOffers, StatementOffers DEF h
<1>7. op \in {All[i] : i \in DOMAIN All} /\ DOMAIN All = 1 .. 14
  BY DEF Range, All
<1> QED
  BY <1>2, <1>3, <1>4, <1>5, <1>6, <1>7, ShiftOffers, RemoveOffers, TokenOffers DEF Mutate, All, h

-----------------------------------------------------------------------------
(* What expressions denote.                                                *)

\* The nodes whose values decide that of a node.
Operands(h, n) ==
    IF h[n].kind \in {"paren", "unary"} THEN {h[n].kid[1]}
    ELSE IF h[n].kind = "binary" THEN {h[n].kid[1], h[n].kid[2]} ELSE {}

\* Operands come after what they are operands of, so that the values are defined.
Founded(h, pos, last) ==
    \A n \in DOMAIN h :
        /\ pos[n] \in Nat /\ pos[n] <= last
        /\ \A c \in Operands(h, n) : c \in DOMAIN h /\ pos[n] < pos[c]

LEMMA DenotesSame ==
    ASSUME NEW h, NEW g, NEW n, g[n] = h[n], NEW v, NEW w,
           \A c \in Operands(h, n) : v[c] = w[c], NEW env
    PROVE  Denotes(h, env, v, n) = Denotes(g, env, w, n)
<1>1. CASE h[n].kind = "paren"
  <2>1. v[h[n].kid[1]] = w[h[n].kid[1]]
    BY <1>1 DEF Operands
  <2> QED
    BY <1>1, <2>1 DEF Denotes
<1>2. CASE h[n].kind = "unary"
  <2>1. v[h[n].kid[1]] = w[h[n].kid[1]]
    BY <1>2 DEF Operands
  <2> QED
    BY <1>2, <2>1 DEF Denotes
<1>3. CASE h[n].kind = "binary"
  <2>1. v[h[n].kid[1]] = w[h[n].kid[1]] /\ v[h[n].kid[2]] = w[h[n].kid[2]]
    BY <1>3 DEF Operands
  <2> QED
    BY <1>3, <2>1 DEF Denotes
<1>4. CASE h[n].kind \notin {"paren", "unary", "binary"}
  BY <1>4 DEF Denotes
<1> QED
  BY <1>1, <1>2, <1>3, <1>4

\* What a token says of two values.
Says(tok, x, y, value) ==
    /\ tok = "&&" => value = (x /\ y)
    /\ tok = "||" => value = (x \/ y)
    /\ tok = "<" => value = (x < y)
    /\ tok = "<=" => value = (x <= y)
    /\ tok = ">" => value = (x > y)
    /\ tok = ">=" => value = (x >= y)
    /\ tok = "==" => value = (x = y)
    /\ tok = "!=" => value = (x # y)

LEMMA DenotesBinary ==
    ASSUME NEW h, NEW n, h[n].kind = "binary", NEW v, NEW env
    PROVE  Says(h[n].tok, v[h[n].kid[1]], v[h[n].kid[2]], Denotes(h, env, v, n))
<1>1. h[n].tok = "&&" => Denotes(h, env, v, n) = (v[h[n].kid[1]] /\ v[h[n].kid[2]])
  BY DEF Denotes
<1>2. h[n].tok = "||" => Denotes(h, env, v, n) = (v[h[n].kid[1]] \/ v[h[n].kid[2]])
  BY DEF Denotes
<1>3. h[n].tok = "<" => Denotes(h, env, v, n) = (v[h[n].kid[1]] < v[h[n].kid[2]])
  BY DEF Denotes
<1>4. h[n].tok = "<=" => Denotes(h, env, v, n) = (v[h[n].kid[1]] <= v[h[n].kid[2]])
  BY DEF Denotes
<1>5. h[n].tok = ">" => Denotes(h, env, v, n) = (v[h[n].kid[1]] > v[h[n].kid[2]])
  BY DEF Denotes
<1>6. h[n].tok = ">=" => Denotes(h, env, v, n) = (v[h[n].kid[1]] >= v[h[n].kid[2]])
  BY DEF Denotes
<1>7. h[n].tok = "==" => Denotes(h, env, v, n) = (v[h[n].kid[1]] = v[h[n].kid[2]])
  BY DEF Denotes
<1>8. h[n].tok = "!=" => Denotes(h, env, v, n) = (v[h[n].kid[1]] # v[h[n].kid[2]])
  BY DEF Denotes
<1> QED
  BY <1>1, <1>2, <1>3, <1>4, <1>5, <1>6, <1>7, <1>8 DEF Says

\* The recursion is well founded: values exist for the last nodes, then for those
\* before them.
LEMMA ValuesUnfold ==
    ASSUME NEW h, NEW pos, NEW last \in Nat, Founded(h, pos, last), NEW env
    PROVE  Values(h, env) = [n \in DOMAIN h |-> Denotes(h, env, Values(h, env), n)]
<1> DEFINE Late(k) == {n \in DOMAIN h : last < pos[n] + k}
           Solves(v, k) == v = [n \in Late(k) |-> Denotes(h, env, v, n)]
           T == {k \in Nat : ~ \E v : Solves(v, k)}
<1>1. \E v : Solves(v, 0)
  <2>1. Late(0) = {}
    BY DEF Founded
  <2>2. \A v : [n \in {} |-> 0] = [n \in {} |-> Denotes(h, env, v, n)]
    OBVIOUS
  <2>3. Solves([n \in {} |-> 0], 0)
    BY <2>1, <2>2
  <2> QED
    BY <2>3
<1>2. ASSUME NEW k \in Nat, NEW v, Solves(v, k) PROVE \E w : Solves(w, k + 1)
  <2> DEFINE w == [n \in Late(k + 1) |-> Denotes(h, env, v, n)]
  <2>1. ASSUME NEW n \in Late(k + 1), NEW c \in Operands(h, n)
        PROVE  c \in Late(k) /\ c \in Late(k + 1)
    BY DEF Founded
  <2>2. ASSUME NEW n \in Late(k + 1) PROVE Denotes(h, env, v, n) = Denotes(h, env, w, n)
    <3>1. \A c \in Operands(h, n) : v[c] = Denotes(h, env, v, c) /\ w[c] = Denotes(h, env, v, c)
      <4> HIDE DEF Late
      <4> QED
        BY <1>2, <2>1
    <3> HIDE DEF w, Solves
    <3> QED
      BY <3>1, DenotesSame
  <2>3. w = [n \in Late(k + 1) |-> Denotes(h, env, w, n)]
    <3> HIDE DEF Late
    <3> QED
      BY <2>2
  <2> HIDE DEF w
  <2> QED
    BY <2>3
<1>3. T = {}
  <2> SUFFICES ASSUME T # {} PROVE FALSE
    OBVIOUS
  <2> HIDE DEF Solves
  <2>1. PICK k \in T : \A j \in T : k <= j
    BY Least
  <2>2. k \in Nat /\ k # 0
    BY <1>1
  <2>3. k - 1 \in Nat /\ k - 1 \notin T
    BY <2>1, <2>2
  <2>4. PICK v : Solves(v, k - 1)
    BY <2>3
  <2>5. \E w : Solves(w, (k - 1) + 1)
    BY <1>2, <2>3, <2>4
  <2>6. (k - 1) + 1 = k
    BY <2>2
  <2>7. \E w : Solves(w, k)
    BY <2>5, <2>6
  <2> QED
    BY <2>7
<1>4. PICK v : Solves(v, last + 1)
  <2> HIDE DEF Solves
  <2>1. last + 1 \in Nat /\ last + 1 \notin T
    BY <1>3
  <2> QED
    BY <2>1
<1>5. Late(last + 1) = DOMAIN h
  BY DEF Founded
<1>6. \E u : u = [n \in DOMAIN h |-> Denotes(h, env, u, n)]
  BY <1>4, <1>5
<1> QED
  BY <1>6 DEF Values

\* What two trees agree on has the same values in both.
LEMMA SameBelow ==
    ASSUME NEW h, NEW g, NEW pos, NEW last \in Nat, Founded(h, pos, last), Founded(g, pos, last),
           NEW S \in SUBSET DOMAIN h, S \subseteq DOMAIN g,
           \A n \in S : g[n] = h[n] /\ Operands(h, n) \subseteq S, NEW env
    PROVE  \A n \in S : Values(h, env)[n] = Values(g, env)[n]
<1> DEFINE v == Values(h, env)
           w == Values(g, env)
           Bad == {n \in S : v[n] # w[n]}
           T == {last - pos[n] : n \in Bad}
<1> SUFFICES ASSUME Bad # {} PROVE FALSE
  OBVIOUS
<1>1. /\ \A n \in DOMAIN h : v[n] = Denotes(h, env, v, n)
      /\ \A n \in DOMAIN g : w[n] = Denotes(g, env, w, n)
  <2>1. v = [n \in DOMAIN h |-> Denotes(h, env, v, n)]
    BY ValuesUnfold
  <2>2. w = [n \in DOMAIN g |-> Denotes(g, env, w, n)]
    BY ValuesUnfold
  <2> HIDE DEF v, w
  <2> QED
    BY <2>1, <2>2
<1> HIDE DEF v, w
<1>2. T \in SUBSET Nat /\ T # {}
  BY DEF Founded
<1>3. PICK t \in T : \A u \in T : t <= u
  BY <1>2, Least
<1>4. PICK n \in Bad : t = last - pos[n]
  BY <1>3
<1>5. ASSUME NEW c \in Operands(h, n) PROVE v[c] = w[c]
  <2>1. c \in S /\ pos[n] < pos[c] /\ pos[n] \in Nat /\ pos[c] \in Nat
    BY <1>4 DEF Founded
  <2>2. c \in Bad => t <= last - pos[c]
    BY <1>3
  <2> QED
    BY <1>4, <2>1, <2>2
<1>6. Denotes(h, env, v, n) = Denotes(g, env, w, n)
  BY <1>4, <1>5, DenotesSame
<1> QED
  BY <1>1, <1>4, <1>6

LEMMA FilesAreFounded ==
    ASSUME NEW f \in File
    PROVE  f.end[f.root] + 1 \in Nat /\ Founded(f.tree, f.pos, f.end[f.root] + 1)
<1> DEFINE h == f.tree
           last == f.end[f.root] + 1
<1>1. f.root \in Parsed(f) /\ \A n \in DOMAIN h : n \in Parsed(f) \/ n \in {True, False, Blank}
  BY OperatorsAssumption DEF Parsed
<1>2. f.end[f.root] \in Nat /\ last \in Nat /\ \A n \in DOMAIN h : f.pos[n] \in Nat
  <2>1. f.pos \in [DOMAIN h -> Nat] /\ f.end \in [Parsed(f) -> Nat]
    BY FilesAreTrees
  <2> QED
    BY <1>1, <2>1
<1>3. \A n \in DOMAIN h : f.pos[n] <= last
  <2>1. \A n \in Parsed(f) : f.pos[n] \in 1 .. f.end[f.root]
    BY FilesAreTrees
  <2>2. \A n \in {True, False, Blank} : f.pos[n] = last
    BY FilesAreTrees
  <2> QED
    BY <1>1, <1>2, <2>1, <2>2
<1>4. ASSUME NEW n \in DOMAIN h, NEW c \in Operands(h, n)
      PROVE  c \in DOMAIN h /\ f.pos[n] < f.pos[c]
  <2>1. h[n].kid \in Seq(DOMAIN h \cup {None})
    BY OperatorsAssumption
  <2>2. h[n].kind \in {"paren", "unary", "binary"}
    BY DEF Operands
  <2>3. /\ Len(h[n].kid) = Arity[h[n].kind] /\ h[n].kid[1] # None
        /\ Len(h[n].kid) = 2 => h[n].kid[2] # None
    <3>1. h[n].kind \in DOMAIN Arity
      BY <2>2 DEF Arity
    <3>2. Len(h[n].kid) = Arity[h[n].kind]
      BY <3>1, OperatorsAssumption
    <3>3. h[n].kid[1] # None
      BY <3>1, OperatorsAssumption
    <3>4. Len(h[n].kid) = 2 => h[n].kid[2] # None
      BY <3>1, OperatorsAssumption
    <3> QED
      BY <3>2, <3>3, <3>4
  <2>4. Arity[h[n].kind] = IF h[n].kind = "binary" THEN 2 ELSE 1
    BY <2>2 DEF Arity
  <2>5. c \in Range(h[n].kid) \ {None}
    <3>1. CASE h[n].kind = "binary"
      BY <2>1, <2>3, <2>4, <3>1 DEF Operands, Range
    <3>2. CASE h[n].kind \in {"paren", "unary"}
      BY <2>1, <2>3, <2>4, <3>2 DEF Operands, Range
    <3> QED
      BY <2>2, <3>1, <3>2
  <2>6. c \in DOMAIN h
    BY <2>1, <2>5 DEF Range
  <2>7. n \in Parsed(f)
    <3>1. \A s \in {True, False, Blank} : h[s].kid = <<>>
      BY OperatorsAssumption
    <3> QED
      BY <1>1, <2>5, <3>1 DEF Range
  <2>8. \A x \in Range(h[n].kid) \ {None} : f.pos[n] < f.pos[x]
    BY <2>7, FilesAreTrees
  <2> QED
    BY <2>5, <2>6, <2>8
<1> QED
  BY <1>2, <1>3, <1>4 DEF Founded

\* Values are of the type that go/types gives the expression.
LEMMA ValuesTyped ==
    ASSUME NEW f \in File, NEW env \in f.envs
    PROVE  \A n \in DOMAIN f.tree : Has(Value(f.tree, n, env), f.type[n])
<1> DEFINE h == f.tree
           last == f.end[f.root] + 1
           v == Values(h, env)
           Bad == {n \in DOMAIN h : ~ Has(v[n], f.type[n])}
           T == {last - f.pos[n] : n \in Bad}
<1>1. last \in Nat /\ Founded(h, f.pos, last)
  BY FilesAreFounded
<1>2. \A n \in DOMAIN h : v[n] = Denotes(h, env, v, n)
  <2>1. v = [n \in DOMAIN h |-> Denotes(h, env, v, n)]
    BY <1>1, ValuesUnfold
  <2> HIDE DEF v
  <2> QED
    BY <2>1
<1> HIDE DEF v, last
<1> SUFFICES ASSUME Bad # {} PROVE FALSE
  BY DEF Value, v
<1>3. T \in SUBSET Nat /\ T # {}
  BY <1>1 DEF Founded
<1>4. PICK t \in T : \A u \in T : t <= u
  BY <1>3, Least
<1>5. PICK n \in Bad : t = last - f.pos[n]
  BY <1>4
<1>6. ASSUME NEW c \in Operands(h, n) PROVE Has(v[c], f.type[c])
  <2>1. c \in DOMAIN h /\ f.pos[n] < f.pos[c] /\ f.pos[n] \in Nat /\ f.pos[c] \in Nat
    BY <1>1, <1>5 DEF Founded
  <2>2. c \in Bad => t <= last - f.pos[c]
    BY <1>4
  <2> QED
    BY <1>1, <1>5, <2>1, <2>2
<1>7. v[n] = Denotes(h, env, v, n) /\ n \in DOMAIN h /\ ~ Has(v[n], f.type[n])
  BY <1>2, <1>5
<1> DEFINE kid == h[n].kid
           Of == {f.type[kid[i]] : i \in DOMAIN kid}
<1>8. /\ h[n].kind = "paren" => Of = {f.type[n]}
      /\ h[n].kind = "unary" /\ h[n].tok = "!" => Of \cup {f.type[n]} = {"truth"}
      /\ h[n].kind = "binary" /\ h[n].tok \in Truths => Of \cup {f.type[n]} = {"truth"}
      /\ h[n].kind = "binary" /\ h[n].tok \in Compares => f.type[n] = "truth"
      /\ h[n].kind = "lit" => f.type[n] # "truth" /\ h[n].tok.size \in Nat
      /\ h[n].kind = "ident" => Has(env.name[h[n].tok], f.type[n])
      /\ h[n].kind # "ident" => Has(env.other[n], f.type[n])
  BY <1>7, FilesAreTyped, ZenonT(60)
<1>9. h[n].kind \in {"paren", "unary", "binary"} => 1 \in DOMAIN kid
  <2> SUFFICES ASSUME h[n].kind \in {"paren", "unary", "binary"} PROVE 1 \in DOMAIN kid
    OBVIOUS
  <2>1. kid \in Seq(DOMAIN h \cup {None}) /\ h[n].kind \in DOMAIN Arity
    BY <1>7, OperatorsAssumption DEF Arity
  <2>2. Len(kid) = Arity[h[n].kind]
    BY <1>7, <2>1, OperatorsAssumption
  <2> QED
    BY <2>1, <2>2 DEF Arity
<1>10. CASE h[n].kind = "lit"
  BY <1>7, <1>8, <1>10 DEF Denotes, Has
<1>11. CASE h[n].kind = "ident"
  BY <1>7, <1>8, <1>11 DEF Denotes
<1>12. CASE h[n].kind = "paren"
  BY <1>6, <1>7, <1>8, <1>9, <1>12 DEF Denotes, Operands
<1>13. CASE h[n].kind = "unary"
  <2>1. CASE h[n].tok = "!"
    BY <1>6, <1>7, <1>8, <1>9, <1>13, <2>1 DEF Denotes, Has
  <2>2. CASE h[n].tok # "!"
    BY <1>7, <1>8, <1>13, <2>2 DEF Denotes
  <2> QED
    BY <2>1, <2>2
<1>14. CASE h[n].kind = "binary"
  <2>1. CASE h[n].tok \in Truths
    BY <1>7, <1>8, <1>14, <2>1, Zenon DEF Denotes, Has, Truths
  <2>2. CASE h[n].tok \in Compares
    <3> DEFINE x == v[kid[1]]
               y == v[kid[2]]
    <3>1. /\ h[n].tok = "<" => v[n] = (x < y)
          /\ h[n].tok = "<=" => v[n] = (x <= y)
          /\ h[n].tok = ">" => v[n] = (x > y)
          /\ h[n].tok = ">=" => v[n] = (x >= y)
          /\ h[n].tok = "==" => v[n] = (x = y)
          /\ h[n].tok = "!=" => v[n] = (x # y)
      BY <1>7, <1>14, DenotesBinary DEF Says
    <3> HIDE DEF x, y
    <3>2. v[n] \in BOOLEAN
      <4>1. h[n].tok = "<" => v[n] \in BOOLEAN
        <5>1. (x < y) = TRUE \/ (x < y) = FALSE
          OBVIOUS
        <5> QED
          BY <3>1, <5>1
      <4>2. h[n].tok = "<=" => v[n] \in BOOLEAN
        <5>1. (x <= y) = TRUE \/ (x <= y) = FALSE
          OBVIOUS
        <5> QED
          BY <3>1, <5>1
      <4>3. h[n].tok = ">" => v[n] \in BOOLEAN
        <5>1. (x > y) = TRUE \/ (x > y) = FALSE
          OBVIOUS
        <5> QED
          BY <3>1, <5>1
      <4>4. h[n].tok = ">=" => v[n] \in BOOLEAN
        <5>1. (x >= y) = TRUE \/ (x >= y) = FALSE
          OBVIOUS
        <5> QED
          BY <3>1, <5>1
      <4>5. h[n].tok = "==" => v[n] \in BOOLEAN
        <5>1. (x = y) = TRUE \/ (x = y) = FALSE
          OBVIOUS
        <5> QED
          BY <3>1, <5>1
      <4>6. h[n].tok = "!=" => v[n] \in BOOLEAN
        <5>1. (x # y) = TRUE \/ (x # y) = FALSE
          OBVIOUS
        <5> QED
          BY <3>1, <5>1, Zenon
      <4> QED
        BY <2>2, <4>1, <4>2, <4>3, <4>4, <4>5, <4>6 DEF Compares, Orders
    <3> QED
      BY <1>7, <1>8, <1>14, <2>2, <3>2 DEF Has
  <2>3. CASE h[n].tok \notin Truths \cup Compares
    BY <1>7, <1>8, <1>14, <2>3, Zenon DEF Denotes, Truths, Compares, Orders
  <2> QED
    BY <2>1, <2>2, <2>3
<1>15. CASE h[n].kind \notin {"lit", "ident", "paren", "unary", "binary"}
  BY <1>7, <1>8, <1>15, Zenon DEF Denotes
<1> QED
  BY <1>10, <1>11, <1>12, <1>13, <1>14, <1>15

\* Two trees that differ in one node.
Elsewhere(h, now, n) ==
    n \in DOMAIN h /\ DOMAIN now = DOMAIN h /\ \A x \in DOMAIN h \ {n} : now[x] = h[x]

\* A mutation at a node leaves the values of what comes after it, and so of its
\* operands, and the node denotes what it now says.
LEMMA Below ==
    ASSUME NEW f \in File, NEW at \in DOMAIN f.tree, NEW now, Elsewhere(f.tree, now, at),
           \A c \in Operands(now, at) : c \in DOMAIN f.tree /\ f.pos[at] < f.pos[c],
           NEW env
    PROVE  /\ Value(now, at, env) = Denotes(now, env, Values(now, env), at)
           /\ \A x \in DOMAIN f.tree :
                 f.pos[at] < f.pos[x] => Values(now, env)[x] = Value(f.tree, x, env)
<1> DEFINE h == f.tree
           last == f.end[f.root] + 1
           S == {x \in DOMAIN h : f.pos[at] < f.pos[x]}
<1>1. last \in Nat /\ Founded(h, f.pos, last)
  BY FilesAreFounded
<1> HIDE DEF last
<1> USE DEF Elsewhere
<1>2. \A n \in DOMAIN h \ {at} : Operands(now, n) = Operands(h, n)
  BY DEF Operands
<1>3. Founded(now, f.pos, last)
  BY <1>1, <1>2 DEF Founded
<1>4. \A n \in S : now[n] = h[n] /\ Operands(h, n) \subseteq S
  BY <1>1 DEF Founded
<1>5. \A x \in S : Values(h, env)[x] = Values(now, env)[x]
  <2>1. S \in SUBSET DOMAIN h /\ S \subseteq DOMAIN now
    OBVIOUS
  <2> HIDE DEF S
  <2> QED
    BY <1>1, <1>3, <1>4, <2>1, SameBelow
<1>6. Value(now, at, env) = Denotes(now, env, Values(now, env), at)
  <2> DEFINE v == Values(now, env)
  <2>1. v = [n \in DOMAIN now |-> Denotes(now, env, v, n)]
    BY <1>1, <1>3, ValuesUnfold
  <2> HIDE DEF v
  <2>2. v[at] = Denotes(now, env, v, at)
    BY <2>1
  <2> QED
    BY <2>2 DEF Value, v
<1> QED
  BY <1>5, <1>6 DEF Value

\* Of the file's own tree, as of one in which nothing changed.
LEMMA ValueIs ==
    ASSUME NEW f \in File, NEW n \in DOMAIN f.tree, NEW env
    PROVE  /\ Value(f.tree, n, env) = Denotes(f.tree, env, Values(f.tree, env), n)
           /\ \A c \in Operands(f.tree, n) : c \in DOMAIN f.tree /\ f.pos[n] < f.pos[c]
<1>1. \A c \in Operands(f.tree, n) : c \in DOMAIN f.tree /\ f.pos[n] < f.pos[c]
  BY FilesAreFounded DEF Founded
<1>2. Elsewhere(f.tree, f.tree, n)
  BY DEF Elsewhere
<1> QED
  BY <1>1, <1>2, Below

LEMMA WriteToken ==
    ASSUME NEW h, IsTree(h), NEW n \in DOMAIN h, NEW to,
           NEW now, now = Write(h, Edit(n, "tok", 0, h[n].tok, to, n), to)
    PROVE  /\ Elsewhere(h, now, n)
           /\ now[n].kind = h[n].kind
           /\ now[n].kid = h[n].kid
           /\ now[n].tok = to
<1>1. now = [h EXCEPT ![n] = [h[n] EXCEPT !["tok"] = to]]
  BY DEF Write, Edit
<1>2. h[n] = [kind |-> h[n].kind, tok |-> h[n].tok, kid |-> h[n].kid, list |-> h[n].list]
  BY DEF IsTree
<1> QED
  BY <1>1, <1>2 DEF Elsewhere

LEMMA WriteKid ==
    ASSUME NEW h, IsTree(h), NEW n \in DOMAIN h, NEW i \in Nat \ {0}, NEW from, NEW to, NEW at,
           NEW now, now = Write(h, Edit(n, "kid", i, from, to, at), to)
    PROVE  /\ Elsewhere(h, now, n)
           /\ now[n].kind = h[n].kind
           /\ now[n].tok = h[n].tok
           /\ now[n].kid = [h[n].kid EXCEPT ![i] = to]
<1>1. now = [h EXCEPT ![n] = [h[n] EXCEPT !["kid"] = [h[n].kid EXCEPT ![i] = to]]]
  BY DEF Write, Edit
<1>2. h[n] = [kind |-> h[n].kind, tok |-> h[n].tok, kid |-> h[n].kid, list |-> h[n].list]
  BY DEF IsTree
<1> QED
  BY <1>1, <1>2 DEF Elsewhere

LEMMA WriteList ==
    ASSUME NEW h, IsTree(h), NEW n \in DOMAIN h, NEW i \in Nat \ {0}, NEW from, NEW to, NEW at,
           NEW now, now = Write(h, Edit(n, "list", i, from, to, at), to)
    PROVE  /\ Elsewhere(h, now, n)
           /\ now[n].kind = h[n].kind
           /\ now[n].kid = h[n].kid
<1>1. now = [h EXCEPT ![n] = [h[n] EXCEPT !["list"] = [h[n].list EXCEPT ![i] = to]]]
  BY DEF Write, Edit
<1>2. h[n] = [kind |-> h[n].kind, tok |-> h[n].tok, kid |-> h[n].kid, list |-> h[n].list]
  BY DEF IsTree
<1> QED
  BY <1>1, <1>2 DEF Elsewhere

\* Both operands of a binary expression are nodes after it.
LEMMA BinaryOperands ==
    ASSUME NEW f \in File, NEW n \in DOMAIN f.tree, f.tree[n].kind = "binary"
    PROVE  LET kid == f.tree[n].kid IN
           /\ DOMAIN kid = 1 .. 2
           /\ \A i \in 1 .. 2 : kid[i] \in DOMAIN f.tree /\ f.pos[n] < f.pos[kid[i]]
           /\ n \in Parsed(f)
<1> DEFINE kid == f.tree[n].kid
<1>1. kid \in Seq(DOMAIN f.tree \cup {None})
  BY OperatorsAssumption
<1>2. Len(kid) = 2
  <2>1. f.tree[n].kind \in DOMAIN Arity /\ Arity[f.tree[n].kind] = 2
    BY DEF Arity
  <2>2. Len(kid) = Arity[f.tree[n].kind]
    BY <2>1, OperatorsAssumption
  <2> QED
    BY <2>1, <2>2
<1>3. \A c \in {kid[1], kid[2]} : c \in DOMAIN f.tree /\ f.pos[n] < f.pos[c]
  BY ValueIs DEF Operands
<1>4. n \notin {True, False, Blank}
  <2>1. f.tree[True].kind = "ident" /\ f.tree[False].kind = "ident" /\ f.tree[Blank].kind = "empty"
    BY OperatorsAssumption
  <2> QED
    BY <2>1
<1> QED
  BY <1>1, <1>2, <1>3, <1>4 DEF Parsed

LEMMA TableIs ==
    ASSUME NEW pairs, \A p, q \in pairs : p[1] = q[1] => p = q, NEW p \in pairs
    PROVE  Table(pairs)[p[1]] = p[2]
<1>1. (CHOOSE q \in pairs : q[1] = p[1]) = p
  OBVIOUS
<1> QED
  BY <1>1 DEF Table

LEMMA BoundarySwapsAre ==
    /\ DOMAIN BoundarySwaps = Orders
    /\ BoundarySwaps["<"] = "<=" /\ BoundarySwaps["<="] = "<"
    /\ BoundarySwaps[">"] = ">=" /\ BoundarySwaps[">="] = ">"
<1>1. BoundaryPairs = {<<"<", "<=">>, <<">", ">=">>, <<"<=", "<">>, <<">=", ">">>}
  BY DEF BoundaryPairs, Pairs
<1>2. \A p, q \in BoundaryPairs : p[1] = q[1] => p = q
  BY SwapsAgree
<1>3. \A p \in BoundaryPairs : Table(BoundaryPairs)[p[1]] = p[2]
  BY <1>2, TableIs
<1> QED
  BY <1>1, <1>3 DEF BoundarySwaps, Table, Orders

LEMMA BinarySwapsAre ==
    /\ BinarySwaps["<"] = ">=" /\ BinarySwaps[">="] = "<"
    /\ BinarySwaps[">"] = "<=" /\ BinarySwaps["<="] = ">"
    /\ BinarySwaps["=="] = "!=" /\ BinarySwaps["!="] = "=="
<1>1. /\ <<"<", ">=">> \in BinaryPairs /\ <<">=", "<">> \in BinaryPairs
      /\ <<">", "<=">> \in BinaryPairs /\ <<"<=", ">">> \in BinaryPairs
      /\ <<"==", "!=">> \in BinaryPairs /\ <<"!=", "==">> \in BinaryPairs
  BY DEF BinaryPairs, Pairs
<1>2. \A p, q \in BinaryPairs : p[1] = q[1] => p = q
  BY SwapsAgree
<1>3. \A p \in BinaryPairs : Table(BinaryPairs)[p[1]] = p[2]
  BY <1>2, TableIs
<1> QED
  BY <1>1, <1>3 DEF BinarySwaps

\* A swapped token says its own of operands with the values they had.
LEMMA TokenMeans ==
    ASSUME NEW f \in File, NEW n \in DOMAIN f.tree, f.tree[n].kind = "binary", NEW to,
           NEW env \in f.envs
    PROVE  LET h == f.tree
               now == Write(h, Edit(n, "tok", 0, h[n].tok, to, n), to)
               x == Value(h, h[n].kid[1], env)
               y == Value(h, h[n].kid[2], env) IN
           /\ Says(h[n].tok, x, y, Value(h, n, env)) /\ Says(to, x, y, Value(now, n, env))
           /\ h[n].tok \in Orders => x \in Int /\ y \in Int
<1> DEFINE h == f.tree
           kid == h[n].kid
           now == Write(h, Edit(n, "tok", 0, h[n].tok, to, n), to)
           x == Value(h, kid[1], env)
           y == Value(h, kid[2], env)
<1>1. /\ Elsewhere(h, now, n)
      /\ now[n].kind = "binary" /\ now[n].kid = kid /\ now[n].tok = to
  <2>1. IsTree(h)
    BY FilesHaveTrees
  <2>2. now = Write(h, Edit(n, "tok", 0, h[n].tok, to, n), to) /\ n \in DOMAIN h
    OBVIOUS
  <2> HIDE DEF now, h
  <2> QED
    BY <2>1, <2>2, WriteToken DEF h
<1>2. \A i \in 1 .. 2 : kid[i] \in DOMAIN h /\ f.pos[n] < f.pos[kid[i]]
  BY BinaryOperands
<1>3. DOMAIN kid = 1 .. 2
  BY BinaryOperands
<1>4. Says(h[n].tok, x, y, Value(h, n, env))
  <2>1. Says(h[n].tok, x, y, Denotes(h, env, Values(h, env), n))
    BY DenotesBinary DEF Value
  <2> QED
    BY <2>1, ValueIs
<1>5. Says(to, x, y, Value(now, n, env))
  <2> HIDE DEF now
  <2>1. \A c \in Operands(now, n) : c \in DOMAIN h /\ f.pos[n] < f.pos[c]
    BY <1>1, <1>2 DEF Operands
  <2>2. /\ Value(now, n, env) = Denotes(now, env, Values(now, env), n)
        /\ Values(now, env)[kid[1]] = x /\ Values(now, env)[kid[2]] = y
    BY <1>1, <1>2, <2>1, Below
  <2>3. Says(to, Values(now, env)[kid[1]], Values(now, env)[kid[2]],
             Denotes(now, env, Values(now, env), n))
    BY <1>1, DenotesBinary
  <2> QED
    BY <2>2, <2>3
<1>6. ASSUME h[n].tok \in Orders PROVE x \in Int /\ y \in Int
  <2>1. h[n].kind = "binary" /\ h[n].tok \in Orders => {f.type[kid[i]] : i \in DOMAIN kid} = {"ordered"}
    BY FilesAreTyped, ZenonT(60)
  <2>2. f.type[kid[1]] = "ordered" /\ f.type[kid[2]] = "ordered"
    BY <1>3, <1>6, <2>1, SMTT(30)
  <2>3. Has(x, f.type[kid[1]]) /\ Has(y, f.type[kid[2]])
    BY <1>2, ValuesTyped
  <2> QED
    BY <2>2, <2>3 DEF Has
<1> QED
  BY <1>4, <1>5, <1>6

\* operator/boundary and operator/binary.
LEMMA BoundaryMeans ==
    ASSUME NEW f \in File, NEW n \in DOMAIN f.tree, f.tree[n].kind = "binary",
           f.tree[n].tok \in Orders, NEW env \in f.envs
    PROVE  LET h == f.tree
               to == BoundarySwaps[h[n].tok]
               now == Write(h, Edit(n, "tok", 0, h[n].tok, to, n), to) IN
           Value(now, n, env) # Value(h, n, env)
               <=> Value(h, h[n].kid[1], env) = Value(h, h[n].kid[2], env)
<1> DEFINE h == f.tree
           tok == h[n].tok
           to == BoundarySwaps[tok]
           now == Write(h, Edit(n, "tok", 0, tok, to, n), to)
           x == Value(h, h[n].kid[1], env)
           y == Value(h, h[n].kid[2], env)
           was == Value(h, n, env)
           is == Value(now, n, env)
<1>1. Says(tok, x, y, was) /\ Says(to, x, y, is) /\ x \in Int /\ y \in Int
  BY TokenMeans
<1>2. (is # was) <=> (x = y)
  <2> HIDE DEF x, y, was, is
  <2>1. CASE tok = "<"
    <3>1. was = (x < y) /\ is = (x <= y)
      BY <1>1, <2>1, BoundarySwapsAre DEF Says
    <3>2. ((x <= y) # (x < y)) <=> (x = y)
      BY <1>1
    <3> QED
      BY <3>1, <3>2
  <2>2. CASE tok = "<="
    <3>1. was = (x <= y) /\ is = (x < y)
      BY <1>1, <2>2, BoundarySwapsAre DEF Says
    <3>2. ((x < y) # (x <= y)) <=> (x = y)
      BY <1>1
    <3> QED
      BY <3>1, <3>2
  <2>3. CASE tok = ">"
    <3>1. was = (x > y) /\ is = (x >= y)
      BY <1>1, <2>3, BoundarySwapsAre DEF Says
    <3>2. ((x >= y) # (x > y)) <=> (x = y)
      BY <1>1
    <3> QED
      BY <3>1, <3>2
  <2>4. CASE tok = ">="
    <3>1. was = (x >= y) /\ is = (x > y)
      BY <1>1, <2>4, BoundarySwapsAre DEF Says
    <3>2. ((x > y) # (x >= y)) <=> (x = y)
      BY <1>1
    <3> QED
      BY <3>1, <3>2
  <2> QED
    BY <2>1, <2>2, <2>3, <2>4 DEF Orders
<1> QED
  BY <1>2

LEMMA BinaryMeans ==
    ASSUME NEW f \in File, NEW n \in DOMAIN f.tree, f.tree[n].kind = "binary",
           f.tree[n].tok \in Compares, NEW env \in f.envs
    PROVE  LET h == f.tree
               to == BinarySwaps[h[n].tok]
               now == Write(h, Edit(n, "tok", 0, h[n].tok, to, n), to) IN
           Value(now, n, env) = ~Value(h, n, env)
<1> DEFINE h == f.tree
           tok == h[n].tok
           to == BinarySwaps[tok]
           now == Write(h, Edit(n, "tok", 0, tok, to, n), to)
           x == Value(h, h[n].kid[1], env)
           y == Value(h, h[n].kid[2], env)
           was == Value(h, n, env)
           is == Value(now, n, env)
<1>1. Says(tok, x, y, was) /\ Says(to, x, y, is) /\ (tok \in Orders => x \in Int /\ y \in Int)
  BY TokenMeans
<1>2. is = ~was
  <2> HIDE DEF x, y, was, is
  <2>1. CASE tok = "<"
    <3>1. was = (x < y) /\ is = (x >= y)
      BY <1>1, <2>1, BinarySwapsAre DEF Says
    <3>2. (x >= y) = ~(x < y)
      BY <1>1, <2>1 DEF Orders
    <3> QED
      BY <3>1, <3>2
  <2>2. CASE tok = "<="
    <3>1. was = (x <= y) /\ is = (x > y)
      BY <1>1, <2>2, BinarySwapsAre DEF Says
    <3>2. (x > y) = ~(x <= y)
      BY <1>1, <2>2 DEF Orders
    <3> QED
      BY <3>1, <3>2
  <2>3. CASE tok = ">"
    <3>1. was = (x > y) /\ is = (x <= y)
      BY <1>1, <2>3, BinarySwapsAre DEF Says
    <3>2. (x <= y) = ~(x > y)
      BY <1>1, <2>3 DEF Orders
    <3> QED
      BY <3>1, <3>2
  <2>4. CASE tok = ">="
    <3>1. was = (x >= y) /\ is = (x < y)
      BY <1>1, <2>4, BinarySwapsAre DEF Says
    <3>2. (x < y) = ~(x >= y)
      BY <1>1, <2>4 DEF Orders
    <3> QED
      BY <3>1, <3>2
  <2>5. CASE tok = "=="
    <3>1. was = (x = y) /\ is = (x # y)
      BY <1>1, <2>5, BinarySwapsAre DEF Says
    <3>2. (x # y) = ~(x = y)
      BY <1>1, <2>5 DEF Orders
    <3> QED
      BY <3>1, <3>2
  <2>6. CASE tok = "!="
    <3>1. was = (x # y) /\ is = (x = y)
      BY <1>1, <2>6, BinarySwapsAre DEF Says
    <3>2. (x = y) = ~(x # y)
      BY <1>1, <2>6 DEF Orders
    <3> QED
      BY <3>1, <3>2
  <2> QED
    BY <2>1, <2>2, <2>3, <2>4, <2>5, <2>6 DEF Compares, Orders
<1> QED
  BY <1>2

\* expression/remove: the operand put in is the neutral element, before which nothing
\* was and after which all of the file is.
LEMMA RemoveMeans ==
    ASSUME NEW f \in File, NEW n \in DOMAIN f.tree, f.tree[n].kind = "binary",
           f.tree[n].tok \in Truths, NEW i \in 1 .. 2, NEW env \in f.envs, NEW now,
           LET h == f.tree
               to == Identity(h[n].tok) IN
           now = Write(h, Edit(n, "kid", i, h[n].kid[i], to, n), to)
    PROVE  Value(now, n, env) = Value(f.tree, f.tree[n].kid[3 - i], env)
<1> DEFINE h == f.tree
           kid == h[n].kid
           to == Identity(h[n].tok)
           other == kid[3 - i]
           v == Values(now, env)
           z == Value(h, other, env)
<1>1. IsTree(h) /\ n \in DOMAIN h /\ i \in Nat \ {0}
  BY FilesHaveTrees
<1>2. /\ Elsewhere(h, now, n)
      /\ now[n].kind = "binary" /\ now[n].tok = h[n].tok
      /\ now[n].kid = [kid EXCEPT ![i] = to]
  BY <1>1, WriteKid
<1>3. DOMAIN kid = 1 .. 2 /\ n \in Parsed(f)
  BY BinaryOperands
<1>4. \A j \in 1 .. 2 : kid[j] \in DOMAIN h /\ f.pos[n] < f.pos[kid[j]]
  BY BinaryOperands
<1>5. to \in {True, False} /\ to = (IF h[n].tok = "&&" THEN True ELSE False)
  BY DEF Identity
<1>6. to \in DOMAIN h /\ f.pos[n] < f.pos[to]
  <2>1. to \in DOMAIN h
    BY <1>5, OperatorsAssumption
  <2>2. f.pos[to] = f.end[f.root] + 1
    <3>1. to \in {True, False, Blank}
      BY <1>5
    <3> HIDE DEF to
    <3> QED
      BY <3>1, FilesAreTrees
  <2>3. f.pos[n] \in 1 .. f.end[f.root]
    BY <1>3, FilesAreTrees
  <2>4. f.end[f.root] \in Nat
    <3>1. f.root \in Parsed(f) /\ f.end \in [Parsed(f) -> Nat]
      BY OperatorsAssumption, FilesAreTrees
    <3> QED
      BY <3>1
  <2> HIDE DEF to
  <2> QED
    BY <2>1, <2>2, <2>3, <2>4
<1>7. Value(h, to, env) = (IF to = True THEN TRUE ELSE FALSE)
  <2>1. /\ h[True].kind = "ident" /\ h[True].tok = "true"
        /\ h[False].kind = "ident" /\ h[False].tok = "false"
    BY OperatorsAssumption
  <2>2. env.name["true"] = TRUE /\ env.name["false"] = FALSE
    BY FilesAreTyped
  <2>3. Value(h, to, env) = Denotes(h, env, Values(h, env), to)
    BY <1>6, ValueIs, Zenon
  <2> HIDE DEF to
  <2>4. Denotes(h, env, Values(h, env), to) = env.name[h[to].tok]
    BY <1>5, <2>1, Zenon DEF Denotes
  <2> QED
    BY <1>5, <2>1, <2>2, <2>3, <2>4 DEF True, False
<1>8. z \in BOOLEAN /\ other \in DOMAIN h /\ f.pos[n] < f.pos[other]
  <2>1. h[n].kind = "binary" /\ h[n].tok \in Truths =>
            {f.type[kid[j]] : j \in DOMAIN kid} \cup {f.type[n]} = {"truth"}
    BY FilesAreTyped, Zenon
  <2>2. 3 - i \in 1 .. 2
    OBVIOUS
  <2>3. f.type[other] = "truth"
    BY <1>3, <2>1, <2>2
  <2>4. Has(z, f.type[other])
    BY <1>4, <2>2, ValuesTyped
  <2> QED
    BY <1>4, <2>2, <2>3, <2>4 DEF Has
<1> HIDE DEF to
<1>9. /\ i = 1 => now[n].kid[1] = to /\ now[n].kid[2] = other
      /\ i = 2 => now[n].kid[1] = other /\ now[n].kid[2] = to
  <2>1. CASE i = 1
    <3>1. 3 - i = 2 /\ 1 \in DOMAIN kid /\ 2 \in DOMAIN kid
      BY <1>3, <2>1
    <3>2. [kid EXCEPT ![1] = to][1] = to /\ [kid EXCEPT ![1] = to][2] = kid[2]
      BY <3>1, SMTT(30)
    <3> QED
      BY <1>2, <2>1, <3>1, <3>2
  <2>2. CASE i = 2
    <3>1. 3 - i = 1 /\ 1 \in DOMAIN kid /\ 2 \in DOMAIN kid
      BY <1>3, <2>2
    <3>2. [kid EXCEPT ![2] = to][2] = to /\ [kid EXCEPT ![2] = to][1] = kid[1]
      BY <3>1
    <3> QED
      BY <1>2, <2>2, <3>1, <3>2
  <2> QED
    BY <2>1, <2>2, Zenon
<1> HIDE DEF other
<1>10. \A c \in Operands(now, n) : c \in DOMAIN h /\ f.pos[n] < f.pos[c]
  <2>1. Operands(now, n) = {now[n].kid[1], now[n].kid[2]}
    BY <1>2, Zenon DEF Operands
  <2>2. \A c \in Operands(now, n) : c = to \/ c = other
    <3>1. i = 1 \/ i = 2
      OBVIOUS
    <3> QED
      BY <1>9, <2>1, <3>1, Zenon
  <2> QED
    BY <1>6, <1>8, <2>2
<1>11. v[to] = Value(h, to, env) /\ v[other] = z
  <2>1. \A x \in DOMAIN h : f.pos[n] < f.pos[x] => v[x] = Value(h, x, env)
    BY <1>2, <1>10, Below
  <2> QED
    BY <1>6, <1>8, <2>1
<1>12. Value(now, n, env) = Denotes(now, env, v, n)
  BY <1>2, <1>10, Below
<1> HIDE DEF v, z
<1>13. Says(h[n].tok, v[now[n].kid[1]], v[now[n].kid[2]], Denotes(now, env, v, n))
  BY <1>2, DenotesBinary, Zenon
<1>14. Value(now, n, env) = z
  <2>1. CASE h[n].tok = "&&"
    <3>1. Denotes(now, env, v, n) = (v[now[n].kid[1]] /\ v[now[n].kid[2]])
      BY <1>13, <2>1, Zenon DEF Says
    <3>2. v[to] = TRUE
      BY <1>5, <1>7, <1>11, <2>1
    <3>3. CASE i = 1
      <4>1. v[now[n].kid[1]] = TRUE /\ v[now[n].kid[2]] = z
        BY <1>9, <1>11, <3>2, <3>3, Zenon
      <4>2. Value(now, n, env) = (TRUE /\ z)
        BY <1>12, <3>1, <4>1, Zenon
      <4> QED
        BY <1>8, <4>2
    <3>4. CASE i = 2
      <4>1. v[now[n].kid[1]] = z /\ v[now[n].kid[2]] = TRUE
        BY <1>9, <1>11, <3>2, <3>4, Zenon
      <4>2. Value(now, n, env) = (z /\ TRUE)
        BY <1>12, <3>1, <4>1, Zenon
      <4> QED
        BY <1>8, <4>2
    <3> QED
      BY <3>3, <3>4
  <2>2. CASE h[n].tok = "||"
    <3>1. Denotes(now, env, v, n) = (v[now[n].kid[1]] \/ v[now[n].kid[2]])
      BY <1>13, <2>2, Zenon DEF Says
    <3>2. v[to] = FALSE
      BY <1>5, <1>7, <1>11, <2>2 DEF True, False
    <3>3. CASE i = 1
      <4>1. v[now[n].kid[1]] = FALSE /\ v[now[n].kid[2]] = z
        BY <1>9, <1>11, <3>2, <3>3, Zenon
      <4>2. Value(now, n, env) = (FALSE \/ z)
        BY <1>12, <3>1, <4>1, Zenon
      <4> QED
        BY <1>8, <4>2
    <3>4. CASE i = 2
      <4>1. v[now[n].kid[1]] = z /\ v[now[n].kid[2]] = FALSE
        BY <1>9, <1>11, <3>2, <3>4, Zenon
      <4>2. Value(now, n, env) = (z \/ FALSE)
        BY <1>12, <3>1, <4>1, Zenon
      <4> QED
        BY <1>8, <4>2
    <3> QED
      BY <3>3, <3>4
  <2> QED
    BY <2>1, <2>2 DEF Truths
<1> QED
  BY <1>14 DEF z, other

\* The slots that operator/unary strips, and what it does to each.
InSlot(h, n, i) == IF h[n].kind = "assign" THEN h[n].list[i] ELSE h[n].kid[i]
Stripped(h, n) ==
    {i \in Nat \ {0} : /\ \/ h[n].kind = "binary" /\ i \in DOMAIN h[n].kid
                          \/ h[n].kind = "if" /\ i = 1
                          \/ h[n].kind = "assign" /\ i \in DOMAIN h[n].list
                       /\ IsUnary(h, InSlot(h, n, i))}
Strips(h, n) ==
    [i \in Stripped(h, n) |->
        Edit(n, IF h[n].kind = "assign" THEN "list" ELSE "kid", i,
             InSlot(h, n, i), h[InSlot(h, n, i)].kid[1], n)]

LEMMA StripLists ==
    ASSUME NEW f \in File, NEW n \in DOMAIN f.tree
    PROVE  Lists(Strip(f.tree, n), Strips(f.tree, n))
<1> DEFINE h == f.tree
           slot == IF h[n].kind = "assign" THEN "list" ELSE "kid"
           slots == CASE h[n].kind = "binary" -> h[n].kid
                      [] h[n].kind = "if" -> <<h[n].kid[1]>>
                      [] h[n].kind = "assign" -> h[n].list
                      [] OTHER -> <<>>
           I == {i \in DOMAIN slots : IsUnary(h, slots[i])}
           Of(i) == Edit(n, slot, i, slots[i], h[slots[i]].kid[1], n)
           e == Strips(h, n)
           s == Strip(h, n)
<1>1. s = [k \in 1 .. Cardinality(I) |-> Of(Nth(I, k))]
  BY DEF Strip, Each
<1>2. h[n].kid \in Seq(DOMAIN h \cup {None}) /\ h[n].list \in Seq(DOMAIN h)
  BY OperatorsAssumption
<1>3. /\ Len(slots) \in Nat /\ DOMAIN slots = 1 .. Len(slots)
      /\ \A i \in DOMAIN slots : slots[i] = InSlot(h, n, i)
      /\ \A i \in Nat \ {0} :
            i \in DOMAIN slots <=> \/ h[n].kind = "binary" /\ i \in DOMAIN h[n].kid
                                   \/ h[n].kind = "if" /\ i = 1
                                   \/ h[n].kind = "assign" /\ i \in DOMAIN h[n].list
  <2> HIDE DEF h
  <2>1. CASE h[n].kind = "binary"
    BY <1>2, <2>1 DEF InSlot
  <2>2. CASE h[n].kind = "if"
    BY <2>2 DEF InSlot
  <2>3. CASE h[n].kind = "assign"
    BY <1>2, <2>3 DEF InSlot
  <2>4. CASE h[n].kind \notin {"binary", "if", "assign"}
    BY <2>4
  <2> QED
    BY <2>1, <2>2, <2>3, <2>4
<1> HIDE DEF slots
<1>4. I = Stripped(h, n)
  <2>1. \A i \in DOMAIN slots : i \in Nat \ {0}
    BY <1>3
  <2> QED
    BY <1>3, <2>1 DEF Stripped
<1>5. DOMAIN e = I /\ \A i \in I : e[i] = Of(i)
  BY <1>3, <1>4 DEF Strips
<1>6. Len(slots) \in Nat /\ I \in SUBSET (1 .. Len(slots))
  BY <1>3
<1> HIDE DEF I, e, s, Of
<1>7. s = [k \in 1 .. Cardinality(I) |-> e[Nth(I, k)]]
  <2>1. \A k \in 1 .. Cardinality(I) : Nth(I, k) \in I
    BY <1>6, Indexed
  <2> QED
    BY <1>1, <1>5, <2>1
<1>8. Lists(s, e)
  BY <1>5, <1>6, <1>7, EachLists
<1> QED
  BY <1>8 DEF s, e

LEMMA StrippedIn ==
    ASSUME NEW f \in File, NEW n \in DOMAIN f.tree, NEW i \in Stripped(f.tree, n)
    PROVE  LET h == f.tree
               u == InSlot(h, n, i) IN
           /\ i \in Nat \ {0} /\ IsUnary(h, u)
           /\ h[n].kind = "assign" => u = h[n].list[i] /\ i \in DOMAIN h[n].list
           /\ h[n].kind # "assign" => u = h[n].kid[i] /\ i \in DOMAIN h[n].kid
<1> DEFINE h == f.tree
           u == InSlot(h, n, i)
<1>1. h[n].kid \in Seq(DOMAIN h \cup {None}) /\ h[n].list \in Seq(DOMAIN h)
  BY OperatorsAssumption
<1>2. i \in Nat \ {0} /\ IsUnary(h, u)
  BY DEF Stripped
<1>3. /\ h[n].kind = "assign" => u = h[n].list[i] /\ i \in DOMAIN h[n].list
      /\ h[n].kind # "assign" => u = h[n].kid[i] /\ i \in DOMAIN h[n].kid
  <2>1. CASE h[n].kind = "assign"
    BY <2>1 DEF Stripped, InSlot
  <2>2. CASE h[n].kind = "binary"
    BY <2>2 DEF Stripped, InSlot
  <2>3. CASE h[n].kind = "if"
    <3>1. Len(h[n].kid) = 3
      <4>1. h[n].kind \in DOMAIN Arity /\ Arity[h[n].kind] = 3
        BY <2>3 DEF Arity
      <4>2. Len(h[n].kid) = Arity[h[n].kind]
        BY <4>1, OperatorsAssumption
      <4> QED
        BY <4>1, <4>2
    <3>2. 1 \in DOMAIN h[n].kid
      BY <1>1, <3>1
    <3> QED
      BY <2>3, <3>2 DEF Stripped, InSlot
  <2>4. h[n].kind \in {"assign", "binary", "if"}
    BY DEF Stripped
  <2> QED
    BY <2>1, <2>2, <2>3, <2>4
<1> QED
  BY <1>2, <1>3

\* What is stripped is a unary expression, of the node that it is stripped in.
LEMMA StrippedIs ==
    ASSUME NEW f \in File, NEW n \in DOMAIN f.tree, NEW i \in Stripped(f.tree, n)
    PROVE  LET u == InSlot(f.tree, n, i) IN
           /\ u \in DOMAIN f.tree /\ f.tree[u].kind = "unary" /\ f.pos[n] < f.pos[u]
           /\ f.tree[u].kid[1] \in DOMAIN f.tree /\ f.pos[u] < f.pos[f.tree[u].kid[1]]
<1> DEFINE h == f.tree
           u == InSlot(h, n, i)
<1>1. h[n].kid \in Seq(DOMAIN h \cup {None}) /\ h[n].list \in Seq(DOMAIN h)
  BY OperatorsAssumption
<1>2. IsUnary(h, u)
  BY StrippedIn
<1>3. /\ h[n].kind = "assign" => u = h[n].list[i] /\ i \in DOMAIN h[n].list
      /\ h[n].kind # "assign" => u = h[n].kid[i] /\ i \in DOMAIN h[n].kid
  BY StrippedIn
<1>4. u \in DOMAIN h /\ u \in (Range(h[n].kid) \cup Range(h[n].list)) \ {None}
  <2>1. u # None
    BY <1>2 DEF IsUnary
  <2>2. CASE h[n].kind = "assign"
    <3>1. u \in Range(h[n].list) /\ u \in DOMAIN h
      BY <1>1, <1>3, <2>2 DEF Range
    <3> QED
      BY <2>1, <3>1
  <2>3. CASE h[n].kind # "assign"
    <3>1. u \in Range(h[n].kid) /\ u \in DOMAIN h
      BY <1>1, <1>3, <2>1, <2>3 DEF Range
    <3> QED
      BY <2>1, <3>1
  <2> QED
    BY <2>2, <2>3
<1>5. h[u].kind = "unary"
  BY <1>2 DEF IsUnary
<1>6. n \in Parsed(f)
  <2>1. \A x \in {True, False, Blank} : h[x].kid = <<>> /\ h[x].list = <<>>
    BY OperatorsAssumption
  <2>2. n \notin {True, False, Blank}
    BY <1>4, <2>1 DEF Range
  <2> QED
    BY <2>2 DEF Parsed
<1>7. f.pos[n] < f.pos[u]
  <2>1. \A c \in (Range(h[n].kid) \cup Range(h[n].list)) \ {None} : f.pos[n] < f.pos[c]
    BY <1>6, FilesAreTrees
  <2> HIDE DEF u
  <2> QED
    BY <1>4, <2>1
<1>8. h[u].kid[1] \in DOMAIN h /\ f.pos[u] < f.pos[h[u].kid[1]]
  <2> HIDE DEF u
  <2>1. h[u].kid[1] \in Operands(h, u)
    BY <1>5 DEF Operands
  <2> QED
    BY <1>4, <2>1, ValueIs
<1> QED
  BY <1>4, <1>5, <1>7, <1>8

LEMMA NegationTyped ==
    ASSUME NEW f \in File, NEW n \in DOMAIN f.tree, f.tree[n].kind = "unary", f.tree[n].tok = "!"
    PROVE  f.type[f.tree[n].kid[1]] = "truth"
<1> DEFINE kid == f.tree[n].kid
           Of == {f.type[kid[j]] : j \in DOMAIN kid}
<1>1. f.tree[n].kind = "unary" /\ f.tree[n].tok = "!" => Of \cup {f.type[n]} = {"truth"}
  BY FilesAreTyped, Zenon
<1>2. 1 \in DOMAIN kid
  <2>1. kid \in Seq(DOMAIN f.tree \cup {None})
    BY OperatorsAssumption
  <2>2. f.tree[n].kind \in DOMAIN Arity /\ Arity[f.tree[n].kind] = 1
    BY DEF Arity
  <2>3. Len(kid) = Arity[f.tree[n].kind]
    BY <2>2, OperatorsAssumption
  <2> QED
    BY <2>1, <2>2, <2>3
<1> QED
  BY <1>1, <1>2

\* operator/unary: what was negated is what is there.
LEMMA UnaryMeans ==
    ASSUME NEW f \in File, NEW n \in DOMAIN f.tree, NEW i \in Stripped(f.tree, n), NEW env \in f.envs,
           NEW now, now = Write(f.tree, Strips(f.tree, n)[i], Strips(f.tree, n)[i].to),
           NEW u, u = InSlot(f.tree, n, i), f.tree[u].tok = "!"
    PROVE  Value(now, f.tree[u].kid[1], env) = ~Value(f.tree, u, env)
<1> DEFINE h == f.tree
           to == h[u].kid[1]
<1>1. u \in DOMAIN h /\ h[u].kind = "unary" /\ f.pos[n] < f.pos[u]
  BY StrippedIs
<1>2. to \in DOMAIN h /\ f.pos[u] < f.pos[to]
  BY StrippedIs
<1>3. IsTree(h) /\ n \in DOMAIN h /\ i \in Nat \ {0}
  BY FilesHaveTrees DEF Stripped
<1>4. f.pos[n] < f.pos[to]
  <2>1. \A x \in DOMAIN h : f.pos[x] \in Nat
    BY FilesAreFounded DEF Founded
  <2> QED
    BY <1>1, <1>2, <2>1
<1> HIDE DEF to
<1>5. Elsewhere(h, now, n) /\ \A c \in Operands(now, n) : c \in Operands(h, n) \/ c = to
  <2>1. CASE h[n].kind = "assign"
    <3>1. now = Write(h, Edit(n, "list", i, u, to, n), to)
      BY <2>1 DEF Strips, Edit, to
    <3>2. Elsewhere(h, now, n) /\ now[n].kind = h[n].kind /\ now[n].kid = h[n].kid
      BY <1>3, <3>1, WriteList
    <3> QED
      BY <3>2 DEF Operands
  <2>2. CASE h[n].kind # "assign"
    <3>1. now = Write(h, Edit(n, "kid", i, u, to, n), to)
      BY <2>2 DEF Strips, Edit, to
    <3>2. Elsewhere(h, now, n) /\ now[n].kind = h[n].kind /\ now[n].kid = [h[n].kid EXCEPT ![i] = to]
      BY <1>3, <3>1, WriteKid
    <3>3. \A j : now[n].kid[j] = h[n].kid[j] \/ now[n].kid[j] = to
      BY <3>2
    <3> QED
      BY <3>2, <3>3 DEF Operands
  <2> QED
    BY <2>1, <2>2
<1>6. \A c \in Operands(now, n) : c \in DOMAIN h /\ f.pos[n] < f.pos[c]
  BY <1>2, <1>4, <1>5, ValueIs
<1>7. Value(now, to, env) = Value(h, to, env)
  <2>1. \A x \in DOMAIN h : f.pos[n] < f.pos[x] => Values(now, env)[x] = Value(h, x, env)
    BY <1>5, <1>6, Below
  <2> QED
    BY <1>2, <1>4, <2>1 DEF Value
<1>8. Value(h, u, env) = ~Value(h, to, env)
  <2>1. Value(h, u, env) = Denotes(h, env, Values(h, env), u)
    BY <1>1, ValueIs
  <2>2. Denotes(h, env, Values(h, env), u) = ~Values(h, env)[h[u].kid[1]]
    BY <1>1 DEF Denotes
  <2> QED
    BY <2>1, <2>2 DEF Value, to
<1>9. Value(h, to, env) \in BOOLEAN
  <2>1. f.type[to] = "truth"
    BY <1>1, NegationTyped DEF to
  <2>2. Has(Value(h, to, env), f.type[to])
    BY <1>2, ValuesTyped
  <2> QED
    BY <2>1, <2>2 DEF Has
<1>10. Value(now, to, env) = ~Value(h, u, env)
  <2> DEFINE a == Value(now, to, env)
             b == Value(h, to, env)
             c == Value(h, u, env)
  <2>1. a = b /\ c = ~b /\ b \in BOOLEAN
    BY <1>7, <1>8, <1>9
  <2> HIDE DEF a, b, c
  <2>2. a = ~c
    BY <2>1
  <2> QED
    BY <2>2 DEF a, c
<1> QED
  BY <1>10 DEF to

-----------------------------------------------------------------------------
(* Numbers.                                                                *)

\* Six digits: the rest is half of the last one at most, and the last one is at most
\* a hundred-thousandth of the number, unless there is nothing to round.
LEMMA DigitIs ==
    ASSUME NEW v \in Nat, Enough(v) # {}
    PROVE  /\ Digit(v) \in Powers /\ v \div Digit(v) < 1000000
           /\ Digit(v) = 1 \/ 100000 * Digit(v) <= v
<1> DEFINE u == Digit(v)
<1>1. Enough(v) \in SUBSET Nat
  BY SMT DEF Enough, Powers
<1>2. \E least \in Enough(v) : \A w \in Enough(v) : least <= w
  BY <1>1, Least
<1>3. u \in Enough(v) /\ \A w \in Enough(v) : u <= w
  BY <1>2 DEF Digit
<1> HIDE DEF u
<1>4. u \in Powers /\ v \div u < 1000000 /\ \A w \in Powers : w < u => ~ (v \div w < 1000000)
  <2>1. u \in Powers /\ v \div u < 1000000
    BY <1>3 DEF Enough
  <2>2. ASSUME NEW w \in Powers, w < u, v \div w < 1000000 PROVE FALSE
    <3>1. w \in Enough(v)
      BY <2>2 DEF Enough
    <3>2. u <= w
      BY <1>3, <3>1
    <3>3. u \in Nat /\ w \in Nat
      BY <2>1, <2>2, SMT DEF Powers
    <3> QED
      BY <2>2, <3>2, <3>3
  <2> QED
    BY <2>1, <2>2
<1>5. ASSUME NEW w \in Powers, u = 10 * w PROVE 100000 * u <= v
  <2>1. w \in Nat /\ w > 0
    BY SMT DEF Powers
  <2>2. w < u
    BY <1>5, <2>1
  <2>3. ~ (v \div w < 1000000)
    BY <1>4, <2>2
  <2>4. v >= 1000000 * w
    <3> DEFINE q == v \div w
               r == v % w
    <3>1. q \in Int /\ r \in 0 .. w - 1 /\ v = w * q + r
      BY <2>1, SMTT(30)
    <3>2. q >= 1000000
      BY <2>3, <3>1
    <3> HIDE DEF q, r
    <3>3. w * q >= w * 1000000
      BY <2>1, <3>1, <3>2, SMTT(30)
    <3> QED
      BY <2>1, <3>1, <3>3, SMTT(30)
  <2> QED
    BY <1>5, <2>1, <2>4
<1>6. u = 1 \/ \E w \in Powers : u = 10 * w
  BY <1>4, SMT DEF Powers
<1> QED
  BY <1>4, <1>5, <1>6 DEF u

LEMMA NearestIsNear ==
    ASSUME NEW f, NEW v \in Nat, Enough(v) # {}
    PROVE  /\ Nearest(f, v) \in Int
           /\ 200000 * (Nearest(f, v) - v) <= v /\ 200000 * (v - Nearest(f, v)) <= v
<1> DEFINE u == Digit(v)
           r == v % u
           to == Nearest(f, v)
<1>1. u \in Nat /\ u > 0 /\ (u = 1 \/ 100000 * u <= v)
  <2>1. u \in Powers /\ (u = 1 \/ 100000 * u <= v)
    BY DigitIs
  <2> HIDE DEF u
  <2> QED
    BY <2>1, SMT DEF Powers
<1>2. to = (IF 2 * r > u \/ (2 * r = u /\ v \in f.up) THEN (v - r) + u ELSE v - r)
  BY DEF Nearest
<1> HIDE DEF u, to
<1>3. r \in Int /\ 0 <= r /\ r < u
  BY <1>1, SMTT(30)
<1> HIDE DEF r
<1>4. \/ to = (v - r) + u /\ 2 * r >= u
      \/ to = v - r /\ 2 * r <= u
  BY <1>1, <1>2, <1>3
<1>5. to \in Int /\ 2 * (to - v) <= u /\ 2 * (v - to) <= u /\ (u = 1 => to = v)
  BY <1>1, <1>3, <1>4
<1>6. 200000 * (to - v) <= v /\ 200000 * (v - to) <= v
  BY <1>1, <1>5
<1> QED
  BY <1>5, <1>6 DEF to

\* What is printed for w is not off by more than a two-hundred-thousandth of v.
PrintsNear(f, v, w) ==
    LET to == Rendered(f, w).size IN
    to \in Int /\ 200000 * (to - w) <= v /\ 200000 * (w - to) <= v

LEMMA PrintedNear ==
    ASSUME NEW f, NEW v \in Nat, Enough(v) # {}, NEW w \in {v, -v}
    PROVE  PrintsNear(f, v, w)
<1> DEFINE to == Rendered(f, w).size
           near == Nearest(f, v)
<1>1. near \in Int /\ 200000 * (near - v) <= v /\ 200000 * (v - near) <= v
  BY NearestIsNear
<1>2. to = w \/ to = SixDigits(f, w)
  BY DEF Rendered, Literal
<1>3. SixDigits(f, w) = near \/ SixDigits(f, w) = -near
  <2>1. w < 0 => -w = v
    OBVIOUS
  <2>2. ~ (w < 0) => w = v
    OBVIOUS
  <2> QED
    BY <2>1, <2>2 DEF SixDigits
<1>4. /\ w < 0 => SixDigits(f, w) = -near /\ w = -v
      /\ ~ (w < 0) => SixDigits(f, w) = near /\ w = v
  <2>1. w < 0 => -w = v /\ w = -v
    OBVIOUS
  <2>2. ~ (w < 0) => w = v
    OBVIOUS
  <2> QED
    BY <2>1, <2>2 DEF SixDigits
<1> HIDE DEF to, near
<1>5. to \in Int /\ 200000 * (to - w) <= v /\ 200000 * (w - to) <= v
  BY <1>1, <1>2, <1>4
<1> QED
  BY <1>5 DEF to, PrintsNear

LEMMA RenderedIsNear ==
    ASSUME NEW f, NEW v \in Nat, Enough(v) # {}
    PROVE  PrintsNear(f, v, v) /\ PrintsNear(f, v, -v)
BY PrintedNear

\* Where it is written as an integer, it is one: below a million there are no more
\* than six digits to print.
LEMMA RenderedShape ==
    ASSUME NEW f, NEW v \in Nat, f.one \in Powers
    PROVE  LET to == Rendered(f, v) IN
           to.shape = "float" \/ (Integral(f, to.size) /\ to.size \div f.one < 1000000)
<1> DEFINE to == Rendered(f, v)
           u == Digit(v)
           one == f.one
<1>1. CASE Integral(f, v) /\ v \div one < 1000000
  <2>1. one \in Enough(v)
    BY <1>1 DEF Enough
  <2>2. \A w \in Enough(v) : u <= w
    <3>1. Enough(v) \in SUBSET Nat
      BY SMT DEF Enough, Powers
    <3>2. \E least \in Enough(v) : \A w \in Enough(v) : least <= w
      BY <2>1, <3>1, Least
    <3> QED
      BY <3>2 DEF Digit
  <2>3. u \in Powers /\ u <= one /\ v % one = 0
    BY <1>1, <2>1, <2>2, DigitIs DEF Integral
  <2> HIDE DEF u, one
  <2>4. v % u = 0 /\ u > 0
    BY <2>3, SMTT(60) DEF Powers, one
  <2>5. Nearest(f, v) = v
    <3> DEFINE rest == v % u
    <3>1. Nearest(f, v) = IF 2 * rest > u \/ (2 * rest = u /\ v \in f.up) THEN (v - rest) + u ELSE v - rest
      BY DEF Nearest, u
    <3>2. rest = 0
      BY <2>4
    <3>3. u \in Int
      BY <2>3, SMT DEF Powers
    <3> HIDE DEF rest
    <3> QED
      BY <2>4, <3>1, <3>2, <3>3
  <2>6. to.size = v
    <3>1. SixDigits(f, v) = v
      BY <2>5 DEF SixDigits
    <3> QED
      BY <3>1 DEF Rendered, Literal
  <2> QED
    BY <1>1, <2>6 DEF one
<1>2. CASE ~ (Integral(f, v) /\ v \div one < 1000000)
  BY <1>2 DEF Rendered, Literal
<1> QED
  BY <1>1, <1>2

\* The two shifts of a float, as they are printed.
LEMMA ShiftedFloat ==
    ASSUME NEW f, f.one \in Powers, f.one >= 1000,
           NEW v \in Nat, v % 1000 = 0, Enough(v + Delta(f, v)) # {}
    PROVE  LET d == Delta(f, v)
               up == Rendered(f, v + d)
               down == Rendered(f, v - d) IN
           /\ d \in Nat /\ d > 0 /\ up.size \in Int /\ down.size \in Int
           /\ 100 * (up.size - (v + d)) <= d /\ 100 * ((v + d) - up.size) <= d
           /\ 100 * (down.size - (v - d)) <= d /\ 100 * ((v - d) - down.size) <= d
           /\ \A to \in {up, down} :
                 to.shape = "float" \/ (Integral(f, to.size) /\ to.size \div f.one < 1000000)
<1> DEFINE d == Delta(f, v)
           one == f.one
           up == Rendered(f, v + d)
           down == Rendered(f, v - d)
<1>1. one \in Nat /\ one = 1000 * (one \div 1000) /\ one \div 1000 \in Nat /\ one \div 1000 > 0
  BY SMTT(30) DEF Powers
<1>2. d \in Nat /\ d > 0 /\ (v = 0 => 1000 * d = one) /\ (v # 0 => v = 1000 * d)
  BY <1>1, SMTT(30) DEF Delta
<1>3. Enough(v + d) # {}
  OBVIOUS
<1> HIDE DEF d, one
<1>4. /\ up.size \in Int
      /\ 200000 * (up.size - (v + d)) <= v + d /\ 200000 * ((v + d) - up.size) <= v + d
  <2>1. v + d \in Nat
    BY <1>2
  <2>2. PrintsNear(f, v + d, v + d)
    BY <1>3, <2>1, RenderedIsNear
  <2> QED
    BY <2>2 DEF PrintsNear
<1>5. PICK x \in Nat : (v - d = x \/ v - d = -x) /\ x <= v + d
  <2>1. CASE v = 0
    <3>1. v - d = -d /\ d <= v + d
      BY <1>2, <2>1
    <3> QED
      BY <1>2, <3>1
  <2>2. CASE v # 0
    <3>1. v - d \in Nat /\ v - d <= v + d
      BY <1>2, <2>2
    <3> QED
      BY <3>1
  <2> QED
    BY <2>1, <2>2
<1>6. Enough(x) # {}
  <2>1. PICK u \in Powers : (v + d) \div u < 1000000
    BY <1>3 DEF Enough
  <2>2. u \in Nat /\ u > 0
    BY SMT DEF Powers
  <2>3. x \div u <= (v + d) \div u
    <3> DEFINE big == v + d
               p == x \div u
               q == big \div u
    <3>1. big \in Nat /\ x <= big
      BY <1>2, <1>5
    <3> HIDE DEF big
    <3>2. p \in Int /\ q \in Int /\ u * p <= x /\ big < u * q + u
      BY <2>2, <3>1, SMTT(30)
    <3> HIDE DEF p, q
    <3>3. u * p < u * (q + 1)
      BY <2>2, <3>1, <3>2, SMTT(30)
    <3>4. p < q + 1
      BY <2>2, <3>2, <3>3, SMTT(30)
    <3>5. p <= q
      BY <3>2, <3>4
    <3> QED
      BY <3>5 DEF p, q, big
  <2>4. x \div u < 1000000
    <3>1. x \div u \in Int /\ (v + d) \div u \in Int
      BY <1>2, <2>2
    <3> QED
      BY <2>1, <2>3, <3>1
  <2> QED
    BY <2>4 DEF Enough
<1>7. /\ down.size \in Int
      /\ 200000 * (down.size - (v - d)) <= x /\ 200000 * ((v - d) - down.size) <= x
  <2>1. PrintsNear(f, x, x) /\ PrintsNear(f, x, -x)
    BY <1>6, RenderedIsNear
  <2>2. PrintsNear(f, x, v - d)
    BY <1>5, <2>1, Zenon
  <2> QED
    BY <2>2 DEF PrintsNear
<1>8. \A to \in {up, down} :
          to.shape = "float" \/ (Integral(f, to.size) /\ to.size \div f.one < 1000000)
  <2>1. v + d \in Nat
    BY <1>2
  <2>2. CASE v # 0
    <3>1. v - d \in Nat
      BY <1>2, <2>2
    <3> QED
      BY <2>1, <3>1, RenderedShape
  <2>3. CASE v = 0
    <3>1. (v - d) % one # 0
      BY <1>1, <1>2, <2>3, SMTT(30)
    <3>2. ~ Integral(f, v - d)
      BY <3>1 DEF Integral, one
    <3>3. down.shape = "float"
      BY <3>2 DEF Rendered, Literal
    <3> QED
      BY <2>1, <3>3, RenderedShape
  <2> QED
    BY <2>2, <2>3
<1> HIDE DEF up, down
<1>9. /\ 100 * (up.size - (v + d)) <= d /\ 100 * ((v + d) - up.size) <= d
      /\ 100 * (down.size - (v - d)) <= d /\ 100 * ((v - d) - down.size) <= d
  <2>1. v + d <= 1001 * d
    BY <1>2
  <2>2. x <= 1001 * d
    BY <1>2, <1>5, <2>1
  <2> DEFINE a == up.size
             b == down.size
  <2>3. /\ a \in Int /\ 200000 * (a - (v + d)) <= 1001 * d /\ 200000 * ((v + d) - a) <= 1001 * d
        /\ b \in Int /\ 200000 * (b - (v - d)) <= 1001 * d /\ 200000 * ((v - d) - b) <= 1001 * d
    BY <1>2, <1>4, <1>5, <1>7, <2>1, <2>2
  <2> HIDE DEF a, b
  <2>4. /\ 100 * (a - (v + d)) <= d /\ 100 * ((v + d) - a) <= d
        /\ 100 * (b - (v - d)) <= d /\ 100 * ((v - d) - b) <= d
    BY <1>2, <2>3
  <2> QED
    BY <2>4 DEF a, b
<1> QED
  BY <1>2, <1>4, <1>7, <1>8, <1>9 DEF d, up, down

\* What is known of a literal of a file.
LEMMA LiteralTyped ==
    ASSUME NEW f \in File, NEW n \in DOMAIN f.tree, f.tree[n].kind = "lit"
    PROVE  /\ f.one \in Powers /\ f.one >= 1000 /\ f.one \in Int
           /\ f.tree[n].tok.size \in Nat
           /\ f.tree[n].tok.shape = "float" =>
                 /\ f.tree[n].tok.size % 1000 = 0
                 /\ Enough(f.tree[n].tok.size + Delta(f, f.tree[n].tok.size)) # {}
<1>1. f.one \in Powers /\ f.one >= 1000
  BY FilesAreTyped
<1>2. f.one \in Int
  BY <1>1, SMT DEF Powers
<1>3. f.tree[n].kind = "lit" =>
         /\ f.tree[n].tok.size \in Nat
         /\ f.tree[n].tok.shape = "float" =>
               /\ f.tree[n].tok.size % 1000 = 0
               /\ Enough(f.tree[n].tok.size + Delta(f, f.tree[n].tok.size)) # {}
  BY FilesAreTyped
<1> QED
  BY <1>1, <1>2, <1>3

\* literal/number: by one, or by about a thousandth, which is not nothing.
LEMMA LiteralMeans ==
    ASSUME NEW f \in File, NEW n \in DOMAIN f.tree, NEW k \in DOMAIN Shift(f, f.tree, n)
    PROVE  Moves(f, Shift(f, f.tree, n)[k].from, Shift(f, f.tree, n)[k].to)
<1> DEFINE h == f.tree
           tok == h[n].tok
           v == tok.size
           m == Shift(f, h, n)[k]
           d == Delta(f, v)
           one == f.one
<1>1. h[n].kind = "lit" /\ tok.shape \in {"int", "float"}
  BY DEF Shift
<1>2. /\ v \in Nat /\ one \in Powers /\ one >= 1000 /\ one \in Int
      /\ tok.shape = "float" => v % 1000 = 0 /\ Enough(v + d) # {}
  BY <1>1, LiteralTyped
<1>3. CASE tok.shape = "int"
  <2>1. /\ k \in 1 .. 2 /\ m.from = tok
        /\ m.to = <<Literal("int", v + one), Literal("int", v - one)>>[k]
    BY <1>1, <1>3 DEF Shift, Edit
  <2>2. m.to = Literal("int", v + one) \/ m.to = Literal("int", v - one)
    BY <2>1
  <2> HIDE DEF m
  <2>3. m.to.shape = "int" /\ (m.to.size = v + one \/ m.to.size = v - one)
    BY <2>2 DEF Literal
  <2>4. m.to.size - v \in {-one, one}
    <3> DEFINE w == m.to.size
    <3>1. w = v + one \/ w = v - one
      BY <2>3
    <3> HIDE DEF w, v, one
    <3>2. w - v = one \/ w - v = -one
      BY <1>2, <3>1
    <3> QED
      BY <3>2 DEF w
  <2> QED
    BY <1>3, <2>1, <2>3, <2>4 DEF m, Moves
<1>4. CASE tok.shape = "float"
  <2> DEFINE up == Rendered(f, v + d)
             down == Rendered(f, v - d)
  <2>1. k \in 1 .. 2 /\ m.from = tok /\ m.to = <<up, down>>[k]
    BY <1>1, <1>4 DEF Shift, Edit
  <2>2. m.to = up \/ m.to = down
    BY <2>1
  <2>3. /\ d \in Nat /\ d > 0 /\ up.size \in Int /\ down.size \in Int
        /\ 100 * (up.size - (v + d)) <= d /\ 100 * ((v + d) - up.size) <= d
        /\ 100 * (down.size - (v - d)) <= d /\ 100 * ((v - d) - down.size) <= d
        /\ \A to \in {up, down} :
              to.shape = "float" \/ (Integral(f, to.size) /\ to.size \div f.one < 1000000)
    BY <1>2, <1>4, ShiftedFloat
  <2> HIDE DEF m, d, up, down
  <2> DEFINE to == m.to.size
             moved == to - v
  <2>4. to \in Int /\ \E w \in {-d, d} : 100 * (moved - w) <= d /\ 100 * (w - moved) <= d
    <3>1. CASE m.to = up
      <4>1. to = up.size
        BY <3>1
      <4> HIDE DEF to, v
      <4>2. to \in Int /\ 100 * (moved - d) <= d /\ 100 * (d - moved) <= d
        BY <1>2, <2>3, <4>1
      <4> QED
        BY <4>2
    <3>2. CASE m.to = down
      <4>1. to = down.size
        BY <3>2
      <4> HIDE DEF to, v
      <4>2. to \in Int /\ 100 * (moved - (-d)) <= d /\ 100 * ((-d) - moved) <= d
        BY <1>2, <2>3, <4>1
      <4> QED
        BY <4>2
    <3> QED
      BY <2>2, <3>1, <3>2
  <2>5. moved \in Int
    <3> HIDE DEF to, v
    <3> QED
      BY <1>2, <2>4
  <2>6. moved # 0 /\ \E w \in {-d, d} : Distance(moved - w) * 100 <= d
    <3> HIDE DEF moved
    <3>1. PICK w \in {-d, d} : 100 * (moved - w) <= d /\ 100 * (w - moved) <= d
      BY <2>4
    <3>2. w \in Int /\ (w = d \/ w = -d)
      BY <2>3
    <3>3. moved # 0
      BY <2>3, <2>5, <3>1, <3>2
    <3>4. Distance(moved - w) * 100 <= d
      <4>1. Distance(moved - w) = moved - w \/ Distance(moved - w) = w - moved
        BY <2>5, <3>2 DEF Distance
      <4> HIDE DEF d
      <4> QED
        BY <2>3, <2>5, <3>1, <3>2, <4>1
    <3> QED
      BY <3>3, <3>4
  <2>7. m.to.shape = "float" \/ (Integral(f, m.to.size) /\ m.to.size \div f.one < 1000000)
    BY <2>2, <2>3
  <2> QED
    BY <1>4, <2>1, <2>6, <2>7 DEF m, d, Moves
<1> QED
  BY <1>1, <1>3, <1>4

\* Whichever operator, what it offers means what it says.
LEMMA MutateMeans ==
    ASSUME NEW f \in File, NEW n \in DOMAIN f.tree, NEW op \in Range(All),
           NEW k \in DOMAIN Mutate(f, f.tree, op, n),
           NEW m, m = Mutate(f, f.tree, op, n)[k], NEW now, now = Write(f.tree, m, m.to)
    PROVE  Means(f, now, op, m)
<1> DEFINE h == f.tree
<1>1. ASSUME op = "expression/remove", NEW env \in f.envs
      PROVE  Value(now, m.at, env) = Value(h, h[m.at].kid[3 - m.i], env)
  <2>1. Mutate(f, h, op, n) = RemoveOperand(h, n)
    BY <1>1 DEF Mutate
  <2>2. h[n].kind = "binary" /\ h[n].tok \in Truths
    BY <2>1 DEF RemoveOperand
  <2>3. k \in 1 .. 2 /\ m = Edit(n, "kid", k, h[n].kid[k], Identity(h[n].tok), n)
    BY <2>1, <2>2 DEF RemoveOperand
  <2>4. m.at = n /\ m.i = k /\ m.to = Identity(h[n].tok)
    BY <2>3 DEF Edit
  <2>5. Value(now, n, env) = Value(h, h[n].kid[3 - k], env)
    BY <1>1, <2>2, <2>3, <2>4, RemoveMeans
  <2> QED
    BY <2>4, <2>5
<1>2. ASSUME op = "operator/boundary", NEW env \in f.envs
      PROVE  Value(now, m.at, env) # Value(h, m.at, env)
                 <=> Value(h, h[m.at].kid[1], env) = Value(h, h[m.at].kid[2], env)
  <2>1. Mutate(f, h, op, n) = SwapToken(h, n, "binary", BoundarySwaps)
    BY <1>2 DEF Mutate
  <2>2. h[n].kind = "binary" /\ h[n].tok \in Orders
    BY <2>1, BoundarySwapsAre DEF SwapToken
  <2>3. m = Edit(n, "tok", 0, h[n].tok, BoundarySwaps[h[n].tok], n)
    BY <2>1, <2>2 DEF SwapToken
  <2>4. m.at = n /\ m.to = BoundarySwaps[h[n].tok]
    BY <2>3 DEF Edit
  <2>5. now = Write(h, Edit(n, "tok", 0, h[n].tok, BoundarySwaps[h[n].tok], n), BoundarySwaps[h[n].tok])
    BY <2>3, <2>4
  <2>6. Value(now, n, env) # Value(h, n, env)
            <=> Value(h, h[n].kid[1], env) = Value(h, h[n].kid[2], env)
    BY <1>2, <2>2, <2>5, BoundaryMeans
  <2> QED
    BY <2>4, <2>6
<1>3. ASSUME op = "operator/binary", h[m.at].tok \in Compares, NEW env \in f.envs
      PROVE  Value(now, m.at, env) = ~Value(h, m.at, env)
  <2>1. Mutate(f, h, op, n) = SwapToken(h, n, "binary", BinarySwaps)
    BY <1>3 DEF Mutate
  <2>2. h[n].kind = "binary" /\ m = Edit(n, "tok", 0, h[n].tok, BinarySwaps[h[n].tok], n)
    BY <2>1 DEF SwapToken
  <2>3. m.at = n /\ m.to = BinarySwaps[h[n].tok]
    BY <2>2 DEF Edit
  <2>4. now = Write(h, Edit(n, "tok", 0, h[n].tok, BinarySwaps[h[n].tok], n), BinarySwaps[h[n].tok])
    BY <2>2, <2>3
  <2>5. Value(now, n, env) = ~Value(h, n, env)
    BY <1>3, <2>2, <2>3, <2>4, BinaryMeans
  <2> QED
    BY <2>3, <2>5
<1>4. ASSUME op = "operator/unary", h[m.from].tok = "!", NEW env \in f.envs
      PROVE  Value(now, m.to, env) = ~Value(h, m.from, env)
  <2>1. Mutate(f, h, op, n) = Strip(h, n)
    BY <1>4 DEF Mutate
  <2>2. \E i \in Stripped(h, n) : m = Strips(h, n)[i]
    BY <2>1, StripLists, SMTT(30) DEF Lists, Strips
  <2>3. PICK i \in Stripped(h, n) : m = Strips(h, n)[i]
    BY <2>2
  <2>4. m.from = InSlot(h, n, i) /\ m.to = h[m.from].kid[1]
    BY <2>3 DEF Strips, Edit
  <2>5. Value(now, h[m.from].kid[1], env) = ~Value(h, m.from, env)
    BY <1>4, <2>3, <2>4, UnaryMeans
  <2> QED
    BY <2>4, <2>5
<1>5. ASSUME op = "literal/number" PROVE Moves(f, m.from, m.to)
  <2>1. Mutate(f, h, op, n) = Shift(f, h, n)
    BY <1>5 DEF Mutate
  <2>2. k \in DOMAIN Shift(f, h, n) /\ m = Shift(f, h, n)[k]
    BY <2>1
  <2> QED
    BY <2>2, LiteralMeans
<1> QED
  BY <1>1, <1>2, <1>3, <1>4, <1>5 DEF Means

-----------------------------------------------------------------------------
(* The walk.                                                               *)

\* bindMutators chooses among the operators there are.
BoundInv == bound \in Seq(Range(All)) /\ next \in Nat \ {0}

\* What is to be visited is part of the file.
StackInv == file \in File /\ stack \in Seq(Parsed(file))

\* What is left of an offer is the end of what the last operator asked offers for the
\* file as it was parsed.
Offers == Mutate(file, file.tree, bound[next - 1], Head(stack))
PendingInv ==
    /\ Offering(file.tree, pending)
    /\ pending # <<>> => next - 1 \in DOMAIN bound /\ stack # <<>> /\ Left(pending, Offers)

\* The tree is the file's but for the one mutation that is applied.
TreeInv ==
    /\ applied \in BOOLEAN
    /\ applied => pending # <<>>
    /\ tree = IF applied THEN Write(file.tree, Head(pending), Head(pending).to) ELSE file.tree

IInv == BoundInv /\ StackInv /\ PendingInv /\ TreeInv

\* Of what is pending, what is said of an operator's offers holds.
LEMMA OffersAre ==
    ASSUME IInv, pending # <<>>
    PROVE  /\ file \in File /\ Head(stack) \in Parsed(file)
           /\ next - 1 \in DOMAIN bound /\ bound[next - 1] \in Range(All)
           /\ IsSeq(Offers)
<1>1. file \in File /\ Head(stack) \in Parsed(file) /\ Head(stack) \in DOMAIN file.tree
  BY DEF IInv, StackInv, PendingInv, Parsed
<1>2. next - 1 \in DOMAIN bound /\ bound[next - 1] \in Range(All)
  BY DEF IInv, BoundInv, PendingInv
<1>3. Offering(file.tree, Offers)
  BY <1>1, <1>2, MutateOffers DEF Offers
<1> QED
  BY <1>1, <1>2, <1>3 DEF Offering

LEMMA FirstIsOffered ==
    ASSUME IInv, pending # <<>>
    PROVE  \E j \in DOMAIN Offers : Head(pending) = Offers[j]
<1>1. IsSeq(pending) /\ Left(pending, Offers)
  BY DEF IInv, PendingInv, Offering
<1>2. IsSeq(Offers)
  BY OffersAre
<1> HIDE DEF Offers
<1> QED
  BY <1>1, <1>2, LeftRest

LEMMA BindChooses ==
    ASSUME NEW names \in Seq(Range(All)), NEW hasTypes \in BOOLEAN
    PROVE  Bind(names, hasTypes) \in Seq(Range(All))
<1> DEFINE I == {i \in DOMAIN names : hasTypes \/ names[i] \notin Typed}
<1>1. Len(names) \in Nat /\ I \in SUBSET (1 .. Len(names)) /\ \A i \in I : names[i] \in Range(All)
  OBVIOUS
<1>2. Bind(names, hasTypes) = [k \in 1 .. Cardinality(I) |-> names[Nth(I, k)]]
  BY DEF Bind, Each
<1> HIDE DEF I
<1>3. Cardinality(I) \in Nat /\ \A k \in 1 .. Cardinality(I) : Nth(I, k) \in I
  BY <1>1, Indexed
<1>4. Bind(names, hasTypes) \in [1 .. Cardinality(I) -> Range(All)]
  BY <1>1, <1>2, <1>3
<1> QED
  BY <1>3, <1>4

LEMMA KidsAreParsed ==
    ASSUME NEW f \in File, NEW n \in Parsed(f)
    PROVE  Kids(f.tree, n) \in Seq(Parsed(f))
<1> DEFINE N == DOMAIN f.tree
           kid == f.tree[n].kid
           I == {i \in DOMAIN kid : kid[i] # None}
           shown == [k \in 1 .. Cardinality(I) |-> kid[Nth(I, k)]]
           kids == Kids(f.tree, n)
<1>0. n \in N
  BY DEF Parsed
<1>1. kid \in Seq(N \cup {None}) /\ f.tree[n].list \in Seq(N)
  BY <1>0, OperatorsAssumption
<1>2. Len(kid) \in Nat /\ I \in SUBSET (1 .. Len(kid)) /\ \A i \in I : kid[i] \in N
  BY <1>1
<1>3. kids = shown \o f.tree[n].list
  BY DEF Kids, Each
<1> HIDE DEF I, kid, N, kids
<1>4. Cardinality(I) \in Nat /\ \A k \in 1 .. Cardinality(I) : Nth(I, k) \in I
  BY <1>2, Indexed
<1>5. shown \in Seq(N)
  <2>1. \A k \in 1 .. Cardinality(I) : kid[Nth(I, k)] \in N
    BY <1>2, <1>4
  <2>2. shown \in [1 .. Cardinality(I) -> N]
    BY <2>1
  <2> QED
    BY <1>4, <2>2
<1> HIDE DEF shown
<1>6. kids \in Seq(N)
  BY <1>1, <1>3, <1>5
<1>7. \A i \in DOMAIN kids : kids[i] \in Parsed(f)
  <2>1. Range(kids) \subseteq Parsed(f)
    BY FilesAreTrees DEF kids
  <2> QED
    BY <2>1 DEF Range
<1>8. kids \in Seq(Parsed(f))
  BY <1>6, <1>7
<1> QED
  BY <1>8 DEF kids

LEMMA Initially == Init => IInv
<1> SUFFICES ASSUME Init PROVE IInv
  OBVIOUS
<1>1. file \in File /\ tree = file.tree /\ stack = <<file.root>> /\ next = 1 /\ pending = <<>> /\ applied = FALSE
  BY DEF Init
<1>2. bound \in Seq(Range(All))
  <2>1. All \in Seq(Range(All))
    BY DEF All, Range
  <2>2. PICK names \in Selections, hasTypes \in BOOLEAN :
            bound = Bind(IF names = <<>> THEN All ELSE names, hasTypes)
    BY DEF Init
  <2>3. names \in Seq(Range(All))
    BY OperatorsAssumption
  <2>4. CASE names = <<>>
    BY <2>1, <2>2, <2>4, BindChooses
  <2>5. CASE names # <<>>
    BY <2>2, <2>3, <2>5, BindChooses
  <2> QED
    BY <2>4, <2>5
<1>3. file.root \in Parsed(file)
  BY <1>1, OperatorsAssumption
<1>4. <<file.root>> \in Seq(Parsed(file))
  <2>1. \A S : \A n \in S : <<n>> \in Seq(S)
    OBVIOUS
  <2> QED
    BY <1>3, <2>1
<1>5. StackInv
  BY <1>1, <1>4 DEF StackInv
<1>6. BoundInv
  BY <1>1, <1>2 DEF BoundInv
<1>7. TreeInv
  BY <1>1 DEF TreeInv
<1>8. PendingInv
  BY <1>1, OfferingNone DEF PendingInv
<1> QED
  BY <1>5, <1>6, <1>7, <1>8 DEF IInv

LEMMA OfferStep == ASSUME IInv, Offer PROVE IInv'
<1> USE DEF IInv
<1>1. /\ ~applied /\ tree = file.tree /\ next \in DOMAIN bound /\ file \in File
      /\ next \in Nat \ {0} /\ Head(stack) \in DOMAIN file.tree /\ bound[next] \in Range(All)
  BY DEF Offer, Walking, BoundInv, StackInv, TreeInv, Parsed
<1>2. /\ pending' = Mutate(file, file.tree, bound[next], Head(stack)) /\ next' = next + 1
      /\ file' = file /\ bound' = bound /\ tree' = tree /\ stack' = stack /\ applied' = applied
  BY <1>1 DEF Offer
<1>3. BoundInv'
  BY <1>1, <1>2 DEF BoundInv
<1>4. StackInv'
  BY <1>2 DEF StackInv
<1>5. Offering(file.tree, pending')
  BY <1>1, <1>2, MutateOffers
<1>6. (next + 1) - 1 = next
  BY <1>1
<1>7. Offers' = pending'
  BY <1>2, <1>6 DEF Offers
<1>8. PendingInv'
  <2>1. Left(pending', pending')
    BY <1>5, LeftAll DEF Offering
  <2>2. stack # <<>>
    BY DEF Offer, Walking
  <2> QED
    BY <1>1, <1>2, <1>5, <1>6, <1>7, <2>1, <2>2 DEF PendingInv
<1>9. TreeInv'
  BY <1>1, <1>2 DEF TreeInv
<1> QED
  BY <1>3, <1>4, <1>8, <1>9

LEMMA DescendStep == ASSUME IInv, Descend PROVE IInv'
<1> USE DEF IInv
<1>1. /\ ~applied /\ tree = file.tree /\ file \in File /\ pending = <<>>
      /\ stack \in Seq(Parsed(file)) /\ stack # <<>>
  BY DEF Descend, Walking, StackInv, TreeInv
<1>2. /\ stack' = Kids(file.tree, Head(stack)) \o Tail(stack) /\ next' = 1
      /\ file' = file /\ bound' = bound /\ tree' = tree /\ pending' = pending /\ applied' = applied
  BY <1>1 DEF Descend
<1>3. Kids(file.tree, Head(stack)) \in Seq(Parsed(file))
  BY <1>1, KidsAreParsed
<1>4. StackInv'
  <2> DEFINE N == Parsed(file)
             kids == Kids(file.tree, Head(stack))
  <2>1. kids \in Seq(N) /\ stack \in Seq(N)
    BY <1>1, <1>3
  <2> HIDE DEF N, kids
  <2>2. Tail(stack) \in Seq(N)
    BY <1>1, <2>1
  <2>3. kids \o Tail(stack) \in Seq(N)
    BY <2>1, <2>2
  <2> QED
    BY <1>1, <1>2, <2>3 DEF StackInv, N, kids
<1>5. BoundInv' /\ TreeInv' /\ PendingInv'
  BY <1>1, <1>2, OfferingNone DEF BoundInv, TreeInv, PendingInv
<1> QED
  BY <1>4, <1>5

LEMMA ApplyStep == ASSUME IInv, Apply PROVE IInv'
<1> USE DEF IInv
<1>1. /\ tree' = Write(file.tree, Head(pending), Head(pending).to) /\ applied' = TRUE /\ pending # <<>>
      /\ file' = file /\ bound' = bound /\ stack' = stack /\ next' = next /\ pending' = pending
  BY DEF Apply, TreeInv
<1>2. Offers' = Offers
  BY <1>1 DEF Offers
<1>3. PendingInv'
  BY <1>1, <1>2 DEF PendingInv
<1>4. BoundInv' /\ StackInv' /\ TreeInv'
  BY <1>1 DEF BoundInv, StackInv, TreeInv
<1> QED
  BY <1>3, <1>4

LEMMA RevertStep == ASSUME IInv, Revert PROVE IInv'
<1> USE DEF IInv
<1>1. /\ tree = Write(file.tree, Head(pending), Head(pending).to) /\ pending # <<>>
      /\ tree' = Write(tree, Head(pending), Head(pending).from)
      /\ pending' = Tail(pending) /\ applied' = FALSE
      /\ file' = file /\ bound' = bound /\ stack' = stack /\ next' = next
  BY DEF Revert, TreeInv
<1>2. IsTree(file.tree)
  BY FilesHaveTrees DEF StackInv
<1>3. Fits(file.tree, Head(pending)) /\ Offering(file.tree, Tail(pending))
  BY <1>1, OfferingRest DEF PendingInv
<1>4. tree' = file.tree
  BY <1>1, <1>2, <1>3, WriteBack
<1>5. Offers' = Offers
  BY <1>1 DEF Offers
<1>6. Left(Tail(pending), Offers)
  <2>1. IsSeq(pending) /\ Left(pending, Offers)
    BY <1>1 DEF PendingInv, Offering
  <2>2. IsSeq(Offers)
    BY <1>1, OffersAre
  <2> HIDE DEF Offers
  <2> QED
    BY <1>1, <2>1, <2>2, LeftRest
<1>7. PendingInv'
  BY <1>1, <1>3, <1>5, <1>6 DEF PendingInv
<1>8. BoundInv' /\ StackInv' /\ TreeInv'
  BY <1>1, <1>4 DEF BoundInv, StackInv, TreeInv
<1> QED
  BY <1>7, <1>8

LEMMA AbandonStep == ASSUME IInv, Abandon PROVE IInv'
BY OfferingNone DEF IInv, Abandon, BoundInv, StackInv, PendingInv, TreeInv

LEMMA Inductive == IInv /\ [Next]_vars => IInv'
<1> SUFFICES ASSUME IInv, [Next]_vars PROVE IInv'
  OBVIOUS
<1>1. CASE Offer
  BY <1>1, OfferStep
<1>2. CASE Descend
  BY <1>2, DescendStep
<1>3. CASE Apply
  BY <1>3, ApplyStep
<1>4. CASE Revert
  BY <1>4, RevertStep
<1>5. CASE Abandon
  BY <1>5, AbandonStep
<1>6. CASE UNCHANGED vars
  <2>1. Offers' = Offers
    BY <1>6 DEF vars, Offers
  <2> QED
    BY <1>6, <2>1 DEF vars, IInv, BoundInv, StackInv, PendingInv, TreeInv
<1> QED
  BY <1>1, <1>2, <1>3, <1>4, <1>5, <1>6 DEF Next

LEMMA Always == Spec => []IInv
BY Initially, Inductive, PTL DEF Spec

-----------------------------------------------------------------------------
(* Every node is visited once, and what is offered for it is applied once.  *)

\* The subtrees of s are those between two places in ast.Inspect's order.
Covers(f, s, a, b) ==
    /\ s = <<>> => a = b
    /\ s # <<>> => f.pos[s[1]] = a + 1 /\ f.end[s[Len(s)]] = b
    /\ \A i \in DOMAIN s : i # 1 => f.pos[s[i]] = f.end[s[i - 1]] + 1

\* The place of the last node that is done with.
Visited == IF stack = <<>> THEN file.end[file.root] ELSE file.pos[Head(stack)] - 1

\* The walk was given up.
Gone == stack = <<>> /\ next # 1

\* What is to be visited is all that was not.
PlaceInv == ~Gone => Covers(file, stack, Visited, file.end[file.root])

\* What was applied was offered, for some node.
Of(op, n) == Mutate(file, file.tree, op, n)
IsOffer(o) ==
    /\ o.op \in Range(All)
    /\ \E n \in Parsed(file) : \E j \in DOMAIN Of(o.op, n) : o.edit = Of(o.op, n)[j]
OfferedInv == IsSeq(offered) /\ \A k \in DOMAIN offered : IsOffer(offered[k])

\* The j-th mutation that the b-th operator offers for a node was applied, if not for
\* what is pending or to come.
Past(n, b, j) ==
    \/ file.pos[n] <= Visited
    \/ /\ stack # <<>> /\ n = Head(stack)
       /\ \/ b < next - 1
          \/ b = next - 1 /\ j <= Len(Of(bound[b], n)) - Len(pending) + (IF applied THEN 1 ELSE 0)

\* No other node is offered the same, nor this one twice.
Alone(op, n, j) ==
    \A q \in Parsed(file) : \A i \in DOMAIN Of(op, q) : Of(op, q)[i] = Of(op, n)[j] => q = n /\ i = j

Seen(op, edit) == {k \in DOMAIN offered : offered[k].op = op /\ offered[k].edit = edit}
Due(op, n, j) == {b \in DOMAIN bound : bound[b] = op /\ Past(n, b, j)}

\* As many times as the operators come to it.
Counted(op, n, j) ==
    Alone(op, n, j) => Cardinality(Seen(op, Of(op, n)[j])) = Cardinality(Due(op, n, j))
CountInv ==
    ~Gone => \A op \in Range(All) : \A n \in Parsed(file) : \A j \in DOMAIN Of(op, n) : Counted(op, n, j)

WalkInv == IInv /\ PlaceInv /\ OfferedInv /\ CountInv

\* Where the nodes of a file are.
LEMMA Places ==
    ASSUME NEW f \in File
    PROVE  /\ f.root \in Parsed(f) /\ f.pos[f.root] = 1
           /\ \A n \in Parsed(f) :
                 f.pos[n] \in Nat /\ f.end[n] \in Nat /\ 1 <= f.pos[n] /\ f.pos[n] <= f.end[f.root]
           /\ \A n, p \in Parsed(f) : f.pos[n] = f.pos[p] => n = p
<1>1. f.root \in Parsed(f)
  BY OperatorsAssumption
<1>2. f.pos[f.root] = 1 /\ f.pos \in [DOMAIN f.tree -> Nat] /\ f.end \in [Parsed(f) -> Nat]
  BY FilesAreTrees
<1>3. ASSUME NEW n \in Parsed(f)
      PROVE  f.pos[n] \in Nat /\ f.end[n] \in Nat /\ 1 <= f.pos[n] /\ f.pos[n] <= f.end[f.root]
  <2>1. f.pos[n] \in 1 .. f.end[f.root]
    BY FilesAreTrees
  <2>2. f.pos[n] \in Nat /\ f.end[n] \in Nat /\ f.end[f.root] \in Nat
    BY <1>1, <1>2 DEF Parsed
  <2> QED
    BY <2>1, <2>2
<1>4. ASSUME NEW n \in Parsed(f), NEW p \in Parsed(f), f.pos[n] = f.pos[p] PROVE n = p
  <2>1. \A q \in Parsed(f) : f.pos[n] = f.pos[q] => n = q
    BY FilesAreTrees
  <2> QED
    BY <1>4, <2>1
<1> QED
  BY <1>1, <1>2, <1>3, <1>4

LEMMA KidsCover ==
    ASSUME NEW f \in File, NEW n \in Parsed(f)
    PROVE  Covers(f, Kids(f.tree, n), f.pos[n], f.end[n])
<1> DEFINE kids == Kids(f.tree, n)
<1>1. \A i \in DOMAIN kids : f.pos[kids[i]] = (IF i = 1 THEN f.pos[n] ELSE f.end[kids[i - 1]]) + 1
  BY FilesAreTrees
<1>2. f.end[n] = IF kids = <<>> THEN f.pos[n] ELSE f.end[kids[Len(kids)]]
  BY FilesAreTrees
<1>3. kids \in Seq(Parsed(f))
  BY KidsAreParsed
<1> HIDE DEF kids
<1>4. kids # <<>> => 1 \in DOMAIN kids
  BY <1>3
<1>5. Covers(f, kids, f.pos[n], f.end[n])
  BY <1>1, <1>2, <1>4 DEF Covers
<1> QED
  BY <1>5 DEF kids

LEMMA CoversTail ==
    ASSUME NEW f \in File, NEW s \in Seq(Parsed(f)), s # <<>>,
           NEW a \in Int, NEW b, Covers(f, s, a, b)
    PROVE  a = f.pos[Head(s)] - 1 /\ Covers(f, Tail(s), f.end[Head(s)], b)
<1> DEFINE N == Parsed(f)
           t == Tail(s)
<1>1. \A n \in N : f.pos[n] \in Nat /\ f.end[n] \in Nat
  BY Places
<1>2. s \in Seq(N)
  OBVIOUS
<1> HIDE DEF N
<1>3. /\ Len(s) \in Nat \ {0} /\ DOMAIN s = 1 .. Len(s) /\ Head(s) = s[1] /\ s[1] \in N
      /\ t \in Seq(N) /\ Len(t) = Len(s) - 1 /\ DOMAIN t = 1 .. Len(s) - 1
  BY <1>2
<1>4. \A i \in 1 .. Len(s) - 1 : t[i] = s[i + 1]
  BY <1>2
<1> HIDE DEF t
<1>5. a = f.pos[Head(s)] - 1
  BY <1>1, <1>3 DEF Covers
<1>6. t = <<>> => f.end[Head(s)] = b
  BY <1>3 DEF Covers
<1>7. t # <<>> => f.pos[t[1]] = f.end[Head(s)] + 1 /\ f.end[t[Len(t)]] = b
  <2> SUFFICES ASSUME t # <<>> PROVE f.pos[t[1]] = f.end[Head(s)] + 1 /\ f.end[t[Len(t)]] = b
    OBVIOUS
  <2>1. Len(s) >= 2
    BY <1>3
  <2>2. t[1] = s[2] /\ t[Len(t)] = s[Len(s)] /\ 2 \in DOMAIN s
    BY <1>3, <1>4, <2>1
  <2>3. f.pos[s[2]] = f.end[s[2 - 1]] + 1
    BY <2>2 DEF Covers
  <2> QED
    BY <1>3, <2>2, <2>3 DEF Covers
<1>8. ASSUME NEW i \in DOMAIN t, i # 1 PROVE f.pos[t[i]] = f.end[t[i - 1]] + 1
  <2>1. i + 1 \in DOMAIN s /\ i + 1 # 1 /\ t[i] = s[i + 1] /\ t[i - 1] = s[(i + 1) - 1]
    BY <1>3, <1>4, <1>8
  <2> QED
    BY <2>1 DEF Covers
<1>9. Covers(f, t, f.end[Head(s)], b)
  BY <1>6, <1>7, <1>8 DEF Covers
<1> QED
  BY <1>5, <1>9 DEF t

LEMMA CoversBoth ==
    ASSUME NEW f \in File, NEW s \in Seq(Parsed(f)), NEW t \in Seq(Parsed(f)),
           NEW a, NEW b, NEW c, Covers(f, s, a, b), Covers(f, t, b, c)
    PROVE  Covers(f, s \o t, a, c)
<1> DEFINE N == Parsed(f)
           u == s \o t
<1>1. s \in Seq(N) /\ t \in Seq(N)
  OBVIOUS
<1> HIDE DEF N
<1>2. /\ Len(s) \in Nat /\ Len(t) \in Nat /\ DOMAIN s = 1 .. Len(s) /\ DOMAIN t = 1 .. Len(t)
      /\ u \in Seq(N) /\ Len(u) = Len(s) + Len(t) /\ DOMAIN u = 1 .. Len(s) + Len(t)
  BY <1>1
<1>3. /\ \A i \in DOMAIN s : u[i] = s[i]
      /\ \A i \in DOMAIN t : u[Len(s) + i] = t[i]
  BY <1>1
<1>4. CASE s = <<>>
  BY <1>1, <1>4 DEF Covers
<1>5. CASE t = <<>>
  BY <1>1, <1>5 DEF Covers
<1>6. CASE s # <<>> /\ t # <<>>
  <2> HIDE DEF u
  <2>1. Len(s) # 0 /\ Len(t) # 0
    BY <1>1, <1>6
  <2>2. u # <<>> /\ u[1] = s[1] /\ u[Len(u)] = t[Len(t)]
    BY <1>2, <1>3, <2>1
  <2>3. f.pos[u[1]] = a + 1 /\ f.end[u[Len(u)]] = c
    BY <1>6, <2>2 DEF Covers
  <2>4. ASSUME NEW i \in DOMAIN u, i # 1 PROVE f.pos[u[i]] = f.end[u[i - 1]] + 1
    <3>1. CASE i <= Len(s)
      <4>1. i \in DOMAIN s /\ u[i] = s[i] /\ u[i - 1] = s[i - 1]
        BY <1>2, <1>3, <2>4, <3>1
      <4> QED
        BY <2>4, <4>1 DEF Covers
    <3>2. CASE i = Len(s) + 1
      <4>1. u[i] = t[1] /\ u[i - 1] = s[Len(s)]
        BY <1>2, <1>3, <2>1, <3>2, SMTT(30)
      <4> QED
        BY <1>6, <4>1 DEF Covers
    <3>3. CASE i > Len(s) + 1
      <4> DEFINE k == i - Len(s)
      <4>1. /\ k \in DOMAIN t /\ k # 1 /\ k - 1 \in DOMAIN t
            /\ i = Len(s) + k /\ i - 1 = Len(s) + (k - 1)
        BY <1>2, <2>4, <3>3
      <4>2. u[i] = t[k] /\ u[i - 1] = t[k - 1]
        BY <1>3, <4>1
      <4> QED
        BY <4>1, <4>2 DEF Covers
    <3> QED
      BY <1>2, <3>1, <3>2, <3>3
  <2>5. Covers(f, u, a, c)
    BY <2>2, <2>3, <2>4 DEF Covers
  <2> QED
    BY <2>5 DEF u
<1> QED
  BY <1>4, <1>5, <1>6

\* Where the walk is: before the first of what is to be visited.
LEMMA AtHead ==
    ASSUME IInv, stack # <<>>
    PROVE  /\ file \in File /\ Head(stack) \in Parsed(file) /\ ~Gone
           /\ Visited = file.pos[Head(stack)] - 1
BY DEF IInv, StackInv, Gone, Visited

LEMMA PlaceInitially == Init => PlaceInv
<1> SUFFICES ASSUME Init PROVE PlaceInv
  OBVIOUS
<1>1. file \in File /\ stack = <<file.root>> /\ file.pos[file.root] = 1
  BY Places DEF Init
<1>2. Visited = 0 /\ stack # <<>> /\ Len(stack) = 1 /\ stack[1] = file.root /\ DOMAIN stack = {1}
  BY <1>1 DEF Visited
<1> QED
  BY <1>1, <1>2 DEF PlaceInv, Covers

LEMMA PlaceDescend ==
    ASSUME IInv, PlaceInv, Descend
    PROVE  /\ PlaceInv' /\ ~Gone' /\ ~Gone
           /\ Visited' = file.pos[Head(stack)] /\ Visited = file.pos[Head(stack)] - 1
<1> DEFINE n == Head(stack)
           kids == Kids(file.tree, n)
           rest == Tail(stack)
           last == file.end[file.root]
<1>1. /\ stack \in Seq(Parsed(file)) /\ stack # <<>> /\ file \in File /\ n \in Parsed(file)
      /\ tree = file.tree
  BY DEF Descend, Walking, IInv, StackInv, TreeInv
<1>2. stack' = kids \o rest /\ next' = 1 /\ file' = file
  BY <1>1 DEF Descend
<1>3. /\ ~Gone /\ ~Gone' /\ Visited = file.pos[n] - 1
  BY <1>1, <1>2 DEF Gone, Visited
<1>4. file.pos[n] \in Nat /\ Visited \in Int
  BY <1>1, <1>3, Places
<1>5. Covers(file, rest, file.end[n], last)
  <2>1. Covers(file, stack, Visited, last)
    BY <1>3 DEF PlaceInv
  <2> QED
    BY <1>1, <1>4, <2>1, CoversTail
<1>6. rest \in Seq(Parsed(file))
  BY <1>1
<1>7. kids \in Seq(Parsed(file)) /\ Covers(file, kids, file.pos[n], file.end[n])
  BY <1>1, KidsAreParsed, KidsCover
<1> HIDE DEF kids, rest, n
<1>8. Covers(file, kids \o rest, file.pos[n], last)
  BY <1>1, <1>5, <1>6, <1>7, CoversBoth
<1>9. kids \o rest \in Seq(Parsed(file))
  BY <1>6, <1>7
<1>10. file.pos[n] = Visited'
  <2>1. Covers(file', stack', file.pos[n], last) /\ stack' \in Seq(Parsed(file)) /\ last = file'.end[file'.root]
    BY <1>2, <1>8, <1>9
  <2>2. CASE stack' = <<>>
    BY <2>1, <2>2 DEF Covers, Visited
  <2>3. CASE stack' # <<>>
    <3>1. Visited' = file.pos[Head(stack')] - 1
      BY <1>2, <2>3 DEF Visited
    <3>2. file.pos[n] \in Int /\ Covers(file, stack', file.pos[n], last)
      BY <1>2, <1>4, <2>1
    <3>3. file.pos[n] = file.pos[Head(stack')] - 1
      BY <1>1, <2>1, <2>3, <3>2, CoversTail
    <3> QED
      BY <3>1, <3>3
  <2> QED
    BY <2>2, <2>3
<1>11. PlaceInv'
  <2>1. Covers(file', stack', Visited', file'.end[file'.root])
    BY <1>2, <1>8, <1>10
  <2> QED
    BY <2>1 DEF PlaceInv
<1> QED
  BY <1>3, <1>10, <1>11 DEF n

LEMMA PlaceStep == ASSUME IInv, PlaceInv, [Next]_vars PROVE PlaceInv'
<1>1. CASE Offer
  <2>1. stack # <<>> /\ stack' = stack /\ file' = file
    BY <1>1 DEF Offer, Walking
  <2> QED
    BY <2>1 DEF PlaceInv, Gone, Visited
<1>2. CASE Descend
  BY <1>2, PlaceDescend
<1>3. CASE Apply
  <2>1. stack # <<>> /\ stack' = stack /\ file' = file
    BY <1>3 DEF Apply, IInv, PendingInv
  <2> QED
    BY <2>1 DEF PlaceInv, Gone, Visited
<1>4. CASE Revert
  <2>1. stack # <<>> /\ stack' = stack /\ file' = file
    BY <1>4 DEF Revert, IInv, PendingInv, TreeInv
  <2> QED
    BY <2>1 DEF PlaceInv, Gone, Visited
<1>5. CASE Abandon
  <2>1. stack' = <<>> /\ next' = next /\ next # 1
    BY <1>5 DEF Abandon, IInv, PendingInv, BoundInv
  <2> QED
    BY <2>1 DEF PlaceInv, Gone
<1>6. CASE UNCHANGED vars
  BY <1>6 DEF vars, PlaceInv, Gone, Visited
<1> QED
  BY <1>1, <1>2, <1>3, <1>4, <1>5, <1>6 DEF Next

LEMMA OfferedStep == ASSUME IInv, OfferedInv, [Next]_vars PROVE OfferedInv'
<1>1. CASE Apply
  <2> DEFINE m == Head(pending)
             now == Write(tree, m, m.to)
             o == [op |-> bound[next - 1], edit |-> m,
                   program |-> Text(now, file.root), after |-> After(m, now)]
             S == {offered[k] : k \in DOMAIN offered} \cup {o}
  <2>1. offered' = Append(offered, o) /\ file' = file /\ pending # <<>>
    BY <1>1 DEF Apply
  <2>2. IsOffer(o)
    <3>1. o.op = bound[next - 1] /\ o.edit = Head(pending)
      OBVIOUS
    <3> HIDE DEF o
    <3>2. Head(stack) \in Parsed(file) /\ bound[next - 1] \in Range(All)
      BY <2>1, OffersAre
    <3>3. PICK j \in DOMAIN Offers : Head(pending) = Offers[j]
      BY <2>1, FirstIsOffered
    <3>4. Offers = Of(o.op, Head(stack))
      BY <3>1 DEF Of, Offers
    <3> HIDE DEF Offers
    <3> QED
      BY <3>1, <3>2, <3>3, <3>4 DEF IsOffer
  <2> HIDE DEF o
  <2>3. \A s \in S : IsOffer(s)
    BY <2>2 DEF OfferedInv
  <2>4. offered \in Seq({offered[k] : k \in DOMAIN offered})
    BY DEF OfferedInv, IsSeq
  <2>5. offered \in Seq(S) /\ o \in S
    BY <2>4
  <2> HIDE DEF S
  <2>6. offered' \in Seq(S)
    BY <2>1, <2>5
  <2>7. IsSeq(offered') /\ \A k \in DOMAIN offered' : offered'[k] \in S
    BY <2>6, Elements
  <2>8. \A s \in S : IsOffer(s)'
    BY <2>1, <2>3 DEF IsOffer, Of
  <2> QED
    BY <2>7, <2>8 DEF OfferedInv
<1>2. CASE ~Apply
  <2>1. offered' = offered /\ file' = file
    BY <1>2 DEF Next, vars, Offer, Descend, Revert, Abandon
  <2> QED
    BY <2>1 DEF OfferedInv, IsOffer, Of
<1> QED
  BY <1>1, <1>2

LEMMA OfIsSeq ==
    ASSUME IInv, NEW op \in Range(All), NEW n \in Parsed(file)
    PROVE  /\ IsSeq(Of(op, n)) /\ Len(Of(op, n)) \in Nat
           /\ DOMAIN Of(op, n) = 1 .. Len(Of(op, n))
<1>1. file \in File /\ n \in DOMAIN file.tree
  BY DEF IInv, StackInv, Parsed
<1>2. Offering(file.tree, Of(op, n))
  BY <1>1, MutateOffers DEF Of
<1> DEFINE s == Of(op, n)
<1>3. IsSeq(s)
  BY <1>2 DEF Offering
<1> HIDE DEF s
<1>4. Len(s) \in Nat /\ DOMAIN s = 1 .. Len(s)
  BY <1>3 DEF IsSeq
<1> QED
  BY <1>3, <1>4 DEF s

\* A step that applies nothing and is past nothing more.
LEMMA CountStays ==
    ASSUME CountInv, ~Gone, file' = file, bound' = bound, offered' = offered,
           \A n \in Parsed(file) : \A b \in DOMAIN bound : \A j \in DOMAIN Of(bound[b], n) :
              Past(n, b, j)' <=> Past(n, b, j)
    PROVE  CountInv'
<1> SUFFICES ASSUME NEW op \in Range(All), NEW n \in Parsed(file), NEW j \in DOMAIN Of(op, n)
             PROVE  Counted(op, n, j)'
  BY DEF CountInv, Of
<1>1. Counted(op, n, j)
  BY DEF CountInv
<1>2. Due(op, n, j)' = Due(op, n, j)
  BY DEF Due
<1>3. Alone(op, n, j)' <=> Alone(op, n, j)
  BY DEF Alone, Of
<1>4. Seen(op, Of(op, n)[j])' = Seen(op, Of(op, n)[j])
  BY DEF Seen, Of
<1> QED
  BY <1>1, <1>2, <1>3, <1>4 DEF Counted

\* Where the first of what is to be visited stands, and the others.
LEMMA PastIs ==
    ASSUME IInv, stack # <<>>, NEW n \in Parsed(file), NEW b, NEW j
    PROVE  Past(n, b, j) <=>
             \/ file.pos[n] < file.pos[Head(stack)]
             \/ /\ n = Head(stack)
                /\ \/ b < next - 1
                   \/ b = next - 1 /\ j <= Len(Of(bound[b], n)) - Len(pending) + (IF applied THEN 1 ELSE 0)
<1>1. file \in File /\ Head(stack) \in Parsed(file) /\ Visited = file.pos[Head(stack)] - 1
  BY AtHead
<1>2. file.pos[n] \in Nat /\ file.pos[Head(stack)] \in Nat
  BY <1>1, Places
<1>3. file.pos[n] <= Visited <=> file.pos[n] < file.pos[Head(stack)]
  BY <1>1, <1>2
<1> QED
  BY <1>3 DEF Past

LEMMA PastNext ==
    ASSUME IInv, stack # <<>>, stack' = stack, file' = file, bound' = bound,
           NEW n \in Parsed(file), NEW b, NEW j
    PROVE  Past(n, b, j)' <=>
             \/ file.pos[n] < file.pos[Head(stack)]
             \/ /\ n = Head(stack)
                /\ \/ b < next' - 1
                   \/ b = next' - 1
                      /\ j <= Len(Of(bound[b], n)) - Len(pending') + (IF applied' THEN 1 ELSE 0)
<1>1. file \in File /\ Head(stack) \in Parsed(file) /\ Visited = file.pos[Head(stack)] - 1
  BY AtHead
<1>2. file.pos[n] \in Nat /\ file.pos[Head(stack)] \in Nat
  BY <1>1, Places
<1>3. file.pos[n] <= Visited <=> file.pos[n] < file.pos[Head(stack)]
  BY <1>1, <1>2
<1>4. Visited' = Visited /\ \A op : Of(op, n)' = Of(op, n)
  BY DEF Visited, Of
<1>5. Past(n, b, j)' <=>
             \/ file'.pos[n] <= Visited'
             \/ /\ stack' # <<>> /\ n = Head(stack')
                /\ \/ b < next' - 1
                   \/ b = next' - 1
                      /\ j <= Len(Of(bound[b], n)) - Len(pending') + (IF applied' THEN 1 ELSE 0)
  BY <1>4 DEF Past
<1> QED
  BY <1>3, <1>4, <1>5

LEMMA CountOffer == ASSUME IInv, CountInv, Offer PROVE CountInv'
<1>1. /\ stack # <<>> /\ pending = <<>> /\ ~applied /\ applied \in BOOLEAN /\ tree = file.tree
      /\ next \in DOMAIN bound /\ next \in Nat \ {0} /\ bound \in Seq(Range(All))
      /\ Head(stack) \in Parsed(file)
  BY AtHead DEF Offer, Walking, IInv, TreeInv, BoundInv
<1>2. /\ pending' = Of(bound[next], Head(stack)) /\ next' = next + 1
      /\ file' = file /\ bound' = bound /\ stack' = stack /\ applied' = applied /\ offered' = offered
  BY <1>1 DEF Offer, Of
<1>3. IInv'
  BY OfferStep
<1>4. ~Gone
  BY <1>1 DEF Gone
<1>5. ASSUME NEW n \in Parsed(file), NEW b \in DOMAIN bound, NEW j \in DOMAIN Of(bound[b], n)
      PROVE  Past(n, b, j)' <=> Past(n, b, j)
  <2> DEFINE len == Len(Of(bound[b], n))
  <2>1. bound[b] \in Range(All) /\ b \in Nat \ {0}
    BY <1>1
  <2>2. len \in Nat /\ j \in 1 .. len
    BY <2>1, OfIsSeq
  <2>3. Past(n, b, j) <=> \/ file.pos[n] < file.pos[Head(stack)]
                          \/ n = Head(stack) /\ b < next
    <3>1. Past(n, b, j) <=> \/ file.pos[n] < file.pos[Head(stack)]
                            \/ /\ n = Head(stack)
                               /\ b < next - 1 \/ (b = next - 1 /\ j <= len - Len(pending) + 0)
      BY <1>1, PastIs
    <3>2. Len(pending) = 0
      BY <1>1
    <3> HIDE DEF len
    <3>3. j <= len - Len(pending) + 0
      BY <2>2, <3>2
    <3> QED
      BY <1>1, <2>1, <3>1, <3>3
  <2>4. Past(n, b, j)' <=> \/ file.pos[n] < file.pos[Head(stack)]
                           \/ n = Head(stack) /\ b < next
    <3>0. (next + 1) - 1 = next
      BY <1>1
    <3>1. Past(n, b, j)' <=> \/ file.pos[n] < file.pos[Head(stack)]
                             \/ /\ n = Head(stack)
                                /\ b < next \/ (b = next /\ j <= len - Len(pending') + 0)
      BY <1>1, <1>2, <3>0, PastNext
    <3>2. n = Head(stack) /\ b = next => Len(pending') = len
      BY <1>2
    <3> HIDE DEF len
    <3>3. n = Head(stack) /\ b = next => ~(j <= len - Len(pending') + 0)
      BY <2>2, <3>2
    <3> QED
      BY <3>1, <3>3
  <2> QED
    BY <2>3, <2>4
<1> QED
  BY <1>2, <1>4, <1>5, CountStays

LEMMA CountDescend == ASSUME IInv, PlaceInv, CountInv, Descend PROVE CountInv'
<1>1. /\ stack # <<>> /\ pending = <<>> /\ ~applied /\ applied \in BOOLEAN
      /\ next \notin DOMAIN bound /\ next \in Nat \ {0} /\ bound \in Seq(Range(All))
      /\ Head(stack) \in Parsed(file) /\ file \in File
  BY AtHead DEF Descend, Walking, IInv, TreeInv, BoundInv
<1>2. file' = file /\ bound' = bound /\ offered' = offered /\ next' = 1
  BY DEF Descend
<1>3. ~Gone /\ Visited' = file.pos[Head(stack)]
  BY PlaceDescend
<1>4. ASSUME NEW n \in Parsed(file), NEW b \in DOMAIN bound, NEW j \in DOMAIN Of(bound[b], n)
      PROVE  Past(n, b, j)' <=> Past(n, b, j)
  <2> DEFINE len == Len(Of(bound[b], n))
  <2>1. bound[b] \in Range(All) /\ b \in Nat \ {0} /\ b < next
    BY <1>1
  <2>2. len \in Nat /\ j \in 1 .. len
    BY <2>1, OfIsSeq
  <2>3. file.pos[n] \in Nat /\ file.pos[Head(stack)] \in Nat
    BY <1>1, Places
  <2>4. file.pos[n] = file.pos[Head(stack)] => n = Head(stack)
    BY <1>1, Places
  <2>5. Past(n, b, j) <=> file.pos[n] < file.pos[Head(stack)] \/ n = Head(stack)
    <3>1. Past(n, b, j) <=> \/ file.pos[n] < file.pos[Head(stack)]
                            \/ /\ n = Head(stack)
                               /\ b < next - 1 \/ (b = next - 1 /\ j <= len - Len(pending) + 0)
      BY <1>1, PastIs
    <3>2. Len(pending) = 0
      BY <1>1
    <3> HIDE DEF len
    <3>3. j <= len - Len(pending) + 0
      BY <2>2, <3>2
    <3> QED
      BY <1>1, <2>1, <3>1, <3>3
  <2>6. Past(n, b, j)' <=> file.pos[n] <= file.pos[Head(stack)]
    <3>1. ~(b < next' - 1) /\ b # next' - 1
      BY <1>2, <2>1
    <3> QED
      BY <1>2, <1>3, <3>1 DEF Past
  <2> QED
    BY <2>3, <2>4, <2>5, <2>6
<1> QED
  BY <1>2, <1>3, <1>4, CountStays

LEMMA CountRevert == ASSUME IInv, CountInv, Revert PROVE CountInv'
<1>1. /\ stack # <<>> /\ pending # <<>> /\ applied /\ applied \in BOOLEAN /\ IsSeq(pending)
  BY DEF Revert, IInv, PendingInv, TreeInv, Offering
<1>2. /\ file' = file /\ bound' = bound /\ offered' = offered /\ next' = next /\ stack' = stack
      /\ pending' = Tail(pending) /\ applied' = FALSE
  BY DEF Revert
<1>3. Len(pending) \in Nat /\ Len(pending') = Len(pending) - 1
  <2> DEFINE S == {pending[k] : k \in DOMAIN pending}
  <2>1. pending \in Seq(S)
    BY <1>1 DEF IsSeq
  <2> HIDE DEF S
  <2> QED
    BY <1>1, <1>2, <2>1
<1>4. ASSUME NEW n \in Parsed(file), NEW b \in DOMAIN bound, NEW j \in DOMAIN Of(bound[b], n)
      PROVE  Past(n, b, j)' <=> Past(n, b, j)
  <2> DEFINE len == Len(Of(bound[b], n))
  <2>1. bound[b] \in Range(All)
    BY DEF IInv, BoundInv
  <2>2. len \in Nat
    BY <2>1, OfIsSeq
  <2>3. Past(n, b, j) <=> \/ file.pos[n] < file.pos[Head(stack)]
                          \/ /\ n = Head(stack)
                             /\ b < next - 1 \/ (b = next - 1 /\ j <= len - Len(pending) + 1)
    BY <1>1, PastIs
  <2>4. Past(n, b, j)' <=> \/ file.pos[n] < file.pos[Head(stack)]
                           \/ /\ n = Head(stack)
                              /\ b < next - 1 \/ (b = next - 1 /\ j <= len - Len(pending') + 0)
    BY <1>1, <1>2, PastNext
  <2> HIDE DEF len
  <2>5. len - Len(pending') + 0 = len - Len(pending) + 1
    BY <1>3, <2>2
  <2> QED
    BY <2>3, <2>4, <2>5
<1>5. ~Gone
  BY <1>1 DEF Gone
<1> QED
  BY <1>2, <1>4, <1>5, CountStays

\* A step that applies what comes next adds one to both counts, or to neither.
LEMMA CountApply == ASSUME IInv, CountInv, OfferedInv, Apply PROVE CountInv'
<1> DEFINE h == Head(stack)
           here == bound[next - 1]
           first == Len(Of(here, h)) - Len(pending) + 1
           last == Len(offered) + 1
<1>1. /\ pending # <<>> /\ ~applied /\ stack # <<>> /\ IsSeq(pending) /\ h \in Parsed(file)
      /\ next - 1 \in DOMAIN bound /\ here \in Range(All) /\ Left(pending, Of(here, h))
      /\ bound \in Seq(Range(All))
  BY OffersAre DEF Apply, IInv, PendingInv, Offering, Offers, Of, BoundInv
<1>2. /\ file' = file /\ bound' = bound /\ next' = next /\ stack' = stack /\ pending' = pending
      /\ applied' = TRUE
  BY DEF Apply
<1>3. first \in DOMAIN Of(here, h) /\ Head(pending) = Of(here, h)[first]
  <2>1. IsSeq(Of(here, h))
    BY <1>1, OfIsSeq
  <2> QED
    BY <1>1, <2>1, LeftRest
<1>4. /\ DOMAIN offered' = DOMAIN offered \cup {last} /\ last \notin DOMAIN offered
      /\ \A k \in DOMAIN offered : offered'[k] = offered[k]
      /\ offered'[last].op = here /\ offered'[last].edit = Head(pending)
      /\ IsFiniteSet(DOMAIN offered)
  <2> DEFINE m == Head(pending)
             now == Write(tree, m, m.to)
             o == [op |-> here, edit |-> m,
                   program |-> Text(now, file.root), after |-> After(m, now)]
             S == {offered[k] : k \in DOMAIN offered}
  <2>1. offered' = Append(offered, o)
    BY DEF Apply
  <2>2. o.op = here /\ o.edit = Head(pending)
    OBVIOUS
  <2>3. offered \in Seq(S)
    BY DEF OfferedInv, IsSeq
  <2> HIDE DEF o, S
  <2>4. /\ Len(offered) \in Nat /\ DOMAIN offered = 1 .. Len(offered)
        /\ offered' \in Seq(S \cup {o}) /\ Len(offered') = Len(offered) + 1
        /\ \A k \in DOMAIN offered : offered'[k] = offered[k]
        /\ offered'[last] = o
    BY <2>1, <2>3
  <2>5. IsFiniteSet(DOMAIN offered)
    BY <2>4, FS_Interval
  <2>6. DOMAIN offered' = DOMAIN offered \cup {last} /\ last \notin DOMAIN offered
    BY <2>4
  <2> QED
    BY <2>2, <2>4, <2>5, <2>6
<1>5. SUFFICES ASSUME NEW op \in Range(All), NEW n \in Parsed(file), NEW j \in DOMAIN Of(op, n),
                      Alone(op, n, j)
               PROVE  Cardinality(Seen(op, Of(op, n)[j]))' = Cardinality(Due(op, n, j))'
  <2>1. \A op, n : Of(op, n)' = Of(op, n)
    BY <1>2 DEF Of
  <2>2. ASSUME NEW op, NEW n, NEW j PROVE Alone(op, n, j)' <=> Alone(op, n, j)
    BY <1>2 DEF Alone, Of
  <2> QED
    BY <1>2, <2>1, <2>2 DEF CountInv, Counted
<1> DEFINE edit == Of(op, n)[j]
           Comes == op = here /\ n = h /\ j = first
<1>6. Cardinality(Seen(op, edit)) = Cardinality(Due(op, n, j))
  <2>1. ~Gone
    BY <1>1 DEF Gone
  <2> QED
    BY <1>5, <2>1 DEF CountInv, Counted
<1>7. Comes <=> op = here /\ edit = Head(pending)
  BY <1>1, <1>3, <1>5 DEF Alone
<1>8. edit' = edit
  BY <1>2 DEF Of
<1>9. /\ Seen(op, edit)' = Seen(op, edit) \cup (IF Comes THEN {last} ELSE {})
      /\ last \notin Seen(op, edit) /\ IsFiniteSet(Seen(op, edit))
  <2> HIDE DEF last, here, edit, Comes
  <2>1. Seen(op, edit) \in SUBSET DOMAIN offered
    BY DEF Seen
  <2>2. IsFiniteSet(Seen(op, edit))
    BY <1>4, <2>1, FS_Subset
  <2>3. Seen(op, edit)' = {k \in DOMAIN offered' : offered'[k].op = op /\ offered'[k].edit = edit}
    BY <1>8 DEF Seen
  <2> QED
    BY <1>4, <1>7, <2>1, <2>2, <2>3 DEF Seen
<1>10. /\ Due(op, n, j)' = Due(op, n, j) \cup (IF Comes THEN {next - 1} ELSE {})
       /\ Comes => next - 1 \notin Due(op, n, j)
       /\ IsFiniteSet(Due(op, n, j))
  <2>1. Due(op, n, j) \in SUBSET DOMAIN bound
    BY DEF Due
  <2>2. IsFiniteSet(Due(op, n, j))
    <3>1. IsFiniteSet(DOMAIN bound)
      <4>1. Len(bound) \in Nat /\ DOMAIN bound = 1 .. Len(bound)
        BY <1>1
      <4> QED
        BY <4>1, FS_Interval
    <3> QED
      BY <2>1, <3>1, FS_Subset
  <2>3. ASSUME NEW b \in DOMAIN bound, bound[b] = op
        PROVE  /\ Past(n, b, j)' <=> (Past(n, b, j) \/ (Comes /\ b = next - 1))
               /\ Comes /\ b = next - 1 => ~Past(n, b, j)
    <3> DEFINE len == Len(Of(op, n))
               left == Len(pending)
    <3>1. Past(n, b, j) <=> \/ file.pos[n] < file.pos[h]
                            \/ /\ n = h
                               /\ b < next - 1 \/ (b = next - 1 /\ j <= len - left + 0)
      BY <1>1, <2>3, PastIs
    <3>2. Past(n, b, j)' <=> \/ file.pos[n] < file.pos[h]
                             \/ /\ n = h
                                /\ b < next - 1 \/ (b = next - 1 /\ j <= len - left + 1)
      BY <1>1, <1>2, <2>3, PastNext
    <3>3. len \in Nat /\ left \in Nat /\ j \in Nat
      <4>1. len \in Nat /\ j \in 1 .. len
        BY OfIsSeq
      <4>2. left \in Nat
        BY <1>1 DEF IsSeq
      <4> QED
        BY <4>1, <4>2
    <3>4. Comes /\ b = next - 1 => j = len - left + 1
      OBVIOUS
    <3>5. n = h /\ b = next - 1 /\ j = len - left + 1 => Comes
      BY <2>3
    <3>6. n = h => ~(file.pos[n] < file.pos[h])
      <4>1. file.pos[h] \in Nat
        BY <1>1, Places DEF IInv, StackInv
      <4> QED
        BY <4>1
    <3>7. Comes => n = h
      OBVIOUS
    <3>8. (next - 1 < next - 1) = FALSE
      BY DEF IInv, BoundInv
    <3>9. j <= len - left + 1 <=> (j <= len - left + 0 \/ j = len - left + 1)
      BY <3>3
    <3>10. j = len - left + 1 => ~(j <= len - left + 0)
      BY <3>3
    <3> HIDE DEF Comes, len, left, h
    <3> QED
      BY <3>1, <3>2, <3>4, <3>5, <3>6, <3>7, <3>8, <3>9, <3>10
  <2>4. Due(op, n, j)' = {b \in DOMAIN bound : bound[b] = op /\ Past(n, b, j)'}
    BY <1>2 DEF Due
  <2>5. Comes => bound[next - 1] = op
    OBVIOUS
  <2> HIDE DEF Comes
  <2> QED
    BY <1>1, <2>2, <2>3, <2>4, <2>5 DEF Due
<1> HIDE DEF Comes, edit, last
<1>11. CASE Comes
  <2>1. /\ Cardinality(Seen(op, edit) \cup {last}) = Cardinality(Seen(op, edit)) + 1
        /\ Cardinality(Due(op, n, j) \cup {next - 1}) = Cardinality(Due(op, n, j)) + 1
    BY <1>9, <1>10, <1>11, FS_AddElement
  <2> QED
    BY <1>6, <1>8, <1>9, <1>10, <1>11, <2>1 DEF edit
<1>12. CASE ~Comes
  BY <1>6, <1>8, <1>9, <1>10, <1>12 DEF edit
<1> QED
  BY <1>11, <1>12

LEMMA CountStep == ASSUME IInv, PlaceInv, OfferedInv, CountInv, [Next]_vars PROVE CountInv'
<1>1. CASE Offer
  BY <1>1, CountOffer
<1>2. CASE Descend
  BY <1>2, CountDescend
<1>3. CASE Apply
  BY <1>3, CountApply
<1>4. CASE Revert
  BY <1>4, CountRevert
<1>5. CASE Abandon
  <2>1. stack' = <<>> /\ next' = next /\ next # 1
    BY <1>5 DEF Abandon, IInv, PendingInv, BoundInv
  <2> QED
    BY <2>1 DEF CountInv, Gone
<1>6. CASE UNCHANGED vars
  BY <1>6 DEF vars, CountInv, Counted, Gone, Alone, Seen, Due, Past, Of, Visited
<1> QED
  BY <1>1, <1>2, <1>3, <1>4, <1>5, <1>6 DEF Next

LEMMA CountInitially == Init => CountInv
<1> SUFFICES ASSUME Init, NEW op \in Range(All), NEW n \in Parsed(file), NEW j \in DOMAIN Of(op, n)
             PROVE  Cardinality(Seen(op, Of(op, n)[j])) = Cardinality(Due(op, n, j))
  BY DEF CountInv, Counted
<1>1. file \in File /\ stack = <<file.root>> /\ next = 1 /\ offered = <<>>
  BY DEF Init
<1>2. bound \in Seq(Range(All))
  BY Initially DEF IInv, BoundInv
<1>3. Visited = 0
  BY <1>1, Places DEF Visited
<1>4. Seen(op, Of(op, n)[j]) = {}
  BY <1>1 DEF Seen
<1>5. ASSUME NEW b \in DOMAIN bound PROVE ~Past(n, b, j)
  <2>1. file.pos[n] \in Nat /\ 1 <= file.pos[n]
    BY <1>1, Places
  <2>2. b \in Nat \ {0}
    BY <1>2
  <2>3. ~(file.pos[n] <= Visited) /\ ~(b < next - 1) /\ b # next - 1
    BY <1>1, <1>3, <2>1, <2>2
  <2> QED
    BY <2>3 DEF Past
<1>6. Due(op, n, j) = {}
  BY <1>5 DEF Due
<1> QED
  BY <1>4, <1>6

LEMMA WalkAlways == Spec => []WalkInv
<1>1. Init => WalkInv
  <2>1. Init => OfferedInv
    BY DEF Init, OfferedInv, IsSeq
  <2> QED
    BY <2>1, Initially, PlaceInitially, CountInitially DEF WalkInv
<1>2. WalkInv /\ [Next]_vars => WalkInv'
  <2> SUFFICES ASSUME WalkInv, [Next]_vars PROVE WalkInv'
    OBVIOUS
  <2>1. IInv /\ PlaceInv /\ OfferedInv /\ CountInv
    BY DEF WalkInv
  <2>2. IInv'
    BY <2>1, Inductive
  <2>3. PlaceInv' /\ OfferedInv' /\ CountInv'
    BY <2>1, PlaceStep, OfferedStep, CountStep
  <2> QED
    BY <2>2, <2>3 DEF WalkInv
<1> QED
  BY <1>1, <1>2, PTL DEF Spec

\* The mutations of an operator with a mark v in a field x, and the only one there is.
Marked(op, x, v) == {k \in DOMAIN offered : offered[k].op = op /\ offered[k].edit[x] = v}
Only(op, x, v, n, j) ==
    /\ Of(op, n)[j][x] = v
    /\ \A q \in Parsed(file) : \A i \in DOMAIN Of(op, q) : Of(op, q)[i][x] = v => q = n /\ i = j

\* Over a whole walk what is offered is applied once for each time the operator is bound.
LEMMA AppliedOnce ==
    ASSUME WalkInv, Whole, NEW op \in Range(All), NEW x, NEW v,
           NEW n \in Parsed(file), NEW j \in DOMAIN Of(op, n), Only(op, x, v, n, j)
    PROVE  Cardinality(Marked(op, x, v)) = Times(op)
<1> DEFINE edit == Of(op, n)[j]
<1>1. edit[x] = v
  BY DEF Only
<1>2. Alone(op, n, j)
  BY DEF Alone, Only
<1>3. Marked(op, x, v) = Seen(op, edit)
  <2>1. ASSUME NEW k \in DOMAIN offered, offered[k].op = op, offered[k].edit[x] = v
        PROVE  offered[k].edit = edit
    <3>1. IsOffer(offered[k])
      BY DEF WalkInv, OfferedInv
    <3>2. PICK q \in Parsed(file) : \E i \in DOMAIN Of(op, q) : offered[k].edit = Of(op, q)[i]
      BY <2>1, <3>1 DEF IsOffer
    <3>3. PICK i \in DOMAIN Of(op, q) : offered[k].edit = Of(op, q)[i]
      BY <3>2
    <3>4. q = n /\ i = j
      BY <2>1, <3>3 DEF Only
    <3> QED
      BY <3>3, <3>4
  <2> HIDE DEF edit
  <2> QED
    BY <1>1, <2>1 DEF Marked, Seen
<1>4. ~Gone /\ Visited = file.end[file.root] /\ file \in File
  BY DEF Whole, Gone, Visited, WalkInv, IInv, StackInv
<1>5. Due(op, n, j) = {k \in DOMAIN bound : bound[k] = op}
  <2>1. file.pos[n] <= Visited
    BY <1>4, Places
  <2> QED
    BY <2>1 DEF Due, Past
<1>6. Cardinality(Seen(op, edit)) = Cardinality(Due(op, n, j))
  BY <1>2, <1>4 DEF WalkInv, CountInv, Counted
<1> QED
  BY <1>3, <1>5, <1>6 DEF Times

LEMMA NeverApplied ==
    ASSUME OfferedInv, NEW op, NEW x, NEW v,
           \A n \in Parsed(file) : \A j \in DOMAIN Of(op, n) : Of(op, n)[j][x] # v
    PROVE  Marked(op, x, v) = {} /\ Cardinality(Marked(op, x, v)) = 0
<1>1. ASSUME NEW k \in DOMAIN offered, offered[k].op = op PROVE offered[k].edit[x] # v
  <2>1. IsOffer(offered[k])
    BY DEF OfferedInv
  <2> QED
    BY <1>1, <2>1 DEF IsOffer
<1>2. Marked(op, x, v) = {}
  BY <1>1 DEF Marked
<1> QED
  BY <1>2, FS_EmptySet

\* What is offered is listed by slot: of an operator with a mutation for each slot of
\* some, and of the slots with the mark one only, or none.
Sloted(op, e) ==
    \A n \in Parsed(file) :
        /\ Lists(Of(op, n), e[n])
        /\ \A i, k \in DOMAIN e[n] : e[n][i] = e[n][k] => i = k

LEMMA SlotOnce ==
    ASSUME WalkInv, Whole, NEW op \in Range(All), NEW x, NEW v, NEW e, Sloted(op, e),
           NEW n \in Parsed(file), NEW i \in DOMAIN e[n], e[n][i][x] = v,
           \A q \in Parsed(file) : \A k \in DOMAIN e[q] : e[q][k][x] = v => q = n /\ k = i
    PROVE  Cardinality(Marked(op, x, v)) = Times(op)
<1>1. PICK j \in DOMAIN Of(op, n) : Of(op, n)[j] = e[n][i]
  BY DEF Sloted, Lists
<1>2. ASSUME NEW q \in Parsed(file), NEW l \in DOMAIN Of(op, q), Of(op, q)[l][x] = v
      PROVE  q = n /\ l = j
  <2>1. PICK k \in DOMAIN e[q] : Of(op, q)[l] = e[q][k]
    BY DEF Sloted, Lists
  <2>2. q = n /\ k = i
    BY <1>2, <2>1
  <2>3. Of(op, n)[l] = Of(op, n)[j] /\ l \in DOMAIN Of(op, n)
    BY <1>1, <2>1, <2>2
  <2>4. \A a, b \in DOMAIN Of(op, n) : Of(op, n)[a] = Of(op, n)[b] => a = b
    BY DEF Sloted, Lists
  <2> QED
    BY <2>2, <2>3, <2>4
<1>3. Only(op, x, v, n, j)
  BY <1>1, <1>2 DEF Only
<1> QED
  BY <1>3, AppliedOnce

LEMMA SlotNever ==
    ASSUME OfferedInv, NEW op, NEW x, NEW v, NEW e, Sloted(op, e),
           \A q \in Parsed(file) : \A k \in DOMAIN e[q] : e[q][k][x] # v
    PROVE  Cardinality(Marked(op, x, v)) = 0
<1>1. ASSUME NEW q \in Parsed(file), NEW l \in DOMAIN Of(op, q) PROVE Of(op, q)[l][x] # v
  <2>1. PICK k \in DOMAIN e[q] : Of(op, q)[l] = e[q][k]
    BY DEF Sloted, Lists
  <2> QED
    BY <2>1
<1> QED
  BY <1>1, NeverApplied

\* Where a node stands there is nothing else: of two nodes, and of two slots of one.
LEMMA OnePlace ==
    ASSUME NEW f \in File, NEW p \in DOMAIN f.tree, NEW q \in DOMAIN f.tree
    PROVE  /\ \A i \in DOMAIN f.tree[p].kid : \A j \in DOMAIN f.tree[q].kid :
                 f.tree[p].kid[i] = f.tree[q].kid[j] /\ f.tree[p].kid[i] # None => p = q /\ i = j
           /\ \A i \in DOMAIN f.tree[p].list : \A j \in DOMAIN f.tree[q].list :
                 f.tree[p].list[i] = f.tree[q].list[j] => p = q /\ i = j
           /\ \A i \in DOMAIN f.tree[p].kid : \A j \in DOMAIN f.tree[q].list :
                 f.tree[p].kid[i] # f.tree[q].list[j]
BY FilesAreTrees

LEMMA StrippedOnce ==
    ASSUME NEW f \in File, NEW p \in DOMAIN f.tree, NEW q \in DOMAIN f.tree,
           NEW i \in Stripped(f.tree, p), NEW j \in Stripped(f.tree, q),
           InSlot(f.tree, p, i) = InSlot(f.tree, q, j)
    PROVE  p = q /\ i = j
<1> DEFINE h == f.tree
<1>1. /\ h[p].kind = "assign" => InSlot(h, p, i) = h[p].list[i] /\ i \in DOMAIN h[p].list
      /\ h[p].kind # "assign" => InSlot(h, p, i) = h[p].kid[i] /\ i \in DOMAIN h[p].kid
      /\ InSlot(h, p, i) # None
  BY StrippedIn DEF IsUnary
<1>2. /\ h[q].kind = "assign" => InSlot(h, q, j) = h[q].list[j] /\ j \in DOMAIN h[q].list
      /\ h[q].kind # "assign" => InSlot(h, q, j) = h[q].kid[j] /\ j \in DOMAIN h[q].kid
  BY StrippedIn
<1>3. CASE h[p].kind = "assign" /\ h[q].kind = "assign"
  BY <1>1, <1>2, <1>3, OnePlace
<1>4. CASE h[p].kind # "assign" /\ h[q].kind # "assign"
  BY <1>1, <1>2, <1>4, OnePlace
<1>5. CASE h[p].kind = "assign" /\ h[q].kind # "assign"
  <2>1. h[q].kid[j] # h[p].list[i]
    BY <1>1, <1>2, <1>5, OnePlace
  <2> QED
    BY <1>1, <1>2, <1>5, <2>1
<1>6. CASE h[p].kind # "assign" /\ h[q].kind = "assign"
  <2>1. h[p].kid[i] # h[q].list[j]
    BY <1>1, <1>2, <1>6, OnePlace
  <2> QED
    BY <1>1, <1>2, <1>6, <2>1
<1> QED
  BY <1>3, <1>4, <1>5, <1>6

\* Looked at from below: an operand, a condition or a value.
Above(u) == \/ \E p \in Kind({"binary"}) : u \in Parts(p)
            \/ \E p \in Kind({"if"}) : u = file.tree[p].kid[1]
            \/ \E p \in Kind({"assign"}) : u \in Owned(p)

LEMMA UnaryPlaces ==
    ASSUME file \in File, NEW u \in Kind({"unary"})
    PROVE  Above(u) <=>
             \E n \in Parsed(file) : \E i \in Stripped(file.tree, n) : InSlot(file.tree, n, i) = u
<1> DEFINE h == file.tree
<1>1. u # None /\ IsUnary(h, u)
  <2>1. u \in DOMAIN h /\ h[u].kind = "unary"
    BY DEF Kind, Parsed
  <2>2. DOMAIN h = 1 .. Len(h)
    BY OperatorsAssumption
  <2>3. u # None
    BY <2>1, <2>2 DEF None
  <2> QED
    BY <2>1, <2>3 DEF IsUnary
<1>2. ASSUME NEW n \in Parsed(file), NEW i \in Stripped(h, n), InSlot(h, n, i) = u PROVE Above(u)
  <2>1. n \in DOMAIN h
    BY DEF Parsed
  <2>2. /\ h[n].kind = "assign" => u = h[n].list[i] /\ i \in DOMAIN h[n].list
        /\ h[n].kind # "assign" => u = h[n].kid[i] /\ i \in DOMAIN h[n].kid
    BY <1>2, <2>1, StrippedIn
  <2>3. h[n].kind \in {"binary", "if", "assign"} /\ (h[n].kind = "if" => i = 1)
    BY DEF Stripped
  <2>4. CASE h[n].kind = "binary"
    BY <2>2, <2>4 DEF Above, Kind, Parts, Range
  <2>5. CASE h[n].kind = "if"
    BY <2>2, <2>3, <2>5 DEF Above, Kind
  <2>6. CASE h[n].kind = "assign"
    BY <2>2, <2>6 DEF Above, Kind, Owned, Range
  <2> QED
    BY <2>3, <2>4, <2>5, <2>6
<1>3. ASSUME Above(u) PROVE \E n \in Parsed(file) : \E i \in Stripped(h, n) : InSlot(h, n, i) = u
  <2>0. ASSUME NEW p \in Parsed(file)
        PROVE  (\A i \in DOMAIN h[p].kid : i \in Nat \ {0}) /\ (\A i \in DOMAIN h[p].list : i \in Nat \ {0})
    <3>1. h[p].kid \in Seq(DOMAIN h \cup {None}) /\ h[p].list \in Seq(DOMAIN h)
      BY OperatorsAssumption DEF Parsed
    <3> QED
      BY <3>1
  <2>1. CASE \E p \in Kind({"binary"}) : u \in Parts(p)
    <3>1. PICK p \in Parsed(file) : h[p].kind = "binary" /\ u \in Range(h[p].kid)
      BY <2>1 DEF Kind, Parts
    <3>2. PICK i \in DOMAIN h[p].kid : h[p].kid[i] = u
      BY <3>1 DEF Range
    <3>3. InSlot(h, p, i) = u /\ i \in Nat \ {0}
      BY <2>0, <3>1, <3>2 DEF InSlot
    <3>4. i \in Stripped(h, p)
      BY <1>1, <3>1, <3>2, <3>3 DEF Stripped
    <3> QED
      BY <3>3, <3>4
  <2>2. CASE \E p \in Kind({"if"}) : u = h[p].kid[1]
    <3>1. PICK p \in Parsed(file) : h[p].kind = "if" /\ u = h[p].kid[1]
      BY <2>2 DEF Kind
    <3>2. InSlot(h, p, 1) = u
      BY <3>1 DEF InSlot
    <3>3. 1 \in Stripped(h, p)
      BY <1>1, <3>1, <3>2 DEF Stripped
    <3> QED
      BY <3>2, <3>3
  <2>3. CASE \E p \in Kind({"assign"}) : u \in Owned(p)
    <3>1. PICK p \in Parsed(file) : h[p].kind = "assign" /\ u \in Range(h[p].list)
      BY <2>3 DEF Kind, Owned
    <3>2. PICK i \in DOMAIN h[p].list : h[p].list[i] = u
      BY <3>1 DEF Range
    <3>3. InSlot(h, p, i) = u /\ i \in Nat \ {0}
      BY <2>0, <3>1, <3>2 DEF InSlot
    <3>4. i \in Stripped(h, p)
      BY <1>1, <3>1, <3>2, <3>3 DEF Stripped
    <3> QED
      BY <3>3, <3>4
  <2> QED
    BY <1>3, <2>1, <2>2, <2>3 DEF Above
<1> QED
  BY <1>2, <1>3

LEMMA UnaryOnce ==
    ASSUME WalkInv, Whole, NEW u \in Kind({"unary"})
    PROVE  Cardinality(Marked("operator/unary", "from", u))
             = IF Above(u) THEN Times("operator/unary") ELSE 0
<1> DEFINE h == file.tree
           op == "operator/unary"
           e == [n \in Parsed(file) |-> Strips(h, n)]
<1>1. file \in File /\ OfferedInv /\ op \in Range(All)
  BY DEF WalkInv, IInv, StackInv, All, Range
<1>2. ASSUME NEW n \in Parsed(file)
      PROVE  /\ n \in DOMAIN h /\ e[n] = Strips(h, n) /\ DOMAIN e[n] = Stripped(h, n)
             /\ \A i \in Stripped(h, n) : e[n][i].from = InSlot(h, n, i) /\ e[n][i].i = i
  BY DEF Strips, Edit, Parsed
<1>3. Sloted(op, e)
  <2>1. ASSUME NEW n \in Parsed(file) PROVE Lists(Of(op, n), Strips(h, n))
    <3>1. Of(op, n) = Strip(h, n)
      BY DEF Of, Mutate
    <3> QED
      BY <1>1, <1>2, <3>1, StripLists
  <2>2. ASSUME NEW n \in Parsed(file), NEW i \in DOMAIN e[n], NEW k \in DOMAIN e[n], e[n][i] = e[n][k]
        PROVE  i = k
    BY <1>2, <2>2
  <2>3. ASSUME NEW n \in Parsed(file) PROVE e[n] = Strips(h, n)
    BY <1>2
  <2> HIDE DEF e
  <2> QED
    BY <2>1, <2>2, <2>3 DEF Sloted
<1> HIDE DEF e
<1>4. Above(u) <=> \E n \in Parsed(file) : \E i \in Stripped(h, n) : InSlot(h, n, i) = u
  BY <1>1, UnaryPlaces
<1>5. CASE Above(u)
  <2>1. PICK n \in Parsed(file) : \E i \in Stripped(h, n) : InSlot(h, n, i) = u
    BY <1>4, <1>5
  <2>2. PICK i \in Stripped(h, n) : InSlot(h, n, i) = u
    BY <2>1
  <2>3. i \in DOMAIN e[n] /\ e[n][i]["from"] = u
    BY <1>2, <2>2
  <2>4. ASSUME NEW q \in Parsed(file), NEW k \in DOMAIN e[q], e[q][k]["from"] = u
        PROVE  q = n /\ k = i
    BY <1>1, <1>2, <2>2, <2>4, StrippedOnce, SMTT(30)
  <2>5. Cardinality(Marked(op, "from", u)) = Times(op)
    BY <1>1, <1>3, <2>3, <2>4, SlotOnce
  <2> QED
    BY <1>5, <2>5
<1>6. CASE ~Above(u)
  <2>1. ASSUME NEW q \in Parsed(file), NEW k \in DOMAIN e[q] PROVE e[q][k]["from"] # u
    BY <1>2, <1>4, <1>6
  <2>2. Cardinality(Marked(op, "from", u)) = 0
    BY <1>1, <1>3, <2>1, SlotNever
  <2> QED
    BY <1>6, <2>2
<1> QED
  BY <1>5, <1>6

\* Of which statements a removal is offered, by slot.
Loses(h, n) ==
    {i \in Nat \ {0} : /\ h[n].kind \in {"block", "case"}
                       /\ i \in DOMAIN h[n].list /\ Removable(h, h[n].list[i])}
Removals(h, n) == [i \in Loses(h, n) |-> Edit(n, "list", i, h[n].list[i], Blank, h[n].list[i])]

LEMMA RemoveLists ==
    ASSUME NEW f \in File, NEW n \in DOMAIN f.tree
    PROVE  Lists(RemoveStatements(f.tree, n), Removals(f.tree, n))
<1> DEFINE h == f.tree
           list == h[n].list
           I == {i \in DOMAIN list : Removable(h, list[i])}
           Removal(i) == Edit(n, "list", i, list[i], Blank, list[i])
           e == Removals(h, n)
           s == RemoveStatements(h, n)
<1>1. Len(list) \in Nat /\ DOMAIN list = 1 .. Len(list)
  <2>1. list \in Seq(DOMAIN h)
    BY OperatorsAssumption
  <2> HIDE DEF list
  <2> QED
    BY <2>1
<1>2. CASE h[n].kind \notin {"block", "case"}
  <2>1. s = <<>> /\ DOMAIN e = {}
    BY <1>2 DEF RemoveStatements, Removals, Loses
  <2> HIDE DEF s, e
  <2>2. Lists(s, e)
    BY <2>1 DEF Lists, IsSeq
  <2> QED
    BY <2>2 DEF s, e
<1>3. CASE h[n].kind \in {"block", "case"}
  <2>1. s = [k \in 1 .. Cardinality(I) |-> Removal(Nth(I, k))]
    BY <1>3 DEF RemoveStatements, Each
  <2>2. I = Loses(h, n)
    BY <1>1, <1>3 DEF Loses
  <2>3. DOMAIN e = I /\ \A i \in I : e[i] = Removal(i)
    BY <2>2 DEF Removals
  <2>4. I \in SUBSET (1 .. Len(list))
    BY <1>1
  <2> HIDE DEF I, e, s, Removal
  <2>5. s = [k \in 1 .. Cardinality(I) |-> e[Nth(I, k)]]
    <3>1. \A k \in 1 .. Cardinality(I) : Nth(I, k) \in I
      BY <1>1, <2>4, Indexed
    <3> QED
      BY <2>1, <2>3, <3>1
  <2>6. Lists(s, e)
    BY <1>1, <2>3, <2>4, <2>5, EachLists
  <2> QED
    BY <2>6 DEF s, e
<1> QED
  BY <1>2, <1>3

Goes(s) == /\ file.tree[s].kind = "assign" => file.tree[s].tok # ":="
           /\ \E p \in Kind({"block", "case"}) : s \in Owned(p)

LEMMA RemovedOnce ==
    ASSUME WalkInv, Whole, NEW s \in Kind({"expr", "incdec", "assign"})
    PROVE  Cardinality(Marked("statement/remover", "from", s))
             = IF Goes(s) THEN Times("statement/remover") ELSE 0
<1> DEFINE h == file.tree
           op == "statement/remover"
           e == [n \in Parsed(file) |-> Removals(h, n)]
<1>1. file \in File /\ OfferedInv /\ op \in Range(All)
  BY DEF WalkInv, IInv, StackInv, All, Range
<1>2. ASSUME NEW n \in Parsed(file)
      PROVE  /\ n \in DOMAIN h /\ e[n] = Removals(h, n) /\ DOMAIN e[n] = Loses(h, n)
             /\ \A i \in Loses(h, n) : e[n][i].from = h[n].list[i] /\ e[n][i].i = i
  BY DEF Removals, Edit, Parsed
<1>3. Sloted(op, e)
  <2>1. ASSUME NEW n \in Parsed(file) PROVE Lists(Of(op, n), Removals(h, n))
    <3>1. Of(op, n) = RemoveStatements(h, n)
      BY DEF Of, Mutate
    <3> QED
      BY <1>1, <1>2, <3>1, RemoveLists
  <2>2. ASSUME NEW n \in Parsed(file), NEW i \in DOMAIN e[n], NEW k \in DOMAIN e[n], e[n][i] = e[n][k]
        PROVE  i = k
    BY <1>2, <2>2
  <2>3. ASSUME NEW n \in Parsed(file) PROVE e[n] = Removals(h, n)
    BY <1>2
  <2> HIDE DEF e
  <2> QED
    BY <2>1, <2>2, <2>3 DEF Sloted
<1> HIDE DEF e
<1>4. Removable(h, s) <=> (h[s].kind = "assign" => h[s].tok # ":=")
  BY DEF Kind, Removable
<1>5. CASE Goes(s)
  <2>1. PICK n \in Parsed(file) : h[n].kind \in {"block", "case"} /\ s \in Range(h[n].list)
    BY <1>5 DEF Goes, Kind, Owned
  <2>2. PICK i \in DOMAIN h[n].list : h[n].list[i] = s
    BY <2>1 DEF Range
  <2>3. i \in Nat \ {0}
    <3>1. h[n].list \in Seq(DOMAIN h)
      BY <1>1, <1>2, OperatorsAssumption
    <3> QED
      BY <3>1
  <2>4. i \in Loses(h, n)
    BY <1>4, <1>5, <2>1, <2>2, <2>3 DEF Goes, Loses
  <2>5. i \in DOMAIN e[n] /\ e[n][i]["from"] = s
    BY <1>2, <2>2, <2>4
  <2>6. ASSUME NEW q \in Parsed(file), NEW k \in DOMAIN e[q], e[q][k]["from"] = s
        PROVE  q = n /\ k = i
    <3>1. k \in DOMAIN h[q].list /\ h[q].list[k] = h[n].list[i]
      BY <1>2, <2>2, <2>6 DEF Loses
    <3> QED
      BY <1>1, <1>2, <3>1, OnePlace
  <2>7. Cardinality(Marked(op, "from", s)) = Times(op)
    BY <1>1, <1>3, <2>5, <2>6, SlotOnce
  <2> QED
    BY <1>5, <2>7
<1>6. CASE ~Goes(s)
  <2>1. ASSUME NEW q \in Parsed(file), NEW k \in DOMAIN e[q], e[q][k]["from"] = s PROVE FALSE
    <3>1. /\ h[q].kind \in {"block", "case"} /\ k \in DOMAIN h[q].list /\ h[q].list[k] = s
          /\ Removable(h, s)
      BY <1>2, <2>1 DEF Loses
    <3>2. Goes(s)
      BY <1>4, <3>1 DEF Goes, Kind, Owned, Range
    <3> QED
      BY <1>6, <3>2
  <2>2. Cardinality(Marked(op, "from", s)) = 0
    BY <1>1, <1>3, <2>1, SlotNever
  <2> QED
    BY <1>6, <2>2
<1> QED
  BY <1>5, <1>6

\* An if's parts are its condition, its body and its else, which may be none.
LEMMA IfParts ==
    ASSUME NEW f \in File, NEW n \in DOMAIN f.tree, f.tree[n].kind = "if"
    PROVE  2 \in DOMAIN f.tree[n].kid /\ 3 \in DOMAIN f.tree[n].kid
<1>1. f.tree[n].kid \in Seq(DOMAIN f.tree \cup {None})
  BY OperatorsAssumption
<1>2. f.tree[n].kind \in DOMAIN Arity /\ Arity[f.tree[n].kind] = 3
  BY DEF Arity
<1>3. Len(f.tree[n].kid) = Arity[f.tree[n].kind]
  BY <1>2, OperatorsAssumption
<1> QED
  BY <1>1, <1>2, <1>3

\* control/if empties the second part of an if, control/else the third.
Part(op) == IF op = "control/if" THEN 2 ELSE 3

LEMMA EmptiesPart ==
    ASSUME NEW op \in {"control/if", "control/else"}, NEW n \in Parsed(file)
    PROVE  LET b == file.tree[n].kid[Part(op)] IN
           /\ \A j \in DOMAIN Of(op, n) :
                 /\ file.tree[n].kind = "if" /\ j = 1 /\ Of(op, n)[j].at = b
                 /\ b # None /\ file.tree[b].list # <<>>
           /\ file.tree[n].kind = "if" /\ b # None /\ file.tree[b].kind = "block"
                 /\ file.tree[b].list # <<>>
                 => 1 \in DOMAIN Of(op, n) /\ Of(op, n)[1].at = b
<1> DEFINE b == file.tree[n].kid[Part(op)]
<1>1. Of(op, n) = IF file.tree[n].kind = "if" THEN Clear(file.tree, b) ELSE <<>>
  <2>1. CASE op = "control/if"
    BY <2>1 DEF Of, Mutate, ClearIf, Part
  <2>2. CASE op = "control/else"
    BY <2>2 DEF Of, Mutate, ClearElse, Part
  <2> QED
    BY <2>1, <2>2
<1> HIDE DEF b
<1>2. Clear(file.tree, b) =
        IF b # None /\ file.tree[b].kind \in {"block", "case"} /\ file.tree[b].list # <<>>
          THEN <<Edit(b, "list", 0, file.tree[b].list, <<>>, b)>> ELSE <<>>
  BY DEF Clear
<1>3. Edit(b, "list", 0, file.tree[b].list, <<>>, b).at = b
  BY DEF Edit
<1>4. ASSUME NEW j \in DOMAIN Of(op, n)
      PROVE  /\ file.tree[n].kind = "if" /\ j = 1 /\ Of(op, n)[j].at = b
             /\ b # None /\ file.tree[b].list # <<>>
  BY <1>1, <1>2, <1>3
<1>5. ASSUME file.tree[n].kind = "if", b # None, file.tree[b].kind = "block", file.tree[b].list # <<>>
      PROVE  1 \in DOMAIN Of(op, n) /\ Of(op, n)[1].at = b
  BY <1>1, <1>2, <1>3, <1>5
<1> QED
  BY <1>4, <1>5 DEF b

LEMMA PartOnce ==
    ASSUME WalkInv, Whole, NEW op \in {"control/if", "control/else"},
           NEW b \in Kind({"block"}), file.tree[b].list # <<>>,
           NEW p \in Kind({"if"}), b = file.tree[p].kid[Part(op)]
    PROVE  Cardinality(Marked(op, "at", b)) = Times(op)
<1>1. file \in File /\ op \in Range(All) /\ p \in Parsed(file) /\ file.tree[p].kind = "if"
  BY DEF WalkInv, IInv, StackInv, All, Range, Kind
<1>2. b # None /\ file.tree[b].kind = "block"
  <2>1. DOMAIN file.tree = 1 .. Len(file.tree)
    BY <1>1, OperatorsAssumption
  <2> QED
    BY <2>1 DEF Kind, Parsed, None
<1>3. 1 \in DOMAIN Of(op, p) /\ Of(op, p)[1].at = b
  BY <1>1, <1>2, EmptiesPart, Zenon
<1>4. ASSUME NEW q \in Parsed(file), NEW i \in DOMAIN Of(op, q), Of(op, q)[i]["at"] = b
      PROVE  q = p /\ i = 1
  <2>1. file.tree[q].kind = "if" /\ i = 1 /\ file.tree[q].kid[Part(op)] = b
    BY <1>4, EmptiesPart, Zenon
  <2>2. Part(op) \in DOMAIN file.tree[q].kid /\ Part(op) \in DOMAIN file.tree[p].kid
    BY <1>1, <2>1, IfParts DEF Part, Parsed
  <2>3. q = p
    BY <1>1, <1>2, <2>1, <2>2, OnePlace DEF Parsed
  <2> QED
    BY <2>1, <2>3
<1>5. Only(op, "at", b, p, 1)
  BY <1>3, <1>4 DEF Only
<1> QED
  BY <1>1, <1>3, <1>5, AppliedOnce

LEMMA PartNever ==
    ASSUME WalkInv, NEW op \in {"control/if", "control/else"}, NEW b \in Kind({"block"}),
           file.tree[b].list = <<>> \/ \A p \in Kind({"if"}) : b # file.tree[p].kid[Part(op)]
    PROVE  Marked(op, "at", b) = {}
<1>1. ASSUME NEW q \in Parsed(file), NEW i \in DOMAIN Of(op, q), Of(op, q)[i]["at"] = b
      PROVE  FALSE
  <2>1. /\ file.tree[q].kind = "if" /\ file.tree[q].kid[Part(op)] = b
        /\ file.tree[b].list # <<>>
    BY <1>1, EmptiesPart
  <2> QED
    BY <2>1, SMTT(30) DEF Kind
<1> QED
  BY <1>1, NeverApplied DEF WalkInv

LEMMA BodyOnce ==
    ASSUME WalkInv, Whole, NEW b \in Kind({"block"})
    PROVE  Cardinality(Marked("control/if", "at", b) \cup Marked("control/else", "at", b))
             = IF file.tree[b].list = <<>> THEN 0
               ELSE CASE \E p \in Kind({"if"}) : b = file.tree[p].kid[2] -> Times("control/if")
                      [] \E p \in Kind({"if"}) : b = file.tree[p].kid[3] -> Times("control/else")
                      [] OTHER -> 0
<1> DEFINE body == Marked("control/if", "at", b)
           else == Marked("control/else", "at", b)
           IsBody == \E p \in Kind({"if"}) : b = file.tree[p].kid[2]
           IsElse == \E p \in Kind({"if"}) : b = file.tree[p].kid[3]
           empty == file.tree[b].list = <<>>
<1>1. Part("control/if") = 2 /\ Part("control/else") = 3
  BY DEF Part
<1>2. empty \/ ~IsBody => body = {}
  BY <1>1, PartNever
<1>3. empty \/ ~IsElse => else = {}
  BY <1>1, PartNever
<1>4. ~empty /\ IsBody => Cardinality(body) = Times("control/if")
  BY <1>1, PartOnce
<1>5. ~empty /\ IsElse => Cardinality(else) = Times("control/else")
  BY <1>1, PartOnce
<1>6. ~(IsBody /\ IsElse)
  <2> SUFFICES ASSUME NEW p \in Kind({"if"}), b = file.tree[p].kid[2],
                      NEW q \in Kind({"if"}), b = file.tree[q].kid[3]
               PROVE  FALSE
    OBVIOUS
  <2>1. /\ file \in File /\ p \in DOMAIN file.tree /\ q \in DOMAIN file.tree
        /\ file.tree[p].kind = "if" /\ file.tree[q].kind = "if"
    BY DEF WalkInv, IInv, StackInv, Kind, Parsed
  <2>2. b # None
    <3>1. DOMAIN file.tree = 1 .. Len(file.tree)
      BY <2>1, OperatorsAssumption
    <3> QED
      BY <3>1 DEF Kind, Parsed, None
  <2>3. 2 \in DOMAIN file.tree[p].kid /\ 3 \in DOMAIN file.tree[q].kid
    BY <2>1, IfParts
  <2>4. 2 = 3
    <3>1. \A i \in DOMAIN file.tree[p].kid : \A j \in DOMAIN file.tree[q].kid :
             file.tree[p].kid[i] = file.tree[q].kid[j] /\ file.tree[p].kid[i] # None => p = q /\ i = j
      BY <2>1, OnePlace
    <3>2. file.tree[p].kid[2] = file.tree[q].kid[3] /\ file.tree[p].kid[2] # None
      BY <2>2
    <3> QED
      BY <2>3, <3>1, <3>2
  <2> QED
    BY <2>4
<1>7. Cardinality({}) = 0
  BY FS_EmptySet
<1> HIDE DEF body, else, IsBody, IsElse, empty
<1>8. Cardinality(body \cup else)
        = IF empty THEN 0
          ELSE CASE IsBody -> Times("control/if") [] IsElse -> Times("control/else") [] OTHER -> 0
  <2>1. CASE empty
    BY <1>2, <1>3, <1>7, <2>1
  <2>2. CASE ~empty /\ IsBody
    <3>1. else = {} /\ body \cup else = body
      BY <1>3, <1>6, <2>2
    <3> QED
      BY <1>4, <1>6, <2>2, <3>1
  <2>3. CASE ~empty /\ IsElse
    <3>1. body = {} /\ body \cup else = else
      BY <1>2, <1>6, <2>3
    <3> QED
      BY <1>5, <1>6, <2>3, <3>1
  <2>4. CASE ~empty /\ ~IsBody /\ ~IsElse
    BY <1>2, <1>3, <1>7, <2>4
  <2> QED
    BY <2>1, <2>2, <2>3, <2>4
<1> QED
  BY <1>8 DEF body, else, IsBody, IsElse, empty

-----------------------------------------------------------------------------
(* What trees print as.                                                    *)

\* Parts come after what they are parts of, so that the texts are defined.
Grounded(h, pos, last) ==
    /\ None \notin DOMAIN h
    /\ \A n \in DOMAIN h :
          /\ pos[n] \in Nat /\ pos[n] <= last
          /\ \E len \in Nat : DOMAIN h[n].list = 1 .. len
          /\ \A i \in DOMAIN h[n].kid :
                h[n].kid[i] # None => h[n].kid[i] \in DOMAIN h /\ pos[n] < pos[h[n].kid[i]]
          /\ \A i \in DOMAIN h[n].list :
                h[n].list[i] \in DOMAIN h /\ pos[n] < pos[h[n].list[i]]

LEMMA ShownIs ==
    ASSUME NEW h, NEW pos, NEW last, Grounded(h, pos, last), NEW n \in DOMAIN h
    PROVE  /\ Cardinality(Shown(h, n)) \in Nat
           /\ \A k \in 1 .. Cardinality(Shown(h, n)) : Nth(Shown(h, n), k) \in Shown(h, n)
           /\ \A i \in Shown(h, n) : \E k \in 1 .. Cardinality(Shown(h, n)) : Nth(Shown(h, n), k) = i
           /\ \A i \in Shown(h, n) : i \in DOMAIN h[n].list
<1>1. PICK len \in Nat : DOMAIN h[n].list = 1 .. len
  BY DEF Grounded
<1>2. Shown(h, n) \in SUBSET (1 .. len) /\ \A i \in Shown(h, n) : i \in DOMAIN h[n].list
  BY <1>1 DEF Shown
<1> QED
  BY <1>1, <1>2, NthIs

\* A node prints the same in two trees that have it the same, and what it prints.
LEMMA PrintedSame ==
    ASSUME NEW h, NEW g, NEW pos, NEW last, Grounded(h, pos, last), NEW n \in DOMAIN h,
           g[n] = h[n], Shown(g, n) = Shown(h, n), NEW v, NEW w,
           \A i \in DOMAIN h[n].kid : v[h[n].kid[i]] = w[h[n].kid[i]],
           \A i \in Shown(h, n) : v[h[n].list[i]] = w[h[n].list[i]]
    PROVE  Printed(h, v, n) = Printed(g, w, n)
<1> DEFINE I == Shown(h, n)
           K == 1 .. Cardinality(I)
           list == h[n].list
           kid == h[n].kid
<1>1. n # None
  BY DEF Grounded
<1>2. \A k \in K : Nth(I, k) \in I
  BY ShownIs
<1>3. Each(I, LAMBDA i : v[list[i]]) = Each(I, LAMBDA i : w[list[i]])
  <2>1. [k \in K |-> v[list[Nth(I, k)]]] = [k \in K |-> w[list[Nth(I, k)]]]
    <3> HIDE DEF K
    <3> QED
      BY <1>2
  <2> QED
    BY <2>1 DEF Each
<1>4. [i \in DOMAIN kid |-> v[kid[i]]] = [i \in DOMAIN kid |-> w[kid[i]]]
  OBVIOUS
<1>5. Printed(h, v, n) = <<h[n].kind, h[n].tok, [i \in DOMAIN kid |-> v[kid[i]]],
                           Each(I, LAMBDA i : v[list[i]])>>
  BY <1>1 DEF Printed
<1>6. Printed(g, w, n) = <<h[n].kind, h[n].tok, [i \in DOMAIN kid |-> w[kid[i]]],
                           Each(I, LAMBDA i : w[list[i]])>>
  BY <1>1 DEF Printed
<1> QED
  BY <1>3, <1>4, <1>5, <1>6

LEMMA TextsUnfold ==
    ASSUME NEW h, NEW pos, NEW last \in Nat, Grounded(h, pos, last)
    PROVE  Texts(h) = [n \in DOMAIN h \cup {None} |-> Printed(h, Texts(h), n)]
<1> DEFINE Late(k) == {n \in DOMAIN h : last < pos[n] + k} \cup {None}
           Solves(v, k) == v = [n \in Late(k) |-> Printed(h, v, n)]
           T == {k \in Nat : ~ \E v : Solves(v, k)}
<1>0. \A v : Printed(h, v, None) = <<>>
  BY DEF Printed
<1>1. \E v : Solves(v, 0)
  <2>1. Late(0) = {None}
    BY DEF Grounded
  <2>2. Solves([n \in {None} |-> <<>>], 0)
    BY <1>0, <2>1
  <2> QED
    BY <2>2
<1>2. ASSUME NEW k \in Nat, NEW v, Solves(v, k) PROVE \E w : Solves(w, k + 1)
  <2> DEFINE w == [n \in Late(k + 1) |-> Printed(h, v, n)]
             Inner(n) == {h[n].kid[i] : i \in DOMAIN h[n].kid} \cup {h[n].list[i] : i \in Shown(h, n)}
  <2>0. None \in Late(k) /\ None \in Late(k + 1)
    OBVIOUS
  <2>1. ASSUME NEW n \in Late(k + 1) \ {None}, NEW c \in Inner(n)
        PROVE  c \in Late(k) /\ c \in Late(k + 1)
    <3>1. n \in DOMAIN h /\ last < pos[n] + (k + 1)
      OBVIOUS
    <3>2. c = None \/ (c \in DOMAIN h /\ pos[n] < pos[c])
      BY <3>1 DEF Grounded, Shown
    <3>3. c # None => pos[c] \in Nat /\ pos[n] \in Nat
      BY <3>1, <3>2 DEF Grounded
    <3> QED
      BY <3>1, <3>2, <3>3
  <2>2. ASSUME NEW n \in Late(k + 1) PROVE Printed(h, v, n) = Printed(h, w, n)
    <3>1. CASE n = None
      BY <1>0, <3>1
    <3>2. CASE n # None
      <4>1. \A c \in Inner(n) : v[c] = Printed(h, v, c) /\ w[c] = Printed(h, v, c)
        <5> HIDE DEF Late, Inner
        <5> QED
          BY <1>2, <2>1, <3>2
      <4>2. n \in DOMAIN h
        BY <3>2
      <4> HIDE DEF w, Solves
      <4> QED
        BY <4>1, <4>2, PrintedSame
    <3> QED
      BY <3>1, <3>2
  <2>3. w = [n \in Late(k + 1) |-> Printed(h, w, n)]
    <3> HIDE DEF Late
    <3> QED
      BY <2>2
  <2> HIDE DEF w
  <2> QED
    BY <2>3
<1>3. T = {}
  <2> SUFFICES ASSUME T # {} PROVE FALSE
    OBVIOUS
  <2> HIDE DEF Solves
  <2>1. PICK k \in T : \A j \in T : k <= j
    BY Least
  <2>2. k \in Nat /\ k # 0
    BY <1>1
  <2>3. k - 1 \in Nat /\ k - 1 \notin T
    BY <2>1, <2>2
  <2>4. PICK v : Solves(v, k - 1)
    BY <2>3
  <2>5. \E w : Solves(w, (k - 1) + 1)
    BY <1>2, <2>3, <2>4
  <2>6. (k - 1) + 1 = k
    BY <2>2
  <2>7. \E w : Solves(w, k)
    BY <2>5, <2>6
  <2> QED
    BY <2>7
<1>4. PICK v : Solves(v, last + 1)
  <2> HIDE DEF Solves
  <2>1. last + 1 \in Nat /\ last + 1 \notin T
    BY <1>3
  <2> QED
    BY <2>1
<1>5. Late(last + 1) = DOMAIN h \cup {None}
  BY DEF Grounded
<1>6. \E u : u = [n \in DOMAIN h \cup {None} |-> Printed(h, u, n)]
  BY <1>4, <1>5
<1> QED
  BY <1>6 DEF Texts

\* Two nodes print the same if and only if they are alike.
Alike(h, p, g, q) ==
    /\ h[p].kind = g[q].kind /\ h[p].tok = g[q].tok /\ DOMAIN h[p].kid = DOMAIN g[q].kid
    /\ \A i \in DOMAIN h[p].kid : Text(h, h[p].kid[i]) = Text(g, g[q].kid[i])
    /\ Cardinality(Shown(h, p)) = Cardinality(Shown(g, q))
    /\ \A k \in 1 .. Cardinality(Shown(h, p)) :
          Text(h, h[p].list[Nth(Shown(h, p), k)]) = Text(g, g[q].list[Nth(Shown(g, q), k)])

LEMMA TextIs ==
    ASSUME NEW h, NEW pos, NEW last \in Nat, Grounded(h, pos, last), NEW p \in DOMAIN h
    PROVE  /\ Text(h, None) = <<>>
           /\ Text(h, p) = <<h[p].kind, h[p].tok, [i \in DOMAIN h[p].kid |-> Text(h, h[p].kid[i])],
                             [k \in 1 .. Cardinality(Shown(h, p)) |-> Text(h, h[p].list[Nth(Shown(h, p), k)])]>>
           /\ Text(h, p) # <<>>
<1> DEFINE t == Texts(h)
<1>1. t = [n \in DOMAIN h \cup {None} |-> Printed(h, t, n)]
  BY TextsUnfold
<1> HIDE DEF t
<1>2. t[None] = Printed(h, t, None) /\ t[p] = Printed(h, t, p) /\ p # None
  BY <1>1 DEF Grounded
<1>3. t[None] = <<>>
  BY <1>2 DEF Printed
<1>4. t[p] = <<h[p].kind, h[p].tok, [i \in DOMAIN h[p].kid |-> t[h[p].kid[i]]],
               [k \in 1 .. Cardinality(Shown(h, p)) |-> t[h[p].list[Nth(Shown(h, p), k)]]]>>
  BY <1>2 DEF Printed, Each
<1> QED
  BY <1>3, <1>4 DEF Text, t

LEMMA TextSame ==
    ASSUME NEW h, NEW g, NEW pos, NEW last \in Nat, Grounded(h, pos, last), Grounded(g, pos, last),
           NEW p \in DOMAIN h, NEW q \in DOMAIN g
    PROVE  Text(h, p) = Text(g, q) <=> Alike(h, p, g, q)
<1> DEFINE K == 1 .. Cardinality(Shown(h, p))
           L == 1 .. Cardinality(Shown(g, q))
           a == [i \in DOMAIN h[p].kid |-> Text(h, h[p].kid[i])]
           b == [i \in DOMAIN g[q].kid |-> Text(g, g[q].kid[i])]
           c == [k \in K |-> Text(h, h[p].list[Nth(Shown(h, p), k)])]
           d == [k \in L |-> Text(g, g[q].list[Nth(Shown(g, q), k)])]
<1>1. Text(h, p) = <<h[p].kind, h[p].tok, a, c>>
  BY TextIs
<1>2. Text(g, q) = <<g[q].kind, g[q].tok, b, d>>
  BY TextIs
<1>3. a = b <=> /\ DOMAIN h[p].kid = DOMAIN g[q].kid
                /\ \A i \in DOMAIN h[p].kid : Text(h, h[p].kid[i]) = Text(g, g[q].kid[i])
  <2>1. DOMAIN a = DOMAIN h[p].kid /\ \A i \in DOMAIN h[p].kid : a[i] = Text(h, h[p].kid[i])
    OBVIOUS
  <2>2. DOMAIN b = DOMAIN g[q].kid /\ \A i \in DOMAIN g[q].kid : b[i] = Text(g, g[q].kid[i])
    OBVIOUS
  <2>3. a = [i \in DOMAIN a |-> a[i]] /\ b = [i \in DOMAIN b |-> b[i]]
    OBVIOUS
  <2> HIDE DEF a, b
  <2> QED
    BY <2>1, <2>2, <2>3
<1>4. K = L <=> Cardinality(Shown(h, p)) = Cardinality(Shown(g, q))
  <2>1. Cardinality(Shown(h, p)) \in Nat /\ Cardinality(Shown(g, q)) \in Nat
    BY ShownIs
  <2>2. \A x, y \in Nat : 1 .. x = 1 .. y => x = y
    <3> SUFFICES ASSUME NEW x \in Nat, NEW y \in Nat, 1 .. x = 1 .. y, x < y PROVE FALSE
      OBVIOUS
    <3>1. y \in 1 .. y /\ y \notin 1 .. x
      OBVIOUS
    <3> QED
      BY <3>1
  <2> QED
    BY <2>1, <2>2
<1>5. c = d <=> /\ K = L
                /\ \A k \in K : Text(h, h[p].list[Nth(Shown(h, p), k)]) = Text(g, g[q].list[Nth(Shown(g, q), k)])
  <2>1. DOMAIN c = K /\ \A k \in K : c[k] = Text(h, h[p].list[Nth(Shown(h, p), k)])
    OBVIOUS
  <2>2. DOMAIN d = L /\ \A k \in L : d[k] = Text(g, g[q].list[Nth(Shown(g, q), k)])
    OBVIOUS
  <2>3. c = [k \in DOMAIN c |-> c[k]] /\ d = [k \in DOMAIN d |-> d[k]]
    OBVIOUS
  <2> HIDE DEF c, d, K, L
  <2> QED
    BY <2>1, <2>2, <2>3
<1>6. Text(h, p) = Text(g, q) <=> h[p].kind = g[q].kind /\ h[p].tok = g[q].tok /\ a = b /\ c = d
  <2> HIDE DEF a, b, c, d
  <2> QED
    BY <1>1, <1>2
<1> HIDE DEF a, b, c, d
<1> QED
  BY <1>3, <1>4, <1>5, <1>6 DEF Alike

-----------------------------------------------------------------------------
(* A file and its mutants.                                                 *)

Last(f) == f.end[f.root] + 1

LEMMA FilesAreGrounded ==
    ASSUME NEW f \in File
    PROVE  Last(f) \in Nat /\ Grounded(f.tree, f.pos, Last(f))
<1> DEFINE h == f.tree
<1>1. Last(f) \in Nat /\ \A n \in DOMAIN h : f.pos[n] \in Nat /\ f.pos[n] <= Last(f)
  BY FilesAreFounded DEF Founded, Last
<1>2. None \notin DOMAIN h
  <2>1. DOMAIN h = 1 .. Len(h)
    BY OperatorsAssumption
  <2> QED
    BY <2>1 DEF None
<1>3. ASSUME NEW n \in DOMAIN h
      PROVE  /\ h[n].kid \in Seq(DOMAIN h \cup {None}) /\ h[n].list \in Seq(DOMAIN h)
  BY OperatorsAssumption
<1>4. ASSUME NEW n \in DOMAIN h, NEW c \in (Range(h[n].kid) \cup Range(h[n].list)) \ {None}
      PROVE  f.pos[n] < f.pos[c]
  <2>1. n \in Parsed(f)
    <3>1. \A s \in {True, False, Blank} : h[s].kid = <<>> /\ h[s].list = <<>>
      BY OperatorsAssumption
    <3> QED
      BY <3>1 DEF Parsed, Range
  <2>2. \A x \in (Range(h[n].kid) \cup Range(h[n].list)) \ {None} : f.pos[n] < f.pos[x]
    BY <2>1, FilesAreTrees
  <2> QED
    BY <2>2
<1>5. ASSUME NEW n \in DOMAIN h
      PROVE  /\ \E len \in Nat : DOMAIN h[n].list = 1 .. len
             /\ \A i \in DOMAIN h[n].kid :
                   h[n].kid[i] # None => h[n].kid[i] \in DOMAIN h /\ f.pos[n] < f.pos[h[n].kid[i]]
             /\ \A i \in DOMAIN h[n].list :
                   h[n].list[i] \in DOMAIN h /\ f.pos[n] < f.pos[h[n].list[i]]
  <2>1. Len(h[n].list) \in Nat /\ DOMAIN h[n].list = 1 .. Len(h[n].list)
    BY <1>3
  <2>2. ASSUME NEW i \in DOMAIN h[n].kid, h[n].kid[i] # None
        PROVE  h[n].kid[i] \in DOMAIN h /\ f.pos[n] < f.pos[h[n].kid[i]]
    <3>1. h[n].kid[i] \in DOMAIN h
      BY <1>3, <2>2
    <3>2. h[n].kid[i] \in (Range(h[n].kid) \cup Range(h[n].list)) \ {None}
      BY <2>2 DEF Range
    <3> QED
      BY <1>4, <3>1, <3>2
  <2>3. ASSUME NEW i \in DOMAIN h[n].list
        PROVE  h[n].list[i] \in DOMAIN h /\ f.pos[n] < f.pos[h[n].list[i]]
    <3>1. h[n].list[i] \in DOMAIN h
      BY <1>3
    <3>2. h[n].list[i] \in (Range(h[n].kid) \cup Range(h[n].list)) \ {None}
      BY <1>2, <3>1 DEF Range
    <3> QED
      BY <1>4, <3>1, <3>2
  <2> QED
    BY <2>1, <2>2, <2>3
<1> HIDE DEF h
<1>6. Grounded(h, f.pos, Last(f))
  BY <1>1, <1>2, <1>5 DEF Grounded
<1> QED
  BY <1>1, <1>6 DEF h

\* The file's tree with another node at one place, of the same kind.
Edited(f, g, at) ==
    /\ at \in Parsed(f) /\ Elsewhere(f.tree, g, at) /\ Grounded(g, f.pos, Last(f))
    /\ \A n \in DOMAIN f.tree : g[n].kind = f.tree[n].kind

LEMMA Unedited ==
    ASSUME NEW f \in File, NEW at \in Parsed(f)
    PROVE  Edited(f, f.tree, at)
BY FilesAreGrounded DEF Edited, Elsewhere, Parsed

LEMMA ShownElsewhere ==
    ASSUME NEW f \in File, NEW at, NEW g, Edited(f, g, at), NEW n \in DOMAIN f.tree, n # at
    PROVE  g[n] = f.tree[n] /\ Shown(g, n) = Shown(f.tree, n)
<1>1. g[n] = f.tree[n]
  BY DEF Edited, Elsewhere
<1>2. \A i \in DOMAIN f.tree[n].list : f.tree[n].list[i] \in DOMAIN f.tree
  BY FilesAreGrounded DEF Grounded
<1> QED
  BY <1>1, <1>2 DEF Edited, Shown

\* What is the same, or was left as it was over what is the same, prints the same.
LEMMA TextBelow ==
    ASSUME NEW f \in File, NEW at, NEW g, Edited(f, g, at), NEW S \in SUBSET DOMAIN f.tree,
           \A n \in S :
              \/ Text(g, n) = Text(f.tree, n)
              \/ /\ n # at
                 /\ \A i \in DOMAIN f.tree[n].kid : f.tree[n].kid[i] \in S \cup {None}
                 /\ \A i \in DOMAIN f.tree[n].list : f.tree[n].list[i] \in S
    PROVE  \A n \in S : Text(g, n) = Text(f.tree, n)
<1> DEFINE h == f.tree
           last == Last(f)
           Bad == {n \in S : Text(g, n) # Text(h, n)}
           T == {last - f.pos[n] : n \in Bad}
<1> SUFFICES ASSUME Bad # {} PROVE FALSE
  OBVIOUS
<1>1. last \in Nat /\ Grounded(h, f.pos, last) /\ Grounded(g, f.pos, last) /\ DOMAIN g = DOMAIN h
  BY FilesAreGrounded DEF Edited, Elsewhere
<1> HIDE DEF last
<1>2. T \in SUBSET Nat /\ T # {}
  BY <1>1 DEF Grounded
<1>3. PICK t \in T : \A u \in T : t <= u
  BY <1>2, Least
<1>4. PICK n \in Bad : t = last - f.pos[n]
  BY <1>3
<1>5. ASSUME NEW c \in S, f.pos[n] < f.pos[c] PROVE Text(g, c) = Text(h, c)
  <2>1. f.pos[n] \in Nat /\ f.pos[c] \in Nat
    BY <1>1 DEF Grounded
  <2>2. c \in Bad => t <= last - f.pos[c]
    BY <1>3
  <2> QED
    BY <1>1, <1>4, <1>5, <2>1, <2>2
<1>6. /\ n \in DOMAIN h /\ n # at
      /\ \A i \in DOMAIN h[n].kid : h[n].kid[i] \in S \cup {None}
      /\ \A i \in DOMAIN h[n].list : h[n].list[i] \in S
  BY <1>4
<1>7. g[n] = h[n] /\ Shown(g, n) = Shown(h, n)
  BY <1>6, ShownElsewhere
<1>8. ASSUME NEW i \in DOMAIN h[n].kid PROVE Text(g, h[n].kid[i]) = Text(h, h[n].kid[i])
  <2>1. CASE h[n].kid[i] = None
    <3>1. Text(g, None) = <<>> /\ Text(h, None) = <<>>
      BY <1>1, <1>6, TextIs
    <3> QED
      BY <2>1, <3>1
  <2>2. CASE h[n].kid[i] # None
    <3>1. f.pos[n] < f.pos[h[n].kid[i]]
      BY <1>1, <1>6, <2>2 DEF Grounded
    <3> QED
      BY <1>5, <1>6, <2>2, <3>1
  <2> QED
    BY <2>1, <2>2
<1>9. ASSUME NEW i \in DOMAIN h[n].list PROVE Text(g, h[n].list[i]) = Text(h, h[n].list[i])
  <2>1. f.pos[n] < f.pos[h[n].list[i]]
    BY <1>1, <1>6 DEF Grounded
  <2> QED
    BY <1>5, <1>6, <2>1
<1>10. Alike(g, n, h, n)
  <2>1. \A k \in 1 .. Cardinality(Shown(h, n)) : Nth(Shown(h, n), k) \in DOMAIN h[n].list
    BY <1>1, <1>6, ShownIs
  <2> QED
    BY <1>7, <1>8, <1>9, <2>1 DEF Alike
<1>11. Text(g, n) = Text(h, n)
  <2>1. n \in DOMAIN g
    BY <1>1, <1>6
  <2> QED
    BY <1>1, <1>6, <1>10, <2>1, TextSame
<1> QED
  BY <1>4, <1>11

\* An edit that does not show where it is shows nowhere.
LEMMA Unseen ==
    ASSUME NEW f \in File, NEW at, NEW g, Edited(f, g, at), Text(g, at) = Text(f.tree, at)
    PROVE  Text(g, f.root) = Text(f.tree, f.root)
<1> DEFINE S == DOMAIN f.tree
<1>1. S \in SUBSET DOMAIN f.tree /\ f.root \in S
  BY OperatorsAssumption DEF Parsed
<1>2. \A n \in S : /\ \A i \in DOMAIN f.tree[n].kid : f.tree[n].kid[i] \in S \cup {None}
                   /\ \A i \in DOMAIN f.tree[n].list : f.tree[n].list[i] \in S
  BY FilesAreGrounded DEF Grounded
<1> HIDE DEF S
<1>3. \A n \in S : Text(g, n) = Text(f.tree, n)
  BY <1>1, <1>2, TextBelow
<1> QED
  BY <1>1, <1>3

-----------------------------------------------------------------------------
(* Above and below.                                                        *)

Children(h, n) == (Range(h[n].kid) \cup Range(h[n].list)) \ {None}
Within(f, n, x) == f.pos[n] <= f.pos[x] /\ f.pos[x] <= f.end[n]

\* What is visited next are the children.
LEMMA KidsAre ==
    ASSUME NEW f \in File, NEW n \in Parsed(f)
    PROVE  Range(Kids(f.tree, n)) = Children(f.tree, n)
<1> DEFINE h == f.tree
           N == DOMAIN h
           kid == h[n].kid
           list == h[n].list
           I == {i \in DOMAIN kid : kid[i] # None}
           e == [i \in I |-> kid[i]]
           shown == [k \in 1 .. Cardinality(I) |-> kid[Nth(I, k)]]
           kids == Kids(h, n)
<1>1. kid \in Seq(N \cup {None}) /\ list \in Seq(N) /\ None \notin N
  <2>1. n \in N
    BY DEF Parsed
  <2> QED
    BY <2>1, FilesAreGrounded, OperatorsAssumption DEF Grounded
<1>2. kids = shown \o list
  BY DEF Kids, Each
<1> HIDE DEF kid, list, kids, N
<1>3. Len(kid) \in Nat /\ I \in SUBSET (1 .. Len(kid))
  BY <1>1
<1>4. /\ Cardinality(I) \in Nat
      /\ \A k \in 1 .. Cardinality(I) : Nth(I, k) \in I
      /\ \A i \in I : \E k \in 1 .. Cardinality(I) : Nth(I, k) = i
  <2> HIDE DEF I
  <2> QED
    BY <1>3, NthIs
<1>5. shown \in Seq(N) /\ Len(shown) = Cardinality(I)
  <2>1. \A k \in 1 .. Cardinality(I) : kid[Nth(I, k)] \in N
    <3>1. \A i \in I : kid[i] \in N
      BY <1>1, <1>3
    <3> HIDE DEF I
    <3> QED
      BY <1>4, <3>1
  <2>2. shown \in [1 .. Cardinality(I) -> N]
    <3> HIDE DEF I
    <3> QED
      BY <2>1
  <2> HIDE DEF I
  <2> QED
    BY <1>4, <2>2
<1>6. {shown[k] : k \in DOMAIN shown} = {kid[i] : i \in I}
  <2>1. DOMAIN shown = 1 .. Cardinality(I) /\ \A k \in DOMAIN shown : shown[k] = kid[Nth(I, k)]
    OBVIOUS
  <2> HIDE DEF shown, I
  <2> QED
    BY <1>4, <2>1
<1>7. {kid[i] : i \in I} = {kid[i] : i \in DOMAIN kid} \ {None}
  OBVIOUS
<1> HIDE DEF shown, I
<1>8. {kids[k] : k \in DOMAIN kids} = {shown[k] : k \in DOMAIN shown} \cup {list[k] : k \in DOMAIN list}
  <2>1. /\ Len(shown) \in Nat /\ Len(list) \in Nat
        /\ DOMAIN shown = 1 .. Len(shown) /\ DOMAIN list = 1 .. Len(list)
        /\ DOMAIN kids = 1 .. Len(shown) + Len(list)
        /\ \A k \in DOMAIN shown : kids[k] = shown[k]
        /\ \A k \in DOMAIN list : kids[Len(shown) + k] = list[k]
    BY <1>1, <1>2, <1>5
  <2>2. ASSUME NEW k \in DOMAIN kids
        PROVE  \/ \E i \in DOMAIN shown : kids[k] = shown[i]
               \/ \E i \in DOMAIN list : kids[k] = list[i]
    <3>1. CASE k <= Len(shown)
      <4>1. k \in DOMAIN shown
        BY <2>1, <3>1
      <4> QED
        BY <2>1, <4>1
    <3>2. CASE k > Len(shown)
      <4>1. k - Len(shown) \in DOMAIN list /\ Len(shown) + (k - Len(shown)) = k
        BY <2>1, <3>2
      <4> QED
        BY <2>1, <4>1
    <3> QED
      BY <2>1, <3>1, <3>2
  <2>3. ASSUME NEW k \in DOMAIN list PROVE \E i \in DOMAIN kids : kids[i] = list[k]
    <3>1. Len(shown) + k \in DOMAIN kids
      BY <2>1
    <3> QED
      BY <2>1, <3>1
  <2>4. ASSUME NEW k \in DOMAIN shown PROVE \E i \in DOMAIN kids : kids[i] = shown[k]
    <3>1. k \in DOMAIN kids
      BY <2>1
    <3> QED
      BY <2>1, <3>1
  <2> QED
    BY <2>2, <2>3, <2>4
<1>9. None \notin {list[k] : k \in DOMAIN list}
  BY <1>1
<1> QED
  BY <1>6, <1>7, <1>8, <1>9 DEF Range, Children, kids, kid, list

\* A subtree begins with its node and has those of its children, one after the other.
Nests(f, n, kids) ==
    /\ kids \in Seq(Parsed(f))
    /\ \A c \in Parsed(f) : f.pos[c] \in Nat /\ f.end[c] \in Nat
    /\ kids = <<>> => f.end[n] = f.pos[n]
    /\ kids # <<>> => f.end[n] = f.end[kids[Len(kids)]] /\ f.pos[kids[1]] = f.pos[n] + 1
    /\ \A i \in DOMAIN kids : i # 1 => f.pos[kids[i]] = f.end[kids[i - 1]] + 1
    /\ \A i \in DOMAIN kids : f.pos[n] < f.pos[kids[i]]

LEMMA Nested == ASSUME NEW f \in File, NEW n \in Parsed(f) PROVE Nests(f, n, Kids(f.tree, n))
<1> DEFINE kids == Kids(f.tree, n)
<1>1. kids \in Seq(Parsed(f))
  BY KidsAreParsed
<1>2. Covers(f, kids, f.pos[n], f.end[n])
  BY KidsCover
<1>3. Range(kids) = Children(f.tree, n)
  BY KidsAre
<1> HIDE DEF kids
<1>4. \A i \in DOMAIN kids : f.pos[n] < f.pos[kids[i]]
  <2>1. \A c \in (Range(f.tree[n].kid) \cup Range(f.tree[n].list)) \ {None} : f.pos[n] < f.pos[c]
    BY FilesAreTrees
  <2>2. \A i \in DOMAIN kids : kids[i] \in Range(kids)
    BY DEF Range
  <2> QED
    BY <1>3, <2>1, <2>2 DEF Children
<1>5. \A c \in Parsed(f) : f.pos[c] \in Nat /\ f.end[c] \in Nat
  BY Places
<1>6. Nests(f, n, kids)
  BY <1>1, <1>2, <1>4, <1>5 DEF Covers, Nests
<1> QED
  BY <1>6 DEF kids

LEMMA EndAfter == ASSUME NEW f \in File, NEW x \in Parsed(f) PROVE f.pos[x] <= f.end[x]
<1> DEFINE last == f.end[f.root]
           Bad == {n \in Parsed(f) : ~(f.pos[n] <= f.end[n])}
           T == {last - f.pos[n] : n \in Bad}
<1> SUFFICES ASSUME x \in Bad PROVE FALSE
  OBVIOUS
<1>1. last \in Nat /\ \A n \in Parsed(f) : f.pos[n] \in Nat /\ f.end[n] \in Nat /\ f.pos[n] <= last
  BY Places
<1> HIDE DEF last
<1>2. T \in SUBSET Nat /\ T # {}
  BY <1>1
<1>3. PICK t \in T : \A u \in T : t <= u
  BY <1>2, Least
<1>4. PICK n \in Bad : t = last - f.pos[n]
  BY <1>3
<1> DEFINE kids == Kids(f.tree, n)
<1>5. /\ kids \in Seq(Parsed(f))
      /\ kids = <<>> => f.end[n] = f.pos[n]
      /\ kids # <<>> => f.end[n] = f.end[kids[Len(kids)]]
      /\ \A i \in DOMAIN kids : f.pos[n] < f.pos[kids[i]]
  <2>1. Nests(f, n, kids)
    BY <1>4, Nested
  <2> HIDE DEF kids
  <2> QED
    BY <2>1 DEF Nests
<1> HIDE DEF kids
<1>6. CASE kids = <<>>
  BY <1>1, <1>4, <1>5, <1>6
<1>7. CASE kids # <<>>
  <2> DEFINE c == kids[Len(kids)]
  <2>1. Len(kids) \in DOMAIN kids /\ c \in Parsed(f)
    BY <1>5, <1>7
  <2>2. f.pos[n] < f.pos[c] /\ f.end[n] = f.end[c]
    BY <1>5, <1>7, <2>1
  <2> HIDE DEF c
  <2>3. c \in Bad => t <= last - f.pos[c]
    BY <1>3
  <2>4. c \notin Bad
    BY <1>1, <1>4, <2>1, <2>2, <2>3
  <2> QED
    BY <1>1, <1>4, <2>1, <2>2, <2>4
<1> QED
  BY <1>6, <1>7

\* Below a node is what is below one of its children.
LEMMA ChildAbove ==
    ASSUME NEW f \in File, NEW n \in Parsed(f), NEW x \in Parsed(f), Within(f, n, x), x # n
    PROVE  \E c \in Children(f.tree, n) : c \in Parsed(f) /\ Within(f, c, x)
<1> DEFINE kids == Kids(f.tree, n)
           len == Len(kids)
           T == {len - i : i \in {i \in DOMAIN kids : f.pos[kids[i]] <= f.pos[x]}}
<1>1. /\ kids \in Seq(Parsed(f))
      /\ \A c \in Parsed(f) : f.pos[c] \in Nat /\ f.end[c] \in Nat
      /\ kids = <<>> => f.end[n] = f.pos[n]
      /\ kids # <<>> => f.end[n] = f.end[kids[len]] /\ f.pos[kids[1]] = f.pos[n] + 1
      /\ \A i \in DOMAIN kids : i # 1 => f.pos[kids[i]] = f.end[kids[i - 1]] + 1
  <2>1. Nests(f, n, kids)
    BY Nested
  <2> HIDE DEF kids
  <2> QED
    BY <2>1 DEF Nests
<1>2. f.pos[n] < f.pos[x] /\ f.pos[x] <= f.end[n]
  <2>1. f.pos[n] # f.pos[x]
    BY Places
  <2> QED
    BY <1>1, <2>1 DEF Within
<1>3. Range(kids) = Children(f.tree, n)
  BY KidsAre
<1> HIDE DEF kids
<1>4. kids # <<>>
  BY <1>1, <1>2
<1>5. len \in Nat \ {0} /\ DOMAIN kids = 1 .. len /\ \A i \in DOMAIN kids : kids[i] \in Parsed(f)
  BY <1>1, <1>4
<1> HIDE DEF len
<1>6. T \in SUBSET Nat /\ len - 1 \in T
  <2>1. 1 \in DOMAIN kids /\ f.pos[kids[1]] <= f.pos[x]
    BY <1>1, <1>2, <1>4, <1>5
  <2> QED
    BY <1>5, <2>1
<1>7. PICK t \in T : \A u \in T : t <= u
  BY <1>6, Least
<1>8. PICK i \in DOMAIN kids : t = len - i /\ f.pos[kids[i]] <= f.pos[x]
  BY <1>7
<1>9. f.pos[x] <= f.end[kids[i]]
  <2>1. CASE i = len
    BY <1>1, <1>2, <1>4, <2>1
  <2>2. CASE i # len
    <3>1. i + 1 \in DOMAIN kids /\ i + 1 # 1 /\ (i + 1) - 1 = i
      BY <1>5, <2>2
    <3>2. ~(f.pos[kids[i + 1]] <= f.pos[x])
      <4>1. f.pos[kids[i + 1]] <= f.pos[x] => t <= len - (i + 1)
        BY <1>7, <3>1
      <4> QED
        BY <1>5, <1>8, <4>1
    <3>3. f.pos[kids[i + 1]] = f.end[kids[i]] + 1
      BY <1>1, <3>1
    <3>4. f.pos[x] \in Nat /\ f.end[kids[i]] \in Nat
      BY <1>1, <1>5
    <3> QED
      BY <3>2, <3>3, <3>4
  <2> QED
    BY <2>1, <2>2
<1>10. kids[i] \in Children(f.tree, n) /\ kids[i] \in Parsed(f)
  BY <1>3, <1>5 DEF Range
<1> QED
  BY <1>8, <1>9, <1>10 DEF Within

LEMMA ChildWithin ==
    ASSUME NEW f \in File, NEW n \in Parsed(f), NEW c \in Children(f.tree, n)
    PROVE  c \in Parsed(f) /\ f.pos[n] < f.pos[c] /\ f.end[c] <= f.end[n]
<1> DEFINE kids == Kids(f.tree, n)
           len == Len(kids)
           Bad == {i \in DOMAIN kids : ~(f.end[kids[i]] <= f.end[n])}
           T == {len - i : i \in Bad}
<1>1. /\ kids \in Seq(Parsed(f))
      /\ \A x \in Parsed(f) : f.pos[x] \in Nat /\ f.end[x] \in Nat
      /\ kids # <<>> => f.end[n] = f.end[kids[len]] /\ f.pos[kids[1]] = f.pos[n] + 1
      /\ \A i \in DOMAIN kids : i # 1 => f.pos[kids[i]] = f.end[kids[i - 1]] + 1
      /\ \A i \in DOMAIN kids : f.pos[n] < f.pos[kids[i]]
  <2>1. Nests(f, n, kids)
    BY Nested
  <2> HIDE DEF kids
  <2> QED
    BY <2>1 DEF Nests
<1>2. Range(kids) = Children(f.tree, n)
  BY KidsAre
<1> HIDE DEF kids
<1>3. PICK j \in DOMAIN kids : c = kids[j]
  BY <1>2 DEF Range
<1>4. len \in Nat \ {0} /\ DOMAIN kids = 1 .. len /\ kids # <<>> /\ \A i \in DOMAIN kids : kids[i] \in Parsed(f)
  BY <1>1, <1>3
<1> HIDE DEF len
<1>5. Bad = {}
  <2> SUFFICES ASSUME Bad # {} PROVE FALSE
    OBVIOUS
  <2>1. T \in SUBSET Nat /\ T # {}
    BY <1>4
  <2>2. PICK t \in T : \A u \in T : t <= u
    BY <2>1, Least
  <2>3. PICK i \in Bad : t = len - i
    BY <2>2
  <2>4. i # len
    BY <1>1, <1>4, <2>3
  <2>5. i + 1 \in DOMAIN kids /\ i + 1 # 1 /\ (i + 1) - 1 = i
    BY <1>4, <2>3, <2>4
  <2>6. f.pos[kids[i + 1]] = f.end[kids[i]] + 1
    BY <1>1, <2>5
  <2>7. f.pos[kids[i + 1]] <= f.end[kids[i + 1]]
    BY <1>4, <2>5, EndAfter
  <2>8. i + 1 \notin Bad
    <3>1. i + 1 \in Bad => t <= len - (i + 1)
      BY <2>2
    <3> QED
      BY <1>4, <2>3, <3>1
  <2>9. f.end[kids[i + 1]] <= f.end[n]
    BY <2>5, <2>8
  <2>10. /\ f.end[kids[i]] \in Nat /\ f.end[kids[i + 1]] \in Nat /\ f.end[n] \in Nat
         /\ ~(f.end[kids[i]] <= f.end[n])
    BY <1>1, <1>4, <2>3, <2>5
  <2> QED
    BY <2>6, <2>7, <2>9, <2>10
<1> QED
  BY <1>1, <1>3, <1>4, <1>5

\* Subtrees are nested or apart.
LEMMA WithinEnds ==
    ASSUME NEW f \in File, NEW c \in Parsed(f), NEW n \in Parsed(f), Within(f, c, n)
    PROVE  f.end[n] <= f.end[c]
<1> DEFINE last == f.end[f.root]
           T == {last - f.pos[x] : x \in {x \in Parsed(f) : Within(f, x, n) /\ f.end[x] <= f.end[c]}}
<1>1. last \in Nat /\ \A x \in Parsed(f) : f.pos[x] \in Nat /\ f.end[x] \in Nat /\ f.pos[x] <= last
  BY Places
<1> HIDE DEF last
<1>2. T \in SUBSET Nat /\ last - f.pos[c] \in T
  BY <1>1
<1>3. PICK t \in T : \A u \in T : t <= u
  BY <1>2, Least
<1>4. PICK x \in Parsed(f) : t = last - f.pos[x] /\ Within(f, x, n) /\ f.end[x] <= f.end[c]
  BY <1>3
<1>5. CASE x = n
  BY <1>4, <1>5
<1>6. CASE x # n
  <2>1. PICK d \in Children(f.tree, x) : d \in Parsed(f) /\ Within(f, d, n)
    BY <1>4, <1>6, ChildAbove
  <2>2. f.pos[x] < f.pos[d] /\ f.end[d] <= f.end[x]
    BY <2>1, ChildWithin
  <2>3. f.end[d] <= f.end[c]
    BY <1>1, <1>4, <2>1, <2>2
  <2>4. last - f.pos[d] \in T
    BY <2>1, <2>3
  <2>5. t <= last - f.pos[d]
    BY <1>3, <2>4
  <2> QED
    BY <1>1, <1>4, <2>1, <2>2, <2>5
<1> QED
  BY <1>5, <1>6

-----------------------------------------------------------------------------
(* Where an edit shows.                                                    *)

\* What comes after an edit prints as before.
LEMMA TextLater ==
    ASSUME NEW f \in File, NEW at, NEW g, Edited(f, g, at),
           NEW c \in DOMAIN f.tree, f.pos[at] < f.pos[c]
    PROVE  Text(g, c) = Text(f.tree, c)
<1> DEFINE S == {n \in DOMAIN f.tree : f.pos[at] < f.pos[n]}
<1>1. at \in DOMAIN f.tree /\ \A n \in DOMAIN f.tree : f.pos[n] \in Nat
  BY FilesAreGrounded DEF Edited, Parsed, Grounded
<1>2. ASSUME NEW n \in S
      PROVE  /\ n # at
             /\ \A i \in DOMAIN f.tree[n].kid : f.tree[n].kid[i] \in S \cup {None}
             /\ \A i \in DOMAIN f.tree[n].list : f.tree[n].list[i] \in S
  <2>1. n # at
    BY <1>1
  <2>2. /\ \A i \in DOMAIN f.tree[n].kid :
              f.tree[n].kid[i] # None => f.tree[n].kid[i] \in DOMAIN f.tree /\ f.pos[n] < f.pos[f.tree[n].kid[i]]
        /\ \A i \in DOMAIN f.tree[n].list :
              f.tree[n].list[i] \in DOMAIN f.tree /\ f.pos[n] < f.pos[f.tree[n].list[i]]
    BY FilesAreGrounded DEF Grounded
  <2>3. \A x \in DOMAIN f.tree : f.pos[n] < f.pos[x] => x \in S
    BY <1>1
  <2> QED
    BY <2>1, <2>2, <2>3
<1>3. S \in SUBSET DOMAIN f.tree /\ c \in S
  OBVIOUS
<1> HIDE DEF S
<1> QED
  BY <1>2, <1>3, TextBelow

\* What does not contain an edit prints as before.
LEMMA TextOutside ==
    ASSUME NEW f \in File, NEW at, NEW g, Edited(f, g, at), NEW c \in Parsed(f), ~Within(f, c, at)
    PROVE  Text(g, c) = Text(f.tree, c)
<1> DEFINE S == {n \in Parsed(f) : Within(f, c, n)}
<1>1. \A n \in Parsed(f) : f.pos[n] \in Nat /\ f.end[n] \in Nat
  BY Places
<1>2. ASSUME NEW n \in S
      PROVE  /\ n # at
             /\ \A i \in DOMAIN f.tree[n].kid : f.tree[n].kid[i] \in S \cup {None}
             /\ \A i \in DOMAIN f.tree[n].list : f.tree[n].list[i] \in S
  <2>1. n \in Parsed(f) /\ Within(f, c, n) /\ n # at
    OBVIOUS
  <2>2. ASSUME NEW x \in Children(f.tree, n) PROVE x \in S
    <3>1. x \in Parsed(f) /\ f.pos[n] < f.pos[x] /\ f.end[x] <= f.end[n]
      BY <2>1, ChildWithin
    <3>2. f.pos[x] <= f.end[x] /\ f.pos[n] <= f.end[c]
      BY <2>1, <3>1, EndAfter DEF Within
    <3> QED
      <4>1. f.pos[x] <= f.end[n]
        BY <1>1, <2>1, <3>1, <3>2
      <4>2. f.end[n] <= f.end[c]
        BY <2>1, WithinEnds
      <4>3. f.pos[c] <= f.pos[x] /\ f.pos[x] <= f.end[c]
        BY <1>1, <2>1, <3>1, <4>1, <4>2 DEF Within
      <4> QED
        BY <3>1, <4>3 DEF Within
  <2>3. \A i \in DOMAIN f.tree[n].kid : f.tree[n].kid[i] \in S \cup {None}
    BY <2>2 DEF Children, Range
  <2>4. \A i \in DOMAIN f.tree[n].list : f.tree[n].list[i] \in S
    <3>1. \A i \in DOMAIN f.tree[n].list : f.tree[n].list[i] # None
      BY <2>1, FilesAreGrounded DEF Grounded, Parsed
    <3> QED
      BY <2>2, <3>1 DEF Children, Range
  <2> QED
    BY <2>1, <2>3, <2>4
<1>3. S \in SUBSET DOMAIN f.tree /\ c \in S
  <2>1. Within(f, c, c)
    BY <1>1, EndAfter DEF Within
  <2> QED
    BY <2>1 DEF Parsed
<1> HIDE DEF S
<1> QED
  BY <1>2, <1>3, TextBelow

\* Two mutants that are one program say the same wherever neither was edited above.
Free(f, at, n) == Within(f, at, n) => at = n

LEMMA SameAt ==
    ASSUME NEW f \in File, NEW at, NEW g, Edited(f, g, at), NEW bt, NEW k, Edited(f, k, bt),
           Text(g, f.root) = Text(k, f.root),
           NEW n \in Parsed(f), f.tree[n].kind # "empty", Free(f, at, n), Free(f, bt, n)
    PROVE  Text(g, n) = Text(k, n)
<1> DEFINE last == Last(f)
           X == {x \in Parsed(f) : Within(f, x, n) /\ Text(g, x) = Text(k, x)}
           T == {last - f.pos[x] : x \in X}
<1>1. /\ last \in Nat /\ Grounded(g, f.pos, last) /\ Grounded(k, f.pos, last)
      /\ DOMAIN g = DOMAIN f.tree /\ DOMAIN k = DOMAIN f.tree
  BY FilesAreGrounded DEF Edited, Elsewhere
<1>2. \A x \in Parsed(f) : x \in DOMAIN f.tree /\ f.pos[x] \in Nat /\ f.end[x] \in Nat /\ f.pos[x] <= last
  BY <1>1, Places DEF Grounded, Parsed
<1> HIDE DEF last
<1>3. f.root \in X
  BY Places DEF Within
<1>4. T \in SUBSET Nat /\ last - f.pos[f.root] \in T
  BY <1>1, <1>2, <1>3
<1>5. PICK t \in T : \A u \in T : t <= u
  BY <1>4, Least
<1>6. PICK x \in X : t = last - f.pos[x]
  BY <1>5
<1>7. CASE x = n
  BY <1>6, <1>7
<1>8. CASE x # n
  <2>1. PICK c \in Children(f.tree, x) : c \in Parsed(f) /\ Within(f, c, n)
    BY <1>6, <1>8, ChildAbove
  <2>2. f.pos[x] < f.pos[c]
    BY <1>6, <2>1, ChildWithin
  <2>3. c \notin X
    <3>1. c \in X => t <= last - f.pos[c]
      BY <1>5
    <3> QED
      BY <1>1, <1>2, <1>6, <2>1, <2>2, <3>1
  <2>4. x # at /\ x # bt /\ x \in DOMAIN f.tree
    BY <1>2, <1>6, <1>8 DEF Free
  <2>5. /\ g[x] = f.tree[x] /\ Shown(g, x) = Shown(f.tree, x)
        /\ k[x] = f.tree[x] /\ Shown(k, x) = Shown(f.tree, x)
    BY <2>4, ShownElsewhere
  <2>6. Alike(g, x, k, x)
    <3>1. x \in DOMAIN g /\ x \in DOMAIN k /\ Text(g, x) = Text(k, x)
      BY <1>1, <1>6, <2>4
    <3> QED
      BY <1>1, <3>1, TextSame
  <2>7. Text(g, c) = Text(k, c)
    <3>1. CASE \E i \in DOMAIN f.tree[x].kid : c = f.tree[x].kid[i]
      BY <2>5, <2>6, <3>1 DEF Alike
    <3>2. CASE \E i \in DOMAIN f.tree[x].list : c = f.tree[x].list[i]
      <4>1. PICK i \in DOMAIN f.tree[x].list : c = f.tree[x].list[i]
        BY <3>2
      <4>2. f.tree[c].kind # "empty"
        <5> SUFFICES ASSUME f.tree[c].kind = "empty" PROVE FALSE
          OBVIOUS
        <5>1. f.tree[c].kid = <<>> /\ f.tree[c].list = <<>>
          BY <1>2, <2>1, PartsAssumption
        <5>2. c = n
          <6>1. c # n => \E d \in Children(f.tree, c) : d \in Parsed(f) /\ Within(f, d, n)
            BY <2>1, ChildAbove
          <6> QED
            BY <5>1, <6>1 DEF Children, Range
        <5> QED
          BY <5>2
      <4>3. i \in Shown(f.tree, x)
        BY <4>1, <4>2 DEF Shown
      <4>4. PICK j \in 1 .. Cardinality(Shown(f.tree, x)) : Nth(Shown(f.tree, x), j) = i
        BY <2>4, <4>3, FilesAreGrounded, ShownIs
      <4>5. Text(g, g[x].list[Nth(Shown(g, x), j)]) = Text(k, k[x].list[Nth(Shown(k, x), j)])
        BY <2>5, <2>6, <4>4 DEF Alike
      <4> QED
        BY <2>5, <4>1, <4>4, <4>5
    <3> QED
      BY <2>1, <3>1, <3>2 DEF Children, Range
  <2> QED
    BY <2>1, <2>3, <2>7
<1> QED
  BY <1>7, <1>8

LEMMA UnaryOperand ==
    ASSUME NEW f \in File, NEW n \in DOMAIN f.tree, f.tree[n].kind = "unary"
    PROVE  LET kid == f.tree[n].kid IN
           /\ 1 \in DOMAIN kid /\ kid[1] \in DOMAIN f.tree /\ f.pos[n] < f.pos[kid[1]]
           /\ n \in Parsed(f) /\ kid[1] \in Parsed(f)
<1> DEFINE kid == f.tree[n].kid
<1>1. kid \in Seq(DOMAIN f.tree \cup {None})
  BY OperatorsAssumption
<1>2. Len(kid) = 1
  <2>1. f.tree[n].kind \in DOMAIN Arity /\ Arity[f.tree[n].kind] = 1
    BY DEF Arity
  <2>2. Len(kid) = Arity[f.tree[n].kind]
    BY <2>1, OperatorsAssumption
  <2> QED
    BY <2>1, <2>2
<1>3. kid[1] \in DOMAIN f.tree /\ f.pos[n] < f.pos[kid[1]]
  BY ValueIs DEF Operands
<1>4. n \in Parsed(f)
  <2>1. f.tree[True].kind = "ident" /\ f.tree[False].kind = "ident" /\ f.tree[Blank].kind = "empty"
    BY OperatorsAssumption
  <2> QED
    BY <2>1 DEF Parsed
<1>5. 1 \in DOMAIN kid /\ kid[1] # None
  BY <1>1, <1>2, <1>3, FilesAreGrounded DEF Grounded
<1>6. kid[1] \in Children(f.tree, n)
  BY <1>5 DEF Children, Range
<1>7. kid[1] \in Parsed(f)
  BY <1>4, <1>6, ChildWithin
<1> QED
  BY <1>3, <1>4, <1>5, <1>7

\* A stripped operand never says what the whole says, which is longer.
LEMMA StripShort ==
    ASSUME NEW f \in File, NEW at, NEW g, Edited(f, g, at), f.tree[at].kind # "unary",
           NEW x \in DOMAIN f.tree, f.tree[x].kind = "unary"
    PROVE  Text(f.tree, f.tree[x].kid[1]) # Text(g, x)
<1> DEFINE h == f.tree
           last == Last(f)
           Bad == {u \in DOMAIN h : h[u].kind = "unary" /\ Text(h, h[u].kid[1]) = Text(g, u)}
           T == {last - f.pos[u] : u \in Bad}
<1> SUFFICES ASSUME Bad # {} PROVE FALSE
  OBVIOUS
<1>1. /\ last \in Nat /\ Grounded(h, f.pos, last) /\ Grounded(g, f.pos, last) /\ DOMAIN g = DOMAIN h
  BY FilesAreGrounded DEF Edited, Elsewhere
<1>2. \A u \in DOMAIN h : f.pos[u] \in Nat /\ f.pos[u] <= last
  BY <1>1 DEF Grounded
<1> HIDE DEF last
<1>3. T \in SUBSET Nat /\ T # {}
  BY <1>1, <1>2
<1>4. PICK t \in T : \A u \in T : t <= u
  BY <1>3, Least
<1>5. PICK u \in Bad : t = last - f.pos[u]
  BY <1>4
<1> DEFINE w == h[u].kid[1]
<1>6. u \in DOMAIN h /\ h[u].kind = "unary" /\ Text(h, w) = Text(g, u)
  BY <1>5
<1>7. 1 \in DOMAIN h[u].kid /\ w \in DOMAIN h /\ f.pos[u] < f.pos[w]
  BY <1>6, UnaryOperand
<1> HIDE DEF w
<1>8. g[u] = h[u] /\ Alike(h, w, g, u)
  <2>1. u # at
    BY <1>6
  <2> QED
    BY <1>1, <1>6, <1>7, <2>1, TextSame, ShownElsewhere
<1>9. h[w].kind = "unary" /\ w # at
  BY <1>6, <1>8 DEF Alike
<1>10. Text(h, h[w].kid[1]) = Text(g, w)
  <2>1. DOMAIN h[w].kid = DOMAIN h[u].kid
    BY <1>8 DEF Alike
  <2> QED
    BY <1>7, <1>8, <2>1, Zenon DEF Alike, w
<1>11. w \in Bad
  BY <1>7, <1>9, <1>10
<1>12. t <= last - f.pos[w]
  BY <1>4, <1>11
<1> QED
  BY <1>1, <1>2, <1>5, <1>6, <1>7, <1>12

-----------------------------------------------------------------------------
(* What the operators edit.                                                *)

\* Another token for a node.
Swaps(f, op, m) ==
    LET at == f.tree[m.at] IN
    /\ m = Edit(m.at, "tok", 0, at.tok, m.to, m.at)
    /\ \/ op = "literal/number" /\ at.kind = "lit" /\ m.to # at.tok
       \/ /\ op = "literal/boolean" /\ at.kind = "ident"
          /\ \/ at.tok = "true" /\ m.to = "false"
             \/ at.tok = "false" /\ m.to = "true"
       \/ /\ op = "identifier/constswap" /\ m.at \in DOMAIN f.uses /\ f.uses[m.at] \in PackageConst
          /\ m.to \in PackageConst \ {f.uses[m.at]}
       \/ /\ op = "identifier/localconstswap" /\ m.at \in DOMAIN f.uses
          /\ Object[f.uses[m.at]].is = "local" /\ m.to \in PackageConst
       \/ op = "operator/assignment" /\ at.kind = "assign" /\ m.to # at.tok
       \/ op = "operator/inc_dec" /\ at.kind = "incdec" /\ m.to # at.tok
       \/ /\ op = "operator/binary" /\ at.kind = "binary" /\ at.tok \in DOMAIN BinarySwaps
          /\ m.to = BinarySwaps[at.tok]
       \/ /\ op = "operator/boundary" /\ at.kind = "binary" /\ at.tok \in Orders
          /\ m.to = BoundarySwaps[at.tok]

\* A truth value for an operand.
Decides(f, op, m) ==
    LET at == f.tree[m.at] IN
    /\ op = "expression/remove" /\ at.kind = "binary" /\ at.tok \in Truths /\ m.i \in 1 .. 2
    /\ m = Edit(m.at, "kid", m.i, at.kid[m.i], Identity(at.tok), m.at)

Bares(f, op, m) ==
    op = "operator/unary" /\ m.i \in Stripped(f.tree, m.at) /\ m = Strips(f.tree, m.at)[m.i]

Drops(f, op, m) ==
    op = "statement/remover" /\ m.i \in Loses(f.tree, m.at) /\ m = Removals(f.tree, m.at)[m.i]

Clears(f, op, m) ==
    LET at == f.tree[m.at] IN
    /\ m = Edit(m.at, "list", 0, at.list, <<>>, m.at)
    /\ \/ op = "control/case" /\ at.kind = "case"
       \/ /\ op \in {"control/if", "control/else"} /\ at.kind = "block"
          /\ \E n \in Parsed(f) : f.tree[n].kind = "if" /\ m.at = f.tree[n].kid[Part(op)]

Edits(f, op, m) ==
    /\ m.at \in Parsed(f)
    /\ Swaps(f, op, m) \/ Decides(f, op, m) \/ Bares(f, op, m) \/ Drops(f, op, m) \/ Clears(f, op, m)

\* The node for which it is offered.
OfferedFor(f, op, m, n) ==
    IF op = "identifier/localconstswap"
      THEN f.tree[n].kind = "binary" /\ \E i \in 1 .. 2 : m.at = f.tree[n].kid[i]
    ELSE IF op \in {"control/if", "control/else"}
      THEN f.tree[n].kind = "if" /\ m.at = f.tree[n].kid[Part(op)]
    ELSE m.at = n

Fine(f, op, n, s) ==
    /\ \A k \in DOMAIN s : Edits(f, op, s[k]) /\ OfferedFor(f, op, s[k], n)
    /\ \A k, l \in DOMAIN s : s[k] = s[l] => k = l

LEMMA FineNone == ASSUME NEW f, NEW op, NEW n PROVE Fine(f, op, n, <<>>)
BY DEF Fine

LEMMA FineOne ==
    ASSUME NEW f, NEW op, NEW n, NEW m, Edits(f, op, m), OfferedFor(f, op, m, n)
    PROVE  Fine(f, op, n, <<m>>)
BY DEF Fine

\* No table has a token that is to become itself.
LEMMA TableMoves ==
    ASSUME NEW pairs, \A p, q \in pairs : p[1] = q[1] => p = q, \A p \in pairs : p[1] # p[2],
           NEW t \in DOMAIN Table(pairs)
    PROVE  Table(pairs)[t] # t
<1>1. PICK p \in pairs : t = p[1]
  BY DEF Table
<1>2. Table(pairs)[t] = p[2]
  BY <1>1, TableIs
<1> QED
  BY <1>1, <1>2

LEMMA SwapsMove ==
    /\ \A t \in DOMAIN AssignmentSwaps : AssignmentSwaps[t] # t
    /\ \A t \in DOMAIN BinarySwaps : BinarySwaps[t] # t
    /\ \A t \in DOMAIN IncDecSwaps : IncDecSwaps[t] # t
    /\ \A t \in Orders : BoundarySwaps[t] # t /\ BoundarySwaps[t] # BinarySwaps[t]
<1>1. ASSUME NEW pairs \in {AssignmentPairs, BinaryPairs, IncDecPairs},
             NEW t \in DOMAIN Table(pairs)
      PROVE  Table(pairs)[t] # t
  <2>1. \A p, q \in pairs : p[1] = q[1] => p = q
    BY SwapsAgree
  <2>2. \A p \in AssignmentPairs : p[1] # p[2]
    BY DEF AssignmentPairs, Pairs
  <2>3. \A p \in BinaryPairs : p[1] # p[2]
    BY DEF BinaryPairs, Pairs
  <2>4. \A p \in IncDecPairs : p[1] # p[2]
    BY DEF IncDecPairs, Pairs
  <2>5. \A p \in pairs : p[1] # p[2]
    BY <2>2, <2>3, <2>4
  <2> QED
    BY <2>1, <2>5, TableMoves
<1>2. \A t \in Orders : BoundarySwaps[t] # t /\ BoundarySwaps[t] # BinarySwaps[t]
  BY BoundarySwapsAre, BinarySwapsAre DEF Orders
<1> QED
  BY <1>1, <1>2 DEF AssignmentSwaps, BinarySwaps, IncDecSwaps

LEMMA FineToken ==
    ASSUME NEW f, NEW n \in Parsed(f), NEW kind, NEW table,
           NEW op, op \notin Typed, op \notin {"control/if", "control/else"},
           f.tree[n].kind = kind /\ f.tree[n].tok \in DOMAIN table =>
               Swaps(f, op, Edit(n, "tok", 0, f.tree[n].tok, table[f.tree[n].tok], n))
    PROVE  Fine(f, op, n, SwapToken(f.tree, n, kind, table))
<1> DEFINE m == Edit(n, "tok", 0, f.tree[n].tok, table[f.tree[n].tok], n)
<1>1. CASE f.tree[n].kind = kind /\ f.tree[n].tok \in DOMAIN table
  <2>1. m.at = n
    BY DEF Edit
  <2>2. SwapToken(f.tree, n, kind, table) = <<m>>
    BY <1>1 DEF SwapToken
  <2>3. Swaps(f, op, m)
    BY <1>1
  <2> HIDE DEF m
  <2>4. Edits(f, op, m) /\ OfferedFor(f, op, m, n)
    BY <2>1, <2>3 DEF Edits, OfferedFor, Typed
  <2> QED
    BY <2>2, <2>4, FineOne
<1>2. CASE ~(f.tree[n].kind = kind /\ f.tree[n].tok \in DOMAIN table)
  <2>1. SwapToken(f.tree, n, kind, table) = <<>>
    BY <1>2 DEF SwapToken
  <2> QED
    BY <2>1, FineNone
<1> QED
  BY <1>1, <1>2

LEMMA FineTokens ==
    ASSUME NEW f \in File, NEW n \in Parsed(f)
    PROVE  /\ Fine(f, "operator/assignment", n, SwapToken(f.tree, n, "assign", AssignmentSwaps))
           /\ Fine(f, "operator/binary", n, SwapToken(f.tree, n, "binary", BinarySwaps))
           /\ Fine(f, "operator/boundary", n, SwapToken(f.tree, n, "binary", BoundarySwaps))
           /\ Fine(f, "operator/inc_dec", n, SwapToken(f.tree, n, "incdec", IncDecSwaps))
           /\ Fine(f, "literal/boolean", n, Flip(f.tree, n))
<1> DEFINE tok == f.tree[n].tok
           M(to) == Edit(n, "tok", 0, tok, to, n)
<1>0. \A to : M(to).at = n /\ M(to).to = to
  BY DEF Edit
<1>1. Fine(f, "operator/assignment", n, SwapToken(f.tree, n, "assign", AssignmentSwaps))
  <2>1. f.tree[n].kind = "assign" /\ tok \in DOMAIN AssignmentSwaps =>
            Swaps(f, "operator/assignment", M(AssignmentSwaps[tok]))
    BY <1>0, SwapsMove DEF Swaps
  <2> QED
    BY <2>1, FineToken DEF Typed
<1>2. Fine(f, "operator/binary", n, SwapToken(f.tree, n, "binary", BinarySwaps))
  <2>1. f.tree[n].kind = "binary" /\ tok \in DOMAIN BinarySwaps =>
            Swaps(f, "operator/binary", M(BinarySwaps[tok]))
    BY <1>0 DEF Swaps
  <2> QED
    BY <2>1, FineToken DEF Typed
<1>3. Fine(f, "operator/boundary", n, SwapToken(f.tree, n, "binary", BoundarySwaps))
  <2>1. f.tree[n].kind = "binary" /\ tok \in DOMAIN BoundarySwaps =>
            Swaps(f, "operator/boundary", M(BoundarySwaps[tok]))
    BY <1>0, BoundarySwapsAre, ZenonT(60) DEF Swaps
  <2> QED
    BY <2>1, FineToken DEF Typed
<1>4. Fine(f, "operator/inc_dec", n, SwapToken(f.tree, n, "incdec", IncDecSwaps))
  <2>1. f.tree[n].kind = "incdec" /\ tok \in DOMAIN IncDecSwaps =>
            Swaps(f, "operator/inc_dec", M(IncDecSwaps[tok]))
    BY <1>0, SwapsMove DEF Swaps
  <2> QED
    BY <2>1, FineToken DEF Typed
<1>5. Fine(f, "literal/boolean", n, Flip(f.tree, n))
  <2> DEFINE table == [true |-> "false", false |-> "true"]
  <2>1. ASSUME f.tree[n].kind = "ident", tok \in DOMAIN table
        PROVE  Swaps(f, "literal/boolean", M(table[tok]))
    <3>1. (tok = "true" /\ table[tok] = "false") \/ (tok = "false" /\ table[tok] = "true")
      BY <2>1
    <3> HIDE DEF table
    <3> DEFINE to == table[tok]
    <3>2. M(to) = Edit(M(to).at, "tok", 0, f.tree[M(to).at].tok, M(to).to, M(to).at)
      BY <1>0
    <3> HIDE DEF to, M
    <3>3. Swaps(f, "literal/boolean", M(to))
      BY <1>0, <2>1, <3>1, <3>2 DEF Swaps, to
    <3> QED
      BY <3>3 DEF to
  <2> HIDE DEF table
  <2>2. Fine(f, "literal/boolean", n, SwapToken(f.tree, n, "ident", table))
    BY <2>1, FineToken DEF Typed
  <2> QED
    BY <2>2 DEF Flip, table
<1> QED
  BY <1>1, <1>2, <1>3, <1>4, <1>5

LEMMA FineShift ==
    ASSUME NEW f \in File, NEW n \in Parsed(f)
    PROVE  Fine(f, "literal/number", n, Shift(f, f.tree, n))
<1> DEFINE tok == f.tree[n].tok
           v == tok.size
           d == Delta(f, v)
           s == Shift(f, f.tree, n)
<1>1. CASE f.tree[n].kind # "lit" \/ tok.shape \notin {"int", "float"}
  <2>1. s = <<>>
    BY <1>1 DEF Shift
  <2> QED
    BY <2>1, FineNone
<1>2. CASE f.tree[n].kind = "lit" /\ tok.shape \in {"int", "float"}
  <2>1. n \in DOMAIN f.tree
    BY DEF Parsed
  <2>2. \A k \in DOMAIN s : Moves(f, s[k].from, s[k].to)
    BY <2>1, LiteralMeans
  <2>3. /\ v \in Nat /\ f.one \in Powers /\ f.one >= 1000 /\ f.one \in Int
        /\ tok.shape = "float" => v % 1000 = 0 /\ Enough(v + d) # {}
    BY <1>2, <2>1, LiteralTyped
  <2>4. PICK u, w : /\ s = [k \in 1 .. 2 |-> Edit(n, "tok", 0, tok, <<u, w>>[k], n)]
                    /\ u.size # w.size
    <3>1. CASE tok.shape = "int"
      <4>1. s = [k \in 1 .. 2 |-> Edit(n, "tok", 0, tok, <<Literal("int", v + f.one), Literal("int", v - f.one)>>[k], n)]
        BY <1>2, <3>1 DEF Shift
      <4>2. v + f.one # v - f.one
        <5> HIDE DEF v
        <5> QED
          BY <2>3
      <4>3. Literal("int", v + f.one).size # Literal("int", v - f.one).size
        BY <4>2 DEF Literal
      <4> QED
        BY <4>1, <4>3
    <3>2. CASE tok.shape = "float"
      <4>1. s = [k \in 1 .. 2 |-> Edit(n, "tok", 0, tok, <<Rendered(f, v + d), Rendered(f, v - d)>>[k], n)]
        BY <1>2, <3>2 DEF Shift
      <4>2. LET up == Rendered(f, v + d)
                down == Rendered(f, v - d) IN
            /\ d \in Nat /\ d > 0 /\ up.size \in Int /\ down.size \in Int
            /\ 100 * ((v + d) - up.size) <= d /\ 100 * (down.size - (v - d)) <= d
        BY <2>3, <3>2, ShiftedFloat
      <4>3. Rendered(f, v + d).size # Rendered(f, v - d).size
        <5> DEFINE a == Rendered(f, v + d).size
                   b == Rendered(f, v - d).size
        <5>1. /\ d \in Nat /\ d > 0 /\ a \in Int /\ b \in Int
              /\ 100 * ((v + d) - a) <= d /\ 100 * (b - (v - d)) <= d
          BY <4>2
        <5> HIDE DEF a, b, d, v
        <5>2. a # b
          BY <2>3, <5>1
        <5> QED
          BY <5>2 DEF a, b
      <4> QED
        BY <4>1, <4>3
    <3> QED
      BY <1>2, <3>1, <3>2
  <2> HIDE DEF s, d
  <2>5. DOMAIN s = 1 .. 2 /\ s[1] = Edit(n, "tok", 0, tok, u, n) /\ s[2] = Edit(n, "tok", 0, tok, w, n)
    BY <2>4
  <2>6. \A k \in DOMAIN s : k = 1 \/ k = 2
    BY <2>5
  <2>7. /\ \A k \in DOMAIN s : s[k].at = n /\ s[k].from = tok /\ s[k] = Edit(n, "tok", 0, tok, s[k].to, n)
        /\ s[1].to = u /\ s[2].to = w
    BY <2>5, <2>6 DEF Edit
  <2>8. ASSUME NEW k \in DOMAIN s PROVE s[k].to # tok
    <3>1. Moves(f, tok, s[k].to)
      BY <2>2, <2>7
    <3> SUFFICES ASSUME s[k].to = tok PROVE FALSE
      OBVIOUS
    <3>2. Moves(f, tok, tok)
      BY <3>1
    <3>3. v - v # 0
      <4>1. tok.shape = "int" => v - v \in {-f.one, f.one}
        BY <3>2 DEF Moves
      <4>2. tok.shape # "int" => v - v # 0
        BY <3>2 DEF Moves
      <4> HIDE DEF v
      <4>3. CASE tok.shape = "int"
        BY <2>3, <4>1, <4>3
      <4> QED
        BY <4>2, <4>3
    <3> HIDE DEF v
    <3> QED
      BY <2>3, <3>3
  <2>9. ASSUME NEW k \in DOMAIN s
         PROVE  Edits(f, "literal/number", s[k]) /\ OfferedFor(f, "literal/number", s[k], n)
    <3>1. Swaps(f, "literal/number", s[k])
      BY <1>2, <2>7, <2>8 DEF Swaps
    <3> QED
      BY <2>7, <3>1 DEF Edits, OfferedFor
  <2>10. s[1] # s[2]
    BY <2>4, <2>7
  <2> QED
    BY <2>6, <2>9, <2>10 DEF Fine, s
<1> QED
  BY <1>1, <1>2

LEMMA FineDecides ==
    ASSUME NEW f \in File, NEW n \in Parsed(f)
    PROVE  Fine(f, "expression/remove", n, RemoveOperand(f.tree, n))
<1> DEFINE at == f.tree[n]
           s == RemoveOperand(f.tree, n)
<1>1. CASE at.kind = "binary" /\ at.tok \in Truths
  <2>1. s = [i \in 1 .. 2 |-> Edit(n, "kid", i, at.kid[i], Identity(at.tok), n)]
    BY <1>1 DEF RemoveOperand
  <2> HIDE DEF s
  <2>2. \A i \in DOMAIN s : /\ i \in 1 .. 2 /\ s[i] = Edit(n, "kid", i, at.kid[i], Identity(at.tok), n)
                            /\ s[i].at = n /\ s[i].i = i
    BY <2>1 DEF Edit
  <2>3. \A i \in DOMAIN s : Decides(f, "expression/remove", s[i])
    BY <1>1, <2>2 DEF Decides
  <2>4. \A i \in DOMAIN s : Edits(f, "expression/remove", s[i]) /\ OfferedFor(f, "expression/remove", s[i], n)
    BY <2>2, <2>3 DEF Edits, OfferedFor
  <2>5. \A i, j \in DOMAIN s : s[i] = s[j] => i = j
    BY <2>2
  <2>6. Fine(f, "expression/remove", n, s)
    BY <2>4, <2>5 DEF Fine
  <2> QED
    BY <2>6 DEF s
<1>2. CASE ~(at.kind = "binary" /\ at.tok \in Truths)
  <2>1. s = <<>>
    BY <1>2 DEF RemoveOperand
  <2> QED
    BY <2>1, FineNone
<1> QED
  BY <1>1, <1>2

LEMMA FineLists ==
    ASSUME NEW f, NEW op, NEW n, NEW s, NEW e, Lists(s, e),
           \A i \in DOMAIN e : Edits(f, op, e[i]) /\ OfferedFor(f, op, e[i], n),
           \A i, j \in DOMAIN e : e[i] = e[j] => i = j
    PROVE  Fine(f, op, n, s)
BY DEF Fine, Lists

LEMMA FineStrip ==
    ASSUME NEW f \in File, NEW n \in Parsed(f)
    PROVE  Fine(f, "operator/unary", n, Strip(f.tree, n))
<1> DEFINE e == Strips(f.tree, n)
<1>1. \A i \in DOMAIN e : i \in Stripped(f.tree, n) /\ e[i].at = n /\ e[i].i = i
  BY DEF Strips, Edit
<1>2. \A i \in DOMAIN e : Bares(f, "operator/unary", e[i])
  BY <1>1 DEF Bares
<1>3. n \in DOMAIN f.tree
  BY DEF Parsed
<1>4. Lists(Strip(f.tree, n), e)
  BY <1>3, StripLists
<1> HIDE DEF e
<1>5. \A i \in DOMAIN e : Edits(f, "operator/unary", e[i]) /\ OfferedFor(f, "operator/unary", e[i], n)
  BY <1>1, <1>2 DEF Edits, OfferedFor
<1>6. \A i, j \in DOMAIN e : e[i] = e[j] => i = j
  BY <1>1
<1> QED
  BY <1>4, <1>5, <1>6, FineLists

LEMMA FineDrop ==
    ASSUME NEW f \in File, NEW n \in Parsed(f)
    PROVE  Fine(f, "statement/remover", n, RemoveStatements(f.tree, n))
<1> DEFINE e == Removals(f.tree, n)
<1>1. \A i \in DOMAIN e : i \in Loses(f.tree, n) /\ e[i].at = n /\ e[i].i = i
  BY DEF Removals, Edit
<1>2. \A i \in DOMAIN e : Drops(f, "statement/remover", e[i])
  BY <1>1 DEF Drops
<1>3. n \in DOMAIN f.tree
  BY DEF Parsed
<1>4. Lists(RemoveStatements(f.tree, n), e)
  BY <1>3, RemoveLists
<1> HIDE DEF e
<1>5. \A i \in DOMAIN e : Edits(f, "statement/remover", e[i]) /\ OfferedFor(f, "statement/remover", e[i], n)
  BY <1>1, <1>2 DEF Edits, OfferedFor
<1>6. \A i, j \in DOMAIN e : e[i] = e[j] => i = j
  BY <1>1
<1> QED
  BY <1>4, <1>5, <1>6, FineLists

LEMMA FineClear ==
    ASSUME NEW f \in File, NEW n \in Parsed(f)
    PROVE  /\ Fine(f, "control/case", n, ClearCase(f.tree, n))
           /\ Fine(f, "control/if", n, ClearIf(f.tree, n))
           /\ Fine(f, "control/else", n, ClearElse(f.tree, n))
<1> DEFINE h == f.tree
           M(b) == Edit(b, "list", 0, h[b].list, <<>>, b)
<1>0. \A b : M(b).at = b
  BY DEF Edit
<1>1. Fine(f, "control/case", n, ClearCase(h, n))
  <2>1. CASE ClearCase(h, n) = <<>>
    BY <2>1, FineNone
  <2>2. CASE ClearCase(h, n) # <<>>
    <3>1. h[n].kind = "case" /\ ClearCase(h, n) = <<M(n)>>
      BY <2>2 DEF ClearCase, Clear
    <3>2. Edits(f, "control/case", M(n)) /\ OfferedFor(f, "control/case", M(n), n)
      BY <1>0, <3>1 DEF Edits, Clears, OfferedFor
    <3> QED
      BY <3>1, <3>2, FineOne
  <2> QED
    BY <2>1, <2>2
<1>2. ASSUME NEW op \in {"control/if", "control/else"}
      PROVE  Fine(f, op, n, IF h[n].kind = "if" THEN Clear(h, h[n].kid[Part(op)]) ELSE <<>>)
  <2> DEFINE b == h[n].kid[Part(op)]
             s == IF h[n].kind = "if" THEN Clear(h, b) ELSE <<>>
  <2>1. CASE s = <<>>
    BY <2>1, FineNone
  <2>2. CASE s # <<>>
    <3>1. h[n].kind = "if" /\ b # None /\ h[b].kind \in {"block", "case"} /\ s = <<M(b)>>
      BY <2>2, Zenon DEF Clear
    <3>2. n \in DOMAIN h
      BY DEF Parsed
    <3>3. h[b].kind = "block"
      <4>1. /\ h[h[n].kid[2]].kind = "block"
            /\ h[n].kid[3] # None => h[h[n].kid[3]].kind \in {"block", "if"}
        BY <3>1, <3>2, PartsAssumption, Zenon
      <4> QED
        BY <3>1, <4>1 DEF Part
    <3>4. b \in Parsed(f)
      <4>1. Part(op) \in DOMAIN h[n].kid
        BY <3>1, <3>2, IfParts DEF Part
      <4>2. b \in Children(h, n)
        BY <3>1, <4>1 DEF Children, Range
      <4> QED
        BY <4>2, ChildWithin
    <3> HIDE DEF b
    <3>5. b = h[n].kid[Part(op)]
      BY DEF b
    <3>6. Edits(f, op, M(b)) /\ OfferedFor(f, op, M(b), n)
      BY <1>0, <3>1, <3>3, <3>4, <3>5, Zenon DEF Edits, Clears, OfferedFor
    <3> HIDE DEF M, s
    <3>7. Fine(f, op, n, s)
      BY <3>1, <3>6, FineOne
    <3> QED
      BY <3>7 DEF s, b
  <2> QED
    BY <2>1, <2>2
<1>3. Fine(f, "control/if", n, ClearIf(h, n))
  BY <1>2 DEF ClearIf, Part
<1>4. Fine(f, "control/else", n, ClearElse(h, n))
  BY <1>2 DEF ClearElse, Part
<1> QED
  BY <1>1, <1>3, <1>4

\* Renames of one identifier, by the constants of a set.
Renamed(names) == {i \in DOMAIN ByName : ByName[i] \in names}
Renames(h, n, names) == [i \in Renamed(names) |-> Edit(n, "tok", 0, h[n].tok, ByName[i], n)]

LEMMA RenameLists ==
    ASSUME NEW h, NEW n, NEW names
    PROVE  Lists(Rename(h, n, names), Renames(h, n, names))
<1> DEFINE I == Renamed(names)
           e == Renames(h, n, names)
           s == Rename(h, n, names)
<1>1. Len(ByName) \in Nat /\ I \in SUBSET (1 .. Len(ByName))
  BY OperatorsAssumption DEF Renamed
<1>2. DOMAIN e = I /\ \A i \in I : e[i] = Edit(n, "tok", 0, h[n].tok, ByName[i], n)
  BY DEF Renames
<1>3. s = [k \in 1 .. Cardinality(I) |-> Edit(n, "tok", 0, h[n].tok, ByName[Nth(I, k)], n)]
  BY DEF Rename, Each, Renamed
<1> HIDE DEF I, e, s
<1>4. \A k \in 1 .. Cardinality(I) : Nth(I, k) \in I
  BY <1>1, Indexed
<1>5. s = [k \in 1 .. Cardinality(I) |-> e[Nth(I, k)]]
  BY <1>2, <1>3, <1>4
<1>6. Lists(s, e)
  BY <1>1, <1>2, <1>5, EachLists
<1> QED
  BY <1>6 DEF s, e

LEMMA FineRename ==
    ASSUME NEW f, NEW op, NEW n, NEW x \in Parsed(f), NEW names,
           \A c \in names \cap PackageConst : Swaps(f, op, Edit(x, "tok", 0, f.tree[x].tok, c, x)),
           \A m : m.at = x => OfferedFor(f, op, m, n)
    PROVE  Fine(f, op, n, Rename(f.tree, x, names))
<1> DEFINE e == Renames(f.tree, x, names)
<1>1. \A i \in DOMAIN e : /\ i \in DOMAIN ByName /\ ByName[i] \in names \cap PackageConst
                          /\ e[i] = Edit(x, "tok", 0, f.tree[x].tok, ByName[i], x)
                          /\ e[i].at = x /\ e[i].to = ByName[i]
  BY DEF Renames, Renamed, Edit, PackageConst, Range
<1>2. Lists(Rename(f.tree, x, names), e)
  BY RenameLists
<1> HIDE DEF e
<1>3. \A i \in DOMAIN e : Edits(f, op, e[i]) /\ OfferedFor(f, op, e[i], n)
  BY <1>1 DEF Edits
<1>4. \A i, j \in DOMAIN e : e[i] = e[j] => i = j
  BY <1>1, NamesAssumption
<1> QED
  BY <1>2, <1>3, <1>4, FineLists

LEMMA FineConstSwap ==
    ASSUME NEW f \in File, NEW n \in Parsed(f)
    PROVE  Fine(f, "identifier/constswap", n, ConstSwap(f, f.tree, n))
<1>1. CASE Uses(f, n) /\ f.uses[n] \in PackageConst
  <2> DEFINE names == Siblings(f.uses[n])
  <2>1. ConstSwap(f, f.tree, n) = Rename(f.tree, n, names)
    BY <1>1 DEF ConstSwap
  <2>2. ASSUME NEW c \in names \cap PackageConst
        PROVE  Swaps(f, "identifier/constswap", Edit(n, "tok", 0, f.tree[n].tok, c, n))
    <3> DEFINE m == Edit(n, "tok", 0, f.tree[n].tok, c, n)
    <3>1. m.at = n /\ m.to = c
      BY DEF Edit
    <3>2. c \in PackageConst \ {f.uses[n]}
      BY DEF Siblings
    <3> QED
      BY <1>1, <3>1, <3>2 DEF Swaps, Uses
  <2>3. \A m : m.at = n => OfferedFor(f, "identifier/constswap", m, n)
    BY DEF OfferedFor
  <2> HIDE DEF names
  <2> QED
    BY <2>1, <2>2, <2>3, FineRename
<1>2. CASE ~(Uses(f, n) /\ f.uses[n] \in PackageConst)
  <2>1. ConstSwap(f, f.tree, n) = <<>>
    BY <1>2 DEF ConstSwap
  <2> QED
    BY <2>1, FineNone
<1> QED
  BY <1>1, <1>2

LEMMA FineBoth ==
    ASSUME NEW f, NEW op, NEW n, NEW s, IsSeq(s), Fine(f, op, n, s),
           NEW t, IsSeq(t), Fine(f, op, n, t),
           \A k \in DOMAIN s : \A l \in DOMAIN t : s[k] # t[l]
    PROVE  Fine(f, op, n, s \o t)
<1> DEFINE S == {s[k] : k \in DOMAIN s} \cup {t[k] : k \in DOMAIN t}
           u == s \o t
<1>1. s \in Seq(S) /\ t \in Seq(S)
  BY DEF IsSeq
<1> HIDE DEF S
<1>2. /\ Len(s) \in Nat /\ Len(t) \in Nat /\ DOMAIN s = 1 .. Len(s) /\ DOMAIN t = 1 .. Len(t)
      /\ DOMAIN u = 1 .. Len(s) + Len(t)
      /\ \A k \in DOMAIN u : u[k] = IF k <= Len(s) THEN s[k] ELSE t[k - Len(s)]
  BY <1>1
<1> HIDE DEF u
<1>3. ASSUME NEW k \in DOMAIN u
      PROVE  \/ k \in DOMAIN s /\ u[k] = s[k]
             \/ k - Len(s) \in DOMAIN t /\ u[k] = t[k - Len(s)]
  <2>1. CASE k <= Len(s)
    BY <1>2, <2>1
  <2>2. CASE k > Len(s)
    <3>1. k - Len(s) \in DOMAIN t
      BY <1>2, <2>2
    <3> QED
      BY <1>2, <2>2, <3>1
  <2> QED
    BY <1>2, <2>1, <2>2
<1>4. \A k \in DOMAIN u : Edits(f, op, u[k]) /\ OfferedFor(f, op, u[k], n)
  BY <1>3 DEF Fine
<1>5. ASSUME NEW k \in DOMAIN u, NEW l \in DOMAIN u, u[k] = u[l] PROVE k = l
  <2>1. CASE k \in DOMAIN s /\ u[k] = s[k] /\ l \in DOMAIN s /\ u[l] = s[l]
    BY <1>5, <2>1 DEF Fine
  <2>2. CASE k - Len(s) \in DOMAIN t /\ u[k] = t[k - Len(s)] /\ l - Len(s) \in DOMAIN t /\ u[l] = t[l - Len(s)]
    <3>1. k - Len(s) = l - Len(s)
      BY <1>5, <2>2 DEF Fine
    <3> QED
      BY <1>2, <3>1
  <2> QED
    BY <1>3, <1>5, <2>1, <2>2
<1>6. Fine(f, op, n, u)
  BY <1>4, <1>5 DEF Fine
<1> QED
  BY <1>6 DEF u

LEMMA FineLocal ==
    ASSUME NEW f \in File, NEW n \in Parsed(f)
    PROVE  Fine(f, "identifier/localconstswap", n, LocalConstSwap(f, f.tree, n))
<1> DEFINE op == "identifier/localconstswap"
           kid == f.tree[n].kid
           R(i) == Rename(f.tree, kid[i], Candidates(f, kid[i]))
<1>1. CASE f.tree[n].kind = "binary" /\ f.tree[n].tok \in Compares
  <2>0. n \in DOMAIN f.tree
    BY DEF Parsed
  <2>1. DOMAIN kid = 1 .. 2 /\ \A i \in 1 .. 2 : kid[i] \in DOMAIN f.tree
    BY <1>1, <2>0, BinaryOperands
  <2>2. kid[1] # kid[2]
    BY <2>0, <2>1, OnePlace, FilesAreGrounded DEF Grounded
  <2>3. ASSUME NEW i \in 1 .. 2 PROVE kid[i] \in Parsed(f)
    <3>1. kid[i] \in Children(f.tree, n)
      BY <2>1, FilesAreGrounded DEF Children, Range, Grounded
    <3> QED
      BY <3>1, ChildWithin
  <2>4. ASSUME NEW i \in 1 .. 2
        PROVE  IsSeq(R(i)) /\ Fine(f, op, n, R(i)) /\ \A k \in DOMAIN R(i) : R(i)[k].at = kid[i]
    <3> DEFINE x == kid[i]
               names == Candidates(f, x)
    <3>1. x \in Parsed(f)
      BY <2>3
    <3>2. \A m : m.at = x => OfferedFor(f, op, m, n)
      BY <1>1 DEF OfferedFor
    <3> HIDE DEF x
    <3>3. ASSUME NEW c \in names \cap PackageConst
          PROVE  Swaps(f, op, Edit(x, "tok", 0, f.tree[x].tok, c, x))
      <4> DEFINE m == Edit(x, "tok", 0, f.tree[x].tok, c, x)
      <4>1. m.at = x /\ m.to = c
        BY DEF Edit
      <4>2. x \in DOMAIN f.uses /\ Object[f.uses[x]].is = "local"
        BY DEF Candidates, LocalVar, Uses
      <4> QED
        BY <4>1, <4>2 DEF Swaps
    <3> HIDE DEF names
    <3>4. Fine(f, op, n, Rename(f.tree, x, names))
      BY <3>1, <3>2, <3>3, FineRename
    <3>5. /\ Offering(f.tree, Rename(f.tree, x, names))
          /\ \A k \in DOMAIN Rename(f.tree, x, names) : Rename(f.tree, x, names)[k].at = x
      BY RenameOffers
    <3> QED
      BY <3>4, <3>5 DEF Offering, x, names
  <2>6. LocalConstSwap(f, f.tree, n) = R(1) \o R(2)
    BY <1>1 DEF LocalConstSwap
  <2> HIDE DEF R
  <2> DEFINE s == R(1)
             t == R(2)
  <2>5. /\ IsSeq(s) /\ Fine(f, op, n, s) /\ \A k \in DOMAIN s : s[k].at = kid[1]
        /\ IsSeq(t) /\ Fine(f, op, n, t) /\ \A k \in DOMAIN t : t[k].at = kid[2]
    <3>1. 1 \in 1 .. 2 /\ 2 \in 1 .. 2
      OBVIOUS
    <3> QED
      BY <2>4, <3>1
  <2> HIDE DEF s, t
  <2>7. \A k \in DOMAIN s : \A l \in DOMAIN t : s[k] # t[l]
    BY <2>2, <2>5
  <2>8. Fine(f, op, n, s \o t)
    BY <2>5, <2>7, FineBoth
  <2> QED
    BY <2>6, <2>8 DEF s, t
<1>2. CASE ~(f.tree[n].kind = "binary" /\ f.tree[n].tok \in Compares)
  <2>1. LocalConstSwap(f, f.tree, n) = <<>>
    BY <1>2 DEF LocalConstSwap
  <2> QED
    BY <2>1, FineNone
<1> QED
  BY <1>1, <1>2

\* Whichever operator, what it offers is one of the edits, each once.
LEMMA MutateFine ==
    ASSUME NEW f \in File, NEW op \in Range(All), NEW n \in Parsed(f)
    PROVE  Fine(f, op, n, Mutate(f, f.tree, op, n))
<1> DEFINE h == f.tree
<1>1. op \in {All[i] : i \in DOMAIN All} /\ DOMAIN All = 1 .. 14
  BY DEF Range, All
<1> QED
  BY <1>1, FineTokens, FineShift, FineDecides, FineStrip, FineDrop, FineClear, FineConstSwap, FineLocal
  DEF Mutate, All

LEMMA OneSite ==
    ASSUME NEW f \in File, NEW op, NEW m, m.at # None, NEW n \in Parsed(f), NEW q \in Parsed(f),
           OfferedFor(f, op, m, n), OfferedFor(f, op, m, q)
    PROVE  n = q
<1>0. n \in DOMAIN f.tree /\ q \in DOMAIN f.tree
  BY DEF Parsed
<1> DEFINE P == f.tree[n].kid
           Q == f.tree[q].kid
<1>4. \A i \in DOMAIN P : \A j \in DOMAIN Q : P[i] = Q[j] /\ P[i] # None => n = q /\ i = j
  BY <1>0, OnePlace
<1> HIDE DEF P, Q
<1>1. CASE op = "identifier/localconstswap"
  <2>1. /\ f.tree[n].kind = "binary" /\ f.tree[q].kind = "binary"
        /\ \E i, j \in 1 .. 2 : m.at = P[i] /\ m.at = Q[j]
    BY <1>1 DEF OfferedFor, P, Q
  <2>2. DOMAIN P = 1 .. 2 /\ DOMAIN Q = 1 .. 2
    BY <1>0, <2>1, BinaryOperands DEF P, Q
  <2> QED
    BY <1>4, <2>1, <2>2
<1>2. CASE op \in {"control/if", "control/else"}
  <2>1. /\ f.tree[n].kind = "if" /\ f.tree[q].kind = "if"
        /\ m.at = P[Part(op)] /\ m.at = Q[Part(op)]
    BY <1>2 DEF OfferedFor, P, Q
  <2>2. Part(op) \in DOMAIN P /\ Part(op) \in DOMAIN Q
    BY <1>0, <1>2, <2>1, IfParts DEF Part, P, Q
  <2> QED
    BY <1>4, <2>1, <2>2
<1>3. CASE op \notin {"identifier/localconstswap", "control/if", "control/else"}
  BY <1>3 DEF OfferedFor
<1> QED
  BY <1>1, <1>2, <1>3

\* No mutation is offered twice.
LEMMA AllAlone ==
    ASSUME file \in File, NEW op \in Range(All), NEW n \in Parsed(file), NEW j \in DOMAIN Of(op, n)
    PROVE  Alone(op, n, j)
<1> SUFFICES ASSUME NEW q \in Parsed(file), NEW i \in DOMAIN Of(op, q), Of(op, q)[i] = Of(op, n)[j]
             PROVE  q = n /\ i = j
  BY DEF Alone
<1>1. Fine(file, op, n, Of(op, n)) /\ Fine(file, op, q, Of(op, q))
  BY MutateFine DEF Of
<1>2. PICK m : m = Of(op, n)[j] /\ m = Of(op, q)[i]
  OBVIOUS
<1>3. Edits(file, op, m) /\ OfferedFor(file, op, m, n) /\ OfferedFor(file, op, m, q)
  BY <1>1, <1>2 DEF Fine
<1>4. m.at # None
  BY <1>3, FilesAreGrounded DEF Edits, Parsed, Grounded
<1>5. q = n
  BY <1>3, <1>4, OneSite
<1> QED
  BY <1>1, <1>5 DEF Fine

-----------------------------------------------------------------------------
(* What an edit leaves.                                                    *)

LEMMA WriteWhole ==
    ASSUME NEW h, IsTree(h), NEW n \in DOMAIN h, NEW m, m.at = n, m.i = 0, NEW v,
           NEW g, g = Write(h, m, v)
    PROVE  /\ Elsewhere(h, g, n)
           /\ m.slot \in {"tok", "list"} => g[n].kind = h[n].kind /\ g[n].kid = h[n].kid
           /\ m.slot = "tok" => g[n].tok = v /\ g[n].list = h[n].list
           /\ m.slot = "list" => g[n].tok = h[n].tok /\ g[n].list = v
<1>1. g = [h EXCEPT ![n][m.slot] = v]
  BY DEF Write
<1>2. h = [x \in DOMAIN h |-> h[x]]
  BY DEF IsTree
<1>3. h[n] = [kind |-> h[n].kind, tok |-> h[n].tok, kid |-> h[n].kid, list |-> h[n].list]
  BY DEF IsTree
<1>4. Elsewhere(h, g, n) /\ g[n] = [h[n] EXCEPT ![m.slot] = v]
  BY <1>1, <1>2 DEF Elsewhere
<1>5. CASE m.slot = "tok"
  <2>1. g[n] = [h[n] EXCEPT !["tok"] = v]
    BY <1>4, <1>5
  <2>2. g[n] = [kind |-> h[n].kind, tok |-> v, kid |-> h[n].kid, list |-> h[n].list]
    BY <1>3, <2>1
  <2> QED
    BY <1>4, <1>5, <2>2
<1>6. CASE m.slot = "list"
  <2>1. g[n] = [h[n] EXCEPT !["list"] = v]
    BY <1>4, <1>6
  <2>2. g[n] = [kind |-> h[n].kind, tok |-> h[n].tok, kid |-> h[n].kid, list |-> v]
    BY <1>3, <2>1
  <2> QED
    BY <1>4, <1>6, <2>2
<1> QED
  BY <1>4, <1>5, <1>6

With(s, i, v) == [s EXCEPT ![i] = v]

LEMMA WritePart ==
    ASSUME NEW h, IsTree(h), NEW n \in DOMAIN h, NEW m, m.at = n, m.i # 0, NEW v,
           NEW g, g = Write(h, m, v)
    PROVE  /\ Elsewhere(h, g, n)
           /\ m.slot \in {"kid", "list"} => g[n].kind = h[n].kind /\ g[n].tok = h[n].tok
           /\ m.slot = "kid" => g[n].kid = With(h[n].kid, m.i, v) /\ g[n].list = h[n].list
           /\ m.slot = "list" => g[n].kid = h[n].kid /\ g[n].list = With(h[n].list, m.i, v)
<1>1. g = [h EXCEPT ![n][m.slot][m.i] = v]
  BY DEF Write
<1>2. h = [x \in DOMAIN h |-> h[x]]
  BY DEF IsTree
<1>3. h[n] = [kind |-> h[n].kind, tok |-> h[n].tok, kid |-> h[n].kid, list |-> h[n].list]
  BY DEF IsTree
<1>4. Elsewhere(h, g, n) /\ g[n] = [h[n] EXCEPT ![m.slot][m.i] = v]
  BY <1>1, <1>2 DEF Elsewhere
<1>5. CASE m.slot = "kid"
  <2>1. g[n] = [h[n] EXCEPT !["kid"] = [h[n].kid EXCEPT ![m.i] = v]]
    BY <1>3, <1>4, <1>5
  <2>2. g[n] = [kind |-> h[n].kind, tok |-> h[n].tok, kid |-> [h[n].kid EXCEPT ![m.i] = v], list |-> h[n].list]
    BY <1>3, <2>1
  <2> QED
    BY <1>4, <1>5, <2>2 DEF With
<1>6. CASE m.slot = "list"
  <2>1. g[n] = [h[n] EXCEPT !["list"] = [h[n].list EXCEPT ![m.i] = v]]
    BY <1>3, <1>4, <1>6
  <2>2. g[n] = [kind |-> h[n].kind, tok |-> h[n].tok, kid |-> h[n].kid, list |-> [h[n].list EXCEPT ![m.i] = v]]
    BY <1>3, <2>1
  <2> QED
    BY <1>4, <1>6, <2>2 DEF With
<1> QED
  BY <1>4, <1>5, <1>6

LEMMA EditedIf ==
    ASSUME NEW f \in File, NEW at \in Parsed(f), NEW g, Elsewhere(f.tree, g, at),
           g[at].kind = f.tree[at].kind,
           \A i \in DOMAIN g[at].kid :
              g[at].kid[i] # None => g[at].kid[i] \in DOMAIN f.tree /\ f.pos[at] < f.pos[g[at].kid[i]],
           \E len \in Nat : DOMAIN g[at].list = 1 .. len,
           \A i \in DOMAIN g[at].list :
              g[at].list[i] \in DOMAIN f.tree /\ f.pos[at] < f.pos[g[at].list[i]]
    PROVE  Edited(f, g, at)
<1>1. Grounded(f.tree, f.pos, Last(f)) /\ DOMAIN g = DOMAIN f.tree
  BY FilesAreGrounded DEF Elsewhere
<1>2. \A n \in DOMAIN f.tree : g[n].kind = f.tree[n].kind
  BY DEF Elsewhere
<1>3. None \notin DOMAIN g
  BY <1>1 DEF Grounded
<1>4. ASSUME NEW n \in DOMAIN g
      PROVE  /\ f.pos[n] \in Nat /\ f.pos[n] <= Last(f)
             /\ \E len \in Nat : DOMAIN g[n].list = 1 .. len
             /\ \A i \in DOMAIN g[n].kid :
                   g[n].kid[i] # None => g[n].kid[i] \in DOMAIN g /\ f.pos[n] < f.pos[g[n].kid[i]]
             /\ \A i \in DOMAIN g[n].list :
                   g[n].list[i] \in DOMAIN g /\ f.pos[n] < f.pos[g[n].list[i]]
  <2>1. n \in DOMAIN f.tree /\ f.pos[n] \in Nat /\ f.pos[n] <= Last(f)
    BY <1>1 DEF Grounded
  <2>2. CASE n = at
    BY <1>1, <2>1, <2>2
  <2>3. CASE n # at
    <3>1. g[n] = f.tree[n]
      BY <2>1, <2>3 DEF Elsewhere
    <3> QED
      BY <1>1, <2>1, <3>1 DEF Grounded
  <2> QED
    BY <2>2, <2>3
<1>5. Grounded(g, f.pos, Last(f))
  BY <1>3, <1>4 DEF Grounded
<1> QED
  BY <1>2, <1>5 DEF Edited

LEMMA Specials ==
    ASSUME NEW f \in File, NEW s \in {True, False, Blank}
    PROVE  /\ s \in DOMAIN f.tree /\ s \notin Parsed(f) /\ s # None
           /\ f.tree[s].kid = <<>> /\ f.tree[s].list = <<>>
           /\ f.tree[s].kind = IF s = Blank THEN "empty" ELSE "ident"
           /\ s # Blank => f.tree[s].tok = IF s = True THEN "true" ELSE "false"
           /\ \A n \in Parsed(f) : f.pos[n] < f.pos[s]
<1>1. s \in DOMAIN f.tree /\ f.tree[s].kid = <<>> /\ f.tree[s].list = <<>>
  BY OperatorsAssumption
<1>2. /\ f.tree[True].kind = "ident" /\ f.tree[True].tok = "true"
      /\ f.tree[False].kind = "ident" /\ f.tree[False].tok = "false"
      /\ f.tree[Blank].kind = "empty"
  BY OperatorsAssumption
<1>3. True # False /\ True # Blank /\ False # Blank /\ s # None
  BY DEF True, False, Blank, None
<1>4. \A n \in Parsed(f) : f.pos[n] < f.pos[s]
  <2>1. f.pos[s] = f.end[f.root] + 1
    BY FilesAreTrees
  <2>2. f.end[f.root] \in Nat /\ \A n \in Parsed(f) : f.pos[n] \in Nat /\ f.pos[n] <= f.end[f.root]
    BY Places
  <2> QED
    BY <2>1, <2>2
<1> QED
  BY <1>1, <1>2, <1>3, <1>4 DEF Parsed

\* The children of a node of a file.
LEMMA PartsAre ==
    ASSUME NEW f \in File, NEW n \in Parsed(f)
    PROVE  /\ \A i \in DOMAIN f.tree[n].kid :
                 f.tree[n].kid[i] # None => f.tree[n].kid[i] \in Parsed(f) /\ f.pos[n] < f.pos[f.tree[n].kid[i]]
           /\ \A i \in DOMAIN f.tree[n].list :
                 f.tree[n].list[i] \in Parsed(f) /\ f.pos[n] < f.pos[f.tree[n].list[i]]
           /\ Len(f.tree[n].list) \in Nat /\ DOMAIN f.tree[n].list = 1 .. Len(f.tree[n].list)
<1>0. n \in DOMAIN f.tree
  BY DEF Parsed
<1>1. ASSUME NEW i \in DOMAIN f.tree[n].kid, f.tree[n].kid[i] # None
      PROVE  f.tree[n].kid[i] \in Parsed(f) /\ f.pos[n] < f.pos[f.tree[n].kid[i]]
  <2>1. f.tree[n].kid[i] \in Children(f.tree, n)
    BY <1>1 DEF Children, Range
  <2> QED
    BY <2>1, ChildWithin
<1>2. ASSUME NEW i \in DOMAIN f.tree[n].list
      PROVE  f.tree[n].list[i] \in Parsed(f) /\ f.pos[n] < f.pos[f.tree[n].list[i]]
  <2>1. f.tree[n].list[i] # None
    BY <1>0, FilesAreGrounded DEF Grounded
  <2>2. f.tree[n].list[i] \in Children(f.tree, n)
    BY <2>1 DEF Children, Range
  <2> QED
    BY <2>2, ChildWithin
<1>3. f.tree[n].list \in Seq(DOMAIN f.tree)
  BY <1>0, OperatorsAssumption
<1> QED
  BY <1>1, <1>2, <1>3

\* What an edit shows is what is there, and kinds stay.
LEMMA ShownNow ==
    ASSUME NEW f \in File, NEW at \in Parsed(f), NEW g, Elsewhere(f.tree, g, at),
           g[at].kind = f.tree[at].kind, g[at].list = f.tree[at].list
    PROVE  Shown(g, at) = Shown(f.tree, at)
<1>1. \A n \in DOMAIN f.tree : g[n].kind = f.tree[n].kind
  BY DEF Elsewhere
<1>2. \A i \in DOMAIN f.tree[at].list : f.tree[at].list[i] \in DOMAIN f.tree
  BY PartsAre DEF Parsed
<1> QED
  BY <1>1, <1>2 DEF Shown

LEMMA SwapLeaves ==
    ASSUME NEW f \in File, NEW op, NEW m, m.at \in Parsed(f), Swaps(f, op, m),
           NEW g, g = Write(f.tree, m, m.to)
    PROVE  /\ Edited(f, g, m.at)
           /\ g[m.at].tok = m.to /\ g[m.at].kid = f.tree[m.at].kid /\ g[m.at].list = f.tree[m.at].list
           /\ Shown(g, m.at) = Shown(f.tree, m.at)
<1> DEFINE h == f.tree
           at == m.at
<1>1. m.slot = "tok" /\ m.i = 0
  BY DEF Swaps, Edit
<1>2. IsTree(h) /\ at \in DOMAIN h
  BY FilesHaveTrees DEF Parsed
<1>3. Elsewhere(h, g, at) /\ g[at].kind = h[at].kind /\ g[at].kid = h[at].kid
      /\ g[at].tok = m.to /\ g[at].list = h[at].list
  BY <1>1, <1>2, WriteWhole, SMTT(30)
<1>4. Edited(f, g, at)
  <2>1. \A n \in Parsed(f) : n \in DOMAIN f.tree
    BY DEF Parsed
  <2>2. \A i \in DOMAIN g[at].kid :
              g[at].kid[i] # None => g[at].kid[i] \in DOMAIN f.tree /\ f.pos[at] < f.pos[g[at].kid[i]]
    BY <1>3, <2>1, PartsAre
  <2>3. \E len \in Nat : DOMAIN g[at].list = 1 .. len
    BY <1>3, PartsAre
  <2>4. \A i \in DOMAIN g[at].list :
              g[at].list[i] \in DOMAIN f.tree /\ f.pos[at] < f.pos[g[at].list[i]]
    BY <1>3, <2>1, PartsAre
  <2> QED
    BY <1>3, <2>2, <2>3, <2>4, EditedIf, SMTT(30)
<1> QED
  BY <1>3, <1>4, ShownNow

\* Another kid, for one of those a node has.
LEMMA KidLeaves ==
    ASSUME NEW f \in File, NEW m, m.at \in Parsed(f), m.slot = "kid", m.i # 0,
           m.to \in DOMAIN f.tree, f.pos[m.at] < f.pos[m.to], NEW g, g = Write(f.tree, m, m.to)
    PROVE  /\ Edited(f, g, m.at)
           /\ g[m.at].tok = f.tree[m.at].tok /\ g[m.at].list = f.tree[m.at].list
           /\ g[m.at].kid = With(f.tree[m.at].kid, m.i, m.to)
           /\ Shown(g, m.at) = Shown(f.tree, m.at)
<1> DEFINE h == f.tree
           at == m.at
<1>2. IsTree(h) /\ at \in DOMAIN h
  BY FilesHaveTrees DEF Parsed
<1>3. Elsewhere(h, g, at) /\ g[at].kind = h[at].kind /\ g[at].kid = With(h[at].kid, m.i, m.to)
      /\ g[at].tok = h[at].tok /\ g[at].list = h[at].list
  <2> HIDE DEF h, at
  <2>1. m.at = at /\ m.i # 0 /\ g = Write(h, m, m.to) /\ m.slot = "kid"
    BY SMTT(30) DEF h, at
  <2> QED
    BY <1>2, <2>1, WritePart
<1>4. Edited(f, g, at)
  <2>1. \A n \in Parsed(f) : n \in DOMAIN f.tree
    BY DEF Parsed
  <2>2. \A i \in DOMAIN g[at].kid :
              g[at].kid[i] # None => g[at].kid[i] \in DOMAIN f.tree /\ f.pos[at] < f.pos[g[at].kid[i]]
    <3>1. \A i \in DOMAIN g[at].kid : i \in DOMAIN h[at].kid /\ g[at].kid[i] \in {h[at].kid[i], m.to}
      BY <1>3 DEF With
    <3> QED
      BY <2>1, <3>1, PartsAre
  <2>3. \E len \in Nat : DOMAIN g[at].list = 1 .. len
    BY <1>3, PartsAre
  <2>4. \A i \in DOMAIN g[at].list :
              g[at].list[i] \in DOMAIN f.tree /\ f.pos[at] < f.pos[g[at].list[i]]
    BY <1>3, <2>1, PartsAre
  <2> QED
    BY <1>3, <2>2, <2>3, <2>4, EditedIf
<1> QED
  BY <1>3, <1>4, ShownNow

\* Another node in a list.
LEMMA ItemLeaves ==
    ASSUME NEW f \in File, NEW m, m.at \in Parsed(f), m.slot = "list", m.i # 0,
           m.to \in DOMAIN f.tree, f.pos[m.at] < f.pos[m.to], NEW g, g = Write(f.tree, m, m.to)
    PROVE  /\ Edited(f, g, m.at)
           /\ g[m.at].tok = f.tree[m.at].tok /\ g[m.at].kid = f.tree[m.at].kid
           /\ g[m.at].list = With(f.tree[m.at].list, m.i, m.to)
           /\ f.tree[m.to].kind # "empty" /\ m.i \in Shown(f.tree, m.at) => Shown(g, m.at) = Shown(f.tree, m.at)
           /\ f.tree[m.to].kind = "empty" => Shown(g, m.at) = Shown(f.tree, m.at) \ {m.i}
<1> DEFINE h == f.tree
           at == m.at
<1>2. IsTree(h) /\ at \in DOMAIN h
  BY FilesHaveTrees DEF Parsed
<1>3. Elsewhere(h, g, at) /\ g[at].kind = h[at].kind /\ g[at].kid = h[at].kid
      /\ g[at].tok = h[at].tok /\ g[at].list = With(h[at].list, m.i, m.to)
  <2> HIDE DEF h, at
  <2>1. m.at = at /\ m.i # 0 /\ g = Write(h, m, m.to) /\ m.slot = "list"
    BY DEF h, at
  <2> QED
    BY <1>2, <2>1, WritePart
<1>4. /\ DOMAIN g[at].list = DOMAIN h[at].list
      /\ \A i \in DOMAIN h[at].list : g[at].list[i] = IF i = m.i THEN m.to ELSE h[at].list[i]
  BY <1>3 DEF With
<1>5. \A i \in DOMAIN h[at].list : h[at].list[i] \in DOMAIN f.tree /\ f.pos[at] < f.pos[h[at].list[i]]
  BY PartsAre DEF Parsed
<1>6. Edited(f, g, at)
  <2>1. \A n \in Parsed(f) : n \in DOMAIN f.tree
    BY SMTT(30) DEF Parsed
  <2>2. \A i \in DOMAIN g[at].kid :
              g[at].kid[i] # None => g[at].kid[i] \in DOMAIN f.tree /\ f.pos[at] < f.pos[g[at].kid[i]]
    BY <1>3, <2>1, PartsAre
  <2>3. \E len \in Nat : DOMAIN g[at].list = 1 .. len
    BY <1>4, PartsAre
  <2>4. \A i \in DOMAIN g[at].list :
              g[at].list[i] \in DOMAIN f.tree /\ f.pos[at] < f.pos[g[at].list[i]]
    BY <1>4, <1>5
  <2> QED
    BY <1>3, <2>2, <2>3, <2>4, EditedIf, Zenon
<1>7. \A i \in DOMAIN h[at].list : g[g[at].list[i]].kind = IF i = m.i THEN h[m.to].kind ELSE h[h[at].list[i]].kind
  <2>1. \A n \in DOMAIN h : g[n].kind = h[n].kind
    BY <1>6 DEF Edited
  <2> QED
    BY <1>4, <1>5, <2>1
<1>8. Shown(g, at) = {i \in DOMAIN h[at].list : IF i = m.i THEN h[m.to].kind # "empty" ELSE i \in Shown(h, at)}
  <2>1. \A i \in DOMAIN h[at].list :
           g[g[at].list[i]].kind # "empty" <=> IF i = m.i THEN h[m.to].kind # "empty" ELSE i \in Shown(h, at)
    BY <1>7, SMTT(30) DEF Shown
  <2>2. Shown(g, at) = {i \in DOMAIN h[at].list : g[g[at].list[i]].kind # "empty"}
    BY <1>4 DEF Shown
  <2> HIDE DEF h, at
  <2> QED
    BY <2>1, <2>2
<1>9. h[m.to].kind # "empty" /\ m.i \in Shown(h, at) => Shown(g, at) = Shown(h, at)
  BY <1>8, SMTT(30) DEF Shown
<1>10. h[m.to].kind = "empty" => Shown(g, at) = Shown(h, at) \ {m.i}
  BY <1>8 DEF Shown
<1> QED
  BY <1>3, <1>6, <1>9, <1>10

LEMMA ClearLeaves ==
    ASSUME NEW f \in File, NEW op, NEW m, m.at \in Parsed(f), Clears(f, op, m),
           NEW g, g = Write(f.tree, m, m.to)
    PROVE  /\ Edited(f, g, m.at)
           /\ g[m.at].tok = f.tree[m.at].tok /\ g[m.at].kid = f.tree[m.at].kid
           /\ Shown(g, m.at) = {}
<1> DEFINE h == f.tree
           at == m.at
<1>1. m.slot = "list" /\ m.i = 0 /\ m.to = <<>>
  BY DEF Clears, Edit
<1>2. IsTree(h) /\ at \in DOMAIN h
  BY FilesHaveTrees DEF Parsed
<1>3. Elsewhere(h, g, at) /\ g[at].kind = h[at].kind /\ g[at].kid = h[at].kid
      /\ g[at].tok = h[at].tok /\ g[at].list = <<>>
  BY <1>1, <1>2, WriteWhole, SMTT(30)
<1>4. Edited(f, g, at)
  <2>1. \A n \in Parsed(f) : n \in DOMAIN f.tree
    BY DEF Parsed
  <2>2. \A i \in DOMAIN g[at].kid :
              g[at].kid[i] # None => g[at].kid[i] \in DOMAIN f.tree /\ f.pos[at] < f.pos[g[at].kid[i]]
    BY <1>3, <2>1, PartsAre
  <2>3. \E len \in Nat : DOMAIN g[at].list = 1 .. len
    <3>1. DOMAIN g[at].list = 1 .. 0
      BY <1>3
    <3> QED
      BY <3>1
  <2>4. \A i \in DOMAIN g[at].list :
              g[at].list[i] \in DOMAIN f.tree /\ f.pos[at] < f.pos[g[at].list[i]]
    BY <1>3
  <2> QED
    BY <1>3, <2>2, <2>3, <2>4, EditedIf
<1>5. Shown(g, at) = {}
  BY <1>3 DEF Shown
<1> QED
  BY <1>3, <1>4, <1>5

-----------------------------------------------------------------------------
(* One kid or one item replaced.                                           *)

AtKid(f, m, g) ==
    LET at == f.tree[m.at]  now == g[m.at] IN
    /\ m.at \in Parsed(f) /\ Edited(f, g, m.at)
    /\ m.i \in DOMAIN at.kid /\ m.from = at.kid[m.i] /\ m.from \in Parsed(f)
    /\ m.to \in DOMAIN f.tree /\ f.pos[m.at] < f.pos[m.to]
    /\ now.tok = at.tok /\ now.list = at.list /\ now.kid = With(at.kid, m.i, m.to)
    /\ Shown(g, m.at) = Shown(f.tree, m.at)

AtItem(f, m, g) ==
    LET at == f.tree[m.at]  now == g[m.at] IN
    /\ m.at \in Parsed(f) /\ Edited(f, g, m.at)
    /\ m.i \in Shown(f.tree, m.at) /\ m.from = at.list[m.i]
    /\ m.to \in DOMAIN f.tree /\ f.pos[m.at] < f.pos[m.to]
    /\ now.tok = at.tok /\ now.kid = at.kid /\ now.list = With(at.list, m.i, m.to)

LEMMA DecideLeaves ==
    ASSUME NEW f \in File, NEW op, NEW m, m.at \in Parsed(f), Decides(f, op, m),
           NEW g, g = Write(f.tree, m, m.to)
    PROVE  AtKid(f, m, g) /\ m.to \in {True, False} /\ m.slot = "kid" /\ f.tree[m.at].kind = "binary"
<1> DEFINE h == f.tree
           at == m.at
<1>1. /\ h[at].kind = "binary" /\ m.i \in 1 .. 2
      /\ m.slot = "kid" /\ m.from = h[at].kid[m.i] /\ m.to = Identity(h[at].tok)
  BY DEF Decides, Edit
<1>2. m.to \in {True, False}
  BY <1>1 DEF Identity
<1>3. m.to \in DOMAIN h /\ f.pos[at] < f.pos[m.to]
  BY <1>2, Specials
<1>4. at \in DOMAIN h
  BY DEF Parsed
<1>5. m.i \in DOMAIN h[at].kid /\ m.from \in Parsed(f)
  <2>1. DOMAIN h[at].kid = 1 .. 2 /\ h[at].kid[m.i] \in DOMAIN h
    BY <1>1, <1>4, BinaryOperands
  <2>2. h[at].kid[m.i] # None
    BY <2>1, FilesAreGrounded DEF Grounded
  <2> QED
    BY <1>1, <2>1, <2>2, PartsAre
<1>6. m.i # 0
  BY <1>1
<1>7. /\ Edited(f, g, m.at)
      /\ g[m.at].tok = f.tree[m.at].tok /\ g[m.at].list = f.tree[m.at].list
      /\ g[m.at].kid = With(f.tree[m.at].kid, m.i, m.to)
      /\ Shown(g, m.at) = Shown(f.tree, m.at)
  BY <1>1, <1>3, <1>6, KidLeaves
<1> QED
  BY <1>1, <1>2, <1>3, <1>5, <1>7 DEF AtKid

LEMMA BareLeaves ==
    ASSUME NEW f \in File, NEW op, NEW m, m.at \in Parsed(f), Bares(f, op, m),
           NEW g, g = Write(f.tree, m, m.to)
    PROVE  /\ f.tree[m.from].kind = "unary" /\ m.from \in Parsed(f) /\ m.to = f.tree[m.from].kid[1]
           /\ f.tree[m.at].kind # "assign" =>
                 AtKid(f, m, g) /\ m.slot = "kid" /\ f.tree[m.at].kind \in {"binary", "if"}
           /\ f.tree[m.at].kind = "assign" =>
                 AtItem(f, m, g) /\ m.slot = "list" /\ Shown(g, m.at) = Shown(f.tree, m.at)
<1> DEFINE h == f.tree
           at == m.at
           u == InSlot(h, at, m.i)
<1>1. /\ m.i \in Stripped(h, at) /\ m.from = u /\ m.to = h[u].kid[1]
      /\ m.slot = IF h[at].kind = "assign" THEN "list" ELSE "kid"
  BY DEF Bares, Strips, Edit
<1>2. at \in DOMAIN h
  BY DEF Parsed
<1>3. /\ m.i # 0 /\ h[u].kind = "unary"
      /\ h[at].kind = "assign" => u = h[at].list[m.i] /\ m.i \in DOMAIN h[at].list
      /\ h[at].kind # "assign" => u = h[at].kid[m.i] /\ m.i \in DOMAIN h[at].kid
  BY <1>1, <1>2, StrippedIn DEF IsUnary
<1>4. u \in DOMAIN h /\ f.pos[at] < f.pos[u] /\ h[u].kid[1] \in DOMAIN h /\ f.pos[u] < f.pos[h[u].kid[1]]
  BY <1>1, <1>2, StrippedIs
<1> HIDE DEF u
<1>5. m.to \in DOMAIN h /\ f.pos[at] < f.pos[m.to]
  <2>1. f.pos[at] \in Nat /\ f.pos[u] \in Nat /\ f.pos[h[u].kid[1]] \in Nat
    BY <1>2, <1>4, FilesAreGrounded DEF Grounded
  <2> QED
    BY <1>1, <1>4, <2>1
<1>6. u \in Parsed(f)
  BY <1>3, <1>4, UnaryOperand
<1>7. h[at].kind \in {"binary", "if", "assign"}
  BY <1>1, SMTT(30) DEF Stripped
<1>8. h[m.to].kind # "empty"
  BY <1>1, <1>3, <1>4, PartsAssumption
<1>9. CASE h[at].kind # "assign"
  <2>1. /\ Edited(f, g, m.at)
        /\ g[m.at].tok = f.tree[m.at].tok /\ g[m.at].list = f.tree[m.at].list
        /\ g[m.at].kid = With(f.tree[m.at].kid, m.i, m.to)
        /\ Shown(g, m.at) = Shown(f.tree, m.at)
    BY <1>1, <1>3, <1>5, <1>9, KidLeaves, SMTT(30)
  <2>2. AtKid(f, m, g)
    BY <1>1, <1>3, <1>5, <1>6, <1>9, <2>1 DEF AtKid
  <2> QED
    BY <1>1, <1>3, <1>6, <1>7, <1>9, <2>2
<1>10. CASE h[at].kind = "assign"
  <2>1. m.i \in Shown(h, at)
    BY <1>3, <1>10 DEF Shown
  <2>2. /\ Edited(f, g, m.at)
        /\ g[m.at].tok = f.tree[m.at].tok /\ g[m.at].kid = f.tree[m.at].kid
        /\ g[m.at].list = With(f.tree[m.at].list, m.i, m.to)
        /\ Shown(g, m.at) = Shown(f.tree, m.at)
    BY <1>1, <1>3, <1>5, <1>8, <1>10, <2>1, ItemLeaves, SMTT(30)
  <2>3. AtItem(f, m, g)
    BY <1>1, <1>3, <1>5, <1>10, <2>1, <2>2, SMTT(30) DEF AtItem
  <2> QED
    BY <1>1, <1>3, <1>6, <1>10, <2>2, <2>3
<1> QED
  BY <1>9, <1>10

LEMMA DropLeaves ==
    ASSUME NEW f \in File, NEW op, NEW m, m.at \in Parsed(f), Drops(f, op, m),
           NEW g, g = Write(f.tree, m, m.to)
    PROVE  /\ AtItem(f, m, g) /\ m.slot = "list" /\ f.tree[m.at].kind \in {"block", "case"}
           /\ Shown(g, m.at) = Shown(f.tree, m.at) \ {m.i}
           /\ m.from \in Parsed(f) /\ m.node = m.from /\ f.pos[m.at] < f.pos[m.from]
<1> DEFINE h == f.tree
           at == m.at
<1>1. /\ m.i \in Loses(h, at) /\ m.from = h[at].list[m.i] /\ m.to = Blank
      /\ m.slot = "list" /\ m.node = m.from
  BY DEF Drops, Removals, Edit
<1>2. /\ m.i # 0 /\ m.i \in DOMAIN h[at].list /\ h[at].kind \in {"block", "case"}
      /\ Removable(h, h[at].list[m.i])
  BY <1>1 DEF Loses
<1>3. m.i \in Shown(h, at)
  BY <1>2, Zenon DEF Removable, Shown
<1>4. m.to \in DOMAIN h /\ f.pos[at] < f.pos[m.to] /\ h[m.to].kind = "empty"
  BY <1>1, Specials, SMTT(30)
<1>5. m.from \in Parsed(f) /\ f.pos[at] < f.pos[m.from]
  BY <1>1, <1>2, PartsAre
<1>6. /\ Edited(f, g, m.at)
      /\ g[m.at].tok = f.tree[m.at].tok /\ g[m.at].kid = f.tree[m.at].kid
      /\ g[m.at].list = With(f.tree[m.at].list, m.i, m.to)
      /\ Shown(g, m.at) = Shown(f.tree, m.at) \ {m.i}
  BY <1>1, <1>2, <1>4, ItemLeaves
<1>7. AtItem(f, m, g)
  BY <1>1, <1>3, <1>4, <1>6 DEF AtItem
<1> QED
  BY <1>1, <1>2, <1>5, <1>6, <1>7

\* Two edits of one node print the same if the node, over what it was over, does.
Reads(f, g, k, at) ==
    /\ g[at].tok = k[at].tok /\ DOMAIN g[at].kid = DOMAIN k[at].kid
    /\ \A i \in DOMAIN g[at].kid : Text(f.tree, g[at].kid[i]) = Text(f.tree, k[at].kid[i])
    /\ Cardinality(Shown(g, at)) = Cardinality(Shown(k, at))
    /\ \A j \in 1 .. Cardinality(Shown(g, at)) :
          Text(f.tree, g[at].list[Nth(Shown(g, at), j)]) = Text(f.tree, k[at].list[Nth(Shown(k, at), j)])

\* What is below an edited node prints as in the file.
Beneath(f, g, at) ==
    /\ \A i \in DOMAIN g[at].kid : Text(g, g[at].kid[i]) = Text(f.tree, g[at].kid[i])
    /\ \A j \in 1 .. Cardinality(Shown(g, at)) :
          Text(g, g[at].list[Nth(Shown(g, at), j)]) = Text(f.tree, g[at].list[Nth(Shown(g, at), j)])

LEMMA BeneathSame == ASSUME NEW f \in File, NEW at, NEW g, Edited(f, g, at) PROVE Beneath(f, g, at)
<1>1. /\ Grounded(g, f.pos, Last(f)) /\ DOMAIN g = DOMAIN f.tree /\ at \in DOMAIN g
      /\ Last(f) \in Nat /\ Grounded(f.tree, f.pos, Last(f))
  BY FilesAreGrounded DEF Edited, Elsewhere, Parsed
<1>2. ASSUME NEW i \in DOMAIN g[at].kid PROVE Text(g, g[at].kid[i]) = Text(f.tree, g[at].kid[i])
  <2> DEFINE c == g[at].kid[i]
  <2>1. CASE c = None
    <3>1. at \in DOMAIN f.tree
      BY <1>1
    <3>2. Text(g, None) = <<>> /\ Text(f.tree, None) = <<>>
      BY <1>1, <3>1, TextIs
    <3> QED
      BY <2>1, <3>2
  <2>2. CASE c # None
    <3>1. c \in DOMAIN f.tree /\ f.pos[at] < f.pos[c]
      BY <1>1, <2>2 DEF Grounded
    <3> HIDE DEF c
    <3>2. Text(g, c) = Text(f.tree, c)
      BY <3>1, TextLater
    <3> QED
      BY <3>2 DEF c
  <2> QED
    BY <2>1, <2>2
<1>3. ASSUME NEW i \in DOMAIN g[at].list PROVE Text(g, g[at].list[i]) = Text(f.tree, g[at].list[i])
  <2>1. g[at].list[i] \in DOMAIN f.tree /\ f.pos[at] < f.pos[g[at].list[i]]
    BY <1>1 DEF Grounded
  <2> QED
    BY <2>1, TextLater
<1>4. \A j \in 1 .. Cardinality(Shown(g, at)) : Nth(Shown(g, at), j) \in DOMAIN g[at].list
  BY <1>1, ShownIs
<1> QED
  BY <1>2, <1>3, <1>4 DEF Beneath

LEMMA ReadSame ==
    ASSUME NEW f \in File, NEW at, NEW g, Edited(f, g, at), NEW k, Edited(f, k, at)
    PROVE  Text(g, at) = Text(k, at) <=> Reads(f, g, k, at)
<1>1. /\ Grounded(g, f.pos, Last(f)) /\ Grounded(k, f.pos, Last(f)) /\ Last(f) \in Nat
      /\ at \in DOMAIN g /\ at \in DOMAIN k /\ g[at].kind = k[at].kind
  BY FilesAreGrounded DEF Edited, Elsewhere, Parsed
<1>2. Text(g, at) = Text(k, at) <=> Alike(g, at, k, at)
  BY <1>1, TextSame
<1>3. Beneath(f, g, at) /\ Beneath(f, k, at)
  BY BeneathSame
<1>4. Alike(g, at, k, at) => Reads(f, g, k, at)
  BY <1>3 DEF Alike, Reads, Beneath
<1>5. Reads(f, g, k, at) => Alike(g, at, k, at)
  BY <1>1, <1>3 DEF Alike, Reads, Beneath
<1> QED
  BY <1>2, <1>4, <1>5

Idle(f, g) == Text(g, f.root) = Text(f.tree, f.root)

LEMMA IdleIf ==
    ASSUME NEW f \in File, NEW at, NEW g, Edited(f, g, at), Reads(f, g, f.tree, at)
    PROVE  Idle(f, g)
<1>1. Edited(f, f.tree, at)
  BY Unedited DEF Edited
<1>2. Text(g, at) = Text(f.tree, at)
  BY <1>1, ReadSame
<1> QED
  BY <1>2, Unseen DEF Idle

LEMMA IdleKid ==
    ASSUME NEW f \in File, NEW m, NEW g, AtKid(f, m, g), Text(f.tree, m.to) = Text(f.tree, m.from)
    PROVE  Idle(f, g)
<1> DEFINE h == f.tree
           at == m.at
<1>1. /\ Edited(f, g, at) /\ g[at].tok = h[at].tok /\ g[at].list = h[at].list
      /\ g[at].kid = With(h[at].kid, m.i, m.to) /\ Shown(g, at) = Shown(h, at)
      /\ m.from = h[at].kid[m.i]
  BY DEF AtKid
<1>2. DOMAIN g[at].kid = DOMAIN h[at].kid
  BY <1>1 DEF With
<1>3. ASSUME NEW i \in DOMAIN g[at].kid PROVE Text(h, g[at].kid[i]) = Text(h, h[at].kid[i])
  <2>1. g[at].kid[i] = IF i = m.i THEN m.to ELSE h[at].kid[i]
    BY <1>1, <1>2, SMTT(30) DEF With
  <2> QED
    BY <1>1, <2>1
<1>4. Reads(f, g, h, at)
  BY <1>1, <1>2, <1>3 DEF Reads
<1> QED
  BY <1>1, <1>4, IdleIf

LEMMA IdleItem ==
    ASSUME NEW f \in File, NEW m, NEW g, AtItem(f, m, g), Shown(g, m.at) = Shown(f.tree, m.at),
           Text(f.tree, m.to) = Text(f.tree, m.from)
    PROVE  Idle(f, g)
<1> DEFINE h == f.tree
           at == m.at
<1>1. /\ Edited(f, g, at) /\ g[at].tok = h[at].tok /\ g[at].kid = h[at].kid
      /\ g[at].list = With(h[at].list, m.i, m.to) /\ Shown(g, at) = Shown(h, at)
      /\ m.from = h[at].list[m.i]
  BY DEF AtItem
<1>2. at \in DOMAIN h /\ Grounded(h, f.pos, Last(f))
  BY <1>1, FilesAreGrounded DEF Edited, Parsed
<1>3. ASSUME NEW i \in DOMAIN h[at].list PROVE Text(h, g[at].list[i]) = Text(h, h[at].list[i])
  <2>1. g[at].list[i] = IF i = m.i THEN m.to ELSE h[at].list[i]
    BY <1>1 DEF With
  <2> QED
    BY <1>1, <2>1
<1>4. \A j \in 1 .. Cardinality(Shown(h, at)) : Nth(Shown(h, at), j) \in DOMAIN h[at].list
  BY <1>2, ShownIs
<1>5. Reads(f, g, h, at)
  BY <1>1, <1>3, <1>4 DEF Reads
<1> QED
  BY <1>1, <1>5, IdleIf

LEMMA IdleSwap ==
    ASSUME NEW f \in File, NEW op, NEW m, m.at \in Parsed(f), Swaps(f, op, m),
           NEW g, g = Write(f.tree, m, m.to), m.to = f.tree[m.at].tok
    PROVE  Idle(f, g)
<1>1. /\ Edited(f, g, m.at)
      /\ g[m.at].tok = m.to /\ g[m.at].kid = f.tree[m.at].kid /\ g[m.at].list = f.tree[m.at].list
      /\ Shown(g, m.at) = Shown(f.tree, m.at)
  BY SwapLeaves
<1>2. Reads(f, g, f.tree, m.at)
  BY <1>1, Zenon DEF Reads
<1> QED
  BY <1>1, <1>2, IdleIf

LEMMA ShownFinite ==
    ASSUME NEW f \in File, NEW n \in Parsed(f)
    PROVE  IsFiniteSet(Shown(f.tree, n)) /\ Cardinality(Shown(f.tree, n)) \in Nat
<1> DEFINE K == 1 .. Len(f.tree[n].list)
<1>1. Len(f.tree[n].list) \in Nat /\ Shown(f.tree, n) \subseteq K
  BY PartsAre DEF Shown
<1>2. IsFiniteSet(K)
  BY <1>1, FS_Interval
<1> HIDE DEF K
<1>3. IsFiniteSet(Shown(f.tree, n))
  BY <1>1, <1>2, FS_Subset
<1> QED
  BY <1>3, FS_CardinalityType

LEMMA NoneShown ==
    ASSUME NEW h, NEW pos, NEW last, Grounded(h, pos, last), NEW n \in DOMAIN h
    PROVE  Cardinality(Shown(h, n)) = 0 <=> Shown(h, n) = {}
BY ShownIs, FS_EmptySet

LEMMA IdleClear ==
    ASSUME NEW f \in File, NEW op, NEW m, m.at \in Parsed(f), Clears(f, op, m),
           NEW g, g = Write(f.tree, m, m.to), Shown(f.tree, m.at) = {}
    PROVE  Idle(f, g)
<1>1. /\ Edited(f, g, m.at)
      /\ g[m.at].tok = f.tree[m.at].tok /\ g[m.at].kid = f.tree[m.at].kid
      /\ Shown(g, m.at) = {}
  BY ClearLeaves
<1>2. 1 .. Cardinality(Shown(g, m.at)) = {}
  BY <1>1, FS_EmptySet
<1>3. Reads(f, g, f.tree, m.at)
  BY <1>1, <1>2 DEF Reads
<1> QED
  BY <1>1, <1>3, IdleIf

-----------------------------------------------------------------------------
(* Two mutants that are one program.                                       *)

Mutant(f, op, m, g) == Edits(f, op, m) /\ g = Write(f.tree, m, m.to)

\* What the operators edit are no operands of unary operators, and print.
LEMMA MutantEdits ==
    ASSUME NEW f \in File, NEW op, NEW m, NEW g, Mutant(f, op, m, g)
    PROVE  /\ m.at \in Parsed(f) /\ Edited(f, g, m.at)
           /\ f.tree[m.at].kind \notin {"unary", "empty"}
<1> DEFINE kind == f.tree[m.at].kind
<1>1. m.at \in Parsed(f) /\ g = Write(f.tree, m, m.to)
  BY DEF Mutant, Edits
<1>2. CASE Swaps(f, op, m)
  <2>1. Edited(f, g, m.at)
    BY <1>1, <1>2, SwapLeaves
  <2>2. m.at \in DOMAIN f.uses => kind = "ident"
    BY NamesAssumption
  <2>3. kind \in {"lit", "ident", "assign", "incdec", "binary"}
    BY <1>2, <2>2 DEF Swaps
  <2> QED
    BY <1>1, <2>1, <2>3
<1>3. CASE Decides(f, op, m)
  <2>1. AtKid(f, m, g) /\ kind = "binary"
    BY <1>1, <1>3, DecideLeaves
  <2> QED
    BY <1>1, <2>1 DEF AtKid
<1>4. CASE Bares(f, op, m)
  <2>1. CASE kind # "assign"
    <3>1. AtKid(f, m, g) /\ kind \in {"binary", "if"}
      BY <1>1, <1>4, <2>1, BareLeaves
    <3> QED
      BY <1>1, <3>1 DEF AtKid
  <2>2. CASE kind = "assign"
    <3>1. AtItem(f, m, g)
      BY <1>1, <1>4, <2>2, BareLeaves
    <3> QED
      BY <1>1, <2>2, <3>1 DEF AtItem
  <2> QED
    BY <2>1, <2>2
<1>5. CASE Drops(f, op, m)
  <2>1. AtItem(f, m, g) /\ kind \in {"block", "case"}
    BY <1>1, <1>5, DropLeaves
  <2> QED
    BY <1>1, <2>1 DEF AtItem
<1>6. CASE Clears(f, op, m)
  <2>1. Edited(f, g, m.at)
    BY <1>1, <1>6, ClearLeaves
  <2>2. kind \in {"block", "case"}
    BY <1>6 DEF Clears
  <2> QED
    BY <1>1, <2>1, <2>2
<1> QED
  BY <1>2, <1>3, <1>4, <1>5, <1>6 DEF Mutant, Edits

\* What is put in a slot prints as what another tree has there, if all does.
LEMMA KidSays ==
    ASSUME NEW f \in File, NEW m, NEW g, AtKid(f, m, g), NEW bt, NEW k, Edited(f, k, bt),
           Text(g, m.at) = Text(k, m.at)
    PROVE  Text(f.tree, m.to) = Text(k, k[m.at].kid[m.i])
<1> DEFINE at == m.at
<1>1. /\ Edited(f, g, at) /\ at \in Parsed(f) /\ m.i \in DOMAIN f.tree[at].kid
      /\ g[at].kid = With(f.tree[at].kid, m.i, m.to)
      /\ m.to \in DOMAIN f.tree /\ f.pos[at] < f.pos[m.to]
  BY DEF AtKid
<1>2. /\ Grounded(g, f.pos, Last(f)) /\ Grounded(k, f.pos, Last(f)) /\ Last(f) \in Nat
      /\ at \in DOMAIN g /\ at \in DOMAIN k
  BY <1>1, FilesAreGrounded DEF Edited, Elsewhere, Parsed
<1>3. Alike(g, at, k, at)
  BY <1>2, TextSame
<1>4. m.i \in DOMAIN g[at].kid /\ g[at].kid[m.i] = m.to
  BY <1>1 DEF With
<1>5. Text(g, m.to) = Text(k, k[at].kid[m.i])
  BY <1>3, <1>4 DEF Alike
<1> QED
  BY <1>1, <1>5, TextLater

LEMMA ItemSays ==
    ASSUME NEW f \in File, NEW m, NEW g, AtItem(f, m, g), Shown(g, m.at) = Shown(f.tree, m.at),
           NEW bt, NEW k, Edited(f, k, bt), Shown(k, m.at) = Shown(f.tree, m.at),
           Text(g, m.at) = Text(k, m.at)
    PROVE  Text(f.tree, m.to) = Text(k, k[m.at].list[m.i])
<1> DEFINE at == m.at
<1>1. /\ Edited(f, g, at) /\ at \in Parsed(f) /\ m.i \in Shown(f.tree, at)
      /\ g[at].list = With(f.tree[at].list, m.i, m.to)
      /\ m.to \in DOMAIN f.tree /\ f.pos[at] < f.pos[m.to]
  BY DEF AtItem
<1>2. /\ Grounded(g, f.pos, Last(f)) /\ Grounded(k, f.pos, Last(f)) /\ Last(f) \in Nat
      /\ at \in DOMAIN g /\ at \in DOMAIN k /\ at \in DOMAIN f.tree /\ Grounded(f.tree, f.pos, Last(f))
  BY <1>1, FilesAreGrounded DEF Edited, Elsewhere, Parsed
<1>3. Alike(g, at, k, at)
  BY <1>2, TextSame
<1>4. PICK j \in 1 .. Cardinality(Shown(f.tree, at)) : Nth(Shown(f.tree, at), j) = m.i
  BY <1>1, <1>2, ShownIs
<1>5. g[at].list[m.i] = m.to
  BY <1>1, Zenon DEF With, Shown
<1>6. Text(g, m.to) = Text(k, k[at].list[m.i])
  <2>1. \A x \in 1 .. Cardinality(Shown(f.tree, at)) :
          Text(g, g[at].list[Nth(Shown(f.tree, at), x)]) = Text(k, k[at].list[Nth(Shown(f.tree, at), x)])
    BY <1>3 DEF Alike
  <2> QED
    BY <1>4, <1>5, <2>1
<1> QED
  BY <1>1, <1>6, TextLater

\* An operand that is decided to be what it could be flipped to.
Flipped(f, a, b) ==
    /\ a.slot = "kid" /\ a.to \in {True, False} /\ a.from = b.at
    /\ f.tree[b.at].kind = "ident" /\ f.tree[b.at].tok = IF a.to = True THEN "false" ELSE "true"

\* To print as a truth value is to be its identifier.
LEMMA SaysTruth ==
    ASSUME NEW f \in File, NEW t \in {True, False}, NEW bt, NEW k, Edited(f, k, bt),
           NEW c \in Parsed(f), Text(f.tree, t) = Text(k, c)
    PROVE  /\ k[c].kind = "ident" /\ k[c].tok = IF t = True THEN "true" ELSE "false"
           /\ c # bt => Text(f.tree, t) = Text(f.tree, c)
<1> DEFINE h == f.tree
<1>1. /\ Grounded(h, f.pos, Last(f)) /\ Grounded(k, f.pos, Last(f)) /\ Last(f) \in Nat
      /\ t \in DOMAIN h /\ c \in DOMAIN h /\ c \in DOMAIN k
  BY FilesAreGrounded, Specials DEF Edited, Elsewhere, Parsed
<1>2. Alike(h, t, k, c)
  BY <1>1, TextSame
<1>3. /\ h[t].kind = "ident" /\ h[t].tok = IF t = True THEN "true" ELSE "false"
      /\ h[t].kid = <<>> /\ h[t].list = <<>>
  <2>1. t # Blank
    BY DEF True, False, Blank
  <2> QED
    BY <2>1, Specials
<1>4. Shown(h, t) = {} /\ Cardinality(Shown(h, t)) = 0
  BY <1>3, FS_EmptySet DEF Shown
<1>5. ASSUME c # bt PROVE Text(h, t) = Text(h, c)
  <2>1. k[c] = h[c] /\ Shown(k, c) = Shown(h, c)
    BY <1>1, <1>5, ShownElsewhere
  <2>2. DOMAIN h[t].kid = {} /\ 1 .. Cardinality(Shown(h, t)) = {}
    BY <1>3, <1>4
  <2>3. /\ h[t].kind = h[c].kind /\ h[t].tok = h[c].tok /\ DOMAIN h[t].kid = DOMAIN h[c].kid
        /\ Cardinality(Shown(h, t)) = Cardinality(Shown(h, c))
    BY <1>2, <2>1 DEF Alike
  <2>4. Alike(h, t, h, c)
    BY <2>2, <2>3 DEF Alike
  <2> QED
    BY <1>1, <2>4, TextSame
<1> QED
  BY <1>2, <1>3, <1>5 DEF Alike

\* A mutant of a node above the node of another, of which it is the same program.
LEMMA MutantAbove ==
    ASSUME NEW f \in File, NEW opa, NEW a, NEW ga, Mutant(f, opa, a, ga), ~Idle(f, ga),
           NEW opb, NEW b, NEW gb, Mutant(f, opb, b, gb),
           Text(ga, f.root) = Text(gb, f.root), Within(f, a.at, b.at), a.at # b.at
    PROVE  Flipped(f, a, b)
<1> DEFINE h == f.tree
           at == a.at
<1>1. /\ at \in Parsed(f) /\ Edited(f, ga, at) /\ h[at].kind \notin {"unary", "empty"}
      /\ b.at \in Parsed(f) /\ Edited(f, gb, b.at) /\ h[b.at].kind \notin {"unary", "empty"}
  BY MutantEdits
<1>2. at \in DOMAIN h /\ b.at \in DOMAIN h
  BY <1>1 DEF Parsed
<1>3. Text(ga, at) = Text(gb, at)
  <2>1. Free(f, at, at)
    BY DEF Free
  <2>2. ~Within(f, b.at, at)
    <3>1. /\ f.pos[at] \in Nat /\ f.pos[b.at] \in Nat
          /\ f.pos[at] = f.pos[b.at] => at = b.at
      BY <1>1, Places
    <3> QED
      BY <3>1 DEF Within
  <2>3. Free(f, b.at, at)
    BY <2>2 DEF Free
  <2> HIDE DEF at
  <2> QED
    BY <1>1, <2>1, <2>3, SameAt
<1>4. gb[at] = h[at] /\ Shown(gb, at) = Shown(h, at)
  BY <1>1, <1>2, ShownElsewhere
<1>5. Alike(ga, at, gb, at)
  <2>1. /\ Grounded(ga, f.pos, Last(f)) /\ Grounded(gb, f.pos, Last(f)) /\ Last(f) \in Nat
        /\ at \in DOMAIN ga /\ at \in DOMAIN gb
    BY <1>1, <1>2, FilesAreGrounded DEF Edited, Elsewhere
  <2> QED
    BY <1>3, <2>1, TextSame
<1>6. ga = Write(h, a, a.to)
  BY DEF Mutant
<1>7. ASSUME AtKid(f, a, ga) PROVE Text(h, a.to) = Text(gb, a.from)
  <2>1. Text(h, a.to) = Text(gb, gb[at].kid[a.i])
    BY <1>1, <1>3, <1>7, KidSays
  <2> QED
    BY <1>4, <1>7, <2>1 DEF AtKid
<1>8. CASE Swaps(f, opa, a)
  <2>1. ga[at].tok = a.to
    BY <1>1, <1>6, <1>8, SwapLeaves
  <2>2. a.to = h[at].tok
    BY <1>4, <1>5, <2>1 DEF Alike
  <2> QED
    BY <1>1, <1>6, <1>8, <2>2, IdleSwap
<1>9. CASE Clears(f, opa, a)
  <2>1. Shown(ga, at) = {}
    BY <1>1, <1>6, <1>9, ClearLeaves
  <2>2. Cardinality(Shown(h, at)) = 0
    BY <1>4, <1>5, <2>1, FS_EmptySet DEF Alike
  <2>3. Shown(h, at) = {}
    BY <1>2, <2>2, FilesAreGrounded, NoneShown
  <2> QED
    BY <1>1, <1>6, <1>9, <2>3, IdleClear
<1>10. CASE Drops(f, opa, a)
  <2>1. Shown(ga, at) = Shown(h, at) \ {a.i} /\ a.i \in Shown(h, at)
    BY <1>1, <1>6, <1>10, DropLeaves DEF AtItem
  <2>2. Cardinality(Shown(ga, at)) = Cardinality(Shown(h, at))
    BY <1>4, <1>5 DEF Alike
  <2>3. IsFiniteSet(Shown(h, at)) /\ Cardinality(Shown(h, at)) \in Nat
    BY <1>1, ShownFinite
  <2>4. Cardinality(Shown(ga, at)) = Cardinality(Shown(h, at)) - 1
    BY <2>1, <2>3, FS_RemoveElement
  <2> QED
    BY <2>2, <2>3, <2>4
<1>11. CASE Decides(f, opa, a)
  <2>1. AtKid(f, a, ga) /\ a.to \in {True, False} /\ a.slot = "kid"
    BY <1>1, <1>6, <1>11, DecideLeaves
  <2>2. Text(h, a.to) = Text(gb, a.from) /\ a.from \in Parsed(f)
    BY <1>7, <2>1 DEF AtKid
  <2>3. a.from = b.at
    <3> SUFFICES ASSUME a.from # b.at PROVE FALSE
      OBVIOUS
    <3>1. Text(h, a.to) = Text(h, a.from)
      BY <1>1, <2>1, <2>2, SaysTruth
    <3> QED
      BY <2>1, <3>1, IdleKid
  <2>4. gb[b.at].kind = "ident" /\ gb[b.at].tok = IF a.to = True THEN "true" ELSE "false"
    BY <1>1, <2>1, <2>2, <2>3, SaysTruth
  <2>5. h[b.at].kind = "ident"
    BY <1>1, <1>2, <2>4 DEF Edited
  <2>6. gb = Write(h, b, b.to) /\ Edits(f, opb, b)
    BY DEF Mutant
  <2>7. Swaps(f, opb, b)
    <3>1. ~Decides(f, opb, b) /\ ~Clears(f, opb, b)
      BY <2>5 DEF Decides, Clears
    <3>2. ~Bares(f, opb, b) /\ ~Drops(f, opb, b)
      BY <2>5 DEF Bares, Stripped, Drops, Loses
    <3> QED
      BY <2>6, <3>1, <3>2 DEF Edits
  <2>8. b.to = IF a.to = True THEN "true" ELSE "false"
    BY <1>1, <2>4, <2>6, <2>7, SwapLeaves
  <2>9. b.to \notin PackageConst
    BY <2>8, NamesAssumption DEF PackageConst
  <2>10. h[b.at].tok = IF a.to = True THEN "false" ELSE "true"
    BY <2>5, <2>7, <2>8, <2>9 DEF Swaps
  <2> QED
    BY <2>1, <2>3, <2>5, <2>10 DEF Flipped
<1>12. CASE Bares(f, opa, a)
  <2>1. h[a.from].kind = "unary" /\ a.from \in DOMAIN h /\ a.to = h[a.from].kid[1]
    BY <1>1, <1>6, <1>12, BareLeaves DEF Parsed
  <2>2. Text(h, a.to) # Text(gb, a.from)
    BY <1>1, <2>1, StripShort
  <2>3. CASE h[at].kind # "assign"
    <3>1. AtKid(f, a, ga)
      BY <1>1, <1>6, <1>12, <2>3, BareLeaves
    <3> QED
      BY <1>7, <2>2, <3>1
  <2>4. CASE h[at].kind = "assign"
    <3>1. AtItem(f, a, ga) /\ Shown(ga, at) = Shown(h, at)
      BY <1>1, <1>6, <1>12, <2>4, BareLeaves
    <3>2. Text(h, a.to) = Text(gb, gb[at].list[a.i])
      BY <1>1, <1>3, <1>4, <3>1, ItemSays
    <3>3. gb[at].list[a.i] = a.from
      BY <1>4, <3>1 DEF AtItem
    <3> QED
      BY <2>2, <3>2, <3>3
  <2> QED
    BY <2>3, <2>4
<1> QED
  BY <1>8, <1>9, <1>10, <1>11, <1>12 DEF Mutant, Edits

\* Mutants of nodes neither of which is above the other are different programs.
LEMMA MutantsApart ==
    ASSUME NEW f \in File, NEW opa, NEW a, NEW ga, Mutant(f, opa, a, ga),
           NEW opb, NEW b, NEW gb, Mutant(f, opb, b, gb),
           Text(ga, f.root) = Text(gb, f.root), ~Within(f, a.at, b.at), ~Within(f, b.at, a.at)
    PROVE  Idle(f, ga)
<1>1. /\ a.at \in Parsed(f) /\ Edited(f, ga, a.at) /\ f.tree[a.at].kind \notin {"unary", "empty"}
      /\ b.at \in Parsed(f) /\ Edited(f, gb, b.at)
  BY MutantEdits
<1>2. Free(f, a.at, a.at) /\ Free(f, b.at, a.at)
  BY DEF Free
<1>3. Text(ga, a.at) = Text(gb, a.at)
  BY <1>1, <1>2, SameAt
<1>4. Text(gb, a.at) = Text(f.tree, a.at)
  BY <1>1, TextOutside
<1> QED
  BY <1>1, <1>3, <1>4, Unseen DEF Idle

\* Without one or the other of two items, a list reads the same only if the two and
\* all between them say the same.
SameWithout(v, S, i, j) ==
    \A k \in 1 .. Cardinality(S \ {i}) : v[Nth(S \ {i}, k)] = v[Nth(S \ {j}, k)]
SameBetween(v, S, i, j) == \A x \in S : i <= x /\ x <= j => v[x] = v[i]

LEMMA Deleted ==
    ASSUME NEW n \in Nat, NEW S \in SUBSET (1 .. n), NEW i \in S, NEW j \in S, i < j, NEW v,
           SameWithout(v, S, i, j)
    PROVE  SameBetween(v, S, i, j)
<1> DEFINE T == {x \in S : i <= x /\ x <= j /\ v[x] # v[i]}
           Upto(I, x) == {y \in I : y <= x}
<1> SUFFICES ASSUME T # {} PROVE FALSE
  BY DEF SameBetween
<1>0. S \subseteq Nat /\ i \in Nat /\ j \in Nat
  BY SMT
<1>1. T \in SUBSET Nat
  BY <1>0
<1>2. PICK x \in T : \A y \in T : x <= y
  BY <1>1, Least
<1>3. x \in S /\ x \in Nat /\ i < x /\ x <= j /\ v[x] # v[i]
  BY <1>0, <1>2
<1>4. PICK p \in S : p < x /\ \A y \in S : y < x => y <= p
  <2> DEFINE D == {x - y : y \in {y \in S : y < x}}
  <2>1. D \in SUBSET Nat /\ x - i \in D
    BY <1>0, <1>3
  <2>2. PICK d \in D : \A e \in D : d <= e
    BY <2>1, Least
  <2>3. PICK p \in S : p < x /\ d = x - p
    BY <2>2
  <2>4. ASSUME NEW y \in S, y < x PROVE y <= p
    <3>1. d <= x - y
      BY <2>2, <2>4
    <3> QED
      BY <1>0, <1>3, <2>3, <3>1
  <2> QED
    BY <2>3, <2>4
<1>5. p \in Nat /\ i <= p /\ p < j /\ v[p] = v[i]
  <2>1. p \in Nat /\ i <= p /\ p < j
    BY <1>0, <1>3, <1>4
  <2>2. p \notin T
    BY <1>0, <1>2, <1>3, <1>4, <2>1
  <2> QED
    BY <2>1, <2>2
<1> DEFINE A == S \ {i}
           B == S \ {j}
           L == Upto(S, p)
<1>6. A \in SUBSET (1 .. n) /\ B \in SUBSET (1 .. n) /\ x \in A /\ p \in B
  BY <1>0, <1>3, <1>5
<1>7. Upto(A, x) = (L \cup {x}) \ {i} /\ Upto(B, p) = L
  <2>1. \A y \in S : y <= x <=> y <= p \/ y = x
    BY <1>0, <1>3, <1>4, <1>5
  <2>2. \A y \in S : y <= p => y # j
    BY <1>0, <1>5
  <2> QED
    BY <1>3, <2>1, <2>2
<1>8. IsFiniteSet(L) /\ Cardinality(L) \in Nat /\ i \in L /\ x \notin L
  <2>1. IsFiniteSet(1 .. n)
    BY FS_Interval
  <2>2. L \subseteq 1 .. n
    OBVIOUS
  <2>3. IsFiniteSet(L)
    <3> HIDE DEF L
    <3> QED
      BY <2>1, <2>2, FS_Subset
  <2>4. i \in L /\ x \notin L
    BY <1>0, <1>3, <1>4, <1>5
  <2> HIDE DEF L
  <2> QED
    BY <2>3, <2>4, FS_CardinalityType
<1>13. /\ \E k \in 1 .. Cardinality(A) : Nth(A, k) = x /\ Cardinality(Upto(A, x)) = k
      /\ \E k \in 1 .. Cardinality(B) : Nth(B, k) = p /\ Cardinality(Upto(B, p)) = k
  <2>1. ASSUME NEW I \in SUBSET (1 .. n), NEW y \in I
        PROVE  \E k \in 1 .. Cardinality(I) : Nth(I, k) = y /\ Cardinality(Upto(I, y)) = k
    <3>1. PICK k \in 1 .. Cardinality(I) : Nth(I, k) = y
      BY NthIs
    <3>2. Cardinality({z \in I : z <= Nth(I, k)}) = k
      BY NthIs
    <3>3. Upto(I, y) = {z \in I : z <= Nth(I, k)}
      BY <3>1
    <3> QED
      BY <3>1, <3>2, <3>3
  <2> HIDE DEF L, A, B, Upto
  <2> QED
    BY <1>6, <2>1
<1> HIDE DEF L, A, B, Upto
<1>9. Cardinality(Upto(A, x)) = Cardinality(Upto(B, p))
  <2>1. IsFiniteSet(L \cup {x}) /\ Cardinality(L \cup {x}) = Cardinality(L) + 1
    BY <1>8, FS_AddElement
  <2>2. i \in L \cup {x}
    BY <1>8
  <2> DEFINE M == L \cup {x}
  <2> HIDE DEF M
  <2>3. Cardinality(M \ {i}) = Cardinality(M) - 1
    BY <2>1, <2>2, FS_RemoveElement DEF M
  <2> QED
    BY <1>7, <1>8, <2>1, <2>3 DEF M
<1>10. PICK k \in 1 .. Cardinality(A) : Nth(A, k) = x /\ Cardinality(Upto(A, x)) = k
  BY <1>13
<1>11. PICK l \in 1 .. Cardinality(B) : Nth(B, l) = p /\ Cardinality(Upto(B, p)) = l
  BY <1>13
<1>12. v[Nth(A, k)] = v[Nth(B, k)]
  BY <1>10 DEF A, B, SameWithout
<1> QED
  BY <1>3, <1>5, <1>9, <1>10, <1>11, <1>12

\* A truth value for an operand, to which it could be stripped down.
BareTo(f, a, b) ==
    /\ a.slot = "kid" /\ a.to \in {True, False} /\ a.at = b.at /\ a.i = b.i /\ a # b
    /\ f.tree[b.to].kind = "ident" /\ f.tree[b.to].tok = IF a.to = True THEN "true" ELSE "false"

\* The only statement of a body that is emptied.
OnlyOne(f, opa, a, opb, b) ==
    /\ opa = "statement/remover" /\ opb \in {"control/if", "control/else", "control/case"}
    /\ a.at = b.at /\ Cardinality(Shown(f.tree, a.at)) = 1

\* Neighbours that say the same.
Echo(f, opa, a, opb, b) ==
    /\ opa = "statement/remover" /\ opb = "statement/remover" /\ a.at = b.at /\ a.i < b.i
    /\ \A x \in Shown(f.tree, a.at) :
          a.i <= x /\ x <= b.i => Text(f.tree, f.tree[a.at].list[x]) = Text(f.tree, f.tree[a.at].list[a.i])

SameProgram(f, opa, a, opb, b) ==
    \/ opa = opb /\ a = b
    \/ Flipped(f, a, b)
    \/ BareTo(f, a, b)
    \/ OnlyOne(f, opa, a, opb, b)
    \/ Echo(f, opa, a, opb, b)

LEMMA SameSwap ==
    ASSUME NEW f \in File, NEW opa, NEW a, Swaps(f, opa, a), NEW opb, NEW b, Swaps(f, opb, b),
           a.at = b.at, a.to = b.to
    PROVE  opa = opb /\ a = b
<1> DEFINE at == f.tree[a.at]
<1>1. a = b
  BY DEF Swaps
<1>2. /\ \A c \in PackageConst : Object[c].is # "local" /\ c \notin {"true", "false"}
      /\ a.at \in DOMAIN f.uses => at.kind = "ident"
  BY NamesAssumption DEF PackageConst
<1>3. \A t \in Orders : BoundarySwaps[t] # BinarySwaps[t]
  BY SwapsMove, SMTT(30)
<1> DEFINE P(op) ==
        \/ op = "literal/number" /\ at.kind = "lit"
        \/ op = "literal/boolean" /\ at.kind = "ident" /\ a.to \in {"true", "false"}
        \/ op = "identifier/constswap" /\ at.kind = "ident" /\ f.uses[a.at] \in PackageConst /\ a.to \in PackageConst
        \/ /\ op = "identifier/localconstswap" /\ at.kind = "ident" /\ Object[f.uses[a.at]].is = "local"
           /\ a.to \in PackageConst
        \/ op = "operator/assignment" /\ at.kind = "assign"
        \/ op = "operator/inc_dec" /\ at.kind = "incdec"
        \/ op = "operator/binary" /\ at.kind = "binary" /\ a.to = BinarySwaps[at.tok]
        \/ op = "operator/boundary" /\ at.kind = "binary" /\ at.tok \in Orders /\ a.to = BoundarySwaps[at.tok]
<1>4. ASSUME NEW op, Swaps(f, op, a) PROVE P(op)
  BY <1>2, <1>4 DEF Swaps
<1>5. P(opa) /\ P(opb)
  BY <1>1, <1>4
<1>6. opa = opb
  BY <1>2, <1>3, <1>5
<1> QED
  BY <1>1, <1>6

LEMMA TokenLeft ==
    ASSUME NEW f \in File, NEW op, NEW m, NEW g, Mutant(f, op, m, g), ~Swaps(f, op, m)
    PROVE  g[m.at].tok = f.tree[m.at].tok
<1>1. m.at \in Parsed(f) /\ g = Write(f.tree, m, m.to)
  BY DEF Mutant, Edits
<1>2. CASE Decides(f, op, m)
  BY <1>1, <1>2, DecideLeaves DEF AtKid
<1>3. CASE Bares(f, op, m)
  BY <1>1, <1>3, BareLeaves DEF AtKid, AtItem
<1>4. CASE Drops(f, op, m)
  BY <1>1, <1>4, DropLeaves DEF AtItem
<1>5. CASE Clears(f, op, m)
  BY <1>1, <1>5, ClearLeaves
<1> QED
  BY <1>2, <1>3, <1>4, <1>5 DEF Mutant, Edits

\* Two mutants of one node that are one program, and not the file's.
Here(f, opa, a, ga, opb, b, gb) ==
    /\ Mutant(f, opa, a, ga) /\ Mutant(f, opb, b, gb) /\ a.at = b.at
    /\ Text(ga, f.root) = Text(gb, f.root) /\ ~Idle(f, ga) /\ ~Idle(f, gb)

LEMMA HereReads ==
    ASSUME NEW f \in File, NEW opa, NEW a, NEW ga, NEW opb, NEW b, NEW gb,
           Here(f, opa, a, ga, opb, b, gb)
    PROVE  /\ a.at \in Parsed(f) /\ Edited(f, ga, a.at) /\ Edited(f, gb, a.at)
           /\ ga = Write(f.tree, a, a.to) /\ gb = Write(f.tree, b, b.to)
           /\ Text(ga, a.at) = Text(gb, a.at) /\ Reads(f, ga, gb, a.at)
<1>1. /\ a.at \in Parsed(f) /\ Edited(f, ga, a.at) /\ Edited(f, gb, a.at)
      /\ f.tree[a.at].kind # "empty"
  BY MutantEdits DEF Here
<1>2. Free(f, a.at, a.at)
  BY DEF Free
<1>3. Text(ga, a.at) = Text(gb, a.at)
  BY <1>1, <1>2, SameAt DEF Here
<1>4. Reads(f, ga, gb, a.at)
  BY <1>1, <1>3, ReadSame
<1> QED
  BY <1>1, <1>3, <1>4 DEF Here, Mutant

LEMMA HereSwap ==
    ASSUME NEW f \in File, NEW opa, NEW a, NEW ga, NEW opb, NEW b, NEW gb,
           Here(f, opa, a, ga, opb, b, gb), Swaps(f, opa, a)
    PROVE  opa = opb /\ a = b
<1>1. /\ a.at \in Parsed(f) /\ a.at = b.at /\ ga = Write(f.tree, a, a.to) /\ gb = Write(f.tree, b, b.to)
      /\ Reads(f, ga, gb, a.at)
  BY HereReads DEF Here
<1>2. ga[a.at].tok = a.to
  BY <1>1, SwapLeaves
<1>3. CASE Swaps(f, opb, b)
  <2>1. gb[b.at].tok = b.to
    BY <1>1, <1>3, SwapLeaves
  <2>2. a.to = b.to
    BY <1>1, <1>2, <2>1 DEF Reads
  <2> QED
    BY <1>1, <1>3, <2>2, SameSwap
<1>4. CASE ~Swaps(f, opb, b)
  <2>1. gb[b.at].tok = f.tree[b.at].tok
    BY <1>4, TokenLeft DEF Here
  <2>2. a.to = f.tree[a.at].tok
    BY <1>1, <1>2, <2>1 DEF Reads
  <2>3. Idle(f, ga)
    BY <1>1, <2>2, IdleSwap
  <2> QED
    BY <2>3 DEF Here
<1> QED
  BY <1>3, <1>4

LEMMA HereKid ==
    ASSUME NEW f \in File, NEW opa, NEW a, NEW ga, NEW opb, NEW b, NEW gb,
           Here(f, opa, a, ga, opb, b, gb), AtKid(f, a, ga), AtKid(f, b, gb)
    PROVE  a.i = b.i
<1> SUFFICES ASSUME a.i # b.i PROVE FALSE
  OBVIOUS
<1>1. a.at = b.at /\ Edited(f, gb, a.at) /\ Text(ga, a.at) = Text(gb, a.at)
  BY HereReads DEF Here
<1>2. Text(f.tree, a.to) = Text(gb, gb[a.at].kid[a.i])
  BY <1>1, KidSays
<1>3. gb[a.at].kid[a.i] = a.from
  BY <1>1 DEF AtKid, With
<1>4. a.from \in Parsed(f) /\ f.pos[a.at] < f.pos[a.from]
  <2>1. a.from # None
    BY FilesAreGrounded DEF AtKid, Grounded, Parsed
  <2> QED
    BY <2>1, PartsAre, Zenon DEF AtKid
<1>5. Text(gb, a.from) = Text(f.tree, a.from)
  BY <1>1, <1>4, TextLater DEF Parsed
<1>6. Idle(f, ga)
  BY <1>2, <1>3, <1>5, IdleKid
<1> QED
  BY <1>6 DEF Here

LEMMA HereItem ==
    ASSUME NEW f \in File, NEW opa, NEW a, NEW ga, NEW opb, NEW b, NEW gb,
           Here(f, opa, a, ga, opb, b, gb), AtItem(f, a, ga), AtItem(f, b, gb),
           Shown(ga, a.at) = Shown(f.tree, a.at), Shown(gb, b.at) = Shown(f.tree, b.at)
    PROVE  a.i = b.i
<1> SUFFICES ASSUME a.i # b.i PROVE FALSE
  OBVIOUS
<1>1. a.at = b.at /\ Edited(f, gb, a.at) /\ Text(ga, a.at) = Text(gb, a.at)
  BY HereReads DEF Here
<1>2. Text(f.tree, a.to) = Text(gb, gb[a.at].list[a.i])
  BY <1>1, ItemSays
<1>3. gb[a.at].list[a.i] = a.from
  BY <1>1, Zenon DEF AtItem, With, Shown
<1>4. a.from \in Parsed(f) /\ f.pos[a.at] < f.pos[a.from]
  BY PartsAre, Zenon DEF AtItem, Shown
<1>5. Text(gb, a.from) = Text(f.tree, a.from)
  BY <1>1, <1>4, TextLater DEF Parsed
<1>6. Idle(f, ga)
  BY <1>2, <1>3, <1>5, IdleItem
<1> QED
  BY <1>6 DEF Here

\* Of the operands of one node.
LEMMA HereOperand ==
    ASSUME NEW f \in File, NEW opa, NEW a, NEW ga, NEW opb, NEW b, NEW gb,
           Here(f, opa, a, ga, opb, b, gb),
           Decides(f, opa, a) \/ Bares(f, opa, a), Decides(f, opb, b) \/ Bares(f, opb, b)
    PROVE  (opa = opb /\ a = b) \/ BareTo(f, a, b) \/ BareTo(f, b, a)
<1> DEFINE at == a.at
<1>1. /\ at \in Parsed(f) /\ at = b.at /\ ga = Write(f.tree, a, a.to) /\ gb = Write(f.tree, b, b.to)
      /\ Edited(f, ga, at) /\ Edited(f, gb, at) /\ Text(ga, at) = Text(gb, at)
  BY HereReads DEF Here
<1>2. a.i = b.i
  <2>1. CASE f.tree[at].kind = "assign"
    <3>1. Bares(f, opa, a) /\ Bares(f, opb, b)
      BY <1>1, <2>1 DEF Decides
    <3>2. /\ AtItem(f, a, ga) /\ Shown(ga, a.at) = Shown(f.tree, a.at)
          /\ AtItem(f, b, gb) /\ Shown(gb, b.at) = Shown(f.tree, b.at)
      BY <1>1, <2>1, <3>1, BareLeaves
    <3> QED
      BY <3>2, HereItem
  <2>2. CASE f.tree[at].kind # "assign"
    <3>1. AtKid(f, a, ga)
      BY <1>1, <2>2, BareLeaves, DecideLeaves
    <3>2. AtKid(f, b, gb)
      BY <1>1, <2>2, BareLeaves, DecideLeaves
    <3> QED
      BY <3>1, <3>2, HereKid
  <2> QED
    BY <2>1, <2>2
<1>3. ASSUME NEW opc, NEW c, NEW gc, NEW opd, NEW d, NEW gd,
             Decides(f, opc, c), Bares(f, opd, d), c.at = at, d.at = at, c.i = d.i,
             gc = Write(f.tree, c, c.to), gd = Write(f.tree, d, d.to), Text(gc, at) = Text(gd, at)
      PROVE  BareTo(f, c, d)
  <2>1. AtKid(f, c, gc) /\ c.to \in {True, False} /\ c.slot = "kid" /\ f.tree[at].kind = "binary"
    BY <1>1, <1>3, DecideLeaves
  <2>2. /\ AtKid(f, d, gd) /\ f.tree[d.from].kind = "unary" /\ d.from \in Parsed(f)
        /\ d.to = f.tree[d.from].kid[1]
    BY <1>1, <1>3, <2>1, BareLeaves
  <2>3. d.to \in Parsed(f) /\ f.pos[at] < f.pos[d.to]
    BY <1>3, <2>2, UnaryOperand, Zenon DEF AtKid, Parsed
  <2>4. gd[at].kid[d.i] = d.to
    BY <1>3, <2>2, Zenon DEF AtKid, With
  <2>5. Edited(f, gd, at)
    BY <1>3, <2>2, Zenon DEF AtKid
  <2>6. Text(f.tree, c.to) = Text(gd, d.to)
    BY <1>3, <2>1, <2>4, <2>5, KidSays
  <2>7. Text(gd, d.to) = Text(f.tree, d.to)
    BY <2>3, <2>5, TextLater DEF Parsed
  <2>8. f.tree[d.to].kind = "ident" /\ f.tree[d.to].tok = IF c.to = True THEN "true" ELSE "false"
    BY <1>1, <2>1, <2>3, <2>6, <2>7, Unedited, SaysTruth
  <2>9. c # d
    BY <2>1, <2>3, Specials
  <2> QED
    BY <1>3, <2>1, <2>8, <2>9 DEF BareTo
<1>4. CASE Decides(f, opa, a) /\ Decides(f, opb, b)
  BY <1>1, <1>2, <1>4, Zenon DEF Decides
<1>5. CASE Bares(f, opa, a) /\ Bares(f, opb, b)
  BY <1>1, <1>2, <1>5 DEF Bares
<1>6. CASE Decides(f, opa, a) /\ Bares(f, opb, b)
  BY <1>1, <1>2, <1>3, <1>6
<1>7. CASE Bares(f, opa, a) /\ Decides(f, opb, b)
  BY <1>1, <1>2, <1>3, <1>7
<1> QED
  BY <1>4, <1>5, <1>6, <1>7

\* Of what a node owns.
LEMMA HereDrops ==
    ASSUME NEW f \in File, NEW opa, NEW a, NEW ga, NEW opb, NEW b, NEW gb,
           Here(f, opa, a, ga, opb, b, gb), Drops(f, opa, a), Drops(f, opb, b), a.i <= b.i
    PROVE  SameProgram(f, opa, a, opb, b)
<1> DEFINE h == f.tree
           at == a.at
           list == h[at].list
           S == Shown(h, at)
           v == [x \in S |-> Text(h, list[x])]
<1>1. /\ at \in Parsed(f) /\ at = b.at /\ ga = Write(h, a, a.to) /\ gb = Write(h, b, b.to)
      /\ Reads(f, ga, gb, at)
  BY HereReads DEF Here
<1>2. AtItem(f, a, ga) /\ Shown(ga, at) = S \ {a.i} /\ AtItem(f, b, gb) /\ Shown(gb, at) = S \ {b.i}
  BY <1>1, DropLeaves
<1>3. /\ a.i \in S /\ b.i \in S
      /\ ga[at].list = With(list, a.i, a.to) /\ gb[at].list = With(list, b.i, b.to)
  BY <1>1, <1>2 DEF AtItem
<1>4. Len(list) \in Nat /\ S \in SUBSET (1 .. Len(list)) /\ DOMAIN list = 1 .. Len(list)
  BY <1>1, PartsAre DEF Shown
<1>5. opa = opb
  BY DEF Drops
<1>6. CASE a.i = b.i
  BY <1>1, <1>5, <1>6 DEF Drops, SameProgram
<1>7. CASE a.i # b.i
  <2> DEFINE i == a.i
             j == b.i
  <2>1. i \in S /\ j \in S /\ i < j
    <3>1. i \in Nat /\ j \in Nat
      BY <1>3, <1>4
    <3> QED
      BY <1>3, <1>7, <3>1
  <2>2. \A x \in S : /\ x # i => ga[at].list[x] = list[x]
                     /\ x # j => gb[at].list[x] = list[x]
    BY <1>3, <1>4 DEF With
  <2>3. /\ \A k \in 1 .. Cardinality(S \ {i}) : Nth(S \ {i}, k) \in S \ {i}
        /\ \A k \in 1 .. Cardinality(S \ {j}) : Nth(S \ {j}, k) \in S \ {j}
    <3>1. S \ {i} \in SUBSET (1 .. Len(list)) /\ S \ {j} \in SUBSET (1 .. Len(list))
      BY <1>4
    <3> HIDE DEF S, i, j, list
    <3> QED
      BY <1>4, <3>1, NthIs
  <2>4. /\ Cardinality(S \ {i}) = Cardinality(S \ {j})
        /\ \A k \in 1 .. Cardinality(S \ {i}) :
              Text(h, ga[at].list[Nth(S \ {i}, k)]) = Text(h, gb[at].list[Nth(S \ {j}, k)])
    BY <1>1, <1>2 DEF Reads
  <2>5. \A k \in 1 .. Cardinality(S \ {i}) : v[Nth(S \ {i}, k)] = v[Nth(S \ {j}, k)]
    <3> HIDE DEF S, i, j, list
    <3> TAKE k \in 1 .. Cardinality(S \ {i})
    <3> DEFINE p == Nth(S \ {i}, k)
               q == Nth(S \ {j}, k)
    <3>1. p \in S \ {i} /\ q \in S \ {j}
      BY <2>3, <2>4
    <3>2. Text(h, ga[at].list[p]) = Text(h, gb[at].list[q])
      BY <2>4
    <3> HIDE DEF p, q
    <3> QED
      BY <2>2, <3>1, <3>2 DEF p, q
  <2>6. SameBetween(v, S, i, j)
    <3>1. SameWithout(v, S, i, j)
      BY <2>5 DEF SameWithout
    <3> HIDE DEF S, i, j, list, v
    <3> QED
      BY <1>4, <2>1, <3>1, Deleted
  <2>7. \A x \in S : i <= x /\ x <= j => Text(h, list[x]) = Text(h, list[i])
    BY <2>1, <2>6 DEF SameBetween
  <2>8. Echo(f, opa, a, opb, b)
    BY <1>1, <1>5, <2>1, <2>7 DEF Echo, Drops
  <2> QED
    BY <2>8 DEF SameProgram
<1> QED
  BY <1>6, <1>7

LEMMA HereEmptied ==
    ASSUME NEW f \in File, NEW opa, NEW a, NEW ga, NEW opb, NEW b, NEW gb,
           Here(f, opa, a, ga, opb, b, gb), Drops(f, opa, a), Clears(f, opb, b)
    PROVE  OnlyOne(f, opa, a, opb, b)
<1> DEFINE S == Shown(f.tree, a.at)
<1>1. /\ a.at \in Parsed(f) /\ a.at = b.at /\ ga = Write(f.tree, a, a.to) /\ gb = Write(f.tree, b, b.to)
      /\ Reads(f, ga, gb, a.at)
  BY HereReads DEF Here
<1>2. a.i \in S /\ Shown(ga, a.at) = S \ {a.i}
  BY <1>1, DropLeaves DEF AtItem
<1>3. Shown(gb, a.at) = {}
  BY <1>1, ClearLeaves
<1>4. Cardinality(S \ {a.i}) = 0
  BY <1>1, <1>2, <1>3, FS_EmptySet DEF Reads
<1>5. IsFiniteSet(S) /\ Cardinality(S) \in Nat
  BY <1>1, ShownFinite
<1>6. Cardinality(S) = 1
  <2> HIDE DEF S
  <2>1. Cardinality(S \ {a.i}) = Cardinality(S) - 1
    BY <1>2, <1>5, FS_RemoveElement
  <2> QED
    BY <1>4, <1>5, <2>1
<1> QED
  BY <1>1, <1>6 DEF OnlyOne, Drops, Clears

\* The body of an if is the body of that if only, and is not its else.
LEMMA HereClears ==
    ASSUME NEW f \in File, NEW opa, NEW a, Clears(f, opa, a), a.at \in Parsed(f),
           NEW opb, NEW b, Clears(f, opb, b), a.at = b.at
    PROVE  opa = opb /\ a = b
<1>1. a = b
  BY DEF Clears
<1>2. CASE f.tree[a.at].kind = "case"
  BY <1>2 DEF Clears
<1>3. CASE f.tree[a.at].kind = "block"
  <2>1. /\ opa \in {"control/if", "control/else"} /\ opb \in {"control/if", "control/else"}
    BY <1>3 DEF Clears
  <2>2. PICK p \in Parsed(f) : f.tree[p].kind = "if" /\ a.at = f.tree[p].kid[Part(opa)]
    BY <1>3 DEF Clears
  <2>3. PICK q \in Parsed(f) : f.tree[q].kind = "if" /\ b.at = f.tree[q].kid[Part(opb)]
    BY <1>3 DEF Clears
  <2>4. 2 \in DOMAIN f.tree[p].kid /\ 3 \in DOMAIN f.tree[p].kid
    BY <2>2, IfParts DEF Parsed
  <2>5. 2 \in DOMAIN f.tree[q].kid /\ 3 \in DOMAIN f.tree[q].kid
    BY <2>3, IfParts DEF Parsed
  <2>6. a.at # None
    BY FilesAreGrounded DEF Grounded, Parsed
  <2>7. Part(opa) = Part(opb)
    <3>1. p \in DOMAIN f.tree /\ q \in DOMAIN f.tree
      BY DEF Parsed
    <3>2. \A i \in DOMAIN f.tree[p].kid : \A j \in DOMAIN f.tree[q].kid :
            f.tree[p].kid[i] = f.tree[q].kid[j] /\ f.tree[p].kid[i] # None => p = q /\ i = j
      BY <3>1, OnePlace
    <3>3. Part(opa) \in DOMAIN f.tree[p].kid /\ Part(opb) \in DOMAIN f.tree[q].kid
      BY <2>4, <2>5 DEF Part
    <3> QED
      BY <2>2, <2>3, <2>6, <3>2, <3>3
  <2> QED
    BY <1>1, <2>1, <2>7 DEF Part
<1> QED
  BY <1>1, <1>2, <1>3 DEF Clears

LEMMA MutantsHere ==
    ASSUME NEW f \in File, NEW opa, NEW a, NEW ga, NEW opb, NEW b, NEW gb,
           Here(f, opa, a, ga, opb, b, gb)
    PROVE  SameProgram(f, opa, a, opb, b) \/ SameProgram(f, opb, b, opa, a)
<1> DEFINE kind == f.tree[a.at].kind
           Operand(op, m) == Decides(f, op, m) \/ Bares(f, op, m)
<1>1. Here(f, opb, b, gb, opa, a, ga)
  BY DEF Here
<1>2. /\ a.at \in Parsed(f) /\ a.at = b.at /\ ga = Write(f.tree, a, a.to) /\ gb = Write(f.tree, b, b.to)
      /\ Edits(f, opa, a) /\ Edits(f, opb, b)
  BY HereReads DEF Here, Mutant
<1>3. CASE Swaps(f, opa, a)
  BY <1>3, HereSwap DEF SameProgram
<1>4. CASE Swaps(f, opb, b)
  BY <1>1, <1>4, HereSwap DEF SameProgram
<1>5. Operand(opa, a) => kind \in {"binary", "if", "assign"}
  BY <1>2, BareLeaves DEF Decides
<1>6. Operand(opb, b) => kind \in {"binary", "if", "assign"}
  BY <1>2, BareLeaves DEF Decides
<1>7. Drops(f, opa, a) \/ Clears(f, opa, a) => kind \in {"block", "case"}
  BY <1>2, DropLeaves DEF Clears
<1>8. Drops(f, opb, b) \/ Clears(f, opb, b) => kind \in {"block", "case"}
  BY <1>2, DropLeaves DEF Clears
<1>9. CASE Operand(opa, a) /\ Operand(opb, b)
  BY <1>9, HereOperand DEF SameProgram
<1>10. CASE Drops(f, opa, a) /\ Drops(f, opb, b)
  <2>1. a.i \in Nat /\ b.i \in Nat
    BY <1>10 DEF Drops, Loses
  <2>2. CASE a.i <= b.i
    BY <1>10, <2>2, HereDrops
  <2>3. CASE b.i <= a.i
    BY <1>1, <1>10, <2>3, HereDrops
  <2> QED
    BY <2>1, <2>2, <2>3
<1>11. CASE Drops(f, opa, a) /\ Clears(f, opb, b)
  BY <1>11, HereEmptied DEF SameProgram
<1>12. CASE Clears(f, opa, a) /\ Drops(f, opb, b)
  BY <1>1, <1>12, HereEmptied DEF SameProgram
<1>13. CASE Clears(f, opa, a) /\ Clears(f, opb, b)
  BY <1>2, <1>13, HereClears DEF SameProgram
<1> HIDE DEF kind, Operand
<1>14. /\ Swaps(f, opa, a) \/ Operand(opa, a) \/ Drops(f, opa, a) \/ Clears(f, opa, a)
       /\ Swaps(f, opb, b) \/ Operand(opb, b) \/ Drops(f, opb, b) \/ Clears(f, opb, b)
  BY <1>2 DEF Edits, Operand
<1> QED
  BY <1>3, <1>4, <1>5, <1>6, <1>7, <1>8, <1>9, <1>10, <1>11, <1>12, <1>13, <1>14

\* Two mutants that are one program, and not the file's, are one of the pairs that are
\* known to be.
LEMMA MutantsDiffer ==
    ASSUME NEW f \in File, NEW opa, NEW a, NEW ga, Mutant(f, opa, a, ga), ~Idle(f, ga),
           NEW opb, NEW b, NEW gb, Mutant(f, opb, b, gb), Text(ga, f.root) = Text(gb, f.root)
    PROVE  SameProgram(f, opa, a, opb, b) \/ SameProgram(f, opb, b, opa, a)
<1>1. ~Idle(f, gb)
  BY DEF Idle
<1>2. CASE a.at = b.at
  <2>1. Here(f, opa, a, ga, opb, b, gb)
    BY <1>1, <1>2 DEF Here
  <2> QED
    BY <2>1, MutantsHere
<1>3. CASE a.at # b.at /\ Within(f, a.at, b.at)
  BY <1>3, MutantAbove DEF SameProgram
<1>4. CASE a.at # b.at /\ Within(f, b.at, a.at)
  BY <1>1, <1>4, MutantAbove DEF SameProgram
<1>5. CASE ~Within(f, a.at, b.at) /\ ~Within(f, b.at, a.at)
  BY <1>5, MutantsApart
<1> QED
  BY <1>2, <1>3, <1>4, <1>5

\* What leaves the program what it was.
NoOp(f, op, m) ==
    \/ /\ op = "expression/remove" /\ f.tree[m.from].kind = "ident"
       /\ f.tree[m.from].tok = IF m.to = True THEN "true" ELSE "false"
    \/ op \in {"control/if", "control/else", "control/case"} /\ Shown(f.tree, m.at) = {}
    \/ op = "identifier/localconstswap" /\ m.from = m.to

LEMMA IdleReads ==
    ASSUME NEW f \in File, NEW op, NEW m, NEW g, Mutant(f, op, m, g), Idle(f, g)
    PROVE  /\ m.at \in Parsed(f) /\ Edited(f, g, m.at) /\ Edited(f, f.tree, m.at)
           /\ g = Write(f.tree, m, m.to) /\ Text(g, m.at) = Text(f.tree, m.at)
           /\ Reads(f, g, f.tree, m.at)
<1>1. m.at \in Parsed(f) /\ Edited(f, g, m.at) /\ f.tree[m.at].kind # "empty"
  BY MutantEdits
<1>2. Edited(f, f.tree, m.at) /\ Free(f, m.at, m.at)
  BY <1>1, Unedited DEF Free
<1>3. Text(g, m.at) = Text(f.tree, m.at)
  BY <1>1, <1>2, SameAt DEF Idle
<1> QED
  BY <1>1, <1>2, <1>3, ReadSame DEF Mutant

LEMMA IdleMeans ==
    ASSUME NEW f \in File, NEW op, NEW m, NEW g, Mutant(f, op, m, g), Idle(f, g)
    PROVE  NoOp(f, op, m)
<1> DEFINE at == f.tree[m.at]
<1>1. /\ m.at \in Parsed(f) /\ Edited(f, g, m.at) /\ Edited(f, f.tree, m.at)
      /\ g = Write(f.tree, m, m.to) /\ Text(g, m.at) = Text(f.tree, m.at)
      /\ Reads(f, g, f.tree, m.at)
  BY IdleReads
<1>2. CASE Swaps(f, op, m)
  <2>1. m.to = at.tok
    BY <1>1, <1>2, SwapLeaves DEF Reads
  <2>2. m.from = at.tok
    BY <1>2 DEF Swaps, Edit
  <2>3. op \notin {"literal/number", "operator/assignment", "operator/inc_dec", "literal/boolean"}
    BY <1>2, <2>1 DEF Swaps
  <2>4. op \notin {"operator/binary", "operator/boundary"}
    BY <1>2, <2>1, SwapsMove DEF Swaps
  <2>5. op # "identifier/constswap"
    BY <1>2, <2>1, NamesAssumption DEF Swaps, PackageConst
  <2>6. op = "identifier/localconstswap"
    BY <1>2, <2>3, <2>4, <2>5 DEF Swaps
  <2> QED
    BY <2>1, <2>2, <2>6 DEF NoOp
<1>3. ASSUME AtKid(f, m, g) PROVE Text(f.tree, m.to) = Text(f.tree, m.from)
  <2>1. Text(f.tree, m.to) = Text(f.tree, f.tree[m.at].kid[m.i])
    BY <1>1, <1>3, KidSays
  <2> QED
    BY <1>3, <2>1 DEF AtKid
<1>4. CASE Decides(f, op, m)
  <2>1. AtKid(f, m, g) /\ m.to \in {True, False}
    BY <1>1, <1>4, DecideLeaves
  <2>2. m.from \in Parsed(f) /\ Text(f.tree, m.to) = Text(f.tree, m.from)
    BY <1>3, <2>1 DEF AtKid
  <2>3. /\ f.tree[m.from].kind = "ident"
        /\ f.tree[m.from].tok = IF m.to = True THEN "true" ELSE "false"
    BY <1>1, <2>1, <2>2, SaysTruth
  <2> QED
    BY <1>4, <2>3 DEF NoOp, Decides
<1>5. CASE Bares(f, op, m)
  <2>1. f.tree[m.from].kind = "unary" /\ m.from \in DOMAIN f.tree /\ m.to = f.tree[m.from].kid[1]
    BY <1>1, <1>5, BareLeaves, SMTT(30) DEF Parsed
  <2>2. Text(f.tree, m.to) # Text(f.tree, m.from)
    BY <1>1, <2>1, MutantEdits, StripShort
  <2>3. CASE at.kind # "assign"
    BY <1>1, <1>3, <1>5, <2>2, <2>3, BareLeaves
  <2>4. CASE at.kind = "assign"
    <3>1. AtItem(f, m, g) /\ Shown(g, m.at) = Shown(f.tree, m.at)
      BY <1>1, <1>5, <2>4, BareLeaves
    <3>2. Text(f.tree, m.to) = Text(f.tree, f.tree[m.at].list[m.i])
      BY <1>1, <3>1, ItemSays
    <3> QED
      BY <2>2, <3>1, <3>2 DEF AtItem
  <2> QED
    BY <2>3, <2>4
<1>6. CASE Drops(f, op, m)
  <2> DEFINE S == Shown(f.tree, m.at)
  <2>1. m.i \in S /\ Shown(g, m.at) = S \ {m.i}
    BY <1>1, <1>6, DropLeaves DEF AtItem
  <2>2. IsFiniteSet(S) /\ Cardinality(S) \in Nat
    BY <1>1, ShownFinite
  <2>3. Cardinality(S \ {m.i}) = Cardinality(S)
    BY <1>1, <2>1 DEF Reads
  <2> HIDE DEF S
  <2>4. Cardinality(S \ {m.i}) = Cardinality(S) - 1
    BY <2>1, <2>2, FS_RemoveElement
  <2> QED
    BY <2>2, <2>3, <2>4
<1>7. CASE Clears(f, op, m)
  <2>1. Cardinality(Shown(f.tree, m.at)) = 0
    BY <1>1, <1>7, ClearLeaves, FS_EmptySet DEF Reads
  <2>2. Shown(f.tree, m.at) = {}
    BY <1>1, <2>1, FilesAreGrounded, NoneShown DEF Parsed
  <2> QED
    BY <1>7, <2>2 DEF NoOp, Clears
<1> QED
  BY <1>2, <1>4, <1>5, <1>6, <1>7 DEF Mutant, Edits

\* What the report shows after: the node that is rendered is the one edited, which
\* reads otherwise, or the statement that was removed, which reads as it did.
LEMMA RenderedNode ==
    ASSUME NEW f \in File, NEW op, NEW m, NEW g, Mutant(f, op, m, g), ~Idle(f, g)
    PROVE  /\ op = "statement/remover" => Text(g, m.node) = Text(f.tree, m.node)
           /\ op # "statement/remover" => Text(g, m.node) # Text(f.tree, m.node)
           /\ Text(g, m.node) # <<>>
<1>1. m.at \in Parsed(f) /\ Edited(f, g, m.at) /\ g = Write(f.tree, m, m.to) /\ Edits(f, op, m)
  BY MutantEdits DEF Mutant
<1>2. Text(g, m.at) # Text(f.tree, m.at)
  BY <1>1, Unseen DEF Idle
<1>3. \A n \in DOMAIN f.tree : Text(g, n) # <<>>
  <2>1. Grounded(g, f.pos, Last(f)) /\ Last(f) \in Nat /\ DOMAIN g = DOMAIN f.tree
    BY <1>1, FilesAreGrounded DEF Edited, Elsewhere
  <2> QED
    BY <2>1, TextIs
<1>4. CASE op = "statement/remover"
  <2>1. Drops(f, op, m)
    BY <1>1, <1>4 DEF Edits, Swaps, Decides, Bares, Clears
  <2>2. m.from \in Parsed(f) /\ m.node = m.from /\ f.pos[m.at] < f.pos[m.from]
    BY <1>1, <2>1, DropLeaves
  <2>3. Text(g, m.node) = Text(f.tree, m.node)
    BY <1>1, <2>2, TextLater DEF Parsed
  <2> QED
    BY <1>3, <1>4, <2>2, <2>3 DEF Parsed
<1>5. CASE op # "statement/remover"
  <2>1. ~Drops(f, op, m)
    BY <1>5 DEF Drops
  <2>2. m.node = m.at
    <3>1. Bares(f, op, m) => m.node = m.at
      BY DEF Bares, Strips, Edit
    <3> QED
      BY <1>1, <2>1, <3>1 DEF Edits, Swaps, Decides, Clears, Edit
  <2> QED
    BY <1>1, <1>2, <1>3, <1>5, <2>2 DEF Parsed
<1> QED
  BY <1>4, <1>5

-----------------------------------------------------------------------------
(* What is recorded of the mutants that were applied.                        *)

Now(m) == Write(file.tree, m, m.to)

Recorded(o) ==
    LET m == o.edit
        was == Text(file.tree, m.node)
        is == Text(Now(m), m.node) IN
    /\ o.program = Text(Now(m), file.root)
    /\ o.after = IF is = was THEN <<>> ELSE is
RecordInv == \A k \in DOMAIN offered : Recorded(offered[k])

\* No mutation was applied more often than its operator is bound.
FewInv ==
    \A op \in Range(All) : \A n \in Parsed(file) : \A j \in DOMAIN Of(op, n) :
        Cardinality(Seen(op, Of(op, n)[j])) <= Times(op)

LEMMA RecordStep == ASSUME IInv, OfferedInv, RecordInv, [Next]_vars PROVE RecordInv'
<1>1. CASE Apply
  <2> DEFINE m == Head(pending)
             now == Write(tree, m, m.to)
             o == [op |-> bound[next - 1], edit |-> m,
                   program |-> Text(now, file.root), after |-> After(m, now)]
             S == {offered[k] : k \in DOMAIN offered} \cup {o}
  <2>1. offered' = Append(offered, o) /\ file' = file /\ pending # <<>> /\ ~applied
    BY <1>1 DEF Apply
  <2>2. tree = file.tree
    BY <2>1 DEF IInv, TreeInv
  <2>3. Recorded(o)
    BY <2>2 DEF Recorded, Now, After
  <2> HIDE DEF o
  <2>4. \A s \in S : Recorded(s)
    BY <2>3 DEF RecordInv
  <2>5. offered \in Seq({offered[k] : k \in DOMAIN offered})
    BY DEF OfferedInv, IsSeq
  <2>6. offered \in Seq(S) /\ o \in S
    BY <2>5
  <2> HIDE DEF S
  <2>7. offered' \in Seq(S)
    BY <2>1, <2>6
  <2>8. \A k \in DOMAIN offered' : offered'[k] \in S
    BY <2>7, Elements
  <2>9. \A s \in S : Recorded(s)'
    BY <2>1, <2>4 DEF Recorded, Now
  <2> QED
    BY <2>8, <2>9 DEF RecordInv
<1>2. CASE ~Apply
  <2>1. offered' = offered /\ file' = file
    BY <1>2 DEF Next, vars, Offer, Descend, Revert, Abandon
  <2> QED
    BY <2>1 DEF RecordInv, Recorded, Now
<1> QED
  BY <1>1, <1>2

LEMMA FewCounted == ASSUME WalkInv, ~Gone PROVE FewInv
<1> SUFFICES ASSUME NEW op \in Range(All), NEW n \in Parsed(file), NEW j \in DOMAIN Of(op, n)
             PROVE  Cardinality(Seen(op, Of(op, n)[j])) <= Times(op)
  BY DEF FewInv
<1> DEFINE B == {k \in DOMAIN bound : bound[k] = op}
<1>1. file \in File /\ bound \in Seq(Range(All))
  BY DEF WalkInv, IInv, StackInv, BoundInv
<1>2. Cardinality(Seen(op, Of(op, n)[j])) = Cardinality(Due(op, n, j))
  BY <1>1, AllAlone DEF WalkInv, CountInv, Counted
<1>3. IsFiniteSet(B)
  <2>1. Len(bound) \in Nat /\ DOMAIN bound = 1 .. Len(bound) /\ B \subseteq DOMAIN bound
    BY <1>1
  <2>2. IsFiniteSet(DOMAIN bound)
    BY <2>1, FS_Interval
  <2> HIDE DEF B
  <2> QED
    BY <2>1, <2>2, FS_Subset
<1>4. Due(op, n, j) \subseteq B
  BY DEF Due
<1>5. Cardinality(Due(op, n, j)) <= Cardinality(B)
  <2> HIDE DEF B
  <2> QED
    BY <1>3, <1>4, FS_Subset
<1> QED
  BY <1>2, <1>5 DEF Times

LEMMA FewStep == ASSUME WalkInv, FewInv, [Next]_vars PROVE FewInv' \/ (~Gone)'
<1>1. CASE Apply
  <2>1. stack # <<>> /\ stack' = stack
    BY <1>1 DEF Apply, WalkInv, IInv, PendingInv
  <2> QED
    BY <2>1 DEF Gone
<1>2. CASE ~Apply
  <2>1. offered' = offered /\ file' = file /\ bound' = bound
    BY <1>2 DEF Next, vars, Offer, Descend, Revert, Abandon
  <2> QED
    BY <2>1 DEF FewInv, Seen, Of, Times
<1> QED
  BY <1>1, <1>2

\* With each operator bound once, no mutation is applied twice.
LEMMA AppliedAtMostOnce ==
    ASSUME WalkInv, FewInv, \A op \in Range(bound) : Times(op) = 1,
           NEW j \in DOMAIN offered, NEW k \in DOMAIN offered,
           offered[j].op = offered[k].op, offered[j].edit = offered[k].edit
    PROVE  j = k
<1> DEFINE op == offered[j].op
           S == Seen(op, offered[j].edit)
<1>1. op \in Range(All) /\ \E n \in Parsed(file) : \E i \in DOMAIN Of(op, n) : offered[j].edit = Of(op, n)[i]
  BY DEF WalkInv, OfferedInv, IsOffer
<1>2. Cardinality(S) <= Times(op)
  BY <1>1 DEF FewInv
<1>3. j \in S /\ k \in S /\ S \subseteq DOMAIN offered
  BY DEF Seen
<1>4. IsFiniteSet(S)
  <2>1. Len(offered) \in Nat /\ DOMAIN offered = 1 .. Len(offered)
    BY DEF WalkInv, OfferedInv, IsSeq
  <2>2. IsFiniteSet(DOMAIN offered)
    BY <2>1, FS_Interval
  <2> HIDE DEF S
  <2> QED
    BY <1>3, <2>2, FS_Subset
<1>5. Times(op) \in {0, 1}
  <2>1. CASE op \in Range(bound)
    BY <2>1
  <2>2. CASE op \notin Range(bound)
    <3>1. {i \in DOMAIN bound : bound[i] = op} = {}
      BY <2>2 DEF Range
    <3> QED
      BY <3>1, FS_EmptySet DEF Times
  <2> QED
    BY <2>1, <2>2
<1> HIDE DEF S, op
<1>6. Cardinality(S) \in Nat /\ Cardinality(S \ {j}) = Cardinality(S) - 1 /\ IsFiniteSet(S \ {j})
  BY <1>3, <1>4, FS_CardinalityType, FS_RemoveElement
<1>7. Cardinality(S \ {j}) \in Nat
  BY <1>6, FS_CardinalityType
<1>8. Cardinality(S \ {j}) = 0
  BY <1>2, <1>5, <1>6, <1>7
<1>9. S \ {j} = {}
  BY <1>6, <1>8, FS_EmptySet
<1> QED
  BY <1>3, <1>9

\* What was applied is a mutant of the file.
LEMMA AppliedIsMutant ==
    ASSUME WalkInv, RecordInv, NEW k \in DOMAIN offered
    PROVE  LET o == offered[k] IN
           /\ file \in File /\ Mutant(file, o.op, o.edit, Now(o.edit))
           /\ o.program = Text(Now(o.edit), file.root)
           /\ o.program = Original <=> Idle(file, Now(o.edit))
<1> DEFINE o == offered[k]
<1>1. file \in File /\ IsOffer(o) /\ Recorded(o)
  BY DEF WalkInv, IInv, StackInv, OfferedInv, RecordInv
<1>2. PICK n \in Parsed(file) : \E j \in DOMAIN Of(o.op, n) : o.edit = Of(o.op, n)[j]
  BY <1>1 DEF IsOffer
<1>3. Fine(file, o.op, n, Of(o.op, n))
  BY <1>1, MutateFine DEF IsOffer, Of
<1>4. Edits(file, o.op, o.edit)
  BY <1>2, <1>3 DEF Fine
<1> QED
  BY <1>1, <1>4 DEF Mutant, Now, Recorded, Idle, Original

LEMMA TwinsIf ==
    ASSUME WalkInv, RecordInv, NEW j \in DOMAIN offered, NEW k \in DOMAIN offered,
           offered[j].op # offered[k].op \/ offered[j].edit # offered[k].edit,
           \/ SameProgram(file, offered[j].op, offered[j].edit, offered[k].op, offered[k].edit)
           \/ SameProgram(file, offered[k].op, offered[k].edit, offered[j].op, offered[j].edit)
    PROVE  Twins(j, k)
<1> DEFINE opa == offered[j].op
           a == offered[j].edit
           opb == offered[k].op
           b == offered[k].edit
           Reading(i) == Text(file.tree, file.tree[a.at].list[i])
           Echoes(ope, e, opd, d) == Echo(file, ope, e, opd, d)
<1>1. /\ file \in File /\ Mutant(file, opa, a, Now(a)) /\ Mutant(file, opb, b, Now(b))
  BY AppliedIsMutant
<1>2. CASE Flipped(file, a, b) \/ BareTo(file, a, b)
  BY <1>2, Zenon DEF Twins, Flipped, BareTo, IsName
<1>3. CASE Flipped(file, b, a) \/ BareTo(file, b, a)
  BY <1>3, Zenon DEF Twins, Flipped, BareTo, IsName
<1>4. CASE OnlyOne(file, opa, a, opb, b)
  BY <1>4 DEF Twins, OnlyOne
<1>5. CASE OnlyOne(file, opb, b, opa, a)
  BY <1>5 DEF Twins, OnlyOne
<1>6. ASSUME opa = "statement/remover", opb = "statement/remover"
      PROVE  /\ a.i \in Nat /\ b.i \in Nat
             /\ a.i \in Shown(file.tree, a.at) /\ b.i \in Shown(file.tree, b.at)
  <2>1. ASSUME NEW m, Mutant(file, "statement/remover", m, Now(m))
        PROVE  m.i \in Nat /\ m.i \in Shown(file.tree, m.at)
    <3>1. Drops(file, "statement/remover", m) /\ m.at \in Parsed(file)
      BY <2>1 DEF Mutant, Edits, Swaps, Decides, Bares, Clears
    <3>2. AtItem(file, m, Now(m))
      BY <1>1, <2>1, <3>1, DropLeaves DEF Now
    <3> QED
      BY <3>1, <3>2 DEF Drops, Loses, AtItem
  <2> QED
    BY <1>1, <1>6, <2>1
<1>7. CASE Echo(file, opa, a, opb, b)
  <2>1. opa = "statement/remover" /\ opb = "statement/remover" /\ a.at = b.at /\ a.i < b.i
    BY <1>7 DEF Echo
  <2>2. a.i \in Nat /\ b.i \in Nat
    BY <1>6, <2>1
  <2>3. \A i \in ((a.i .. b.i) \cup (b.i .. a.i)) : a.i <= i /\ i <= b.i
    BY <2>1, <2>2
  <2>4. \A i \in Shown(file.tree, a.at) : a.i <= i /\ i <= b.i => Reading(i) = Reading(a.i)
    BY <1>7 DEF Echo
  <2>5. a.i # b.i
    BY <2>1, <2>2
  <2> QED
    BY <2>1, <2>3, <2>4, <2>5 DEF Twins
<1>8. CASE Echo(file, opb, b, opa, a)
  <2>1. opa = "statement/remover" /\ opb = "statement/remover" /\ a.at = b.at /\ b.i < a.i
    BY <1>8 DEF Echo
  <2>2. a.i \in Nat /\ b.i \in Nat /\ a.i \in Shown(file.tree, a.at)
    BY <1>6, <2>1
  <2>3. \A i \in ((a.i .. b.i) \cup (b.i .. a.i)) : b.i <= i /\ i <= a.i
    BY <2>1, <2>2
  <2>4. \A i \in Shown(file.tree, a.at) : b.i <= i /\ i <= a.i => Reading(i) = Reading(b.i)
    BY <1>8, <2>1 DEF Echo
  <2>5. a.i # b.i /\ Reading(a.i) = Reading(b.i)
    BY <2>1, <2>2, <2>4
  <2> QED
    BY <2>1, <2>3, <2>4, <2>5, Zenon DEF Twins
<1> QED
  BY <1>2, <1>3, <1>4, <1>5, <1>7, <1>8 DEF SameProgram

LEMMA DistinctIf == ASSUME WalkInv, RecordInv, FewInv PROVE DistinctPrograms
<1>1. ProgramsDiffer
  <2> SUFFICES ASSUME \A op \in Range(bound) : Times(op) = 1,
                      NEW j \in DOMAIN offered, NEW k \in DOMAIN offered, j < k,
                      offered[j].program = offered[k].program, offered[j].program # Original
               PROVE  Twins(j, k)
    BY DEF ProgramsDiffer
  <2> DEFINE opa == offered[j].op
             a == offered[j].edit
             opb == offered[k].op
             b == offered[k].edit
  <2>1. /\ file \in File /\ Mutant(file, opa, a, Now(a)) /\ ~Idle(file, Now(a))
        /\ offered[j].program = Text(Now(a), file.root)
    BY AppliedIsMutant
  <2>2. Mutant(file, opb, b, Now(b)) /\ offered[k].program = Text(Now(b), file.root)
    BY AppliedIsMutant
  <2>3. SameProgram(file, opa, a, opb, b) \/ SameProgram(file, opb, b, opa, a)
    BY <2>1, <2>2, MutantsDiffer
  <2>4. opa # opb \/ a # b
    <3>1. j # k
      <4>1. DOMAIN offered \subseteq Nat
        BY DEF WalkInv, OfferedInv, IsSeq
      <4> QED
        BY <4>1
    <3> QED
      BY <3>1, AppliedAtMostOnce
  <2> QED
    BY <2>3, <2>4, TwinsIf
<1>2. NoOpsKnown
  <2> SUFFICES ASSUME NEW k \in DOMAIN offered, offered[k].program = Original
               PROVE  NoOp(file, offered[k].op, offered[k].edit)
    BY DEF NoOpsKnown, NoOp, IsName
  <2> QED
    BY AppliedIsMutant, IdleMeans
<1>3. AfterTells
  <2> SUFFICES ASSUME NEW k \in DOMAIN offered, offered[k].program # Original
               PROVE  offered[k].after = <<>> <=> offered[k].op = "statement/remover"
    BY DEF AfterTells
  <2> DEFINE m == offered[k].edit
  <2>1. file \in File /\ Mutant(file, offered[k].op, m, Now(m)) /\ ~Idle(file, Now(m))
    BY AppliedIsMutant
  <2>2. Recorded(offered[k])
    BY DEF RecordInv
  <2> QED
    BY <2>1, <2>2, RenderedNode DEF Recorded
<1> QED
  BY <1>1, <1>2, <1>3 DEF DistinctPrograms

-----------------------------------------------------------------------------
(* Theorems.                                                               *)

\* Between two mutations the tree is the file's, node for node, whatever operators
\* were bound, whatever they offered, and also where the walk was abandoned: Revert
\* writes back what was read when the mutation was offered, and nothing else was
\* written in between (Apply and Revert of every operator, walkAndMutate's defer).
THEOREM TreesAreRestored == Spec => []TreeRestored
<1>1. IInv => TreeRestored
  BY DEF IInv, TreeInv, TreeRestored
<1> QED
  BY <1>1, Always, PTL

\* A mutant does what its operator is for, in every file whose expressions have the
\* types that go/types gives them and for all values of its names: removing a term
\* of && or || leaves the other one (expression/remove), a shifted boundary matters
\* exactly where both sides are equal (operator/boundary), a swapped comparison is
\* its negation (operator/binary), stripping a ! negates (operator/unary), and a
\* number moves by one or by a thousandth to another value (literal/number).
THEOREM MutantsMeanWhatTheySay == Spec => []MeansWhatItSays
<1>1. IInv => MeansWhatItSays
  <2> SUFFICES ASSUME IInv, applied PROVE Means(file, tree, bound[next - 1], Head(pending))
    BY DEF MeansWhatItSays
  <2>1. pending # <<>> /\ tree = Write(file.tree, Head(pending), Head(pending).to)
    BY DEF IInv, TreeInv
  <2>2. /\ file \in File /\ Head(stack) \in DOMAIN file.tree
        /\ bound[next - 1] \in Range(All)
    BY <2>1, OffersAre DEF Parsed
  <2>3. PICK j \in DOMAIN Offers : Head(pending) = Offers[j]
    BY <2>1, FirstIsOffered
  <2> QED
    BY <2>1, <2>2, <2>3, MutateMeans DEF Offers
<1> QED
  BY <1>1, Always, PTL

\* Looked at from below, over a whole walk: an operand of a binary expression, a
\* condition or an assigned value that is a unary expression is stripped once, and
\* no other unary expression is; a statement of a block or a case is removed once if
\* it can be; and the body of every if and every plain else that is not empty is
\* emptied once: for each time their operators are bound, whatever else is.
THEOREM SlotsAreMutatedOnce == Spec => []SlotsOnce
<1>1. WalkInv => SlotsOnce
  <2> SUFFICES ASSUME WalkInv, Whole PROVE SlotsOnce
    BY DEF SlotsOnce
  <2>1. ASSUME NEW op PROVE \A x, v : {k \in By({op}) : offered[k].edit[x] = v} = Marked(op, x, v)
    BY DEF By, Marked
  <2>2. ASSUME NEW u \in Kind({"unary"})
        PROVE  Cardinality({k \in By({"operator/unary"}) : offered[k].edit.from = u})
                 = IF Above(u) THEN Times("operator/unary") ELSE 0
    BY <2>1, UnaryOnce
  <2>3. ASSUME NEW s \in Kind({"expr", "incdec", "assign"})
        PROVE  Cardinality({k \in By({"statement/remover"}) : offered[k].edit.from = s})
                 = IF Goes(s) THEN Times("statement/remover") ELSE 0
    BY <2>1, RemovedOnce
  <2>4. ASSUME NEW b \in Kind({"block"})
        PROVE  Cardinality({k \in By({"control/if", "control/else"}) : offered[k].edit.at = b})
                 = IF file.tree[b].list = <<>> THEN 0
                   ELSE CASE \E p \in Kind({"if"}) : b = file.tree[p].kid[2] -> Times("control/if")
                          [] \E p \in Kind({"if"}) : b = file.tree[p].kid[3] -> Times("control/else")
                          [] OTHER -> 0
    <3>1. {k \in By({"control/if", "control/else"}) : offered[k].edit.at = b}
            = Marked("control/if", "at", b) \cup Marked("control/else", "at", b)
      BY DEF By, Marked
    <3> QED
      BY <3>1, BodyOnce
  <2> QED
    BY <2>2, <2>3, <2>4 DEF SlotsOnce, Above, Goes
<1> QED
  BY <1>1, WalkAlways, PTL

\* No two mutants of a file are the same program, but for the pairs that are known to
\* be; what is offered changes the program, but for the three kinds known not to; and
\* the report shows nothing after exactly where a statement was removed: in every file
\* and for every choice of operators (the programs go/printer writes, renderNode and
\* renderAfter).
THEOREM MutantsAreDifferentPrograms == Spec => []DistinctPrograms
<1>1. Spec => []RecordInv
  <2>1. Init => RecordInv
    BY DEF Init, RecordInv
  <2>2. WalkInv /\ RecordInv /\ [Next]_vars => RecordInv'
    BY RecordStep DEF WalkInv
  <2> QED
    BY <2>1, <2>2, WalkAlways, PTL DEF Spec
<1>2. Spec => []FewInv
  <2>1. WalkInv /\ ~Gone => FewInv
    BY FewCounted
  <2>2. WalkInv /\ FewInv /\ [Next]_vars => FewInv' \/ (~Gone)'
    BY FewStep
  <2>3. Init => ~Gone
    BY DEF Init, Gone
  <2> QED
    BY <2>1, <2>2, <2>3, WalkAlways, PTL DEF Spec
<1>3. WalkInv /\ RecordInv /\ FewInv => DistinctPrograms
  BY DistinctIf
<1> QED
  BY <1>1, <1>2, <1>3, WalkAlways, PTL

=============================================================================
