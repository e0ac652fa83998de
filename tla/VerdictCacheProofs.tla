------------------------- MODULE VerdictCacheProofs -------------------------
(***************************************************************************)
(* Theorems about VerdictCache for any number of mutants, configurations,  *)
(* source trees, runs and changes, as long as the user does not change the *)
(* sources while a run goes on nor those of a replace target, and a write  *)
(* is not cut exactly before its final newline.                            *)
(***************************************************************************)
EXTENDS VerdictCache, FiniteSetTheorems, WellFoundedInduction, TLAPS

-----------------------------------------------------------------------------
(* Sequences.                                                              *)

IsSeq(s) == s \in Seq({s[i] : i \in DOMAIN s})

LEMMA SeqFacts ==
    ASSUME NEW s, IsSeq(s)
    PROVE  Len(s) \in Nat /\ DOMAIN s = 1 .. Len(s)
BY DEF IsSeq

LEMMA SeqIs ==
    ASSUME NEW S, NEW s \in Seq(S)
    PROVE  IsSeq(s)
<1>1. \A i \in 1 .. Len(s) : s[i] \in {s[k] : k \in DOMAIN s}
  OBVIOUS
<1> QED
  BY <1>1 DEF IsSeq

LEMMA Appended ==
    ASSUME NEW s, IsSeq(s), NEW e
    PROVE  /\ IsSeq(Append(s, e))
           /\ Len(Append(s, e)) = Len(s) + 1
           /\ Append(s, e)[Len(s) + 1] = e
           /\ \A i \in DOMAIN s : Append(s, e)[i] = s[i]
<1> DEFINE S == {s[i] : i \in DOMAIN s} \cup {e}
           t == Append(s, e)
<1>1. s \in Seq(S)
  BY DEF IsSeq
<1>2. /\ Len(t) = Len(s) + 1 /\ Len(s) \in Nat
      /\ DOMAIN s = 1 .. Len(s) /\ DOMAIN t = 1 .. Len(s) + 1
      /\ t[Len(s) + 1] = e
      /\ \A i \in DOMAIN s : t[i] = s[i]
      /\ t \in Seq(S)
  BY <1>1
<1>3. IsSeq(t)
  BY <1>2, SeqIs
<1> QED
  BY <1>2, <1>3

LEMMA Prefix ==
    ASSUME NEW s, IsSeq(s), NEW n \in 0 .. Len(s)
    PROVE  /\ IsSeq(SubSeq(s, 1, n))
           /\ Len(SubSeq(s, 1, n)) = n
           /\ \A i \in 1 .. n : SubSeq(s, 1, n)[i] = s[i]
<1> DEFINE t == SubSeq(s, 1, n)
<1>1. Len(s) \in Nat /\ DOMAIN s = 1 .. Len(s) /\ s \in Seq({s[i] : i \in DOMAIN s})
  BY DEF IsSeq
<1>2. /\ Len(t) = n /\ DOMAIN t = 1 .. n /\ t \in Seq({s[i] : i \in DOMAIN s})
      /\ \A i \in 1 .. n : t[i] = s[i]
  BY <1>1
<1>3. IsSeq(t)
  BY <1>2, SeqIs
<1> QED
  BY <1>2, <1>3

LEMMA Replaced ==
    ASSUME NEW s, IsSeq(s), NEW n \in DOMAIN s, NEW e
    PROVE  /\ IsSeq([s EXCEPT ![n] = e])
           /\ Len([s EXCEPT ![n] = e]) = Len(s)
           /\ [s EXCEPT ![n] = e][n] = e
           /\ \A i \in DOMAIN s \ {n} : [s EXCEPT ![n] = e][i] = s[i]
<1> DEFINE S == {s[i] : i \in DOMAIN s} \cup {e}
           t == [s EXCEPT ![n] = e]
<1>1. s \in Seq(S) /\ Len(s) \in Nat /\ DOMAIN s = 1 .. Len(s)
  BY DEF IsSeq
<1>2. /\ t \in Seq(S) /\ Len(t) = Len(s) /\ DOMAIN t = 1 .. Len(s)
      /\ t[n] = e
      /\ \A i \in DOMAIN s \ {n} : t[i] = s[i]
  BY <1>1
<1>3. IsSeq(t)
  BY <1>2, SeqIs
<1> QED
  BY <1>2, <1>3

\* A set of numbers up to n that is not empty has a greatest.
LEMMA Greatest ==
    ASSUME NEW n \in Nat, NEW S \in SUBSET (1 .. n), S # {}
    PROVE  \E x \in S : \A y \in S : y <= x
<1> DEFINE T == {n - x : x \in S}
           R == OpToRel(<, Nat)
<1>1. T \subseteq Nat /\ T # {}
  <2>1. \A x \in S : n - x \in Nat
    BY DEF T
  <2> QED
    BY <2>1
<1>2. PICK t \in T : \A u \in T : ~ (<<u, t>> \in R)
  <2> HIDE DEF T, R
  <2>1. IsWellFoundedOn(R, Nat)
    BY NatLessThanWellFounded DEF R
  <2> QED
    BY <1>1, <2>1, WFMin
<1>3. \A u \in T : ~ (u < t)
  <2> SUFFICES ASSUME NEW u \in T, u < t PROVE FALSE
    OBVIOUS
  <2>1. u \in Nat /\ t \in Nat
    BY <1>1
  <2> QED
    BY <1>2, <2>1 DEF OpToRel
<1>4. PICK x \in S : t = n - x
  OBVIOUS
<1>5. \A y \in S : ~ (n - y < n - x)
  BY <1>3, <1>4
<1>6. \A y \in S : y \in Int /\ x \in Int
  OBVIOUS
<1> QED
  BY <1>5, <1>6

-----------------------------------------------------------------------------
(* The file.                                                               *)

\* Lines of at least one piece.
FileShape(f) ==
    /\ IsSeq(f)
    /\ \A i \in DOMAIN f :
          /\ f[i] = [pieces |-> f[i].pieces, newline |-> f[i].newline]
          /\ IsSeq(f[i].pieces) /\ f[i].pieces # <<>>
          /\ f[i].newline \in BOOLEAN

\* A line that unmarshals is complete.
Lines(f) == \A i \in DOMAIN f : Parses(f[i]) => f[i].newline

Whole(f) == \A i \in DOMAIN f : Parses(f[i])

\* Only the last line may be garbage.
Clean(f) == \A i \in DOMAIN f : i < Len(f) => Parses(f[i])

LEMMA PieceAppended ==
    ASSUME NEW f, FileShape(f), NEW piece, NEW newline \in BOOLEAN,
           NEW g, g = AppendPiece(f, piece, newline)
    PROVE  /\ FileShape(g) /\ g # <<>>
           /\ \A i \in DOMAIN g : i < Len(g) => i \in DOMAIN f /\ g[i] = f[i]
           /\ \A i \in DOMAIN f : f[i].newline => i \in DOMAIN g /\ g[i] = f[i]
           /\ g[Len(g)].newline = newline
           /\ \A n \in DOMAIN g[Len(g)].pieces :
                 \/ g[Len(g)].pieces[n] = piece
                 \/ \E k \in DOMAIN f[Len(f)].pieces :
                       f # <<>> /\ g[Len(g)].pieces[n] = f[Len(f)].pieces[k]
           /\ IF f = <<>> \/ f[Len(f)].newline
                THEN Len(g) = Len(f) + 1 /\ g[Len(g)].pieces = <<piece>>
                ELSE Len(g[Len(g)].pieces) > 1
<1>1. Len(f) \in Nat /\ DOMAIN f = 1 .. Len(f)
  BY SeqFacts DEF FileShape
<1>2. CASE f = <<>> \/ f[Len(f)].newline
  <2> DEFINE line == [pieces |-> <<piece>>, newline |-> newline]
  <2>1. g = Append(f, line)
    BY <1>2 DEF AppendPiece
  <2>2. /\ IsSeq(g) /\ Len(g) = Len(f) + 1 /\ g[Len(g)] = line
        /\ \A i \in DOMAIN f : g[i] = f[i]
        /\ DOMAIN g = 1 .. Len(g)
    <3> HIDE DEF line
    <3>1. IsSeq(g) /\ Len(g) = Len(f) + 1 /\ g[Len(g)] = line /\ \A i \in DOMAIN f : g[i] = f[i]
      BY <2>1, Appended DEF FileShape
    <3> QED
      BY <3>1, SeqFacts
  <2>3. IsSeq(line.pieces) /\ line.pieces # <<>>
    BY DEF IsSeq
  <2>4. FileShape(g)
    <3> SUFFICES ASSUME NEW i \in DOMAIN g
                 PROVE  /\ g[i] = [pieces |-> g[i].pieces, newline |-> g[i].newline]
                        /\ IsSeq(g[i].pieces) /\ g[i].pieces # <<>>
                        /\ g[i].newline \in BOOLEAN
      BY <2>2 DEF FileShape
    <3>1. CASE i = Len(g)
      BY <2>2, <2>3, <3>1
    <3>2. CASE i # Len(g)
      BY <1>1, <2>2, <3>2 DEF FileShape
    <3> QED
      BY <3>1, <3>2
  <2> QED
    BY <1>1, <1>2, <2>2, <2>4
<1>3. CASE ~ (f = <<>> \/ f[Len(f)].newline)
  <2> DEFINE last == f[Len(f)]
             line == [pieces |-> Append(last.pieces, piece), newline |-> newline]
  <2>1. Len(f) \in DOMAIN f
    BY <1>1, <1>3 DEF FileShape, IsSeq
  <2>2. g = [f EXCEPT ![Len(f)] = line]
    BY <1>3, <2>1 DEF AppendPiece
  <2>3. /\ IsSeq(g) /\ Len(g) = Len(f) /\ g[Len(f)] = line
        /\ \A i \in DOMAIN f \ {Len(f)} : g[i] = f[i]
        /\ DOMAIN g = 1 .. Len(g)
    <3> HIDE DEF line
    <3>1. IsSeq(g) /\ Len(g) = Len(f) /\ g[Len(f)] = line
          /\ \A i \in DOMAIN f \ {Len(f)} : g[i] = f[i]
      <4> DEFINE h == [f EXCEPT ![Len(f)] = line]
      <4>1. IsSeq(f)
        BY DEF FileShape
      <4>2. /\ IsSeq(h) /\ Len(h) = Len(f) /\ h[Len(f)] = line
            /\ \A i \in DOMAIN f \ {Len(f)} : h[i] = f[i]
        BY <2>1, <4>1, Replaced
      <4> QED
        BY <2>2, <4>2
    <3> QED
      BY <3>1, SeqFacts
  <2>4. IsSeq(last.pieces) /\ last.pieces # <<>> /\ Len(last.pieces) \in Nat
        /\ DOMAIN last.pieces = 1 .. Len(last.pieces)
    BY <2>1, SeqFacts DEF FileShape
  <2>5. /\ IsSeq(line.pieces) /\ Len(line.pieces) = Len(last.pieces) + 1
        /\ line.pieces[Len(line.pieces)] = piece
        /\ \A k \in DOMAIN last.pieces : line.pieces[k] = last.pieces[k]
        /\ DOMAIN line.pieces = 1 .. Len(line.pieces)
    <3>1. line.pieces = Append(last.pieces, piece)
      OBVIOUS
    <3> HIDE DEF last, line
    <3>2. /\ IsSeq(line.pieces) /\ Len(line.pieces) = Len(last.pieces) + 1
          /\ line.pieces[Len(line.pieces)] = piece
          /\ \A k \in DOMAIN last.pieces : line.pieces[k] = last.pieces[k]
      BY <2>4, <3>1, Appended
    <3> QED
      BY <3>2, SeqFacts
  <2>6. Len(last.pieces) >= 1
    BY <2>4 DEF IsSeq
  <2>7. line.pieces # <<>> /\ line.newline = newline
        /\ line = [pieces |-> line.pieces, newline |-> line.newline]
    BY <2>4, <2>5, <2>6
  <2> HIDE DEF line
  <2>8. FileShape(g)
    <3> SUFFICES ASSUME NEW i \in DOMAIN g
                 PROVE  /\ g[i] = [pieces |-> g[i].pieces, newline |-> g[i].newline]
                        /\ IsSeq(g[i].pieces) /\ g[i].pieces # <<>>
                        /\ g[i].newline \in BOOLEAN
      BY <2>3 DEF FileShape
    <3>1. CASE i = Len(f)
      BY <2>3, <2>5, <2>7, <3>1
    <3>2. CASE i # Len(f)
      BY <1>1, <2>3, <3>2 DEF FileShape
    <3> QED
      BY <3>1, <3>2
  <2>9. \A n \in DOMAIN line.pieces :
            line.pieces[n] = piece \/ \E k \in DOMAIN last.pieces : line.pieces[n] = last.pieces[k]
    <3> SUFFICES ASSUME NEW n \in 1 .. Len(last.pieces) + 1, n # Len(last.pieces) + 1
                 PROVE  \E k \in DOMAIN last.pieces : line.pieces[n] = last.pieces[k]
      BY <2>5
    <3>1. n \in DOMAIN last.pieces
      BY <2>4
    <3> QED
      BY <2>5, <3>1
  <2> QED
    BY <1>1, <1>3, <2>1, <2>3, <2>4, <2>5, <2>6, <2>7, <2>8, <2>9
<1> QED
  BY <1>2, <1>3

LEMMA UpTo ==
    ASSUME NEW n \in Nat
    PROVE  IsFiniteSet(1 .. n) /\ Cardinality(1 .. n) = n
<1>1. 1 \in Int /\ n \in Int
  OBVIOUS
<1>2. IsFiniteSet(1 .. n) /\ Cardinality(1 .. n) = IF 1 > n THEN 0 ELSE n - 1 + 1
  BY <1>1, FS_Interval
<1> QED
  BY <1>2

\* What loading leaves is the beginning of what was there.
LEMMA TruncatedPrefix ==
    ASSUME NEW f, FileShape(f)
    PROVE  /\ FileShape(Truncated(f))
           /\ Len(Truncated(f)) <= Len(f)
           /\ \A i \in DOMAIN Truncated(f) : i \in DOMAIN f /\ Truncated(f)[i] = f[i]
<1> DEFINE n == Cardinality(ValidLines(f))
<1>1. IsSeq(f) /\ Len(f) \in Nat /\ DOMAIN f = 1 .. Len(f)
  BY SeqFacts DEF FileShape
<1>2. n \in 0 .. Len(f)
  <2>1. ValidLines(f) \in SUBSET (1 .. Len(f))
    BY <1>1 DEF ValidLines
  <2>2. IsFiniteSet(1 .. Len(f)) /\ Cardinality(1 .. Len(f)) = Len(f)
    BY <1>1, UpTo
  <2>3. n \in Nat /\ n <= Len(f)
    BY <2>1, <2>2, FS_Subset, FS_CardinalityType
  <2> QED
    BY <1>1, <2>3
<1> HIDE DEF n
<1> DEFINE t == SubSeq(f, 1, n)
<1>3. IsSeq(t) /\ Len(t) = n /\ \A i \in 1 .. n : t[i] = f[i]
  BY <1>1, <1>2, Prefix
<1>4. DOMAIN t = 1 .. n
  BY <1>3, SeqFacts
<1>5. \A i \in DOMAIN t : i \in DOMAIN f /\ t[i] = f[i]
  BY <1>1, <1>2, <1>3, <1>4
<1>6. FileShape(t)
  BY <1>3, <1>5 DEF FileShape
<1>7. Truncated(f) = t
  BY DEF Truncated, n
<1> HIDE DEF t
<1> QED
  BY <1>1, <1>2, <1>3, <1>5, <1>6, <1>7

\* The valid lines are a first part of the file, and loading leaves just them.
LEMMA TruncatedValid ==
    ASSUME NEW f, FileShape(f)
    PROVE  /\ DOMAIN Truncated(f) = ValidLines(f)
           /\ \A i \in ValidLines(f) : Truncated(f)[i] = f[i] /\ Parses(f[i])
           /\ ValidLines(Truncated(f)) = ValidLines(f)
<1> DEFINE n == Cardinality(ValidLines(f))
           t == Truncated(f)
<1>1. IsSeq(f) /\ Len(f) \in Nat /\ DOMAIN f = 1 .. Len(f)
  BY SeqFacts DEF FileShape
<1>2. n \in 0 .. Len(f) /\ ValidLines(f) = 1 .. n
  <2>1. CASE ValidLines(f) = {}
    <3>1. n = 0
      BY <2>1, FS_EmptySet
    <3> QED
      BY <1>1, <2>1, <3>1
  <2>2. CASE ValidLines(f) # {}
    <3>1. ValidLines(f) \in SUBSET (1 .. Len(f))
      BY <1>1 DEF ValidLines
    <3>2. PICK x \in ValidLines(f) : \A y \in ValidLines(f) : y <= x
      BY <1>1, <2>2, <3>1, Greatest
    <3>3. x \in 1 .. Len(f) /\ \A k \in 1 .. x : Parses(f[k])
      BY <1>1, <3>2 DEF ValidLines
    <3>4. ValidLines(f) = 1 .. x
      <4>1. \A i \in 1 .. x : i \in DOMAIN f /\ \A k \in 1 .. i : Parses(f[k])
        BY <1>1, <3>3
      <4>2. 1 .. x \subseteq ValidLines(f)
        BY <4>1 DEF ValidLines
      <4>3. ValidLines(f) \subseteq 1 .. x
        BY <1>1, <3>1, <3>2
      <4> QED
        BY <4>2, <4>3
    <3>5. n = x
      BY <1>1, <3>3, <3>4, UpTo
    <3> QED
      BY <1>1, <3>3, <3>4, <3>5
  <2> QED
    BY <2>1, <2>2
<1> HIDE DEF n
<1>3. IsSeq(t) /\ Len(t) = n /\ \A i \in 1 .. n : t[i] = f[i]
  BY <1>1, <1>2, Prefix DEF Truncated, n
<1>4. DOMAIN t = 1 .. n
  BY <1>3, SeqFacts
<1>5. \A i \in ValidLines(f) : i \in DOMAIN f /\ \A k \in 1 .. i : Parses(f[k])
  BY DEF ValidLines
<1>6. \A i \in ValidLines(f) : Parses(f[i])
  BY <1>1, <1>5
<1> HIDE DEF t
<1>7. ValidLines(t) = ValidLines(f)
  <2>1. \A k \in 1 .. n : Parses(t[k])
    BY <1>2, <1>3, <1>6
  <2>2. \A i \in 1 .. n : \A k \in 1 .. i : Parses(t[k])
    BY <1>1, <1>2, <2>1
  <2> QED
    BY <1>2, <1>4, <2>2 DEF ValidLines
<1> QED
  BY <1>2, <1>3, <1>4, <1>6, <1>7 DEF t

LEMMA TruncatedWhole ==
    ASSUME NEW f, FileShape(f)
    PROVE  Whole(Truncated(f)) /\ Clean(Truncated(f)) /\ (Lines(f) => Lines(Truncated(f)))
<1>1. \A i \in DOMAIN Truncated(f) : /\ i \in DOMAIN f /\ Truncated(f)[i] = f[i]
                                    /\ Parses(f[i])
  BY TruncatedPrefix, TruncatedValid
<1> QED
  BY <1>1 DEF Whole, Clean, Lines

\* The index has the keys of the valid lines, and for each the verdict of one.
LEMMA IndexFacts ==
    ASSUME NEW f, FileShape(f)
    PROVE  /\ \A i \in ValidLines(f) : f[i].pieces[1].key \in DOMAIN LoadIndex(f)
           /\ \A k \in DOMAIN LoadIndex(f) :
                 \E i \in ValidLines(f) : /\ f[i].pieces[1].key = k
                                          /\ f[i].pieces[1].verdict = LoadIndex(f)[k]
<1> DEFINE rec(i) == f[i].pieces[1]
           last(k) == CHOOSE i \in ValidLines(f) :
                        rec(i).key = k /\ \A n \in ValidLines(f) : rec(n).key = k => n <= i
<1>1. LoadIndex(f) = [k \in {rec(i).key : i \in ValidLines(f)} |-> rec(last(k)).verdict]
  BY DEF LoadIndex
<1>2. ASSUME NEW k \in {rec(i).key : i \in ValidLines(f)}
      PROVE  last(k) \in ValidLines(f) /\ rec(last(k)).key = k
  <2> DEFINE S == {i \in ValidLines(f) : rec(i).key = k}
  <2>1. Len(f) \in Nat /\ S \in SUBSET (1 .. Len(f)) /\ S # {}
    BY SeqFacts DEF FileShape, ValidLines
  <2> HIDE DEF S
  <2>2. \E x \in S : \A y \in S : y <= x
    BY <2>1, Greatest
  <2> USE DEF S
  <2>3. \E i \in ValidLines(f) :
            rec(i).key = k /\ \A n \in ValidLines(f) : rec(n).key = k => n <= i
    BY <2>2
  <2> QED
    BY <2>3
<1>3. \A i \in ValidLines(f) : f[i].pieces[1].key \in DOMAIN LoadIndex(f)
  BY <1>1
<1>4. ASSUME NEW k \in DOMAIN LoadIndex(f)
      PROVE  \E i \in ValidLines(f) : /\ f[i].pieces[1].key = k
                                      /\ f[i].pieces[1].verdict = LoadIndex(f)[k]
  <2>1. k \in {rec(i).key : i \in ValidLines(f)}
    BY <1>1, <1>4
  <2>2. LoadIndex(f)[k] = rec(last(k)).verdict
    BY <1>1, <2>1
  <2>3. last(k) \in ValidLines(f) /\ rec(last(k)).key = k
    BY <1>2, <2>1
  <2> HIDE DEF last
  <2> QED
    BY <2>2, <2>3
<1> QED
  BY <1>3, <1>4

-----------------------------------------------------------------------------
(* What holds of any run: where things are.                                *)

ShapeInv ==
    /\ FileShape(file)
    /\ slot = <<>> \/ (slot = <<slot[1]>> /\ phase = "running")
    /\ testing # {} => phase = "running"
    /\ phase \in {"idle", "loaded"} => DOMAIN reported = {}
    /\ attached => phase # "idle" /\ storeOpen

LEMMA EmptyFile == FileShape(<<>>) /\ Lines(<<>>) /\ Whole(<<>>) /\ Clean(<<>>)
BY DEF FileShape, Lines, Whole, Clean, IsSeq

\* What a step may do to the file.
LEMMA FileChanges ==
    ASSUME ShapeInv, [Next]_vars
    PROVE  \/ UNCHANGED file
           \/ file' = <<>> /\ written' = {} /\ attached' = FALSE
           \/ file' = Truncated(file) /\ OpenCache
           \/ /\ WriteRecord /\ slot # <<>> /\ attached /\ ~werr
              /\ \/ file' = AppendPiece(file, Piece(TRUE), TRUE) /\ ~werr'
                 \/ /\ werr'
                    /\ \E whole \in {FALSE, TearAtNewline} :
                          file' = AppendPiece(file, Piece(whole), FALSE)
           \/ /\ Exit /\ slot # <<>> /\ attached /\ ~werr
              /\ \E whole \in {FALSE, TearAtNewline} :
                    file' = AppendPiece(file, Piece(whole), FALSE)
<1> USE DEF fileVars, vars
<1>1. CASE Edit
  BY <1>1 DEF Edit
<1>2. CASE DeleteCache
  BY <1>2 DEF DeleteCache
<1>3. CASE OpenCache
  BY <1>3 DEF OpenCache, LoadCacheIndex
<1>4. CASE Plan \/ EndRun \/ OutOfRuns \/ UNCHANGED vars
  BY <1>4 DEF Plan, EndRun, OutOfRuns
<1>5. CASE Work
  BY <1>5 DEF Work, CacheLookup, CopyWorkspace, TestEnds
<1>6. CASE WriteRecord
  BY <1>6 DEF WriteRecord
<1>7. CASE Exit
  BY <1>7 DEF Exit
<1> QED
  BY <1>1, <1>2, <1>3, <1>4, <1>5, <1>6, <1>7 DEF Next

LEMMA ShapeInit == Init => ShapeInv
BY EmptyFile DEF Init, ShapeInv, NoReport

LEMMA ShapeStep == ShapeInv /\ [Next]_vars => ShapeInv'
<1> SUFFICES ASSUME ShapeInv, [Next]_vars PROVE ShapeInv'
  OBVIOUS
<1>1. FileShape(file')
  <2>1. \A piece : \A newline \in BOOLEAN : FileShape(AppendPiece(file, piece, newline))
    BY PieceAppended DEF ShapeInv
  <2>2. FileShape(Truncated(file))
    BY TruncatedPrefix DEF ShapeInv
  <2> QED
    BY <2>1, <2>2, EmptyFile, FileChanges DEF ShapeInv
<1>2. /\ slot' = <<>> \/ (slot' = <<slot'[1]>> /\ phase' = "running")
      /\ testing' # {} => phase' = "running"
      /\ phase' \in {"idle", "loaded"} => DOMAIN reported' = {}
      /\ attached' => phase' # "idle" /\ storeOpen'
  <2> USE DEF ShapeInv, userVars, fileVars, runVars, workVars, Reports
  <2>1. CASE Edit \/ DeleteCache
    BY <2>1 DEF Edit, DeleteCache
  <2>2. CASE OpenCache
    BY <2>2 DEF OpenCache, LoadCacheIndex, NoReport
  <2>3. CASE Plan \/ EndRun
    BY <2>3 DEF Plan, EndRun
  <2>4. CASE \E m \in Mutant : CacheLookup(m)
    BY <2>4 DEF CacheLookup, Pending
  <2>5. CASE \E m \in Mutant : CopyWorkspace(m)
    BY <2>5 DEF CopyWorkspace, Pending
  <2>6. CASE \E m \in Mutant : TestEnds(m)
    BY <2>6 DEF TestEnds
  <2>7. CASE WriteRecord
    BY <2>7 DEF WriteRecord
  <2>8. CASE Exit
    BY <2>8 DEF Exit, NoReport
  <2>9. CASE OutOfRuns \/ UNCHANGED vars
    BY <2>9 DEF OutOfRuns, vars
  <2> QED
    BY <2>1, <2>2, <2>3, <2>4, <2>5, <2>6, <2>7, <2>8, <2>9 DEF Next, Work
<1> QED
  BY <1>1, <1>2 DEF ShapeInv

-----------------------------------------------------------------------------
(* Verdicts: what is stored under a key is true of what the key stands for. *)

\* No source changes under a run, and no replace target ever.
Still == EditDuringRun = FALSE /\ SiblingEdits = FALSE

Home(v) == [own |-> v, sibling |-> CHOOSE w \in Version : TRUE]
Right(r) == r.verdict = Truth(r.key.config, Home(r.key.print[1]), r.key.mutant)

RightFile(f) == \A i \in DOMAIN f : \A n \in DOMAIN f[i].pieces : Right(f[i].pieces[n])

KeysInv ==
    /\ sources = Home(sources.own) /\ planned = Home(planned.own)
    /\ phase = "running" => planned = sources
    /\ phase \in {"running", "ended"} => print[1] = planned.own
    /\ RightFile(file)
    /\ slot # <<>> => Right(slot[1])
    /\ \A k \in DOMAIN index : Right([key |-> k, verdict |-> index[k]])
    /\ \A t \in testing : t[2] = planned
    /\ HitIsTruth

LEMMA RightAppended ==
    ASSUME NEW f, FileShape(f), RightFile(f), NEW piece, Right(piece), NEW newline \in BOOLEAN
    PROVE  RightFile(AppendPiece(f, piece, newline))
<1> DEFINE g == AppendPiece(f, piece, newline)
<1>1. /\ FileShape(g) /\ g # <<>>
      /\ \A i \in DOMAIN g : i < Len(g) => i \in DOMAIN f /\ g[i] = f[i]
      /\ \A n \in DOMAIN g[Len(g)].pieces :
            \/ g[Len(g)].pieces[n] = piece
            \/ \E k \in DOMAIN f[Len(f)].pieces :
                  f # <<>> /\ g[Len(g)].pieces[n] = f[Len(f)].pieces[k]
  BY PieceAppended
<1> HIDE DEF g
<1>2. Len(g) \in Nat /\ DOMAIN g = 1 .. Len(g) /\ (f # <<>> => Len(f) \in DOMAIN f)
  BY <1>1, SeqFacts DEF FileShape, IsSeq
<1> SUFFICES ASSUME NEW i \in DOMAIN g, NEW n \in DOMAIN g[i].pieces PROVE Right(g[i].pieces[n])
  BY DEF RightFile, g
<1>3. CASE i < Len(g)
  BY <1>1, <1>3 DEF RightFile
<1>4. CASE i = Len(g)
  BY <1>1, <1>2, <1>4 DEF RightFile
<1> QED
  BY <1>2, <1>3, <1>4

\* An index is as right as the file it was loaded from.
LEMMA RightIndex ==
    ASSUME NEW f, FileShape(f), RightFile(f), NEW k \in DOMAIN LoadIndex(f)
    PROVE  Right([key |-> k, verdict |-> LoadIndex(f)[k]])
<1>1. PICK i \in ValidLines(f) : /\ f[i].pieces[1].key = k
                                 /\ f[i].pieces[1].verdict = LoadIndex(f)[k]
  BY IndexFacts
<1>2. i \in DOMAIN f /\ 1 \in DOMAIN f[i].pieces
  <2>1. i \in DOMAIN f
    BY DEF ValidLines
  <2>2. Len(f[i].pieces) = 1 /\ IsSeq(f[i].pieces)
    BY <1>1, <2>1, SeqFacts DEF ValidLines, Parses, FileShape
  <2> QED
    BY <2>1, <2>2, SeqFacts
<1>3. Right(f[i].pieces[1])
  BY <1>2 DEF RightFile
<1> QED
  BY <1>1, <1>3 DEF Right

LEMMA KeysInit == Init => KeysInv
<1> SUFFICES ASSUME Init PROVE KeysInv
  OBVIOUS
<1>1. sources = Home(sources.own)
  BY DEF Init, Home
<1>2. RightFile(<<>>)
  BY DEF RightFile
<1> QED
  BY <1>1, <1>2 DEF Init, KeysInv, NoIndex, NoReport, HitIsTruth

LEMMA KeysStep ==
    ASSUME Still
    PROVE  ShapeInv /\ KeysInv /\ [Next]_vars => KeysInv'
<1> SUFFICES ASSUME ShapeInv, KeysInv, [Next]_vars PROVE KeysInv'
  OBVIOUS
<1> USE DEF userVars, fileVars, runVars, workVars
<1>1. RightFile(file')
  <2>1. slot # <<>> => \A whole : Right(Piece(whole))
    BY DEF KeysInv, Right, Piece
  <2>2. RightFile(Truncated(file))
    BY TruncatedPrefix DEF KeysInv, RightFile, ShapeInv
  <2>3. RightFile(<<>>)
    BY DEF RightFile
  <2>4. slot # <<>> => \A whole : \A newline \in BOOLEAN :
            RightFile(AppendPiece(file, Piece(whole), newline))
    BY <2>1, RightAppended DEF ShapeInv, KeysInv
  <2> QED
    BY <2>2, <2>3, <2>4, FileChanges DEF KeysInv
<1>2. CASE Edit
  BY <1>1, <1>2 DEF Edit, Still, Home, ShapeInv, KeysInv, HitIsTruth
<1>3. CASE DeleteCache
  BY <1>1, <1>3 DEF DeleteCache, KeysInv, HitIsTruth
<1>4. CASE OpenCache
  <2>1. \A k \in DOMAIN index' : Right([key |-> k, verdict |-> index'[k]])
    BY <1>4, RightIndex DEF OpenCache, LoadCacheIndex, NoIndex, ShapeInv, KeysInv
  <2>2. DOMAIN reported' = {} /\ phase' = "loaded"
    BY <1>4 DEF OpenCache, NoReport
  <2> QED
    BY <1>1, <1>4, <2>1, <2>2 DEF OpenCache, KeysInv, ShapeInv, HitIsTruth
<1>5. CASE Plan
  BY <1>1, <1>5 DEF Plan, Fingerprint, KeysInv, ShapeInv, HitIsTruth
<1>6. CASE \E m \in Mutant : CacheLookup(m)
  <2>1. PICK m \in Mutant : CacheLookup(m)
    BY <1>6
  <2>2. index[Key(config, print, m)] = Truth(config, planned, m)
    <3>1. /\ Key(config, print, m) \in DOMAIN index
          /\ print[1] = planned.own /\ planned = Home(planned.own)
      BY <2>1 DEF CacheLookup, Pending, KeysInv
    <3> QED
      BY <3>1 DEF KeysInv, Right, Key
  <2>3. HitIsTruth'
    BY <2>1, <2>2 DEF CacheLookup, Reports, KeysInv, HitIsTruth
  <2> QED
    BY <1>1, <2>1, <2>3 DEF CacheLookup, KeysInv
<1>7. CASE \E m \in Mutant : CopyWorkspace(m)
  BY <1>1, <1>7 DEF CopyWorkspace, Pending, KeysInv, HitIsTruth
<1>8. CASE \E m \in Mutant : TestEnds(m)
  <2>1. PICK m \in Mutant : TestEnds(m)
    BY <1>8
  <2>2. PICK t \in testing : /\ t[1] = m /\ testing' = testing \ {t}
                             /\ Reports(m, Truth(config, t[2], m), FALSE)
                             /\ slot' = IF storeOpen
                                          THEN <<[key |-> Key(config, print, m),
                                                  verdict |-> Truth(config, t[2], m)]>>
                                          ELSE <<>>
    BY <2>1 DEF TestEnds
  <2>3. t[2] = planned /\ phase = "running"
    BY DEF KeysInv, ShapeInv
  <2>4. Right([key |-> Key(config, print, m), verdict |-> Truth(config, t[2], m)])
    BY <2>3 DEF KeysInv, Right, Key
  <2>5. slot' # <<>> => Right(slot'[1])
    BY <2>2, <2>4
  <2>6. HitIsTruth'
    BY <2>1, <2>2 DEF TestEnds, Reports, KeysInv, HitIsTruth
  <2> QED
    BY <1>1, <2>1, <2>2, <2>5, <2>6 DEF TestEnds, KeysInv
<1>9. CASE WriteRecord
  BY <1>1, <1>9 DEF WriteRecord, KeysInv, HitIsTruth
<1>10. CASE EndRun
  BY <1>1, <1>10 DEF EndRun, KeysInv, HitIsTruth
<1>11. CASE Exit
  BY <1>1, <1>11 DEF Exit, NoIndex, NoReport, KeysInv, HitIsTruth
<1>12. CASE OutOfRuns \/ UNCHANGED vars
  BY <1>1, <1>12 DEF OutOfRuns, vars, KeysInv, HitIsTruth
<1> QED
  BY <1>2, <1>3, <1>4, <1>5, <1>6, <1>7, <1>8, <1>9, <1>10, <1>11, <1>12 DEF Next, Work

-----------------------------------------------------------------------------
(* Lines: garbage stays at the end, and what was written is found.          *)

\* A write is cut before the record is whole.
NoNewlineTear == TearAtNewline = FALSE

\* Every line is what Lines says; while no load has failed since, garbage is last,
\* and a run that had loaded and wrote without error has left none.
CleanInv ==
    /\ Lines(file)
    /\ loaded => Clean(file)
    /\ loaded /\ attached /\ ~werr => Whole(file)

\* A piece that is cut off makes garbage, a whole one a line.
LEMMA LinesAppended ==
    ASSUME NEW f, FileShape(f), Lines(f),
           NEW piece, NEW newline \in BOOLEAN, piece.whole = newline
    PROVE  Lines(AppendPiece(f, piece, newline))
<1> DEFINE g == AppendPiece(f, piece, newline)
<1>1. /\ FileShape(g)
      /\ \A i \in DOMAIN g : i < Len(g) => i \in DOMAIN f /\ g[i] = f[i]
      /\ g[Len(g)].newline = newline
      /\ g[Len(g)].pieces = <<piece>> \/ Len(g[Len(g)].pieces) > 1
  BY PieceAppended
<1> HIDE DEF g
<1>2. Len(g) \in Nat /\ DOMAIN g = 1 .. Len(g)
  BY <1>1, SeqFacts DEF FileShape
<1>3. Parses(g[Len(g)]) => newline
  BY <1>1 DEF Parses
<1>4. \A i \in DOMAIN g : i = Len(g) \/ (i \in DOMAIN f /\ g[i] = f[i])
  BY <1>1, <1>2
<1> QED
  BY <1>1, <1>3, <1>4 DEF Lines, g

\* Behind complete lines only, the piece is a line of its own.
LEMMA WholeAppended ==
    ASSUME NEW f, FileShape(f), Lines(f), Whole(f), NEW piece, NEW newline \in BOOLEAN
    PROVE  LET g == AppendPiece(f, piece, newline)
           IN  /\ Clean(g)
               /\ piece.whole = TRUE => Whole(g)
               /\ g[Len(g)].pieces = <<piece>> /\ Len(g) \in DOMAIN g
<1> DEFINE g == AppendPiece(f, piece, newline)
<1>1. Len(f) \in Nat /\ DOMAIN f = 1 .. Len(f) /\ (f # <<>> => Len(f) \in DOMAIN f)
  BY SeqFacts DEF FileShape, IsSeq
<1>2. f = <<>> \/ f[Len(f)].newline
  BY <1>1 DEF Lines, Whole
<1>3. /\ FileShape(g) /\ g # <<>>
      /\ \A i \in DOMAIN g : i < Len(g) => i \in DOMAIN f /\ g[i] = f[i]
      /\ Len(g) = Len(f) + 1 /\ g[Len(g)].pieces = <<piece>>
  BY <1>2, PieceAppended
<1> HIDE DEF g
<1>4. Len(g) \in Nat /\ DOMAIN g = 1 .. Len(g) /\ Len(g) \in DOMAIN g
  BY <1>1, <1>3, SeqFacts DEF FileShape
<1>5. \A i \in DOMAIN g : i < Len(g) => Parses(g[i])
  BY <1>3 DEF Whole
<1>6. piece.whole = TRUE => Parses(g[Len(g)])
  BY <1>3 DEF Parses
<1>7. \A i \in DOMAIN g : i = Len(g) \/ i < Len(g)
  BY <1>4
<1> QED
  BY <1>3, <1>4, <1>5, <1>6, <1>7 DEF Clean, Whole, g

LEMMA CleanStep ==
    ASSUME NoNewlineTear
    PROVE  ShapeInv /\ CleanInv /\ [Next]_vars => CleanInv'
<1> SUFFICES ASSUME ShapeInv, CleanInv, [Next]_vars PROVE CleanInv'
  OBVIOUS
<1> USE DEF userVars, fileVars, runVars, workVars
<1>1. CASE OpenCache
  <2>1. \/ file' = Truncated(file)
        \/ file' = file /\ loaded' = FALSE
    BY <1>1 DEF OpenCache, LoadCacheIndex
  <2> QED
    BY <2>1, TruncatedWhole DEF CleanInv, ShapeInv
<1>2. CASE file' = <<>> /\ attached' = FALSE
  BY <1>2, EmptyFile DEF CleanInv
<1>3. CASE WriteRecord /\ attached /\ ~werr /\ file' = AppendPiece(file, Piece(TRUE), TRUE)
  <2>1. Piece(TRUE).whole = TRUE /\ loaded' = loaded
    BY <1>3 DEF Piece, WriteRecord
  <2>2. Lines(file')
    BY <1>3, <2>1, LinesAppended DEF CleanInv, ShapeInv
  <2>3. loaded => Whole(file') /\ Clean(file')
    BY <1>3, <2>1, WholeAppended DEF CleanInv, ShapeInv
  <2> QED
    BY <2>1, <2>2, <2>3 DEF CleanInv
<1>4. CASE /\ attached /\ ~werr /\ (~attached' \/ werr') /\ loaded' = loaded
           /\ \E whole \in {FALSE, TearAtNewline} : file' = AppendPiece(file, Piece(whole), FALSE)
  <2>1. file' = AppendPiece(file, Piece(FALSE), FALSE) /\ Piece(FALSE).whole = FALSE
    BY <1>4 DEF NoNewlineTear, Piece
  <2>2. Lines(file')
    BY <2>1, LinesAppended DEF CleanInv, ShapeInv
  <2>3. loaded => Clean(file')
    BY <1>4, <2>1, WholeAppended DEF CleanInv, ShapeInv
  <2> QED
    BY <1>4, <2>2, <2>3 DEF CleanInv
<1>5. CASE UNCHANGED file /\ ~OpenCache
  <2>1. loaded' = loaded
    BY <1>5 DEF Next, Edit, DeleteCache, Plan, Work, CacheLookup, CopyWorkspace, TestEnds,
                WriteRecord, EndRun, Exit, OutOfRuns, vars
  <2>2. attached' /\ ~werr' => attached /\ ~werr
    <3>1. CASE Edit \/ DeleteCache \/ Plan \/ EndRun \/ OutOfRuns \/ UNCHANGED vars
      BY <3>1 DEF Edit, DeleteCache, Plan, EndRun, OutOfRuns, vars
    <3>2. CASE Work
      BY <3>2 DEF Work, CacheLookup, CopyWorkspace, TestEnds
    <3>3. CASE WriteRecord \/ Exit
      BY <3>3 DEF WriteRecord, Exit
    <3> QED
      BY <1>5, <3>1, <3>2, <3>3 DEF Next
  <2> QED
    BY <1>5, <2>1, <2>2 DEF CleanInv
<1>6. /\ Exit => ~attached' /\ loaded' = loaded
      /\ WriteRecord => loaded' = loaded
  BY DEF Exit, WriteRecord
<1> QED
  BY <1>1, <1>2, <1>3, <1>4, <1>5, <1>6, FileChanges

LEMMA CleanInit == Init => CleanInv
BY EmptyFile DEF Init, CleanInv

-----------------------------------------------------------------------------
(* Records: once in the file, found until the file is deleted.              *)

Found(f, k) == \E i \in ValidLines(f) : f[i].pieces[1].key = k

WrittenInv ==
    /\ \A w \in written : w.loaded => Found(file, w.key)
    /\ phase = "loaded" /\ loaded => \A w \in written : w.loaded => w.key \in DOMAIN index

\* What this run tested for is in the file, or about to be written.
EndedInv ==
    loaded /\ attached /\ ~werr /\ phase \in {"running", "ended"} =>
        \A m \in DOMAIN reported : ~reported[m].hit =>
            \/ Found(file, Key(config, print, m))
            \/ slot # <<>> /\ slot[1].key = Key(config, print, m)

LEMMA FoundIsLoaded ==
    ASSUME NEW f, FileShape(f), NEW k, Found(f, k)
    PROVE  Found(Truncated(f), k) /\ k \in DOMAIN LoadIndex(f)
<1>1. PICK i \in ValidLines(f) : f[i].pieces[1].key = k
  BY DEF Found
<1>2. i \in ValidLines(Truncated(f)) /\ Truncated(f)[i] = f[i]
  BY <1>1, TruncatedValid
<1> QED
  BY <1>1, <1>2, IndexFacts DEF Found

\* Appending changes no line that has its newline.
LEMMA FoundStays ==
    ASSUME NEW f, FileShape(f), Lines(f), NEW k, Found(f, k),
           NEW piece, NEW newline \in BOOLEAN
    PROVE  Found(AppendPiece(f, piece, newline), k)
<1> DEFINE g == AppendPiece(f, piece, newline)
<1>1. PICK i \in ValidLines(f) : f[i].pieces[1].key = k
  BY DEF Found
<1>2. Len(f) \in Nat /\ DOMAIN f = 1 .. Len(f)
  BY SeqFacts DEF FileShape
<1>3. i \in 1 .. Len(f) /\ \A n \in 1 .. i : n \in DOMAIN f /\ Parses(f[n])
  BY <1>2 DEF ValidLines
<1>4. \A n \in 1 .. i : n \in DOMAIN g /\ g[n] = f[n]
  BY <1>3, PieceAppended DEF Lines
<1> HIDE DEF g
<1>5. i \in 1 .. i
  BY <1>2, <1>3
<1>6. i \in ValidLines(g) /\ g[i] = f[i]
  BY <1>3, <1>4, <1>5 DEF ValidLines
<1>7. Found(g, k)
  BY <1>1, <1>6 DEF Found
<1> QED
  BY <1>7 DEF g

\* A record that a load would find is lost only with its file.
LEMMA FoundStep ==
    ASSUME ShapeInv, CleanInv, [Next]_vars, NEW k, Found(file, k)
    PROVE  \/ Found(file', k)
           \/ written' = {} /\ attached' = FALSE
<1>1. FileShape(file) /\ Lines(file)
  BY DEF ShapeInv, CleanInv
<1>2. Found(Truncated(file), k)
  BY <1>1, FoundIsLoaded
<1>3. \A piece : \A newline \in BOOLEAN : Found(AppendPiece(file, piece, newline), k)
  BY <1>1, FoundStays
<1>4. UNCHANGED file => Found(file', k)
  OBVIOUS
<1> QED
  BY <1>2, <1>3, <1>4, FileChanges

\* What WriteRecord writes in full, in a run that had loaded, is found.
LEMMA NewRecord ==
    ASSUME ShapeInv, CleanInv, loaded, attached, ~werr,
           file' = AppendPiece(file, Piece(TRUE), TRUE)
    PROVE  Found(file', slot[1].key)
<1> DEFINE rec == Piece(TRUE)
           n == Len(file')
<1>1. rec.whole = TRUE /\ rec.key = slot[1].key
  BY DEF Piece
<1>2. Whole(file') /\ file'[n].pieces = <<rec>> /\ n \in DOMAIN file'
  BY <1>1, WholeAppended DEF ShapeInv, CleanInv
<1>3. FileShape(file')
  BY PieceAppended DEF ShapeInv
<1> HIDE DEF rec
<1>4. file'[n].pieces[1] = rec
  <2>1. \A x : <<x>>[1] = x
    OBVIOUS
  <2> QED
    BY <1>2, <2>1, Zenon
<1>5. DOMAIN file' = 1 .. n /\ n \in Nat
  BY <1>3, SeqFacts DEF FileShape
<1>6. \A k \in 1 .. n : Parses(file'[k])
  BY <1>2, <1>5 DEF Whole
<1>7. n \in ValidLines(file')
  BY <1>2, <1>5, <1>6 DEF ValidLines
<1> QED
  BY <1>1, <1>4, <1>7 DEF Found

LEMMA WrittenInit == Init => WrittenInv /\ EndedInv
BY DEF Init, WrittenInv, EndedInv

LEMMA WrittenStep ==
    ASSUME ShapeInv, CleanInv, WrittenInv, [Next]_vars
    PROVE  WrittenInv'
<1> USE DEF userVars, fileVars, runVars, workVars
<1>1. \A w \in written : w.loaded => Found(file', w.key) \/ written' = {}
  BY FoundStep DEF WrittenInv
<1>2. CASE Edit \/ Plan \/ EndRun \/ OutOfRuns \/ UNCHANGED vars
  BY <1>1, <1>2 DEF Edit, Plan, EndRun, OutOfRuns, vars, WrittenInv
<1>3. CASE DeleteCache
  BY <1>3 DEF DeleteCache, WrittenInv
<1>4. CASE OpenCache
  <2>1. \A w \in written : w.loaded => w.key \in DOMAIN LoadIndex(file)
    BY FoundIsLoaded DEF WrittenInv, ShapeInv
  <2> QED
    BY <1>1, <1>4, <2>1 DEF OpenCache, LoadCacheIndex, WrittenInv
<1>5. CASE Work
  <2>1. UNCHANGED <<phase, loaded, index, written>> /\ phase = "running"
    BY <1>5 DEF Work, CacheLookup, CopyWorkspace, TestEnds, Pending, ShapeInv
  <2> QED
    BY <1>1, <2>1 DEF WrittenInv
<1>6. CASE WriteRecord
  <2>1. phase' = "running"
    BY <1>6 DEF WriteRecord, ShapeInv
  <2>2. CASE written' = written
    BY <1>1, <2>1, <2>2 DEF WrittenInv
  <2>3. CASE /\ attached /\ ~werr /\ file' = AppendPiece(file, Piece(TRUE), TRUE)
             /\ written' = written \cup {[key |-> slot[1].key, config |-> config,
                               sources |-> planned, verdict |-> slot[1].verdict,
                               loaded |-> loaded]}
    <3>1. loaded => Found(file', slot[1].key)
      BY <2>3, NewRecord
    <3> DEFINE r == [key |-> slot[1].key, config |-> config, sources |-> planned,
                     verdict |-> slot[1].verdict, loaded |-> loaded]
    <3>2. \A w \in written' :
             w \in written \/ (w.key = slot[1].key /\ (w.loaded => loaded))
      <4>1. r.key = slot[1].key /\ r.loaded = loaded
        OBVIOUS
      <4>2. written' = written \cup {r}
        BY <2>3
      <4> HIDE DEF r
      <4> QED
        BY <4>1, <4>2
    <3>3. written' # {}
      BY <2>3
    <3> HIDE DEF r
    <3> QED
      BY <1>1, <2>1, <3>1, <3>2, <3>3 DEF WrittenInv
  <2> QED
    BY <1>6, <2>2, <2>3 DEF WriteRecord
<1>7. CASE Exit
  BY <1>1, <1>7 DEF Exit, WrittenInv
<1> QED
  BY <1>2, <1>3, <1>4, <1>5, <1>6, <1>7 DEF Next

LEMMA EndedStep ==
    ASSUME ShapeInv, CleanInv, EndedInv, [Next]_vars
    PROVE  EndedInv'
<1> USE DEF userVars, fileVars, runVars, workVars
<1>1. \A k : Found(file, k) => Found(file', k) \/ attached' = FALSE
  BY FoundStep
<1>2. CASE Edit \/ EndRun \/ OutOfRuns \/ UNCHANGED vars
  BY <1>1, <1>2 DEF Edit, EndRun, OutOfRuns, vars, EndedInv
<1>3. CASE DeleteCache \/ Exit
  BY <1>3 DEF DeleteCache, Exit, EndedInv
<1>4. CASE OpenCache
  BY <1>4 DEF OpenCache, EndedInv
<1>5. CASE Plan
  <2>1. DOMAIN reported' = {}
    BY <1>5 DEF Plan, ShapeInv
  <2> QED
    BY <2>1 DEF EndedInv
<1>6. CASE \E m \in Mutant : CacheLookup(m)
  BY <1>1, <1>6 DEF CacheLookup, Reports, Pending, EndedInv
<1>7. CASE \E m \in Mutant : CopyWorkspace(m)
  BY <1>1, <1>7 DEF CopyWorkspace, EndedInv
<1>8. CASE \E m \in Mutant : TestEnds(m)
  BY <1>1, <1>8 DEF TestEnds, Reports, ShapeInv, EndedInv
<1>9. CASE WriteRecord
  <2> SUFFICES ASSUME loaded, attached, ~werr, ~werr' PROVE EndedInv'
    BY <1>9 DEF WriteRecord, EndedInv
  <2>1. file' = AppendPiece(file, Piece(TRUE), TRUE)
    BY <1>9 DEF WriteRecord
  <2>2. Found(file', slot[1].key)
    BY <2>1, NewRecord
  <2> QED
    BY <1>1, <1>9, <2>2 DEF WriteRecord, EndedInv
<1> QED
  BY <1>2, <1>3, <1>4, <1>5, <1>6, <1>7, <1>8, <1>9 DEF Next, Work

-----------------------------------------------------------------------------
(* Resuming: what is written is not tested again.                           *)

\* The cache is not part of what its keys are computed from.
Outside == CacheInside = FALSE

ResumeInv ==
    /\ phase \in {"running", "ended"} => print = <<planned.own, <<>> >>
    /\ slot # <<>> => /\ slot[1].key.mutant \in DOMAIN reported
                      /\ slot[1].key = Key(config, print, slot[1].key.mutant)
    /\ \A w \in written : w.key = Key(w.config, <<w.sources.own, <<>> >>, w.key.mutant)
    /\ phase = "running" /\ loaded =>
          \A w \in written : w.loaded =>
              w.key \in DOMAIN index \/ w.key.mutant \in DOMAIN reported

LEMMA ResumeInit == Init => ResumeInv
BY DEF Init, ResumeInv

LEMMA ResumeStep ==
    ASSUME Outside, ShapeInv, WrittenInv, ResumeInv, [Next]_vars
    PROVE  ResumeInv'
<1> USE DEF userVars, fileVars, runVars, workVars
<1>1. CASE Edit \/ EndRun \/ OutOfRuns \/ UNCHANGED vars
  BY <1>1 DEF Edit, EndRun, OutOfRuns, vars, ResumeInv
<1>2. CASE DeleteCache
  BY <1>2 DEF DeleteCache, ResumeInv
<1>3. CASE OpenCache
  BY <1>3 DEF OpenCache, ShapeInv, ResumeInv
<1>4. CASE Plan
  BY <1>4 DEF Plan, Outside, Fingerprint, ShapeInv, WrittenInv, ResumeInv
<1>5. CASE \E m \in Mutant : CacheLookup(m)
  BY <1>5 DEF CacheLookup, Reports, ResumeInv
<1>6. CASE \E m \in Mutant : CopyWorkspace(m)
  BY <1>6 DEF CopyWorkspace, ResumeInv
<1>7. CASE \E m \in Mutant : TestEnds(m)
  BY <1>7 DEF TestEnds, Reports, Key, ResumeInv
<1>8. CASE WriteRecord
  <2>1. phase = "running" /\ print = <<planned.own, <<>> >>
    BY <1>8 DEF WriteRecord, ShapeInv, ResumeInv
  <2>2. \A w \in written' : \/ w \in written
                            \/ w = [key |-> slot[1].key, config |-> config,
                                    sources |-> planned, verdict |-> slot[1].verdict,
                                    loaded |-> loaded]
    BY <1>8 DEF WriteRecord
  <2> QED
    BY <1>8, <2>1, <2>2 DEF WriteRecord, ResumeInv
<1>9. CASE Exit
  BY <1>9 DEF Exit, ResumeInv
<1> QED
  BY <1>1, <1>2, <1>3, <1>4, <1>5, <1>6, <1>7, <1>8, <1>9 DEF Next, Work

-----------------------------------------------------------------------------
(* Theorems.                                                               *)

\* The central risk cache.go names does not bite: as long as the sources are not
\* changed under a run and no replace target is, a verdict served from the cache
\* is the one the tests would give -- whatever edits, reverts, kills, full disks,
\* failed loads and deletions came between the runs, and wherever a write was cut.
THEOREM HitsAreTrue == ASSUME Still PROVE Spec => []HitIsTruth
<1>1. Init => ShapeInv /\ KeysInv
  BY ShapeInit, KeysInit
<1>2. ShapeInv /\ KeysInv /\ [Next]_vars => (ShapeInv /\ KeysInv)'
  BY ShapeStep, KeysStep
<1>3. KeysInv => HitIsTruth
  BY DEF KeysInv
<1> QED
  BY <1>1, <1>2, <1>3, PTL DEF Spec

\* Unless the last run could not load or not truncate the file, garbage never
\* has anything behind it -- over any number of kills, full disks and failed
\* loads before that run, as long as no write is cut exactly before its newline.
THEOREM GarbageIsLast == ASSUME NoNewlineTear PROVE Spec => []GarbageOnlyAtEnd
<1>1. Init => ShapeInv /\ CleanInv
  BY ShapeInit, CleanInit
<1>2. ShapeInv /\ CleanInv /\ [Next]_vars => (ShapeInv /\ CleanInv)'
  BY ShapeStep, CleanStep
<1>3. CleanInv => GarbageOnlyAtEnd
  <2>1. Lines(file) /\ Clean(file) => GarbageLast
    BY DEF Lines, Clean, GarbageLast
  <2> QED
    BY <2>1 DEF CleanInv, GarbageOnlyAtEnd
<1> QED
  BY <1>1, <1>2, <1>3, PTL DEF Spec

\* A record written in full by a run that had loaded the file answers in every
\* later run that loads it until the cache is deleted, whatever is appended
\* between them by runs that did not.
THEOREM RecordsSurvive ==
    ASSUME Still, NoNewlineTear PROVE Spec => []WrittenSurvives
<1> DEFINE RightWritten == \A w \in written : Right(w)
           I == ShapeInv /\ KeysInv /\ CleanInv /\ WrittenInv /\ RightWritten
<1>1. Init => I
  BY ShapeInit, KeysInit, CleanInit, WrittenInit DEF Init
<1>2. KeysInv /\ RightWritten /\ [Next]_vars => RightWritten'
  <2> SUFFICES ASSUME KeysInv, RightWritten, [Next]_vars PROVE RightWritten'
    OBVIOUS
  <2>1. CASE WriteRecord
    <3>1. slot # <<>> /\ Right(slot[1])
      BY <2>1 DEF WriteRecord, KeysInv
    <3>2. \A w \in written' :
             w \in written \/ (w.key = slot[1].key /\ w.verdict = slot[1].verdict)
      <4> DEFINE r == [key |-> slot[1].key, config |-> config,
                       sources |-> planned, verdict |-> slot[1].verdict,
                       loaded |-> loaded]
      <4>1. r.key = slot[1].key /\ r.verdict = slot[1].verdict
        OBVIOUS
      <4>2. written' = written \/ written' = written \cup {r}
        BY <2>1 DEF WriteRecord
      <4> HIDE DEF r
      <4> QED
        BY <4>1, <4>2
    <3>3. \A w \in written' : w \in written \/ Right(w)
      BY <3>1, <3>2 DEF Right
    <3> QED
      BY <3>3
  <2>2. CASE ~WriteRecord
    <3>1. written' \subseteq written
      BY <2>2 DEF Next, Edit, DeleteCache, OpenCache, Plan, Work, CacheLookup,
                  CopyWorkspace, TestEnds, EndRun, Exit, OutOfRuns, vars
    <3> QED
      BY <3>1
  <2> QED
    BY <2>1, <2>2
<1>3. I /\ [Next]_vars => I'
  BY <1>2, ShapeStep, KeysStep, CleanStep, WrittenStep
<1>4. I => WrittenSurvives
  <2> SUFFICES ASSUME I, phase = "loaded", loaded, NEW w \in written, w.loaded
               PROVE  w.key \in DOMAIN index /\ index[w.key] = w.verdict
    BY DEF WrittenSurvives
  <2>1. w.key \in DOMAIN index
    BY DEF WrittenInv
  <2> QED
    BY <2>1 DEF KeysInv, Right
<1> HIDE DEF I
<1> QED
  BY <1>1, <1>3, <1>4, PTL DEF Spec

\* Run waits for the store's consumer: a run that loaded the file and had no
\* write error leaves every verdict it tested for where a load finds it.
THEOREM EndedRunsAreCached == ASSUME NoNewlineTear PROVE Spec => []EndedRunIsCached
<1> DEFINE I == ShapeInv /\ CleanInv /\ EndedInv
<1>1. Init => I
  BY ShapeInit, CleanInit, WrittenInit
<1>2. I /\ [Next]_vars => I'
  BY ShapeStep, CleanStep, EndedStep
<1>3. I => EndedRunIsCached
  BY IndexFacts DEF ShapeInv, EndedInv, EndedRunIsCached, Found
<1> HIDE DEF I
<1> QED
  BY <1>1, <1>2, <1>3, PTL DEF Spec

\* A mutant whose verdict was written is not tested again by a run with the same
\* configuration on the same sources, when the cache lies outside of them and
\* both runs could load it.
THEOREM ResumedRunsSkip == ASSUME NoNewlineTear, Outside PROVE Spec => NeverRerun
<1> DEFINE I == ShapeInv /\ CleanInv /\ WrittenInv /\ ResumeInv
           Rerun == \A m \in Mutant :
                      loaded /\ (\E t \in testing' \ testing : t[1] = m) =>
                          ~\E w \in written : /\ w.loaded
                                              /\ w.key.mutant = m
                                              /\ w.config = config
                                              /\ w.sources = planned
<1>1. Init => I
  BY ShapeInit, CleanInit, WrittenInit, ResumeInit
<1>2. I /\ [Next]_vars => I'
  BY ShapeStep, CleanStep, WrittenStep, ResumeStep
<1>3. I /\ [Next]_vars => [Rerun]_vars
  <2> SUFFICES ASSUME I, [Next]_vars, loaded, NEW t \in testing' \ testing,
                      NEW w \in written, w.loaded, w.key.mutant = t[1], w.config = config,
                      w.sources = planned
               PROVE  FALSE
    OBVIOUS
  <2>1. \E m \in Mutant : CopyWorkspace(m)
    BY DEF Next, Edit, DeleteCache, OpenCache, Plan, Work, CacheLookup, TestEnds,
           WriteRecord, EndRun, Exit, OutOfRuns, vars, userVars, runVars, workVars
  <2>2. PICK m \in Mutant : CopyWorkspace(m)
    BY <2>1
  <2>3. t[1] = m
    BY <2>2 DEF CopyWorkspace
  <2>4. w.key = Key(config, print, m) /\ phase = "running"
    BY <2>2, <2>3 DEF CopyWorkspace, Pending, ResumeInv
  <2>5. w.key \in DOMAIN index \/ m \in DOMAIN reported
    BY <2>3, <2>4 DEF ResumeInv
  <2> QED
    BY <2>2, <2>4, <2>5 DEF CopyWorkspace, Pending
<1>4. Spec => [][Rerun]_vars
  <2> HIDE DEF I, Rerun
  <2> QED
    BY <1>1, <1>2, <1>3, PTL DEF Spec
<1> QED
  BY <1>4 DEF NeverRerun

-----------------------------------------------------------------------------
(* Types.                                                                  *)

LEMMA TypeInit == Init => TypeOK
<1> SUFFICES ASSUME Init PROVE TypeOK
  OBVIOUS
<1>1. Version # {}
  BY DEF Init
<1>2. sources \in [own : Version, sibling : Version]
  BY <1>1 DEF Init
<1>3. DOMAIN reported = {} /\ testing = {} /\ slot = <<>>
  BY DEF Init, NoReport
<1>4. Len(slot) <= 1
  BY <1>3
<1>5. planned = sources /\ dir = TRUE /\ phase = "idle" /\ config \in Config
  BY DEF Init
<1>6. loaded = TRUE /\ attached = FALSE /\ storeOpen = FALSE /\ werr = FALSE
  BY DEF Init
<1> QED
  BY <1>2, <1>3, <1>4, <1>5, <1>6 DEF TypeOK

LEMMA TypeStep == TypeOK /\ [Next]_vars => TypeOK'
<1> SUFFICES ASSUME TypeOK, [Next]_vars PROVE TypeOK'
  OBVIOUS
<1> USE DEF TypeOK, userVars, fileVars, runVars, workVars
<1>1. CASE Edit
  <2>1. sources' \in [own : Version, sibling : Version]
    BY <1>1 DEF Edit
  <2> QED
    BY <1>1, <2>1 DEF Edit
<1>2. CASE DeleteCache \/ OpenCache
  BY <1>2 DEF DeleteCache, OpenCache, LoadCacheIndex, NoReport
<1>3. CASE Plan \/ EndRun
  BY <1>3 DEF Plan, EndRun
<1>4. CASE Work
  <2> PICK m \in Mutant : CacheLookup(m) \/ CopyWorkspace(m) \/ TestEnds(m)
    BY <1>4 DEF Work
  <2>1. CASE CacheLookup(m)
    BY <2>1 DEF CacheLookup, Reports
  <2>2. CASE CopyWorkspace(m)
    BY <2>2 DEF CopyWorkspace
  <2>3. CASE TestEnds(m)
    BY <2>3 DEF TestEnds, Reports
  <2> QED
    BY <2>1, <2>2, <2>3
<1>5. CASE WriteRecord
  <2>1. slot' = <<>> /\ werr' \in BOOLEAN
    BY <1>5 DEF WriteRecord
  <2> QED
    BY <1>5, <2>1 DEF WriteRecord
<1>6. CASE Exit
  <2>1. slot' = <<>> /\ DOMAIN reported' = {} /\ testing' = {}
    BY <1>6 DEF Exit, NoReport
  <2>2. UNCHANGED <<userVars, dir, config, loaded, planned>>
    BY <1>6 DEF Exit
  <2>3. phase' = "idle" /\ attached' = FALSE /\ storeOpen' = FALSE /\ werr' = FALSE
    BY <1>6 DEF Exit
  <2>4. Len(slot') <= 1
    BY <2>1
  <2> QED
    BY <2>1, <2>2, <2>3, <2>4
<1>7. CASE OutOfRuns \/ UNCHANGED vars
  BY <1>7 DEF OutOfRuns, vars
<1> QED
  BY <1>1, <1>2, <1>3, <1>4, <1>5, <1>6, <1>7 DEF Next

\* Every variable keeps its type, whatever the switches allow.
THEOREM TypeCorrect == Spec => []TypeOK
<1> QED
  BY TypeInit, TypeStep, PTL DEF Spec
=============================================================================
