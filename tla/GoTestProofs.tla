---------------------------- MODULE GoTestProofs ----------------------------
(***************************************************************************)
(* Theorems about GoTest for every choice of behaviours and signals, and   *)
(* for lines of any length.                                                *)
(***************************************************************************)
EXTENDS GoTest, FiniteSetTheorems, TLAPS

-----------------------------------------------------------------------------
(* The lines of a step.                                                    *)

\* There are finitely many kinds of events, so the order of a step's is a
\* sequence of them in which each occurs.
LEMMA PrintedLines ==
    ASSUME NEW seen \in SUBSET EventKind, NEW order \in [1 .. Cardinality(seen) -> seen],
           \A e \in seen : \E i \in DOMAIN order : order[i] = e
    PROVE  order \in Seq(EventKind) /\ Cardinality(seen) \in Nat
<1>1. IsFiniteSet(EventKind)
  <2>1. IsFiniteSet({"test"} \cup {"testFail"})
    BY FS_Singleton, FS_Union
  <2>2. IsFiniteSet({"pkgFail"} \cup {"buildFail"})
    BY FS_Singleton, FS_Union
  <2>3. IsFiniteSet({"diagnostic"} \cup {"chatter"})
    BY FS_Singleton, FS_Union
  <2>4. IsFiniteSet((({"test"} \cup {"testFail"}) \cup ({"pkgFail"} \cup {"buildFail"}))
                       \cup ({"diagnostic"} \cup {"chatter"}))
    BY <2>1, <2>2, <2>3, FS_Union
  <2>5. EventKind = (({"test"} \cup {"testFail"}) \cup ({"pkgFail"} \cup {"buildFail"}))
                       \cup ({"diagnostic"} \cup {"chatter"})
    BY DEF EventKind
  <2> QED
    BY <2>4, <2>5
<1>2. Cardinality(seen) \in Nat
  BY <1>1, FS_Subset, FS_CardinalityType
<1>3. order \in [1 .. Cardinality(seen) -> EventKind]
  OBVIOUS
<1> QED
  BY <1>2, <1>3

Waiting(lines) == {lines[i] : i \in DOMAIN lines}

\* What a step prints is all in the pipe, behind what was there.
LEMMA Printed ==
    ASSUME NEW seen \in SUBSET EventKind, Prints(seen), pipe \in Seq(EventKind)
    PROVE  /\ pipe' \in Seq(EventKind)
           /\ Waiting(pipe') = Waiting(pipe) \cup seen
           /\ pipe # <<>> => Head(pipe') = Head(pipe) /\ pipe' # <<>>
           /\ events' = events \cup seen
<1>1. PICK order \in [1 .. Cardinality(seen) -> seen] :
          (\A e \in seen : \E i \in DOMAIN order : order[i] = e) /\ pipe' = pipe \o order
  BY DEF Prints
<1>2. order \in Seq(EventKind) /\ Len(order) \in Nat /\ DOMAIN order = 1 .. Len(order)
  <2>1. order \in Seq(EventKind)
    BY <1>1, PrintedLines, Zenon
  <2> QED
    BY <2>1
<1>3. pipe' \in Seq(EventKind)
  BY <1>1, <1>2
<1>4. /\ Len(pipe') = Len(pipe) + Len(order) /\ Len(pipe) \in Nat
      /\ \A i \in 1 .. Len(pipe) : pipe'[i] = pipe[i]
      /\ \A i \in 1 .. Len(order) : pipe'[Len(pipe) + i] = order[i]
  BY <1>1, <1>2
<1>5. Waiting(pipe') \subseteq Waiting(pipe) \cup seen
  <2> SUFFICES ASSUME NEW i \in 1 .. Len(pipe') PROVE pipe'[i] \in Waiting(pipe) \cup seen
    BY <1>3 DEF Waiting
  <2>1. CASE i <= Len(pipe)
    BY <1>4, <2>1 DEF Waiting
  <2>2. CASE i > Len(pipe)
    <3>1. i - Len(pipe) \in 1 .. Len(order) /\ i = Len(pipe) + (i - Len(pipe))
      BY <1>2, <1>4, <2>2
    <3> QED
      BY <1>2, <1>4, <3>1
  <2> QED
    BY <1>4, <2>1, <2>2
<1>6. Waiting(pipe) \subseteq Waiting(pipe')
  BY <1>2, <1>3, <1>4 DEF Waiting
<1>7. seen \subseteq Waiting(pipe')
  <2> SUFFICES ASSUME NEW e \in seen PROVE e \in Waiting(pipe')
    OBVIOUS
  <2>1. PICK i \in 1 .. Len(order) : order[i] = e
    BY <1>1, <1>2
  <2>2. Len(pipe) + i \in 1 .. Len(pipe')
    BY <1>2, <1>4
  <2> QED
    <3>1. pipe'[Len(pipe) + i] = e /\ DOMAIN pipe' = 1 .. Len(pipe')
      BY <1>3, <1>4, <2>1
    <3> QED
      BY <2>2, <3>1 DEF Waiting
<1>8. pipe # <<>> => Head(pipe') = Head(pipe) /\ pipe' # <<>>
  BY <1>2, <1>3, <1>4
<1> QED
  BY <1>3, <1>5, <1>6, <1>7, <1>8 DEF Prints

\* The line that was read to its end leaves the others.
LEMMA ReadLine ==
    ASSUME NEW s \in Seq(EventKind), s # <<>>
    PROVE  /\ Tail(s) \in Seq(EventKind) /\ Head(s) \in EventKind
           /\ Waiting(s) = Waiting(Tail(s)) \cup {Head(s)}
<1>1. /\ Tail(s) \in Seq(EventKind) /\ Head(s) = s[1] /\ Len(Tail(s)) = Len(s) - 1
      /\ Len(s) \in Nat /\ Len(s) >= 1
      /\ \A i \in 1 .. Len(s) - 1 : Tail(s)[i] = s[i + 1]
  OBVIOUS
<1>2. Waiting(Tail(s)) \subseteq Waiting(s)
  BY <1>1 DEF Waiting
<1>3. \A i \in 1 .. Len(s) : i = 1 \/ (i - 1 \in 1 .. Len(s) - 1 /\ Tail(s)[i - 1] = s[i])
  BY <1>1
<1>4. Waiting(s) \subseteq Waiting(Tail(s)) \cup {Head(s)}
  <2> SUFFICES ASSUME NEW i \in 1 .. Len(s) PROVE s[i] \in Waiting(Tail(s)) \cup {Head(s)}
    BY DEF Waiting
  <2>1. i = 1 \/ (i - 1 \in DOMAIN Tail(s) /\ Tail(s)[i - 1] = s[i])
    BY <1>1, <1>3
  <2> QED
    BY <1>1, <2>1 DEF Waiting
<1> QED
  BY <1>1, <1>2, <1>4 DEF Waiting

-----------------------------------------------------------------------------
(* The inductive invariant.                                                *)

\* Where goTest is when the command is where it is.
FlowInv ==
    /\ go = "unstarted" => pipe = <<>> /\ binary = "none" /\ step \in {"waiting", "returned"}
    /\ go = "compiling" => binary = "none"
    /\ go \in {"unstarted", "compiling", "testing"} => code = "none"
    /\ go \in {"exited", "reaped"} => code # "none"
    /\ go = "reaped" => pipe = <<>>
    /\ step = "waiting" => go # "reaped"
    /\ step \in {"waited", "checked"} => go = "reaped"
    /\ step # "returned" => ret = "none"
    /\ ret \in Verdicts => go = "reaped" /\ code # "killed" /\ ret = Classify(heard)
    /\ code = "killed" => RunCtxDone
    /\ binary = "running" => go = "testing" \/ code = "killed"
    /\ code \in {"ok", "fail"} => does = "broken" \/ binary = "gone"

\* What the events say of the mutant.
MeaningInv ==
    signaled # "group" =>
        /\ "test" \in events => does \in {"passes", "fails", "hangs"} \/ beside
        /\ "testFail" \in events => does \in {"fails", "hangs"}
        /\ "pkgFail" \in events => does \in {"broken", "fails", "hangs", "panicsAtInit"}
        /\ "buildFail" \in events => does = "broken"
        /\ "diagnostic" \in events => does \in {"broken", "logsAtInit"}
        /\ does = "broken" => binary = "none"
        /\ does = "broken" /\ code \in {"ok", "fail"} =>
              "pkgFail" \in events /\ ("buildFail" \in events \/ "diagnostic" \in events)
        /\ binary = "gone" /\ code # "killed" =>
              /\ does = "panicsAtInit" => "pkgFail" \in events
              /\ does \in {"fails", "hangs"} => {"test", "testFail", "pkgFail"} \subseteq events

\* How far the reader is in the first line, and that nothing short is lost.
StreamInv ==
    /\ pipe # <<>> =>
          /\ taken <= LineLength[Head(pipe)] /\ partial <= taken
          /\ LineLength[Head(pipe)] <= MaxEventLine => partial = taken
    /\ heard \subseteq {e \in events : LineLength[e] <= MaxEventLine}
    /\ Waiting(pipe) \subseteq events
    /\ code # "killed" =>
          \A e \in events : LineLength[e] <= MaxEventLine => e \in heard \cup Waiting(pipe)

IInv == TypeOK /\ FlowInv /\ MeaningInv /\ StreamInv

LEMMA InitIInv == Init => IInv
<1> SUFFICES ASSUME Init PROVE IInv
  OBVIOUS
<1>1. TypeOK
  BY GoTestAssumption DEF Init, TypeOK
<1>2. FlowInv /\ MeaningInv
  BY DEF Init, FlowInv, MeaningInv, Verdicts
<1>3. StreamInv
  BY DEF Init, StreamInv, Waiting
<1> QED
  BY <1>1, <1>2, <1>3 DEF IInv

\* The steps that print, and what they print.
PrintStep(seen) ==
    /\ Prints(seen)
    /\ UNCHANGED <<does, beside, signaled, parent, deadline, taken, partial, heard, watcher,
                   step, ret>>

\* A step that prints keeps the stream in order: it prints before the command was
\* killed.
LEMMA PrintKeepsStream ==
    ASSUME IInv, NEW seen \in SUBSET EventKind, PrintStep(seen), code # "killed"
    PROVE  /\ pipe' \in Seq(EventKind) /\ events' = events \cup seen
           /\ events' \subseteq EventKind
           /\ pipe' = <<>> => taken' = 0 /\ partial' = 0
           /\ StreamInv'
<1> USE GoTestAssumption DEF IInv, TypeOK, PrintStep
<1>1. /\ pipe' \in Seq(EventKind)
      /\ Waiting(pipe') = Waiting(pipe) \cup seen
      /\ pipe # <<>> => Head(pipe') = Head(pipe) /\ pipe' # <<>>
      /\ events' = events \cup seen
  BY Printed
<1>2. pipe' # <<>> => Head(pipe') \in EventKind
  BY <1>1
<1>3. pipe' # <<>> =>
          /\ taken' <= LineLength[Head(pipe')] /\ partial' <= taken'
          /\ LineLength[Head(pipe')] <= MaxEventLine => partial' = taken'
  BY <1>1, <1>2 DEF StreamInv
<1>4. StreamInv'
  BY <1>1, <1>3 DEF StreamInv
<1>5. pipe' = <<>> => taken' = 0 /\ partial' = 0
  BY <1>1
<1> QED
  BY <1>1, <1>4, <1>5

\* Every step that prints is one.
Printing == CompileFails \/ OthersTest \/ TestStarts \/ BinaryEnds \/ BinaryInterrupted \/ GoReports

LEMMA PrintingPrints ==
    ASSUME IInv, Printing
    PROVE  code # "killed" /\ \E seen \in SUBSET EventKind : PrintStep(seen)
<1> USE DEF PrintStep, EventKind, userVars, mutant, stream, callVars
<1>1. CASE CompileFails
  BY <1>1 DEF CompileFails, GoExits, IInv, FlowInv
<1>2. CASE OthersTest
  BY <1>2 DEF OthersTest, IInv, FlowInv
<1>3. CASE TestStarts \/ BinaryEnds \/ BinaryInterrupted
  BY <1>3 DEF TestStarts, BinaryEnds, BinaryInterrupted, BinaryStep, IInv, FlowInv
<1>4. CASE GoReports
  BY <1>4 DEF GoReports, GoExits, IInv, FlowInv
<1> QED
  BY <1>1, <1>2, <1>3, <1>4 DEF Printing

LEMMA StreamStep == IInv /\ [Next]_vars => StreamInv'
<1> SUFFICES ASSUME IInv, [Next]_vars PROVE StreamInv'
  OBVIOUS
<1> USE DEF userVars, mutant, procVars, stream, callVars
<1>1. CASE Printing
  BY <1>1, PrintingPrints, PrintKeepsStream
<1>2. CASE UNCHANGED <<events, pipe, taken, partial, heard, code>>
  BY <1>2 DEF IInv, StreamInv, Waiting
<1>3. CASE ReadPiece
  <2> USE GoTestAssumption DEF IInv, TypeOK
  <2> DEFINE line == Head(pipe)
             rest == LineLength[line] - taken
  <2>1. pipe # <<>> /\ UNCHANGED <<events, code>>
    BY <1>3 DEF ReadPiece
  <2>2. /\ line \in EventKind /\ LineLength[line] \in Nat \ {0} /\ rest \in Nat
        /\ taken \in Nat /\ partial \in Nat /\ MaxEventLine \in Nat
    BY <2>1 DEF StreamInv
  <2>3. CASE UNCHANGED <<pipe, heard>>
    <3>1. PICK k \in 1 .. rest : taken' = taken + k /\ partial' = AppendPartial(partial, k)
      BY <1>3, <2>1, <2>3, ReadLine DEF ReadPiece
    <3>2. /\ taken' <= LineLength[line] /\ partial' <= taken'
          /\ LineLength[line] <= MaxEventLine => partial' = taken'
      BY <2>1, <2>2, <3>1 DEF StreamInv, AppendPartial
    <3> QED
      BY <2>1, <2>3, <3>2 DEF StreamInv, Waiting
  <2>4. CASE /\ heard' = heard \cup Decoded(line, AppendPartial(partial, rest))
             /\ partial' = 0 /\ taken' = 0
             /\ pipe' = Tail(pipe)
    <3>1. Decoded(line, AppendPartial(partial, rest)) =
            IF LineLength[line] <= MaxEventLine THEN {line} ELSE {}
      BY <2>1, <2>2 DEF StreamInv, Decoded, AppendPartial
    <3>2. /\ Waiting(pipe) = Waiting(pipe') \cup {line}
          /\ pipe' # <<>> => Head(pipe') \in EventKind
      BY <2>1, <2>4, ReadLine
    <3> QED
      BY <2>1, <2>4, <3>1, <3>2 DEF StreamInv
  <2> QED
    BY <1>3, <2>3, <2>4 DEF ReadPiece
<1>4. CASE WatcherKills
  <2>1. CASE go = "exited"
    BY <1>2, <1>4, <2>1 DEF WatcherKills
  <2>2. CASE go # "exited"
    <3>1. /\ code' = "killed" /\ UNCHANGED <<events, heard>>
          /\ IF pipe' = <<>> THEN taken' = 0 /\ partial' = 0 ELSE UNCHANGED <<taken, partial>>
          /\ pipe' = pipe \/ (pipe # <<>> /\ pipe' = SubSeq(pipe, 1, Len(pipe) - 1))
      BY <1>4, <2>2 DEF WatcherKills, Cut
    <3>2. /\ pipe \in Seq(EventKind) /\ Len(pipe) \in Nat
          /\ pipe # <<>> => Len(pipe) >= 1
      BY DEF IInv, TypeOK
    <3>3. /\ Waiting(pipe') \subseteq Waiting(pipe)
          /\ pipe' # <<>> => pipe # <<>> /\ Head(pipe') = Head(pipe)
      BY <3>1, <3>2 DEF Waiting
    <3> QED
      BY <3>1, <3>3 DEF IInv, StreamInv
  <2> QED
    BY <2>1, <2>2
<1>5. CASE \/ SendSignal \/ ParentCanceled \/ DeadlinePasses \/ StartBinary \/ OrphanEnds
           \/ CheckParent \/ CheckDeadline \/ UNCHANGED vars
  BY <1>2, <1>5 DEF SendSignal, ParentCanceled, DeadlinePasses, StartBinary, OrphanEnds,
              CheckParent, CheckDeadline, Returns, vars
<1>6. CASE Start \/ Wait
  BY <1>2, <1>6 DEF Start, Wait, Returns
<1> QED
  BY <1>1, <1>3, <1>4, <1>5, <1>6 DEF Next, Printing

LEMMA TypeStep == IInv /\ [Next]_vars => TypeOK'
<1> SUFFICES ASSUME IInv, [Next]_vars PROVE TypeOK'
  OBVIOUS
<1> USE DEF userVars, mutant, procVars, stream, callVars
<1>1. CASE Printing
  <2>1. /\ pipe' \in Seq(EventKind) /\ events' \subseteq EventKind /\ events \subseteq events'
        /\ pipe' = <<>> => taken' = 0 /\ partial' = 0
        /\ UNCHANGED <<does, beside, signaled, parent, deadline, taken, partial, heard,
                       watcher, step, ret>>
    BY <1>1, PrintingPrints, PrintKeepsStream DEF PrintStep
  <2>2. /\ go' \in {"unstarted", "compiling", "testing", "exited", "reaped"}
        /\ code' \in {"none", "ok", "fail", "killed"}
        /\ binary' \in {"none", "running", "gone"}
    BY <1>1 DEF Printing, CompileFails, OthersTest, TestStarts, BinaryEnds,
                BinaryInterrupted, GoReports, GoExits, BinaryStep, IInv, TypeOK
  <2> QED
    BY <2>1, <2>2 DEF IInv, TypeOK
<1>2. CASE SendSignal \/ ParentCanceled \/ DeadlinePasses \/ StartBinary \/ OrphanEnds
  BY <1>2, GoTestAssumption DEF SendSignal, ParentCanceled, DeadlinePasses, StartBinary, OrphanEnds,
              IInv, TypeOK
<1>3. CASE ReadPiece
  <2> USE GoTestAssumption DEF IInv, TypeOK
  <2>1. /\ pipe # <<>> /\ Head(pipe) \in EventKind /\ Tail(pipe) \in Seq(EventKind)
        /\ Waiting(pipe) = Waiting(Tail(pipe)) \cup {Head(pipe)}
        /\ Head(pipe) \in events
    BY <1>3, ReadLine DEF ReadPiece, StreamInv
  <2>2. \A k \in Nat : AppendPartial(partial, k) \in 0 .. MaxEventLine
    BY DEF AppendPartial
  <2> DEFINE rest == LineLength[Head(pipe)] - taken
  <2>3. rest \in Nat
    BY <2>1 DEF StreamInv
  <2>4. CASE \E k \in 1 .. rest : taken' = taken + k /\ partial' = AppendPartial(partial, k)
                /\ UNCHANGED <<pipe, heard>>
    <3>1. PICK k \in 1 .. rest : taken' = taken + k /\ partial' = AppendPartial(partial, k)
                /\ UNCHANGED <<pipe, heard>>
      BY <2>4
    <3>2. k \in Nat /\ taken' \in Nat
      BY <2>3, <3>1
    <3>3. partial' \in 0 .. MaxEventLine
      BY <2>2, <3>1, <3>2
    <3> QED
      BY <1>3, <2>1, <3>1, <3>2, <3>3 DEF ReadPiece
  <2>5. CASE /\ heard' = heard \cup Decoded(Head(pipe), AppendPartial(partial, rest))
             /\ partial' = 0 /\ taken' = 0
             /\ pipe' = Tail(pipe)
    BY <1>3, <2>1, <2>5 DEF ReadPiece, Decoded
  <2> QED
    BY <1>3, <2>4, <2>5 DEF ReadPiece
<1>4. CASE WatcherKills
  <2>1. \A s \in {pipe} \cup (IF pipe = <<>> THEN {} ELSE {SubSeq(pipe, 1, Len(pipe) - 1)}) :
            s \in Seq(EventKind)
    BY DEF IInv, TypeOK
  <2> QED
    BY <1>4, <2>1, GoTestAssumption DEF WatcherKills, Cut, IInv, TypeOK
<1>5. CASE Start \/ Wait \/ CheckParent
  BY <1>5 DEF Start, Wait, CheckParent, Returns, IInv, TypeOK
<1>6. CASE CheckDeadline
  <2>1. Classify(heard) \in Verdicts
    BY DEF Classify, Verdicts
  <2> QED
    BY <1>6, <2>1 DEF CheckDeadline, Returns, IInv, TypeOK
<1>7. CASE UNCHANGED vars
  BY <1>7 DEF vars, IInv, TypeOK
<1> QED
  BY <1>1, <1>2, <1>3, <1>4, <1>5, <1>6, <1>7 DEF Next, Printing

LEMMA FlowStep == IInv /\ [Next]_vars => FlowInv'
<1> SUFFICES ASSUME IInv, [Next]_vars PROVE FlowInv'
  OBVIOUS
<1> USE DEF IInv, FlowInv, RunCtxDone, Verdicts, userVars, mutant, procVars, stream, callVars
<1>1. CASE SendSignal \/ ParentCanceled \/ DeadlinePasses
  BY <1>1 DEF SendSignal, ParentCanceled, DeadlinePasses
<1>2. CASE CompileFails \/ GoReports
  BY <1>2 DEF CompileFails, GoReports, GoExits, TypeOK
<1>3. CASE StartBinary \/ OthersTest
  BY <1>3 DEF StartBinary, OthersTest
<1>4. CASE TestStarts \/ BinaryEnds \/ BinaryInterrupted
  BY <1>4 DEF TestStarts, BinaryEnds, BinaryInterrupted, BinaryStep
<1>5. CASE OrphanEnds
  BY <1>5 DEF OrphanEnds
<1>6. CASE ReadPiece
  BY <1>6 DEF ReadPiece
<1>7. CASE Start \/ Wait \/ CheckParent
  BY <1>7 DEF Start, Wait, CheckParent, Returns
<1>8. CASE WatcherKills
  BY <1>8 DEF WatcherKills
<1>9. CASE CheckDeadline
  <2>1. CASE RunCtxDone
    BY <1>9, <2>1 DEF CheckDeadline, Returns
  <2>2. CASE ~RunCtxDone
    BY <1>9, <2>2 DEF CheckDeadline, Returns
  <2> QED
    BY <2>1, <2>2
<1>10. CASE UNCHANGED vars
  BY <1>10 DEF vars
<1> QED
  BY <1>1, <1>2, <1>3, <1>4, <1>5, <1>6, <1>7, <1>8, <1>9, <1>10 DEF Next

LEMMA MeaningStep == IInv /\ [Next]_vars => MeaningInv'
<1> SUFFICES ASSUME IInv, [Next]_vars PROVE MeaningInv'
  OBVIOUS
<1> USE DEF IInv, MeaningInv, userVars, mutant, procVars, stream, callVars
<1>1. CASE SendSignal
  BY <1>1 DEF SendSignal
<1>2. CASE CompileFails
  BY <1>2 DEF CompileFails, GoExits, Prints
<1>3. CASE StartBinary
  BY <1>3 DEF StartBinary
<1>4. CASE OthersTest
  BY <1>4 DEF OthersTest, Prints
<1>5. CASE TestStarts
  BY <1>5 DEF TestStarts, BinaryStep, Prints
<1>6. CASE BinaryEnds
  BY <1>6 DEF BinaryEnds, BinaryStep, Prints
<1>7. CASE BinaryInterrupted
  BY <1>7 DEF BinaryInterrupted, BinaryStep
<1>8. CASE GoReports
  BY <1>8 DEF GoReports, GoExits, Prints, FlowInv
<1>9. CASE OrphanEnds
  BY <1>9 DEF OrphanEnds, FlowInv
<1>10. CASE WatcherKills
  BY <1>10 DEF WatcherKills
<1>11. CASE Start \/ Wait \/ CheckParent \/ CheckDeadline \/ ReadPiece
  BY <1>11 DEF Start, Wait, CheckParent, CheckDeadline, ReadPiece, Returns
<1>12. CASE ParentCanceled \/ DeadlinePasses \/ UNCHANGED vars
  BY <1>12 DEF ParentCanceled, DeadlinePasses, vars
<1> QED
  BY <1>1, <1>2, <1>3, <1>4, <1>5, <1>6, <1>7, <1>8, <1>9, <1>10, <1>11, <1>12 DEF Next

\* The invariant: what goTest has heard is what the stream has delivered, and
\* what the stream holds is what the processes have written, in their order.
THEOREM InvariantHolds == Spec => []IInv
<1>1. IInv /\ [Next]_vars => IInv'
  BY TypeStep, FlowStep, MeaningStep, StreamStep DEF IInv
<1> QED
  BY <1>1, InitIInv, PTL DEF Spec

-----------------------------------------------------------------------------
(* The theorems.                                                           *)

\* The model's types.
THEOREM TypeCorrect == Spec => []TypeOK
<1>1. IInv => TypeOK
  BY DEF IInv
<1> QED
  BY <1>1, InvariantHolds, PTL

\* testEventState.Write, appendPartial, consumeLine: however the output is cut into
\* pieces, each line within the limit is decoded before a verdict is given, and
\* no longer one.
THEOREM EveryEventIsHeard == Spec => []NothingUnheard
<1>1. IInv => NothingUnheard
  BY DEF IInv, FlowInv, StreamInv, NothingUnheard, Waiting
<1> QED
  BY <1>1, InvariantHolds, PTL

\* classifySignals, after goTest's two looks at its contexts: a verdict says what the
\* mutant did, and none comes of a stream that the watcher cut short.
THEOREM VerdictsAreEarned == Spec => []VerdictEarned
<1>1. IInv => Deserved
  <2> SUFFICES ASSUME IInv, signaled # "group", ret \in Verdicts PROVE Deserved
    BY DEF Deserved, Verdicts
  <2>1. /\ ret = Classify(heard) /\ code \in {"ok", "fail"}
        /\ pipe = <<>>
        /\ does = "broken" \/ binary = "gone"
    BY DEF IInv, FlowInv, TypeOK
  <2>2. \A e \in EventKind \ {"chatter"} : e \in heard <=> e \in events
    BY <2>1, GoTestAssumption DEF IInv, StreamInv, Waiting
  <2> DEFINE broken == \/ "buildFail" \in events
                       \/ "test" \notin events /\ events \cap {"pkgFail", "diagnostic"} # {}
             failed == events \cap {"testFail", "pkgFail"} # {}
  <2>3. /\ ret = "NotViable" => broken
        /\ ret = "Killed" => ~broken /\ failed
        /\ ret = "Survived" => ~broken /\ ~failed
    BY <2>1, <2>2 DEF Classify, EventKind
  <2> QED
    BY <2>1, <2>3, GoTestAssumption DEF IInv, MeaningInv, Deserved, TypeOK
<1>2. IInv => NoVerdictFromCutStream
  BY DEF IInv, FlowInv, NoVerdictFromCutStream
<1> QED
  BY <1>1, <1>2, InvariantHolds, PTL DEF VerdictEarned

=============================================================================
