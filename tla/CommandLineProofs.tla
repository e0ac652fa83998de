------------------------- MODULE CommandLineProofs -------------------------
(***************************************************************************)
(* Theorems about CommandLine for every command line, every machine and    *)
(* every outcome of a run: what the flags come to, which toolchain is      *)
(* found, and what the exit code says.                                     *)
(***************************************************************************)
EXTENDS CommandLine, TLAPS

Place == {"start", "scan", "parsed", "engine", "report", "gate", "forward",
          "execute", "replaced", "start child", "waiting", "ended"}

\* Where the toolchain may be running.
Handed == {"replaced", "start child", "waiting"}

\* Steps that leave turango's own state as it is.
Elsewhere == \/ Proxy /\ UNCHANGED <<command, flagVars, runVars>>
             \/ Killed /\ UNCHANGED <<command, flagVars, runVars>>

\* A toolchain runs only where turango waits for it or has become it, and there
\* turango never comes back from.
LEMMA ElsewhereMoves ==
    ASSUME Elsewhere, child = "running" => place \in Handed
    PROVE  /\ place \in {"forward", "execute"} \cup Handed
           /\ place' \in {"start", "execute", "ended"} \cup Handed
           /\ child' \in {"none", "running", "ended", "orphan"} \/ child' = child
           /\ child' = "running" => place' \in Handed
           /\ place' = "ended" => child' # "none" \/ code' = 1
           /\ UNCHANGED <<command, flagVars, runVars, world>>
<1> USE DEF Handed, Exit, invocation
<1>1. CASE Resolve \/ ExecuteFails \/ ExecuteTurango \/ ExecuteGo \/ AssignJob
  BY <1>1 DEF Elsewhere, Proxy, Killed, Resolve, ExecuteFails, ExecuteTurango,
              ExecuteGo, AssignJob
<1>2. CASE GoEnds \/ Wait \/ Killed
  BY <1>2 DEF Elsewhere, Proxy, GoEnds, Wait, Killed
<1> QED
  BY <1>1, <1>2 DEF Elsewhere, Proxy

-----------------------------------------------------------------------------
(* What the exit code says.                                                 *)

RunInv ==
    /\ child = "running" => place \in Handed
    /\ place \notin {"report", "gate", "ended"} => outcome = Pending /\ report = Before
    /\ place \in {"report", "gate"} =>
          /\ outcome \in Outcome /\ outcome.result.exists /\ printed
          /\ code \in {0, 1} /\ (code = 0 => outcome.err = "none")
    /\ place = "report" => Given("mutateoutput")
    /\ place = "gate" /\ Given("mutateoutput") =>
          \/ report = [state |-> "written", of |-> outcome.result]
          \/ code = 1
    /\ CodeTells
    /\ PartialReported

LEMMA PendingIsNone == Pending \notin Outcome /\ ~Pending.result.exists
BY CommandLineAssumption DEF Pending, NoResult

LEMMA RunInit == Init => RunInv
BY DEF Init, StartsUp, RunInv, CodeTells, PartialReported

LEMMA RunStep == RunInv /\ [Next]_vars => RunInv'
<1> SUFFICES ASSUME RunInv, [Next]_vars PROVE RunInv'
  OBVIOUS
<1> USE DEF invocation, flagVars, runVars, Handed
<1>1. CASE \/ Dispatch \/ ScanSeparator \/ ScanRejected \/ ScanFlag \/ ScanLeftover
           \/ ScanEnd \/ Parsed
  <2>1. /\ child' = child /\ child # "running"
        /\ outcome' = Pending /\ report' = Before
        /\ place' \notin {"report", "gate"}
    BY <1>1 DEF Dispatch, ScanSeparator, ScanRejected, ScanFlag, ScanLeftover,
                ScanEnd, Parsed, Scanning, Moves, Exit, RunInv, proxyVars
  <2> QED
    BY <2>1, PendingIsNone DEF RunInv, CodeTells, PartialReported
<1>2. CASE Estimate
  <2>1. /\ child' = child /\ child # "running"
        /\ outcome' = Pending /\ report' = Before /\ place' = "ended"
    BY <1>2 DEF Estimate, Exit, RunInv
  <2> QED
    BY <2>1, PendingIsNone DEF RunInv, CodeTells, PartialReported
<1>3. CASE RunReturns
  <2>1. /\ child' = child /\ child # "running" /\ report' = Before /\ cfg' = cfg
        /\ outcome' \in Outcome /\ printed' = outcome'.result.exists
        /\ IF outcome'.result.exists
             THEN /\ place' = IF Given("mutateoutput") THEN "report" ELSE "gate"
                  /\ code' = IF outcome'.err = "none" THEN 0 ELSE 1
             ELSE place' = "ended" /\ code' = 1
    BY <1>3 DEF RunReturns, Exit, RunInv
  <2>2. CASE outcome'.result.exists
    <3>1. /\ printed' /\ place' \in {"report", "gate"} /\ code' \in {0, 1}
          /\ code' = 0 => outcome'.err = "none"
          /\ place' = "report" <=> Given("mutateoutput")
      BY <2>1, <2>2
    <3> QED
      BY <2>1, <2>2, <3>1 DEF RunInv, CodeTells, PartialReported, Given
  <2>3. CASE ~outcome'.result.exists
    <3>1. place' = "ended" /\ code' = 1 /\ outcome' # Pending
      BY <2>1, <2>3, PendingIsNone
    <3>3. code' \notin {0, 3}
      BY <3>1
    <3>4. CodeTells'
      BY <2>1, <3>1, <3>3 DEF CodeTells
    <3>5. PartialReported'
      BY <2>3, <3>1 DEF PartialReported
    <3> QED
      BY <2>1, <3>1, <3>4, <3>5 DEF RunInv
  <2> QED
    BY <2>2, <2>3
<1>4. CASE WriteReport
  BY <1>4 DEF WriteReport, RunInv, CodeTells, PartialReported, Given
<1>5. CASE Gate
  <2>1. /\ place = "gate" /\ place' = "ended" /\ child' = child /\ child # "running"
        /\ outcome' = outcome /\ report' = report /\ cfg' = cfg /\ printed' = printed
    BY <1>5 DEF Gate, Exit, RunInv
  <2>2. /\ outcome # Pending /\ printed /\ outcome.result.exists
        /\ code \in {0, 1} /\ (code = 0 => outcome.err = "none")
    BY <2>1, PendingIsNone DEF RunInv
  <2>3. CASE code' = 3 /\ code = 0 /\ Given("mutatemin")
             /\ Viable(outcome.result) > 0 /\ Below(outcome.result, cfg["mutatemin"])
    BY <2>1, <2>2, <2>3 DEF RunInv, CodeTells, PartialReported, Given
  <2>4. CASE /\ code' = code
             /\ ~ (/\ code = 0 /\ Given("mutatemin") /\ Viable(outcome.result) > 0
                   /\ Below(outcome.result, cfg["mutatemin"]))
    <3>1. Viable(outcome.result) \in Nat
      BY <2>1, CommandLineAssumption DEF RunInv, Viable, Result
    <3> QED
      BY <2>1, <2>2, <2>4, <3>1 DEF RunInv, CodeTells, PartialReported, Given
  <2> QED
    BY <1>5, <2>3, <2>4 DEF Gate, Exit
<1>6. CASE Elsewhere
  <2>1. /\ place \in {"forward", "execute"} \cup Handed
        /\ place' \in {"start", "execute", "ended"} \cup Handed
        /\ child' = "running" => place' \in Handed
        /\ outcome' = Pending /\ report' = Before
    BY <1>6, ElsewhereMoves DEF RunInv
  <2> QED
    BY <2>1, PendingIsNone DEF RunInv, CodeTells, PartialReported
<1>7. CASE UNCHANGED vars
  BY <1>7 DEF vars, proxyVars, RunInv, CodeTells, PartialReported, Given
<1> QED
  BY <1>1, <1>2, <1>3, <1>4, <1>5, <1>6, <1>7 DEF Next, Turn, Elsewhere

-----------------------------------------------------------------------------
(* What the flags come to.                                                   *)

Reading == {"scan", "parsed", "engine", "report", "gate"}

IsFlag(i, n) == command.args[i].is = "flag" /\ command.args[i].name = n

\* The arguments before place p were understood and have done their work.
Understood(p) ==
    /\ \A i \in 1 .. p - 1 :
          ~Offends(i) /\ command.args[i].is \in {"flag", "other", "package"}
    /\ \A n \in FlagName :
          \/ cfg[n] = Unset /\ \A i \in 1 .. p - 1 : ~IsFlag(i, n)
          \/ \E i \in 1 .. p - 1 :
                /\ IsFlag(i, n) /\ cfg[n] = command.args[i].value
                /\ \A k \in 1 .. p - 1 : IsFlag(k, n) => k <= i
    /\ found <=> \E i \in 1 .. p - 1 : IsFlag(i, "mutate")
    /\ Unsupported <=> \E i \in 1 .. p - 1 : command.args[i].is = "other"

LineInv ==
    /\ command \in Command
    /\ pos \in 1 .. Len(command.args) + 1
    /\ cfg = [n \in FlagName |-> cfg[n]]
    /\ leftover \in Seq({command.args[i] : i \in DOMAIN command.args})

ScanInv ==
    /\ place \in Reading => command.verb = "test" /\ Understood(pos)
    /\ place \in Reading \ {"scan"} => Read = 1 .. pos - 1
    /\ place \in {"engine", "report", "gate"} => found /\ ~(Conflict \/ Unsupported)
    /\ ParsedAsGiven

LEMMA Arguments ==
    ASSUME command \in Command
    PROVE  /\ Len(command.args) \in Nat
           /\ DOMAIN command.args = 1 .. Len(command.args)
           /\ \A i \in DOMAIN command.args :
                 /\ command.args[i].is \in Kind /\ command.args[i].value # Unset
                 /\ command.args[i].is \in {"flag", "bare"} =>
                       command.args[i].name \in FlagName
BY CommandLineAssumption

LEMMA LineInit == Init => LineInv
<1> SUFFICES ASSUME Init PROVE LineInv
  OBVIOUS
<1>1. Len(command.args) \in Nat
  BY Arguments DEF Init
<1> QED
  BY <1>1 DEF Init, LineInv

LEMMA LineStep == RunInv /\ LineInv /\ [Next]_vars => LineInv'
<1> SUFFICES ASSUME RunInv, LineInv, [Next]_vars PROVE LineInv'
  OBVIOUS
<1> USE DEF flagVars, runVars
<1>1. /\ Len(command.args) \in Nat
      /\ DOMAIN command.args = 1 .. Len(command.args)
  BY Arguments DEF LineInv
<1>2. CASE Dispatch
  BY <1>1, <1>2 DEF Dispatch, LineInv
<1>3. CASE ScanFlag
  <2>1. /\ pos \in DOMAIN command.args /\ pos' = pos + 1
        /\ command' = command /\ leftover' = leftover
        /\ cfg' = [cfg EXCEPT ![Arg.name] = Arg.value]
    BY <1>3 DEF ScanFlag, Scanning
  <2>2. pos' \in 1 .. Len(command.args) + 1
    BY <1>1, <2>1
  <2>3. cfg' = [n \in FlagName |-> cfg'[n]]
    BY <2>1 DEF LineInv
  <2> QED
    BY <2>1, <2>2, <2>3 DEF LineInv
<1>4. CASE ScanLeftover
  BY <1>1, <1>4 DEF ScanLeftover, Scanning, Arg, LineInv
<1>5. CASE \/ ScanSeparator \/ ScanRejected \/ ScanEnd \/ Parsed \/ Estimate
           \/ RunReturns \/ WriteReport \/ Gate
  BY <1>5 DEF ScanSeparator, ScanRejected, ScanEnd, Parsed, Estimate, RunReturns,
              WriteReport, Gate, LineInv
<1>6. CASE Elsewhere \/ UNCHANGED vars
  BY <1>6 DEF Elsewhere, vars, LineInv
<1> QED
  BY <1>2, <1>3, <1>4, <1>5, <1>6 DEF Next, Turn, Elsewhere

\* Where reading ends, what was understood is all there is to read.
LEMMA ReadToHere ==
    ASSUME LineInv, Understood(pos),
           pos \notin DOMAIN command.args \/ Arg.is = "-args"
    PROVE  Read = 1 .. pos - 1
<1>1. /\ Len(command.args) \in Nat /\ DOMAIN command.args = 1 .. Len(command.args)
      /\ pos \in 1 .. Len(command.args) + 1
  BY Arguments DEF LineInv
<1>2. \A i \in 1 .. pos - 1 : command.args[i].is # "-args"
  BY DEF Understood
<1>3. ASSUME NEW i \in 1 .. pos - 1 PROVE i \in Read
  <2>1. i \in DOMAIN command.args /\ \A k \in 1 .. i : k \in 1 .. pos - 1
    BY <1>1
  <2> QED
    BY <1>2, <2>1 DEF Read
<1>4. ASSUME NEW i \in Read PROVE i \in 1 .. pos - 1
  <2>1. i \in 1 .. Len(command.args) /\ \A k \in 1 .. i : command.args[k].is # "-args"
    BY <1>1 DEF Read
  <2> QED
    BY <1>1, <2>1 DEF Arg
<1> QED
  BY <1>3, <1>4

\* One more argument.
LEMMA OneMore ==
    ASSUME LineInv, Scanning, Understood(pos), ScanFlag \/ ScanLeftover
    PROVE  Understood(pos)'
<1>1. /\ Len(command.args) \in Nat /\ DOMAIN command.args = 1 .. Len(command.args)
      /\ pos \in 1 .. Len(command.args) /\ pos' = pos + 1 /\ command' = command
  BY Arguments DEF LineInv, Scanning, ScanFlag, ScanLeftover
<1>2. \A i \in 1 .. pos' - 1 : i \in 1 .. pos - 1 \/ i = pos
  BY <1>1
<1>3. pos \in 1 .. pos' - 1 /\ \A i \in 1 .. pos - 1 : i \in 1 .. pos' - 1 /\ i <= pos
  BY <1>1
<1>4. CASE ScanFlag
  <2>1. /\ Arg.is = "flag" /\ ~Offends(pos)
        /\ cfg' = [cfg EXCEPT ![Arg.name] = Arg.value]
        /\ found' = (found \/ Arg.name = "mutate") /\ leftover' = leftover
    BY <1>4 DEF ScanFlag, Offends, Arg
  <2>2. \A i : \A n : IsFlag(i, n)' <=> IsFlag(i, n)
    BY <1>1 DEF IsFlag
  <2>3. \A i \in 1 .. pos' - 1 :
          ~Offends(i)' /\ command'.args[i].is \in {"flag", "other", "package"}
    BY <1>1, <1>2, <2>1 DEF Understood, Offends, Arg
  <2>4. ASSUME NEW n \in FlagName
        PROVE  \/ cfg'[n] = Unset /\ \A i \in 1 .. pos' - 1 : ~IsFlag(i, n)
               \/ \E i \in 1 .. pos' - 1 :
                     /\ IsFlag(i, n) /\ cfg'[n] = command'.args[i].value
                     /\ \A k \in 1 .. pos' - 1 : IsFlag(k, n) => k <= i
    <3>1. CASE Arg.name = n
      <4>1. IsFlag(pos, n) /\ cfg'[n] = command'.args[pos].value
        BY <1>1, <2>1, <3>1 DEF IsFlag, Arg, LineInv
      <4>2. \A k \in 1 .. pos' - 1 : k <= pos
        BY <1>1
      <4> QED
        BY <1>3, <4>1, <4>2
    <3>2. CASE Arg.name # n
      <4>1. ~IsFlag(pos, n) /\ cfg'[n] = cfg[n]
        BY <2>1, <3>2 DEF IsFlag, Arg, LineInv
      <4> QED
        BY <1>1, <1>2, <1>3, <4>1 DEF Understood
    <3> QED
      BY <3>1, <3>2
  <2>5. found' <=> \E i \in 1 .. pos' - 1 : IsFlag(i, "mutate")
    BY <1>2, <1>3, <2>1 DEF Understood, IsFlag, Arg
  <2>6. Unsupported' <=> \E i \in 1 .. pos' - 1 : command'.args[i].is = "other"
    <3>1. Unsupported' <=> Unsupported
      BY <2>1 DEF Unsupported
    <3> QED
      BY <1>1, <1>2, <1>3, <2>1, <3>1 DEF Understood, Arg
  <2> QED
    BY <2>2, <2>3, <2>4, <2>5, <2>6 DEF Understood
<1>5. CASE ScanLeftover
  <2>1. /\ Arg.is \in {"other", "package"} /\ ~Offends(pos)
        /\ leftover' = Append(leftover, Arg) /\ cfg' = cfg /\ found' = found
    BY <1>5 DEF ScanLeftover, Offends, Rejected, Arg
  <2>2. \A n : ~IsFlag(pos, n)
    BY <2>1 DEF IsFlag, Arg
  <2>3. \A i : \A n : IsFlag(i, n)' <=> IsFlag(i, n)
    BY <1>1 DEF IsFlag
  <2>4. \A i \in 1 .. pos' - 1 :
          ~Offends(i)' /\ command'.args[i].is \in {"flag", "other", "package"}
    BY <1>1, <1>2, <2>1 DEF Understood, Offends, Arg
  <2>5. ASSUME NEW n \in FlagName
        PROVE  \/ cfg'[n] = Unset /\ \A i \in 1 .. pos' - 1 : ~IsFlag(i, n)
               \/ \E i \in 1 .. pos' - 1 :
                     /\ IsFlag(i, n) /\ cfg'[n] = command'.args[i].value
                     /\ \A k \in 1 .. pos' - 1 : IsFlag(k, n) => k <= i
    BY <1>1, <1>2, <1>3, <2>1, <2>2 DEF Understood
  <2>6. found' <=> \E i \in 1 .. pos' - 1 : IsFlag(i, "mutate")
    BY <1>2, <1>3, <2>1, <2>2 DEF Understood
  <2>7. Unsupported' <=> \E i \in 1 .. pos' - 1 : command'.args[i].is = "other"
    <3>1. leftover \in Seq({command.args[i] : i \in DOMAIN command.args})
          /\ Arg \in {command.args[i] : i \in DOMAIN command.args}
      BY <1>1 DEF LineInv, Arg
    <3>2. /\ \A i \in DOMAIN leftover : i \in DOMAIN leftover' /\ leftover'[i] = leftover[i]
          /\ Len(leftover) + 1 \in DOMAIN leftover' /\ leftover'[Len(leftover) + 1] = Arg
          /\ \A i \in DOMAIN leftover' : i \in DOMAIN leftover \/ i = Len(leftover) + 1
      BY <2>1, <3>1
    <3>3. Unsupported' <=> Unsupported \/ Arg.is = "other"
      BY <3>2 DEF Unsupported
    <3> QED
      BY <1>1, <1>2, <1>3, <3>3 DEF Understood, Arg
  <2> QED
    BY <2>3, <2>4, <2>5, <2>6, <2>7 DEF Understood
<1> QED
  BY <1>4, <1>5

\* What was understood is what ParsedAsGiven asks for.
LEMMA UnderstoodIsGiven ==
    ASSUME LineInv, Understood(pos), Read = 1 .. pos - 1
    PROVE  /\ \A n \in FlagName : cfg[n] = Value(n) /\ (Given(n) <=> Named(n) # {})
           /\ found <=> Named("mutate") # {}
           /\ Refusable <=> found /\ (Conflict \/ Unsupported)
<1>1. pos \in Int
  BY Arguments DEF LineInv
<1>2. \A n : Named(n) = {i \in 1 .. pos - 1 : IsFlag(i, n)}
  BY DEF Named, IsFlag
<1>3. ASSUME NEW n \in FlagName
      PROVE  cfg[n] = Value(n) /\ (Given(n) <=> Named(n) # {})
  <2>1. CASE cfg[n] = Unset /\ \A i \in 1 .. pos - 1 : ~IsFlag(i, n)
    BY <1>2, <2>1 DEF Value, Given
  <2>2. CASE \E i \in 1 .. pos - 1 :
                /\ IsFlag(i, n) /\ cfg[n] = command.args[i].value
                /\ \A k \in 1 .. pos - 1 : IsFlag(k, n) => k <= i
    <3>1. PICK i \in Named(n) : /\ cfg[n] = command.args[i].value
                                /\ \A k \in Named(n) : k <= i
      BY <1>2, <2>2
    <3>2. Last(n) \in Named(n) /\ \A k \in Named(n) : k <= Last(n)
      BY <3>1 DEF Last
    <3>3. i <= Last(n) /\ Last(n) <= i /\ i \in Int /\ Last(n) \in Int
      BY <1>1, <1>2, <3>1, <3>2
    <3>4. Last(n) = i
      BY <3>3
    <3>5. command.args[i].value # Unset
      BY <3>1, Arguments DEF LineInv, Named, Read
    <3> QED
      BY <3>1, <3>4, <3>5 DEF Value, Given
  <2> QED
    BY <2>1, <2>2 DEF Understood
<1>4. \A i \in Read : ~Offends(i)
  BY DEF Understood
<1>5. found <=> Named("mutate") # {}
  BY <1>2 DEF Understood
<1>6. Conflict <=> /\ EstimateAsked
                   /\ \E n \in {"mutateoutput", "mutatemin", "mutatecache"} : Named(n) # {}
  <2>1. {"mutateestimate", "mutateoutput", "mutatemin", "mutatecache"} \subseteq FlagName
    BY DEF FlagName
  <2>2. Estimating <=> EstimateAsked
    BY <1>3, <2>1 DEF Estimating, EstimateAsked, Given
  <2> QED
    BY <1>3, <2>1, <2>2 DEF Conflict
<1>7. Unsupported <=> \E i \in Read : command.args[i].is = "other"
  BY DEF Understood
<1> QED
  BY <1>3, <1>4, <1>5, <1>6, <1>7 DEF Refusable

\* Nothing of the command line changes what it holds.
LEMMA SameLine ==
    ASSUME UNCHANGED command
    PROVE  /\ Read' = Read /\ Refusable' = Refusable
           /\ \A n : Named(n)' = Named(n) /\ Value(n)' = Value(n)
<1>1. Read' = Read /\ \A i : Offends(i)' = Offends(i)
  BY DEF Read, Offends
<1>2. \A n : Named(n)' = Named(n) /\ Last(n)' = Last(n)
  BY <1>1 DEF Named, Last
<1>3. \A n : Value(n)' = Value(n)
  BY <1>2 DEF Value
<1> QED
  BY <1>1, <1>2, <1>3 DEF Refusable, EstimateAsked

LEMMA ScanInit == Init => ScanInv
BY DEF Init, StartsUp, ScanInv, Reading, ParsedAsGiven, UsageError

\* Past the flags only the place changes.
LEMMA ReadingGoesOn ==
    ASSUME LineInv, ScanInv, place \in Reading, UNCHANGED <<command, flagVars>>,
           \/ place' \in {"scan", "ended"} /\ (place' = "scan" => place = "scan")
           \/ /\ place' \in {"parsed", "engine", "report", "gate"} /\ Read = 1 .. pos - 1
              /\ place' # "parsed" => found /\ ~(Conflict \/ Unsupported),
           UsageError' => Refusable
    PROVE  ScanInv'
<1>1. Understood(pos)' <=> Understood(pos)
  BY DEF Understood, Offends, IsFlag, Unsupported, flagVars
<1>2. /\ Unsupported' = Unsupported /\ Conflict' = Conflict
      /\ Read' = Read /\ Refusable' = Refusable
      /\ \A n : Named(n)' = Named(n) /\ Value(n)' = Value(n)
  BY SameLine DEF Unsupported, Conflict, Estimating, Given, flagVars
<1>3. place' \in {"engine", "report", "gate"} =>
          /\ Named("mutate") # {} /\ ~Refusable
          /\ \A n \in FlagName : cfg[n] = Value(n)
  BY UnderstoodIsGiven DEF ScanInv
<1>4. ParsedAsGiven'
  BY <1>2, <1>3 DEF ParsedAsGiven, ScanInv, flagVars
<1> QED
  BY <1>1, <1>2, <1>4 DEF ScanInv, Reading, flagVars

LEMMA ScanStep == RunInv /\ LineInv /\ ScanInv /\ [Next]_vars => ScanInv'
<1> SUFFICES ASSUME RunInv, LineInv, ScanInv, [Next]_vars PROVE ScanInv'
  OBVIOUS
<1> USE DEF flagVars, runVars
<1>1. CASE Dispatch
  <2>1. CASE place' = "ended" /\ Refused'
    BY <2>1 DEF ScanInv, Reading, ParsedAsGiven
  <2>2. CASE place' = "forward" /\ command'.verb # "test"
    BY <2>2 DEF ScanInv, Reading, ParsedAsGiven, UsageError
  <2>3. CASE place' = "scan" /\ command'.verb = "test"
    <3>1. pos' = 1 /\ leftover' = <<>> /\ found' = FALSE /\ cfg' = [n \in FlagName |-> Unset]
      BY <1>1 DEF Dispatch
    <3>2. 1 .. pos' - 1 = {}
      BY <3>1
    <3>3. ~Unsupported'
      BY <3>1 DEF Unsupported
    <3>4. Understood(pos)'
      BY <3>1, <3>2, <3>3 DEF Understood
    <3> QED
      BY <2>3, <3>4 DEF ScanInv, Reading, ParsedAsGiven, UsageError
  <2>4. Refused' <=> Refused
    BY <1>1 DEF Dispatch, invocation, Refused
  <2> QED
    BY <1>1, <2>1, <2>2, <2>3, <2>4 DEF Dispatch, Moves, Exit
<1>2. CASE ScanSeparator \/ ScanEnd
  <2>1. Read = 1 .. pos - 1
    BY <1>2, ReadToHere DEF ScanSeparator, ScanEnd, Scanning, ScanInv, Reading
  <2> QED
    BY <1>2, <2>1, ReadingGoesOn DEF ScanSeparator, ScanEnd, Scanning, Moves, Reading,
                                     UsageError
<1>3. CASE ScanRejected
  <2>1. /\ Len(command.args) \in Nat /\ DOMAIN command.args = 1 .. Len(command.args)
        /\ pos \in 1 .. Len(command.args) /\ Understood(pos)
        /\ Offends(pos) /\ Arg.is # "-args"
    BY <1>3, Arguments DEF ScanRejected, Scanning, ScanInv, Reading, LineInv, Offends,
                           Rejected, Arg
  <2>2. \A k \in 1 .. pos : k = pos \/ k \in 1 .. pos - 1
    BY <2>1
  <2>3. \A k \in 1 .. pos : command.args[k].is # "-args"
    BY <2>1, <2>2 DEF Understood, Arg
  <2>4. pos \in Read
    BY <2>1, <2>3 DEF Read
  <2>5. Refusable
    BY <2>1, <2>4 DEF Refusable
  <2> QED
    BY <1>3, <2>5, ReadingGoesOn DEF ScanRejected, Scanning, Exit, Reading
<1>4. CASE ScanFlag \/ ScanLeftover
  <2>1. place = "scan" /\ place' = "scan" /\ command' = command /\ Scanning
    BY <1>4 DEF ScanFlag, ScanLeftover, Scanning, proxyVars
  <2>2. Understood(pos)'
    BY <1>4, <2>1, OneMore DEF ScanInv, Reading
  <2> QED
    BY <2>1, <2>2 DEF ScanInv, Reading, ParsedAsGiven, UsageError
<1>5. CASE Parsed
  <2>1. CASE place' = "forward"
    <3>1. ~found /\ place = "parsed" /\ UNCHANGED <<command, flagVars>>
      BY <1>5, <2>1 DEF Parsed, Moves, Exit
    <3>2. Named("mutate") = {} /\ ~Refusable
      BY <3>1, UnderstoodIsGiven DEF ScanInv, Reading
    <3> QED
      BY <2>1, <3>1, <3>2, SameLine DEF ScanInv, Reading, ParsedAsGiven, UsageError
  <2>2. CASE place' # "forward"
    <3>1. /\ place = "parsed" /\ UNCHANGED <<command, flagVars>> /\ found
          /\ \/ place' = "ended" /\ (Conflict \/ Unsupported)
             \/ place' = "engine" /\ ~(Conflict \/ Unsupported)
      BY <1>5, <2>2 DEF Parsed, Moves, Exit
    <3>2. Read = 1 .. pos - 1 /\ Understood(pos)
      BY <3>1 DEF ScanInv, Reading
    <3>3. place' = "ended" => Refusable
      BY <3>1, <3>2, UnderstoodIsGiven
    <3> QED
      BY <3>1, <3>2, <3>3, ReadingGoesOn DEF Reading, UsageError
  <2> QED
    BY <2>1, <2>2
<1>6. CASE Estimate \/ RunReturns \/ WriteReport \/ Gate
  <2>1. /\ place \in {"engine", "report", "gate"} /\ UNCHANGED <<command, flagVars>>
        /\ place' \in {"report", "gate", "ended"}
    BY <1>6 DEF Estimate, RunReturns, WriteReport, Gate, Exit
  <2>2. ~UsageError'
    BY <1>6 DEF Estimate, RunReturns, WriteReport, Gate, Exit, UsageError, RunInv
  <2> QED
    BY <2>1, <2>2, ReadingGoesOn DEF ScanInv, Reading
<1>7. CASE Elsewhere
  <2>1. place' \in {"start", "execute", "ended"} \cup Handed
    BY <1>7, ElsewhereMoves DEF RunInv
  <2>2. ~UsageError'
    BY <1>7, ElsewhereMoves DEF RunInv, UsageError
  <2> QED
    BY <2>1, <2>2 DEF ScanInv, Reading, Handed, ParsedAsGiven
<1>8. CASE UNCHANGED vars
  <2>1. UNCHANGED <<command, flagVars, place, child, code, world, name>>
    BY <1>8 DEF vars, proxyVars
  <2>2. /\ Understood(pos)' <=> Understood(pos)
        /\ Unsupported' = Unsupported /\ Conflict' = Conflict
        /\ UsageError' = UsageError /\ Refused' = Refused
    BY <2>1 DEF Understood, Offends, IsFlag, Unsupported, Conflict, Estimating, Given,
                UsageError, Refused
  <2>3. ParsedAsGiven'
    BY <2>1, <2>2, SameLine DEF ParsedAsGiven, ScanInv
  <2> QED
    BY <2>1, <2>2, <2>3, SameLine DEF ScanInv
<1> QED
  BY <1>1, <1>2, <1>3, <1>4, <1>5, <1>6, <1>7, <1>8 DEF Next, Turn, Elsewhere

-----------------------------------------------------------------------------
(* Discovery.                                                                *)

LEMMA WorldType ==
    ASSUME world \in World
    PROVE  /\ world.path \in Seq(File \cup {Empty})
           /\ world.named \in {"turango", "go"}
           /\ Candidates \in Seq(File \cup {Empty, Missing})
           /\ Len(Candidates) = Len(world.path) + 2
           /\ Candidates[1] = world.goroot
           /\ \A i \in 1 .. Len(world.path) : Candidates[i + 1] = world.path[i]
           /\ Candidates[Len(world.path) + 2] = world.fallback
<1>1. /\ world.path \in Seq(File \cup {Empty}) /\ world.named \in {"turango", "go"}
      /\ world.goroot \in File \cup {Missing} /\ world.fallback \in File \cup {Missing}
  BY GoProxyAssumption
<1> DEFINE path == world.path
           one == <<world.goroot>> \o path
<1>2. /\ one \in Seq(File \cup {Empty, Missing}) /\ Len(one) = Len(path) + 1
      /\ one[1] = world.goroot
      /\ \A i \in 1 .. Len(path) : one[i + 1] = path[i]
  BY <1>1
<1>3. Candidates = one \o <<world.fallback>>
  BY <1>1 DEF Candidates
<1> DEFINE all == one \o <<world.fallback>>
<1> HIDE DEF one
<1>4. /\ all \in Seq(File \cup {Empty, Missing})
      /\ Len(all) = Len(one) + 1
      /\ all[Len(one) + 1] = world.fallback
      /\ \A i \in 1 .. Len(one) : all[i] = one[i]
  BY <1>1, <1>2
<1> HIDE DEF all
<1>5. Len(path) \in Nat
  BY <1>1
<1>6. all[1] = one[1] /\ \A i \in 1 .. Len(path) : all[i + 1] = one[i + 1]
  BY <1>2, <1>4, <1>5
<1> HIDE DEF path
<1>7. Len(all) = Len(path) + 2 /\ all[Len(path) + 2] = world.fallback
  BY <1>2, <1>4, <1>5
<1>8. Candidates = all
  BY <1>3 DEF all
<1> QED
  BY <1>1, <1>2, <1>4, <1>6, <1>7, <1>8 DEF path

\* DiscoveryOrder, of the file c.
Ordered(c) ==
    /\ ~PassedOver(c)
    /\ \/ c = world.goroot
       \/ /\ PassedOver(world.goroot)
          /\ \/ \E i \in DOMAIN world.path :
                   /\ c = world.path[i]
                   /\ \A k \in 1 .. i - 1 : PassedOver(world.path[k])
             \/ /\ c = world.fallback
                /\ \A i \in DOMAIN world.path : PassedOver(world.path[i])

\* The first usable candidate.
LEMMA FirstUsable ==
    ASSUME world \in World, NEW i \in Found, \A k \in Found : i <= k,
           NEW c, c = Candidates[i]
    PROVE  Ordered(c)
<1> DEFINE n == Len(world.path)
<1>1. /\ n \in Nat /\ Len(Candidates) = n + 2 /\ DOMAIN Candidates = 1 .. n + 2
      /\ Candidates[1] = world.goroot /\ Candidates[n + 2] = world.fallback
      /\ \A k \in 1 .. n : Candidates[k + 1] = world.path[k]
      /\ DOMAIN world.path = 1 .. n
  BY WorldType
<1> HIDE DEF n
<1>2. \A f : Usable(f) <=> ~PassedOver(f)
  BY DEF Usable, IsSelf, PassedOver
<1>3. i \in 1 .. n + 2 /\ ~PassedOver(c)
  BY <1>1, <1>2 DEF Found
<1>4. \A k \in 1 .. n + 2 : k < i => PassedOver(Candidates[k])
  <2> SUFFICES ASSUME NEW k \in 1 .. n + 2, k < i, ~PassedOver(Candidates[k]) PROVE FALSE
    OBVIOUS
  <2>1. k \in Found
    BY <1>1, <1>2 DEF Found
  <2>2. i <= k
    BY <2>1
  <2> QED
    BY <1>1, <1>3, <2>2
<1>5. i # 1 => PassedOver(world.goroot)
  BY <1>1, <1>3, <1>4
<1>6. CASE i = 1
  BY <1>1, <1>3, <1>6 DEF Ordered
<1>7. CASE i \in 2 .. n + 1
  <2>1. i - 1 \in 1 .. n /\ i = (i - 1) + 1
    BY <1>1, <1>7
  <2>2. c = world.path[i - 1]
    BY <1>1, <2>1
  <2>3. \A k \in 1 .. (i - 1) - 1 : PassedOver(world.path[k])
    <3> SUFFICES ASSUME NEW k \in 1 .. (i - 1) - 1 PROVE PassedOver(world.path[k])
      OBVIOUS
    <3>1. k \in 1 .. n /\ k + 1 \in 1 .. n + 2 /\ k + 1 < i
      BY <1>1, <1>7
    <3> QED
      BY <1>1, <1>4, <3>1
  <2> QED
    BY <1>1, <1>3, <1>5, <1>7, <2>1, <2>2, <2>3 DEF Ordered
<1>8. CASE i = n + 2
  <2>1. \A k \in 1 .. n : PassedOver(world.path[k])
    <3> SUFFICES ASSUME NEW k \in 1 .. n PROVE PassedOver(world.path[k])
      OBVIOUS
    <3>1. k + 1 \in 1 .. n + 2 /\ k + 1 < i
      BY <1>1, <1>8
    <3> QED
      BY <1>1, <1>4, <3>1
  <2> QED
    BY <1>1, <1>3, <1>5, <1>8, <2>1 DEF Ordered
<1> QED
  BY <1>1, <1>3, <1>6, <1>7, <1>8

OrderInv == world \in World /\ DiscoveryOrder

LEMMA OrderInit == Init => OrderInv
BY DEF Init, StartsUp, OrderInv, DiscoveryOrder

LEMMA OrderStep == OrderInv /\ [Next]_vars => OrderInv'
<1> SUFFICES ASSUME OrderInv, [Next]_vars PROVE OrderInv'
  OBVIOUS
<1>1. CASE Resolve
  <2>1. /\ world' = world /\ self' = self
        /\ \/ chosen' = chosen
           \/ \E i \in Found : (\A k \in Found : i <= k) /\ chosen' = Candidates[i]
    BY <1>1 DEF Resolve, invocation
  <2>3. CASE chosen' = chosen
    BY <2>1, <2>3 DEF OrderInv, DiscoveryOrder, PassedOver
  <2>4. CASE \E i \in Found : (\A k \in Found : i <= k) /\ chosen' = Candidates[i]
    <3>1. Ordered(chosen')
      BY <2>4, FirstUsable DEF OrderInv
    <3>2. \A f : PassedOver(f)' <=> PassedOver(f)
      BY <2>1 DEF PassedOver
    <3> QED
      BY <2>1, <3>1, <3>2 DEF Ordered, OrderInv, DiscoveryOrder
  <2> QED
    BY <2>1, <2>3, <2>4
<1>2. CASE ExecuteTurango
  BY <1>2 DEF ExecuteTurango, OrderInv, DiscoveryOrder
<1>3. CASE UNCHANGED <<world, self, chosen>>
  BY <1>3 DEF OrderInv, DiscoveryOrder, PassedOver
<1>4. UNCHANGED <<world, self, chosen>> \/ Resolve \/ ExecuteTurango
  BY DEF Next, Turn, Proxy, Dispatch, ScanSeparator, ScanRejected, ScanFlag, ScanLeftover,
         ScanEnd, Parsed, Estimate, RunReturns, WriteReport, Gate, ExecuteFails,
         ExecuteGo, AssignJob, GoEnds, Wait, Killed, vars, proxyVars, invocation
<1> QED
  BY <1>1, <1>2, <1>3, <1>4

-----------------------------------------------------------------------------
(* Types.                                                                    *)

LEMMA Places ==
    /\ "start" \in Place /\ "scan" \in Place /\ "parsed" \in Place /\ "engine" \in Place
    /\ "report" \in Place /\ "gate" \in Place /\ "forward" \in Place
    /\ "execute" \in Place /\ "replaced" \in Place /\ "start child" \in Place
    /\ "waiting" \in Place /\ "ended" \in Place
BY DEF Place

MachineOK ==
    /\ world \in World /\ self \in Turango /\ name \in {"turango", "go"}
    /\ chosen \in File \cup {Missing} /\ job \in BOOLEAN

PlaceOK == place \in Place
ChildOK == child \in {"none", "running", "ended", "orphan"}
CodeOK == code \in 0 .. 3 \cup ExitCode

FlagsOK ==
    /\ \A n \in FlagName : Given(n) => Accepts(n, cfg[n])
    /\ found \in BOOLEAN /\ (found <=> Given("mutate"))

ResultOK ==
    /\ outcome \in Outcome \cup {Pending} /\ printed \in BOOLEAN
    /\ report.state \in {"before", "torn", "written"}

Behind == Len(leftover) < pos

LEMMA TypeParts ==
    LineInv /\ MachineOK /\ PlaceOK /\ ChildOK /\ CodeOK /\ FlagsOK /\ ResultOK /\ Behind
        => TypeOK
BY DEF LineInv, TypeOK, MachineOK, PlaceOK, ChildOK, CodeOK, FlagsOK, ResultOK, Behind,
       Place

Types == MachineOK /\ PlaceOK /\ ChildOK /\ CodeOK /\ FlagsOK /\ ResultOK /\ Behind

LEMMA TypeInit == Init => Types
<1> SUFFICES ASSUME Init PROVE Types
  OBVIOUS
<1>1. world.named \in {"turango", "go"} /\ Installed \in Turango
  BY WorldType, GoProxyAssumption DEF Init, StartsUp
<1>2. MachineOK
  BY <1>1 DEF Init, StartsUp, MachineOK
<1>3. FlagsOK
  <2>1. \A n \in FlagName : ~Given(n)
    BY DEF Init, Given
  <2> QED
    BY <2>1 DEF Init, FlagsOK, FlagName
<1>4. ResultOK
  BY DEF Init, ResultOK, Before
<1>5. Behind
  BY DEF Init, Behind
<1>6. PlaceOK /\ ChildOK /\ CodeOK
  <2>1. PlaceOK
    BY Places DEF Init, StartsUp, PlaceOK
  <2>2. ChildOK
    BY DEF Init, StartsUp, ChildOK
  <2>3. CodeOK
    BY DEF Init, StartsUp, CodeOK
  <2> QED
    BY <2>1, <2>2, <2>3
<1> QED
  BY <1>2, <1>3, <1>4, <1>5, <1>6 DEF Types

\* The steps one by one, since the process moves in nearly all of them.
LEMMA MachineStep ==
    OrderInv /\ MachineOK /\ PlaceOK /\ ChildOK /\ CodeOK /\ [Next]_vars
        => MachineOK' /\ PlaceOK' /\ ChildOK' /\ CodeOK'
<1> SUFFICES ASSUME OrderInv, MachineOK, PlaceOK, ChildOK, CodeOK, [Next]_vars
             PROVE  MachineOK' /\ PlaceOK' /\ ChildOK' /\ CodeOK'
  OBVIOUS
<1> USE DEF invocation, Exit, Moves
<1>1. MachineOK'
  <2>1. \A i \in Found : Candidates[i] \in File
    BY GoProxyAssumption DEF Found, Usable
  <2>2. CASE Resolve \/ ExecuteTurango \/ AssignJob
    BY <2>1, <2>2 DEF Resolve, ExecuteTurango, AssignJob, MachineOK
  <2>3. CASE UNCHANGED <<world, self, name, chosen, job>>
    BY <2>3 DEF MachineOK
  <2>4. \/ UNCHANGED <<world, self, name, chosen, job>>
        \/ Resolve \/ ExecuteTurango \/ AssignJob
    BY DEF Next, Turn, Proxy, Dispatch, ScanSeparator, ScanRejected, ScanFlag,
           ScanLeftover, ScanEnd, Parsed, Estimate, RunReturns, WriteReport, Gate,
           ExecuteFails, ExecuteGo, GoEnds, Wait, Killed, vars, proxyVars
  <2> QED
    BY <2>2, <2>3, <2>4
<1>2. PlaceOK'
  BY Places DEF PlaceOK, Next, Turn, Proxy, Dispatch, ScanSeparator, ScanRejected,
     ScanFlag, ScanLeftover, ScanEnd, Parsed, Estimate, RunReturns, WriteReport, Gate,
     Resolve, ExecuteFails, ExecuteTurango, ExecuteGo, AssignJob, GoEnds, Wait, Killed,
     vars, proxyVars
<1>3. ChildOK'
  BY DEF ChildOK, Next, Turn, Proxy, Dispatch, ScanSeparator, ScanRejected,
     ScanFlag, ScanLeftover, ScanEnd, Parsed, Estimate, RunReturns, WriteReport, Gate,
     Resolve, ExecuteFails, ExecuteTurango, ExecuteGo, AssignJob, GoEnds, Wait, Killed,
     vars, proxyVars
<1>4. CodeOK'
  <2>1. code' = code \/ code' \in {0, 1, 2, 3} \/ code' \in ExitCode
    BY DEF Next, Turn, Proxy, Dispatch, ScanSeparator, ScanRejected, ScanFlag,
           ScanLeftover, ScanEnd, Parsed, Estimate, RunReturns, WriteReport, Gate,
           Resolve, ExecuteFails, ExecuteTurango, ExecuteGo, AssignJob, GoEnds, Wait,
           Killed, vars, proxyVars
  <2> QED
    BY <2>1 DEF CodeOK
<1> QED
  BY <1>1, <1>2, <1>3, <1>4

LEMMA FlagsStep == LineInv /\ FlagsOK /\ Behind /\ [Next]_vars => FlagsOK' /\ Behind'
<1> SUFFICES ASSUME LineInv, FlagsOK, Behind, [Next]_vars PROVE FlagsOK' /\ Behind'
  OBVIOUS
<1> USE DEF flagVars, runVars
<1>1. pos \in Int /\ Len(leftover) \in Int
  BY Arguments DEF LineInv
<1>2. CASE Dispatch
  <2>1. \A n \in FlagName : ~Given(n)'
    BY <1>2 DEF Dispatch, Given
  <2>2. ~Given("mutate")'
    BY <2>1 DEF FlagName
  <2>3. Behind' /\ found' = FALSE
    BY <1>2 DEF Dispatch, Behind
  <2> QED
    BY <2>1, <2>2, <2>3 DEF FlagsOK
<1>3. CASE ScanFlag
  <2>1. /\ pos \in DOMAIN command.args /\ pos' = pos + 1
        /\ Arg.is = "flag" /\ Accepts(Arg.name, Arg.value)
        /\ cfg' = [cfg EXCEPT ![Arg.name] = Arg.value]
        /\ found' = (found \/ Arg.name = "mutate") /\ leftover' = leftover
    BY <1>3 DEF ScanFlag, Scanning, Rejected
  <2>2. Arg.name \in FlagName /\ Arg.value # Unset
    BY <2>1, Arguments DEF LineInv, Arg
  <2>3. \A n \in FlagName : cfg'[n] = IF n = Arg.name THEN Arg.value ELSE cfg[n]
    BY <2>1 DEF LineInv
  <2>4. \A n \in FlagName : Given(n)' => Accepts(n, cfg'[n])
    BY <2>1, <2>3 DEF Given, FlagsOK
  <2>5. found' \in BOOLEAN /\ (found' <=> Given("mutate")')
    BY <2>1, <2>2, <2>3 DEF Given, FlagsOK, FlagName
  <2>6. FlagsOK'
    BY <2>4, <2>5 DEF FlagsOK
  <2> QED
    BY <1>1, <2>1, <2>6 DEF Behind
<1>4. CASE ScanLeftover
  <2>1. Len(leftover') = Len(leftover) + 1 /\ pos' = pos + 1 /\ UNCHANGED <<cfg, found>>
    BY <1>4 DEF ScanLeftover, LineInv
  <2> QED
    BY <1>1, <2>1 DEF Behind, FlagsOK, Given
<1>5. CASE UNCHANGED flagVars
  BY <1>1, <1>5 DEF FlagsOK, Given, Behind
<1>6. UNCHANGED flagVars \/ Dispatch \/ ScanFlag \/ ScanLeftover
  BY DEF Next, Turn, ScanSeparator, ScanRejected, ScanEnd, Parsed, Estimate, RunReturns,
         WriteReport, Gate, vars
<1> QED
  BY <1>2, <1>3, <1>4, <1>5, <1>6

LEMMA ResultStep == ResultOK /\ [Next]_vars => ResultOK'
<1> SUFFICES ASSUME ResultOK, [Next]_vars PROVE ResultOK'
  OBVIOUS
<1> USE DEF runVars
<1>1. CASE Estimate
  BY <1>1 DEF Estimate, ResultOK
<1>2. CASE RunReturns
  <2>1. outcome' \in Outcome /\ printed' \in BOOLEAN /\ report' = report
    BY <1>2, CommandLineAssumption DEF RunReturns, Result
  <2> QED
    BY <2>1 DEF ResultOK
<1>3. CASE WriteReport
  BY <1>3 DEF WriteReport, ResultOK
<1>4. CASE UNCHANGED runVars
  BY <1>4 DEF ResultOK
<1>5. UNCHANGED runVars \/ Estimate \/ RunReturns \/ WriteReport
  BY DEF Next, Turn, Dispatch, ScanSeparator, ScanRejected, ScanFlag, ScanLeftover,
         ScanEnd, Parsed, Gate, vars
<1> QED
  BY <1>1, <1>2, <1>3, <1>4, <1>5

-----------------------------------------------------------------------------
(* Theorems.                                                                 *)

IInv == Types /\ RunInv /\ LineInv /\ ScanInv /\ OrderInv

\* The invariant: every verdict of the command line, of the run and of the
\* search for the real go is drawn from what was established before it.
THEOREM InvariantHolds == Spec => []IInv
<1>1. Init => IInv
  BY TypeInit, RunInit, LineInit, ScanInit, OrderInit DEF IInv
<1>2. IInv /\ [Next]_vars => IInv'
  BY MachineStep, FlagsStep, ResultStep, RunStep, LineStep, ScanStep, OrderStep DEF IInv, Types
<1> QED
  BY <1>1, <1>2, PTL DEF Spec

\* Every variable keeps its type, -mutate was found exactly when it has a value,
\* and no flag has a value its setter refuses.
THEOREM TypeCorrect == Spec => []TypeOK
<1>1. IInv => TypeOK
  BY TypeParts DEF IInv, Types
<1> QED
  BY <1>1, InvariantHolds, PTL

\* Whatever is typed, in whatever order: a mutation run or an estimate has the last
\* value of each flag and ignores nothing before -args; `turango test` hands its
\* line to the go command only without -mutate and with nothing refusable in it;
\* and turango ends with its usage error only for a reason.
THEOREM CommandsAreUnderstood == Spec => []ParsedAsGiven
<1>1. IInv => ParsedAsGiven
  BY DEF IInv, ScanInv
<1> QED
  BY <1>1, InvariantHolds, PTL

\* Whatever the engine returns and however the report's writing goes, 0 and 3
\* say of the run, its report and the gate what the documentation says; and a
\* result, partial or not, is printed, and reported or missed aloud.
THEOREM ExitCodesTell == Spec => []ExitTells
<1>1. IInv => ExitTells
  BY DEF IInv, RunInv, ExitTells
<1> QED
  BY <1>1, InvariantHolds, PTL

\* On every machine the toolchain handed to is the first in the documented order
\* -- GOROOT, the entries of PATH one after the other, the one turango was built
\* with -- that can be run and is not, as far as turango knows, turango itself.
THEOREM DiscoveryIsInOrder == Spec => []DiscoveryOrder
<1>1. IInv => DiscoveryOrder
  BY DEF IInv, OrderInv
<1> QED
  BY <1>1, InvariantHolds, PTL

=============================================================================
