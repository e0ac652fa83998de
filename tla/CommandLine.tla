---------------------------- MODULE CommandLine ----------------------------
(***************************************************************************)
(* The turango command: the consent to be called go, the flags of          *)
(* `turango test`, and then one of three things: a mutation run with its   *)
(* summary, report and gate; an estimate; or the real go command, which    *)
(* module GoProxy finds.                                                   *)
(*                                                                         *)
(* An argument is a record: a flag of turango's with its value, one        *)
(* without, a misspelt one, another flag, a package, or -args.  What the   *)
(* strings of values mean to strconv, time and regexp are constants.       *)
(***************************************************************************)
EXTENDS GoProxy, Integers

CONSTANTS
    Command,    \* [verb, args]: what the user may type
    Regexp,     \* values that compile
    IntOf,      \* values that are integers; durations count as these too
    FloatOf,    \* values that are numbers, in hundredths
    NaN,        \* ... and those that parse as no number at all
    BoolOf,     \* values that are Booleans
    Hex,        \* values that look like a mutant's id
    Outcome     \* what mutate.Run may return

FlagName == {"mutate", "mutatescope", "mutateoperators", "mutateparallel",
             "mutatetimeout", "mutateoutput", "mutatemin", "mutatemutant",
             "mutatetce", "mutateworkspace", "mutateestimate", "mutatecache"}
Kind == {"flag", "bare", "misspelt", "other", "package", "-args"}
Unset == "unset"

\* The statuses counted; a run with no result at all has Exists FALSE.
Result == [exists : BOOLEAN, killed : Nat, survived : Nat, notViable : Nat]
NoResult == [exists |-> FALSE, killed |-> 0, survived |-> 0, notViable |-> 0]

ASSUME CommandLineAssumption ==
    /\ \A c \in Command :
          /\ Len(c.args) \in Nat /\ DOMAIN c.args = 1 .. Len(c.args)
          /\ \A i \in DOMAIN c.args :
                /\ c.args[i].is \in Kind /\ c.args[i].value # Unset
                /\ c.args[i].is \in {"flag", "bare"} => c.args[i].name \in FlagName
    /\ \A v \in DOMAIN IntOf : IntOf[v] \in Int
    /\ \A v \in DOMAIN FloatOf : FloatOf[v] \in Int
    /\ \A v \in DOMAIN BoolOf : BoolOf[v] \in BOOLEAN
    /\ \A o \in Outcome :
          /\ o.result \in Result /\ o.err \in {"none", "failed", "canceled"}
          /\ o.err = "none" => o.result.exists

VARIABLES
    command,   \* what was typed
    pos,       \* parseMutateFlags' place in it
    cfg,       \* mutateConfig: a value for each flag
    leftover,  \* what the flags leave
    found,     \* -mutate was given
    outcome,   \* what the engine returned
    printed,   \* the summary or the preview was printed
    report     \* the report's file: what was there before, torn, or a result

flagVars == <<pos, cfg, leftover, found>>
runVars == <<outcome, printed, report>>
vars == <<proxyVars, command, flagVars, runVars>>

Pending == [result |-> NoResult, err |-> "pending"]
Before == [state |-> "before", of |-> NoResult]

Init ==
    /\ StartsUp
    /\ command \in Command
    /\ pos = 1
    /\ cfg = [n \in FlagName |-> Unset]
    /\ leftover = <<>>
    /\ found = FALSE
    /\ outcome = Pending
    /\ printed = FALSE
    /\ report = Before

Moves(to) == place' = to /\ UNCHANGED code
Arg == command.args[pos]
Given(n) == cfg[n] # Unset

-----------------------------------------------------------------------------
(* run and parseMutateFlags.                                                 *)

\* run: a copy that was executed under the name go reads the same arguments.
Dispatch ==
    /\ place = "start"
    /\ pos' = 1 /\ leftover' = <<>> /\ found' = FALSE
    /\ cfg' = [n \in FlagName |-> Unset]
    /\ \/ Refused /\ Exit(2)
       \/ ~Refused /\ command.verb = "test" /\ Moves("scan")
       \/ ~Refused /\ command.verb # "test" /\ Moves("forward")
    /\ UNCHANGED <<invocation, chosen, job, child, command, runVars>>

\* The setters' validation.
Accepts(n, v) ==
    CASE n = "mutate" -> v \in Regexp
      [] n = "mutatescope" -> v \in {"full", "package", "impact"}
      [] n = "mutateworkspace" -> v \in {"copy", "worktree"}
      [] n \in {"mutateparallel", "mutatetimeout"} -> v \in DOMAIN IntOf /\ IntOf[v] > 0
      [] n \in {"mutateoutput", "mutatecache"} -> v # ""
      [] n = "mutatemin" -> v \in DOMAIN FloatOf \cup NaN
      [] n = "mutatemutant" -> v \in Hex
      [] n \in {"mutatetce", "mutateestimate"} -> v \in DOMAIN BoolOf
      [] n = "mutateoperators" -> TRUE

\* splitMutateFlag and set, by what they refuse.
Rejected(a) == \/ a.is \in {"bare", "misspelt"}
               \/ a.is = "flag" /\ ~Accepts(a.name, a.value)

Scanning == place = "scan" /\ pos \in DOMAIN command.args

ScanSeparator ==
    /\ Scanning
    /\ Arg.is = "-args"
    /\ Moves("parsed")
    /\ UNCHANGED <<invocation, chosen, job, child, command, flagVars, runVars>>

ScanRejected ==
    /\ Scanning
    /\ Rejected(Arg)
    /\ Exit(2)
    /\ UNCHANGED <<invocation, chosen, job, child, command, flagVars, runVars>>

\* Mutant of ScanFlag: what was set first stays.
ScanFlagOnce ==
    /\ Scanning
    /\ Arg.is = "flag" /\ ~Rejected(Arg)
    /\ cfg' = IF Given(Arg.name) THEN cfg ELSE [cfg EXCEPT ![Arg.name] = Arg.value]
    /\ found' = (found \/ Arg.name = "mutate")
    /\ pos' = pos + 1
    /\ UNCHANGED <<proxyVars, command, leftover, runVars>>

ScanFlag ==
    /\ Scanning
    /\ Arg.is = "flag" /\ ~Rejected(Arg)
    /\ cfg' = [cfg EXCEPT ![Arg.name] = Arg.value]
    /\ found' = (found \/ Arg.name = "mutate")
    /\ pos' = pos + 1
    /\ UNCHANGED <<proxyVars, command, leftover, runVars>>

ScanLeftover ==
    /\ Scanning
    /\ Arg.is \in {"other", "package"}
    /\ leftover' = Append(leftover, Arg)
    /\ pos' = pos + 1
    /\ UNCHANGED <<proxyVars, command, cfg, found, runVars>>

ScanEnd ==
    /\ place = "scan"
    /\ pos \notin DOMAIN command.args
    /\ Moves("parsed")
    /\ UNCHANGED <<invocation, chosen, job, child, command, flagVars, runVars>>

Estimating == Given("mutateestimate") /\ BoolOf[cfg["mutateestimate"]]

\* Flags that an estimate could not honour.
Conflict == Estimating /\ (\/ Given("mutateoutput") \/ Given("mutatemin")
                           \/ Given("mutatecache"))

\* Only what mutation mode understands may be left: packages.
Unsupported == \E i \in DOMAIN leftover : leftover[i].is = "other"

Parsed ==
    /\ place = "parsed"
    /\ \/ ~found /\ Moves("forward")
       \/ found /\ (Conflict \/ Unsupported) /\ Exit(2)
       \/ found /\ ~(Conflict \/ Unsupported) /\ Moves("engine")
    /\ UNCHANGED <<invocation, chosen, job, child, command, flagVars, runVars>>

-----------------------------------------------------------------------------
(* estimateRun and mutateRun.                                                *)

Estimate ==
    /\ place = "engine"
    /\ Estimating
    /\ \/ Exit(1) /\ UNCHANGED printed
       \/ Exit(0) /\ printed' = TRUE
    /\ UNCHANGED <<invocation, chosen, job, child, command, flagVars, outcome, report>>

\* mutate.Run, of modules Planner and Engine; without a result there is nothing
\* more to do, with one the summary is printed whatever the error.
RunReturns ==
    /\ place = "engine"
    /\ ~Estimating
    /\ outcome' \in Outcome
    /\ printed' = outcome'.result.exists
    /\ IF ~outcome'.result.exists THEN Exit(1)
       ELSE /\ place' = IF Given("mutateoutput") THEN "report" ELSE "gate"
            /\ code' = IF outcome'.err = "none" THEN 0 ELSE 1
    /\ UNCHANGED <<invocation, chosen, job, child, command, flagVars, report>>

\* os.WriteFile truncates the file before it writes.
WriteReport ==
    /\ place = "report"
    /\ place' = "gate"
    /\ \/ report' = [state |-> "written", of |-> outcome.result] /\ UNCHANGED code
       \/ report' \in {report, [state |-> "torn", of |-> NoResult]} /\ code' = 1
    /\ UNCHANGED <<invocation, chosen, job, child, command, flagVars, outcome, printed>>

\* Result.Counts and Result.Score, in hundredths of the viable.
Viable(r) == r.killed + r.survived
Below(r, v) == v \notin NaN /\ r.killed * 100 < FloatOf[v] * Viable(r)

\* Mutant of Gate: the score of a run that did not come to its end counts too.
GateRegardless ==
    /\ place = "gate"
    /\ IF /\ Given("mutatemin") /\ Viable(outcome.result) > 0
          /\ Below(outcome.result, cfg["mutatemin"])
         THEN Exit(3) ELSE Exit(code)
    /\ UNCHANGED <<invocation, chosen, job, child, command, flagVars, runVars>>

\* What failed before is not gated, and neither is a run with nothing to score.
Gate ==
    /\ place = "gate"
    /\ IF /\ code = 0 /\ Given("mutatemin") /\ Viable(outcome.result) > 0
          /\ Below(outcome.result, cfg["mutatemin"])
         THEN Exit(3) ELSE Exit(code)
    /\ UNCHANGED <<invocation, chosen, job, child, command, flagVars, runVars>>

Turn == \/ Dispatch \/ ScanSeparator \/ ScanRejected \/ ScanFlag \/ ScanLeftover
        \/ ScanEnd \/ Parsed \/ Estimate \/ RunReturns \/ WriteReport \/ Gate
        \/ (Proxy /\ UNCHANGED <<command, flagVars, runVars>>)

Next == Turn \/ (Killed /\ UNCHANGED <<command, flagVars, runVars>>)

\* The process runs, and the go command ends.
Spec == Init /\ [][Next]_vars /\ WF_vars(Turn)

-----------------------------------------------------------------------------
(* Properties.                                                               *)

TypeOK ==
    /\ world \in World /\ self \in Turango /\ name \in {"turango", "go"}
    /\ place \in {"start", "scan", "parsed", "engine", "report", "gate", "forward",
                  "execute", "replaced", "start child", "waiting", "ended"}
    /\ chosen \in File \cup {Missing} /\ job \in BOOLEAN
    /\ child \in {"none", "running", "ended", "orphan"} /\ code \in 0 .. 3 \cup ExitCode
    /\ command \in Command /\ pos \in 1 .. Len(command.args) + 1
    /\ \A n \in FlagName : Given(n) => Accepts(n, cfg[n])
    /\ Len(leftover) < pos
    /\ found \in BOOLEAN /\ (found <=> Given("mutate"))
    /\ outcome \in Outcome \cup {Pending} /\ printed \in BOOLEAN
    /\ report.state \in {"before", "torn", "written"}

\* What counts is what stands before the first -args.
Read == {i \in DOMAIN command.args :
            \A k \in 1 .. i : command.args[k].is # "-args"}
Named(n) == {i \in Read : command.args[i].is = "flag" /\ command.args[i].name = n}
Last(n) == CHOOSE i \in Named(n) : \A k \in Named(n) : k <= i
Value(n) == IF Named(n) = {} THEN Unset ELSE command.args[Last(n)].value
Offends(i) == Rejected(command.args[i])

EstimateAsked == Value("mutateestimate") # Unset /\ BoolOf[Value("mutateestimate")]

\* What `turango test` refuses: an argument that is a misspelling of a flag of
\* turango's, lacks its value or has one that its setter refuses, -mutate given or
\* not; with -mutate, a flag of the go command's, or one that an estimate could
\* not honour.
Refusable ==
    \/ \E i \in Read : Offends(i)
    \/ /\ Named("mutate") # {}
       /\ \/ \E i \in Read : command.args[i].is = "other"
          \/ /\ EstimateAsked
             /\ \E n \in {"mutateoutput", "mutatemin", "mutatecache"} : Named(n) # {}

\* Turango's own exit code 2; a go command it became or waited for has its own.
UsageError == place = "ended" /\ child = "none" /\ code = 2

\* Each command line goes one of three ways, whatever order its arguments are in.
\* A mutation run or an estimate has exactly what was asked: -mutate was given,
\* nothing is refusable, and each flag has its last value, or none if it was not
\* given.  What reaches the real go command from `turango test` has no -mutate
\* and nothing refusable before -args; its other flags of turango's, if it has
\* any, are handed on unread.  And a usage error has a reason: the name go
\* without consent, or something refusable.
ParsedAsGiven ==
    /\ place \in {"engine", "report", "gate"} =>
          /\ command.verb = "test" /\ Named("mutate") # {} /\ ~Refusable
          /\ \A n \in FlagName : cfg[n] = Value(n)
    /\ place = "forward" /\ command.verb = "test" =>
          Named("mutate") = {} /\ ~Refusable
    /\ UsageError => Refused \/ (command.verb = "test" /\ Refusable)

\* What the README says: "Everything that isn't `test` with a `-mutate=` flag goes
\* straight to the real `go` command".  Turango's own usage errors would be for
\* that form alone; but it refuses a misspelt flag of its own, or one with a bad
\* value, before it knows whether -mutate was given.
HandedOn ==
    UsageError /\ ~Refused =>
        /\ command.verb = "test"
        /\ \E i \in Read : /\ command.args[i].is \in {"flag", "bare"}
                           /\ command.args[i].name = "mutate"

\* Exit codes tell CI what happened.  After a mutation run 0 means that it was
\* complete, that its report, if asked for, is there in full, and that the gate
\* passed or had nothing to measure; 3 that the run and its report are complete
\* and the score is too low.  A usage error leaves everything as it was.
CodeTells ==
    place = "ended" =>
        /\ outcome # Pending /\ code \in {0, 3} =>
              /\ outcome.err = "none"
              /\ Given("mutateoutput") => report = [state |-> "written", of |-> outcome.result]
        /\ outcome # Pending /\ code = 0 /\ Given("mutatemin") =>
              Viable(outcome.result) = 0 \/ ~Below(outcome.result, cfg["mutatemin"])
        /\ outcome # Pending /\ code = 3 =>
              Viable(outcome.result) > 0 /\ Below(outcome.result, cfg["mutatemin"])
        /\ outcome = Pending => report = Before

\* An interrupted run reports what it has: a result is always printed, and the
\* report is written with it or turango fails.
PartialReported ==
    place = "ended" /\ outcome.result.exists =>
        /\ printed
        /\ Given("mutateoutput") /\ report.state # "written" => code = 1

\* The exit code and what turango leaves behind tell how the run went.
ExitTells == CodeTells /\ PartialReported

\* With one copy of turango, a command that is not for turango comes to an end,
\* whatever links to turango lie in PATH before the toolchain.
Ends == OneCopy ~> (place = "ended")

=============================================================================
