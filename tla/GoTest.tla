------------------------------- MODULE GoTest -------------------------------
(***************************************************************************)
(* One mutant's test run: runner.goTest and the processes it drives.       *)
(* turango starts the go command under a context with a deadline; the go   *)
(* command compiles the mutated package and runs its test binary, relaying *)
(* test2json events; os/exec's watcher kills the go command -- that one    *)
(* process -- when the context is done; goTest reads its own context after *)
(* the command was waited for, and classifies the events it saw.           *)
(*                                                                         *)
(* The mutant's behaviour is chosen at the start.  Signals come from the   *)
(* user: to turango alone, or, as Ctrl+C in a terminal does, to the whole  *)
(* foreground process group, the test binary included.                     *)
(*                                                                         *)
(* What the go command prints passes through a pipe: a goroutine of        *)
(* os/exec reads it in pieces of any size and testEventState puts lines    *)
(* together from them.  The length of a line is counted in units of which  *)
(* a piece has at least one.                                               *)
(***************************************************************************)
EXTENDS Naturals, Sequences, FiniteSets

CONSTANTS
    Behaviour,   \* what the mutated package may do
    Signal,      \* the signals the user may send: "turango", "group"
    LineLength,  \* how long the line of an event is
    MaxEventLine \* maxEventLineBytes

EventKind == {"test", "testFail", "pkgFail", "buildFail", "diagnostic", "chatter"}

\* maxEventLineBytes: "a record above this limit cannot carry a useful test
\* verdict".
ASSUME GoTestAssumption ==
    /\ Behaviour \subseteq {"passes", "fails", "hangs", "noTests",
                           "logsAtInit", "panicsAtInit", "broken"}
    /\ MaxEventLine \in Nat
    /\ LineLength \in [EventKind -> Nat \ {0}]
    /\ \A e \in EventKind \ {"chatter"} : LineLength[e] <= MaxEventLine
    /\ Signal \subseteq {"turango", "group"}

VARIABLES
    does,      \* what this mutant does
    beside,    \* the tests of packages that do not import the mutated one run too
    signaled,  \* the signal sent: none, turango, group
    parent,    \* the run's context: live, done
    deadline,  \* runCtx's timer: ahead, passed
    go,        \* the go command: unstarted, compiling, testing, exited, reaped
    code,      \* how it ended: none, ok, fail, killed
    binary,    \* the test binary: none, running, gone
    events,    \* what the go command printed so far: subset of EventKind
    pipe,      \* the lines nobody has read yet
    taken,     \* how much of the first of them has been read
    partial,   \* how much testEventState.partial holds
    heard,     \* the events it decoded
    watcher,   \* os/exec's watcher: watching, killed
    step,      \* goTest: waiting, waited, checked, returned
    ret        \* what runner.run makes of it

vars == <<does, beside, signaled, parent, deadline, go, code, binary, events,
          pipe, taken, partial, heard, watcher, step, ret>>
mutant == <<does, beside>>
userVars == <<mutant, signaled, parent>>
stream == <<taken, partial, heard>>
procVars == <<go, code, binary, events, pipe, stream>>
callVars == <<step, ret>>

Verdicts  == {"Killed", "Survived", "NotViable"}

RunCtxDone == parent = "done" \/ deadline = "passed"

Init ==
    /\ does \in Behaviour
    /\ beside \in BOOLEAN
    /\ signaled = "none"
    /\ parent = "live"
    /\ deadline = "ahead"
    /\ go = "unstarted"
    /\ code = "none"
    /\ binary = "none"
    /\ events = {}
    /\ pipe = <<>> /\ taken = 0 /\ partial = 0 /\ heard = {}
    /\ watcher = "watching"
    /\ step = "waiting"
    /\ ret = "none"

-----------------------------------------------------------------------------
(* The user and the clock.                                                 *)

SendSignal ==
    /\ signaled = "none"
    /\ step # "returned"
    /\ signaled' \in Signal
    /\ UNCHANGED <<mutant, parent, deadline, procVars, watcher, callVars>>

\* signal.NotifyContext's goroutine gets round to canceling the context.
ParentCanceled ==
    /\ signaled # "none"
    /\ parent = "live"
    /\ parent' = "done"
    /\ UNCHANGED <<mutant, signaled, deadline, procVars, watcher, callVars>>

\* testTimeout + timeoutGrace after the start, wherever the command is by then.
DeadlinePasses ==
    /\ deadline = "ahead"
    /\ step # "returned"
    /\ deadline' = "passed"
    /\ UNCHANGED <<userVars, procVars, watcher, callVars>>

-----------------------------------------------------------------------------
(* The go command and the test binary it starts.                           *)

\* A line for each event, in an order of the go command's own.
Prints(seen) ==
    /\ events' = events \cup seen
    /\ \E order \in {o \in [1 .. Cardinality(seen) -> seen] :
                        \A e \in seen : \E i \in DOMAIN o : o[i] = e} :
          pipe' = pipe \o order

GoExits(c, seen) ==
    /\ go' = "exited"
    /\ code' = c
    /\ Prints(seen)

\* Newer toolchains say so with an event of its own, older ones with the
\* compiler's diagnostics; both with the failure of the package.
CompileFails ==
    /\ go = "compiling"
    /\ does = "broken"
    /\ \E how \in {"buildFail", "diagnostic"} : GoExits("fail", {how, "pkgFail"})
    /\ UNCHANGED <<userVars, deadline, binary, stream, watcher, callVars>>

StartBinary ==
    /\ go = "compiling"
    /\ does # "broken"
    /\ go' = "testing"
    /\ binary' = "running"
    /\ UNCHANGED <<userVars, deadline, code, events, pipe, stream, watcher, callVars>>

\* Under the full scope tests of other packages run meanwhile, and may print
\* more than the runner keeps.
OthersTest ==
    /\ beside
    /\ go \in {"compiling", "testing"}
    /\ \E e \in {"test", "chatter"} \ events : Prints({e})
    /\ UNCHANGED <<userVars, deadline, go, code, binary, stream, watcher, callVars>>

BinaryStep(end, seen) ==
    /\ go = "testing"
    /\ binary = "running"
    /\ binary' = end
    /\ Prints(seen)
    /\ UNCHANGED <<userVars, deadline, go, code, stream, watcher, callVars>>

\* A test announces itself; a binary that panics in an init function never does.
TestStarts ==
    /\ does \in {"passes", "fails", "hangs"}
    /\ "test" \notin events
    /\ BinaryStep("running", {"test"})

\* The binary ends by itself; one that hangs, by the alarm of its -test.timeout.
\* A package without a test to run may log lines that begin like a compiler's.
BinaryEnds ==
    \/ does = "passes" /\ "test" \in events /\ BinaryStep("gone", {})
    \/ does = "noTests" /\ BinaryStep("gone", {})
    \/ does = "logsAtInit" /\ BinaryStep("gone", {"diagnostic"})
    \/ /\ does \in {"fails", "hangs"} /\ "test" \in events
       /\ BinaryStep("gone", {"testFail", "pkgFail"})
    \/ does = "panicsAtInit" /\ BinaryStep("gone", {"pkgFail"})

\* Ctrl+C reaches the binary as well; the go command reports it as failed.
BinaryInterrupted ==
    /\ signaled = "group"
    /\ BinaryStep("gone", {"pkgFail"})

GoReports ==
    /\ go = "testing"
    /\ binary = "gone"
    /\ GoExits(IF "pkgFail" \in events THEN "fail" ELSE "ok", {})
    /\ UNCHANGED <<userVars, deadline, binary, stream, watcher, callVars>>

\* Without the go command the binary runs on until its own alarm.
OrphanEnds ==
    /\ go \in {"exited", "reaped"}
    /\ binary = "running"
    /\ binary' = "gone"
    /\ UNCHANGED <<userVars, deadline, go, code, events, pipe, stream, watcher, callVars>>

-----------------------------------------------------------------------------
(* testEventState, fed by the goroutine that reads the pipe.               *)

\* Mutant of AppendPartial: a piece takes the place of what was there.
ReplacePartial(held, k) == k

\* appendPartial: what would grow beyond the limit is dropped, and with it what
\* was there; the rest of the same line starts anew.
AppendPartial(held, k) == IF held + k > MaxEventLine THEN 0 ELSE held + k

\* consumeLine: only a whole line decodes; the tail of one is kept as output.
Decoded(line, held) == IF held = LineLength[line] THEN {line} ELSE {}

\* One round of Write's loop: a piece that ends within the first line, or with
\* its newline.
ReadPiece ==
    /\ pipe # <<>>
    /\ LET line == Head(pipe)
           rest == LineLength[line] - taken
       IN \/ \E k \in 1 .. rest :
                /\ taken' = taken + k
                /\ partial' = AppendPartial(partial, k)
                /\ UNCHANGED <<pipe, heard>>
          \/ /\ heard' = heard \cup Decoded(line, AppendPartial(partial, rest))
             /\ partial' = 0
             /\ taken' = 0
             /\ pipe' = Tail(pipe)
    /\ UNCHANGED <<userVars, deadline, go, code, binary, events, watcher, callVars>>

-----------------------------------------------------------------------------
(* goTest and os/exec.                                                     *)

Returns(r) ==
    /\ step' = "returned"
    /\ ret' = r
    /\ UNCHANGED <<userVars, deadline, procVars, watcher>>

\* cmd.Start looks at the context before it starts anything, and its error is
\* no ExitError.
Start ==
    /\ go = "unstarted"
    /\ step = "waiting"
    /\ \/ RunCtxDone /\ Returns("error")
       \/ /\ ~RunCtxDone
          /\ go' = "compiling"
          /\ UNCHANGED <<userVars, deadline, code, binary, events, pipe, stream,
                         watcher, callVars>>

\* Whatever the killed command has not printed in full is no line: its last
\* one may be cut, and finish then finds a tail that does not decode.
Cut == pipe' \in {pipe} \cup (IF pipe = <<>> THEN {} ELSE {SubSeq(pipe, 1, Len(pipe) - 1)})

\* Mutant of WatcherKills: the command is not bound to the deadline.
WatcherIgnoresDeadline ==
    /\ parent = "done"
    /\ watcher = "watching"
    /\ go \in {"compiling", "testing"}
    /\ watcher' = "killed"
    /\ go' = "exited"
    /\ code' = "killed"
    /\ UNCHANGED <<userVars, deadline, binary, events, pipe, stream, callVars>>

\* The watcher's Kill succeeds on any process not yet waited for, one that has
\* just exited included.
WatcherKills ==
    /\ RunCtxDone
    /\ watcher = "watching"
    /\ go \in {"compiling", "testing", "exited"}
    /\ watcher' = "killed"
    /\ IF go = "exited"
         THEN UNCHANGED <<go, code, pipe, stream>>
         ELSE /\ go' = "exited" /\ code' = "killed"
              /\ Cut
              /\ IF pipe' = <<>> THEN taken' = 0 /\ partial' = 0 ELSE UNCHANGED <<taken, partial>>
              /\ UNCHANGED heard
    /\ UNCHANGED <<userVars, deadline, binary, events, callVars>>

\* cmd.Run returns, once the goroutine that reads the pipe has come to its end.
\* A command that exited with success after a Kill that succeeded yields the context's error, which is no ExitError.
Wait ==
    /\ step = "waiting"
    /\ go = "exited"
    /\ pipe = <<>>
    /\ go' = "reaped"
    /\ IF code = "ok" /\ watcher = "killed"
         THEN step' = "returned" /\ ret' = "error"
         ELSE step' = "waited" /\ UNCHANGED ret
    /\ UNCHANGED <<userVars, deadline, code, binary, events, pipe, stream, watcher>>

\* if ctx.Err() != nil
CheckParent ==
    /\ step = "waited"
    /\ \/ parent = "done" /\ Returns("canceled")
       \/ /\ parent = "live"
          /\ step' = "checked"
          /\ UNCHANGED <<userVars, deadline, procVars, watcher, ret>>

\* Mutant of Classify: only the failure of a test counts.
ClassifyByTests(seen) ==
    IF "buildFail" \in seen THEN "NotViable"
    ELSE IF "testFail" \in seen THEN "Killed" ELSE "Survived"

\* classifySignals.
Classify(seen) ==
    LET broken == \/ "buildFail" \in seen
                  \/ "test" \notin seen /\ seen \cap {"pkgFail", "diagnostic"} # {}
        failed == seen \cap {"testFail", "pkgFail"} # {}
    IN  CASE broken -> "NotViable"
          [] ~broken /\ failed -> "Killed"
          [] ~broken /\ ~failed -> "Survived"

\* runCtx.Err() != nil is the last thing goTest looks at.
CheckDeadline ==
    /\ step = "checked"
    /\ Returns(IF RunCtxDone THEN "timeout" ELSE Classify(heard))

Next ==
    \/ SendSignal \/ ParentCanceled \/ DeadlinePasses
    \/ CompileFails \/ StartBinary \/ OthersTest \/ ReadPiece \/ TestStarts \/ BinaryEnds
    \/ BinaryInterrupted \/ GoReports \/ OrphanEnds
    \/ Start \/ WatcherKills \/ Wait \/ CheckParent \/ CheckDeadline
    \/ step = "returned" /\ UNCHANGED vars

\* Time passes and goroutines run.  Nothing is assumed of the go command and
\* the binary: the mutant may hang them.
Spec ==
    /\ Init /\ [][Next]_vars
    /\ WF_vars(ParentCanceled)
    /\ WF_vars(DeadlinePasses)
    /\ WF_vars(Start)
    /\ WF_vars(ReadPiece)
    /\ WF_vars(WatcherKills)
    /\ WF_vars(Wait)
    /\ WF_vars(CheckParent)
    /\ WF_vars(CheckDeadline)

-----------------------------------------------------------------------------
(* Properties.                                                             *)

TypeOK ==
    /\ does \in Behaviour /\ beside \in BOOLEAN
    /\ signaled \in Signal \cup {"none"}
    /\ parent \in {"live", "done"}
    /\ deadline \in {"ahead", "passed"}
    /\ go \in {"unstarted", "compiling", "testing", "exited", "reaped"}
    /\ code \in {"none", "ok", "fail", "killed"}
    /\ binary \in {"none", "running", "gone"}
    /\ events \subseteq EventKind
    /\ pipe \in Seq(EventKind)
    /\ taken \in Nat /\ partial \in 0 .. MaxEventLine
    /\ pipe = <<>> => taken = 0 /\ partial = 0
    /\ heard \subseteq events
    /\ watcher \in {"watching", "killed"}
    /\ step \in {"waiting", "waited", "checked", "returned"}
    /\ ret \in Verdicts \cup {"none", "error", "canceled", "timeout"}

\* A verdict is earned by what the mutant does: whatever the deadline and the
\* kill cut short, a hung or failing mutant never counts as survived, a passing
\* one never as killed by its tests, and only one that reached no test as not
\* viable.  Excepted is what the code gets wrong: a Ctrl+C that reached the test
\* binary, whose death looks like a failure (CtrlCIsNoVerdict); a mutant that
\* does not compile, under a toolchain without build-fail events, beside
\* packages whose tests run (BrokenIsNotViable); and lines logged before any
\* test that look like a compiler's.
Deserved ==
    signaled # "group" =>
        /\ ret = "Survived"  => does \in {"passes", "noTests", "logsAtInit"} /\ binary = "gone"
        /\ ret = "Killed"    => \/ does \in {"fails", "hangs"}
                                \/ does = "panicsAtInit" /\ beside
                                \/ does = "broken" /\ beside /\ "diagnostic" \in events
        /\ ret = "NotViable" => \/ does \in {"broken", "panicsAtInit"}
                                \/ does = "logsAtInit" /\ "test" \notin events

\* A command that the watcher killed never yields a classified verdict: its
\* stream of events was cut off somewhere.
NoVerdictFromCutStream == code = "killed" => ret \notin Verdicts

\* Whatever races whatever, a verdict comes of a whole run and is the mutant's.
VerdictEarned == Deserved /\ NoVerdictFromCutStream

\* However the output was cut into pieces, a verdict has heard every event the
\* go command printed, except one whose line is longer than the limit.
NothingUnheard ==
    ret \in Verdicts => heard = {e \in events : LineLength[e] <= MaxEventLine}

\* goTest returns, however the mutant hangs.
Returned == <>(step = "returned")

\* runner.go on timedOut: the caller "must distinguish 'this mutant hung' from
\* 'the user pressed Ctrl+C'".  A mutant that passes its tests is not recorded
\* as killed because of a signal.
CtrlCIsNoVerdict ==
    does = "passes" /\ deadline = "ahead" => ret \notin {"Killed", "timeout"}

\* runner.go on classify: a build failure has "no test ever having run, which
\* is NotViable".  Under the full scope tests of other packages have run.
BrokenIsNotViable == does = "broken" => ret # "Killed"
=============================================================================
