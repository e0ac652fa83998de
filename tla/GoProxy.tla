------------------------------ MODULE GoProxy ------------------------------
(***************************************************************************)
(* turango as a stand-in for the go command: finding the real toolchain    *)
(* and handing the invocation to it.  On Unix the process becomes the      *)
(* toolchain; on Windows the toolchain is a child whose exit code turango  *)
(* returns.  What is found may be another copy of turango, which then does *)
(* the same under the name go.                                             *)
(*                                                                         *)
(* A file is a path that ends in the toolchain's name; what it leads to,   *)
(* links resolved, is its real path.                                       *)
(***************************************************************************)
EXTENDS Naturals, Sequences

CONSTANTS
    File, RealPath,   \* paths named go, and what they resolve to
    IsExecutable,     \* the files that could be run
    Turango,          \* the real paths of turango's copies
    Missing,          \* no file: GOROOT or a fallback that is not set
    Empty,            \* an empty entry of PATH
    World,            \* GOROOT, PATH and runtime.GOROOT() that a process may have
    Installed,        \* the copy of turango the user starts
    ExitCode          \* codes the go command ends with

ASSUME GoProxyAssumption ==
    /\ RealPath \in [File -> STRING]
    /\ IsExecutable \subseteq File
    /\ Missing \notin File /\ Empty \notin File
    /\ World \subseteq [os : {"unix", "windows"}, goroot : File \cup {Missing},
                        path : Seq(File \cup {Empty}), fallback : File \cup {Missing},
                        named : {"turango", "go"}, alias : BOOLEAN, known : BOOLEAN]
    /\ Installed \in Turango
    /\ ExitCode \subseteq Nat

VARIABLES
    world,    \* the environment: it is handed on to whatever is executed
    self,     \* the copy of turango that runs
    name,     \* its argv[0]
    place,    \* where it is
    chosen,   \* the file that Resolve found
    job,      \* Windows: the child is in a job that dies with turango
    child,    \* the toolchain: none, running, ended, orphan
    code      \* the exit code; 0 until there is one

proxyVars == <<world, self, name, place, chosen, job, child, code>>
invocation == <<world, self, name>>

StartsUp ==
    /\ world \in World
    /\ self = Installed
    /\ name = world.named
    /\ place = "start"
    /\ chosen = Missing
    /\ job = FALSE
    /\ child = "none"
    /\ code = 0

\* The end of the process.
Exit(c) ==
    /\ place' = "ended"
    /\ code' = c

\* checkAlias: the name go needs the user's consent.
Refused == name = "go" /\ ~world.alias

\* Mutant of IsSelf: only the name that was typed is compared.
IsSelfByPath(f) == world.known /\ f = self

\* resolver.isSelf: without os.Executable nothing is turango itself.
IsSelf(f) == world.known /\ RealPath[f] = self

Usable(f) == f \in IsExecutable /\ ~IsSelf(f)

\* Mutant of Candidates: the toolchain turango was built with comes first.
CandidatesBuiltFirst == <<world.fallback, world.goroot>> \o world.path

\* The order of discovery.
Candidates == <<world.goroot>> \o world.path \o <<world.fallback>>

Found == {i \in DOMAIN Candidates : Usable(Candidates[i])}

Resolve ==
    /\ place = "forward"
    /\ \/ /\ Found = {}
          /\ Exit(1)
          /\ UNCHANGED chosen
       \/ \E i \in Found :
            /\ \A k \in Found : i <= k
            /\ chosen' = Candidates[i]
            /\ place' = "execute"
            /\ UNCHANGED code
    /\ UNCHANGED <<invocation, job, child>>

\* The file may have gone meanwhile, or be of another architecture.
ExecuteFails ==
    /\ place = "execute"
    /\ Exit(1)
    /\ UNCHANGED <<invocation, chosen, job, child>>

\* Another copy of turango starts over, under the name it was found by; on
\* Windows its parent waits for it and returns its code.
ExecuteTurango ==
    /\ place = "execute"
    /\ RealPath[chosen] \in Turango
    /\ self' = RealPath[chosen]
    /\ name' = "go"
    /\ place' = "start"
    /\ chosen' = Missing
    /\ UNCHANGED <<world, job, child, code>>

\* execve, or a child.
ExecuteGo ==
    /\ place = "execute"
    /\ RealPath[chosen] \notin Turango
    /\ child' = "running"
    /\ place' = IF world.os = "unix" THEN "replaced" ELSE "start child"
    /\ UNCHANGED <<invocation, chosen, job, code>>

\* assignToKillOnCloseJob comes after the start, and its failure is ignored.
AssignJob ==
    /\ place = "start child"
    /\ job' \in BOOLEAN
    /\ place' = "waiting"
    /\ UNCHANGED <<invocation, chosen, child, code>>

\* The toolchain ends; in place of turango its code is turango's.
GoEnds ==
    /\ child = "running"
    /\ \E c \in ExitCode :
        IF place = "replaced"
          THEN Exit(c) /\ child' = "ended"
          ELSE child' = "ended" /\ code' = c /\ UNCHANGED place
    /\ UNCHANGED <<invocation, chosen, job>>

\* Its code is turango's, unless waiting for it fails.
Wait ==
    /\ place = "waiting"
    /\ child = "ended"
    /\ Exit(code) \/ Exit(1)
    /\ UNCHANGED <<invocation, chosen, job, child>>

\* Ctrl+C is claimed by turango and reaches the child alone, which is GoEnds;
\* but turango can be killed from outside: the kernel closes the job's handle.
Killed ==
    /\ world.os = "windows"
    /\ place \in {"start child", "waiting"}
    /\ Exit(1)
    /\ child' = CASE child = "ended" -> "ended"
                  [] child = "running" /\ job -> "ended"
                  [] OTHER -> "orphan"
    /\ UNCHANGED <<invocation, chosen, job>>

Proxy == \/ Resolve \/ ExecuteFails \/ ExecuteTurango \/ ExecuteGo \/ AssignJob
         \/ GoEnds \/ Wait

-----------------------------------------------------------------------------
(* Properties.                                                               *)

\* One copy of turango, that knows where it is, however many links lead to it.
OneCopy ==
    /\ world.known
    /\ \A i \in DOMAIN Candidates :
          Candidates[i] \in File => RealPath[Candidates[i]] \notin Turango \ {Installed}

\* A candidate that discovery has to pass over: no file that could be run, or,
\* where turango knows its own executable, that very executable behind the links.
PassedOver(c) == c \notin IsExecutable \/ (world.known /\ RealPath[c] = self)

\* The toolchain handed to is the first, in the documented order, that need not be
\* passed over: GOROOT's; else the one of the first entry of PATH that has one;
\* else the one turango was built with.  So a turango that knows where it is never
\* hands an invocation to itself.  (One that does not know, because os.Executable
\* failed, may: Ends and OneCopy leave that case out.)
DiscoveryOrder ==
    chosen # Missing =>
        /\ ~PassedOver(chosen)
        /\ \/ chosen = world.goroot
           \/ /\ PassedOver(world.goroot)
              /\ \/ \E i \in DOMAIN world.path :
                       /\ chosen = world.path[i]
                       /\ \A k \in 1 .. i - 1 : PassedOver(world.path[k])
                 \/ /\ chosen = world.fallback
                    /\ \A i \in DOMAIN world.path : PassedOver(world.path[i])

=============================================================================
