------------------------------ MODULE Workspace ------------------------------
(***************************************************************************)
(* Where a mutant is tested: the dependency closure that planning resolves *)
(* for a package (closureWalk over the import graph), the file set its     *)
(* cache fingerprint covers, and the workspace built for each mutant from  *)
(* the closure, from a git worktree or from the whole module -- while the  *)
(* user edits and commits, and the run may be canceled.                    *)
(*                                                                         *)
(* One package, Target, is mutated; a layout gives the import graph around *)
(* it and what else lies in its module and repository.  Files stand for    *)
(* all files of their kind in a place; a copy is one step.                 *)
(***************************************************************************)
EXTENDS Naturals, FiniteSets

CONSTANTS
    Home,       \* packages of the mutated module
    Foreign,    \* packages of other modules
    Target,     \* the package being mutated
    Layouts,    \* the layouts considered
    MaxEdits,   \* bound: edits the user makes
    EditPhases  \* the phases in which the user may edit or commit

Pkg == Home \cup Foreign
Places == {"module", "nested", "sibling", "elsewhere"}
File == {"source", "generated", "asset", "testdata", "gomod", "vendor"}
           \X (Home \cup Places)
Phase == {"plan", "walking", "resolved", "planned", "checked", "fallback",
          "copied", "written", "leaving"}

\* replaces: where local replace directives point, inside the module, beside it
\* in the repository, or out of the repository.
Layout == [imports   : [Pkg -> SUBSET Pkg],  \* of the production packages
           tests     : SUBSET Pkg,           \* of Target's two test variants
           embeds    : SUBSET Home,          \* have a //go:embed directive
           broken    : SUBSET Pkg,           \* do not load, or have no files
           vendor    : BOOLEAN,              \* there is a vendor directory
           replaces  : SUBSET (Places \ {"module"}),
           testdata  : BOOLEAN,              \* Target's tests read testdata/
           generated : BOOLEAN]              \* Target has a file git ignores

ASSUME WorkspaceAssumption ==
    /\ Home \cap Foreign = {}
    /\ Target \in Home
    /\ Home \cap Places = {}
    /\ Layouts \subseteq Layout
    /\ MaxEdits \in Nat
    /\ EditPhases \subseteq Phase

VARIABLES
    layout,     \* of this run
    scope,      \* -mutatescope: full, package (impact is package here)
    want,       \* -mutateworkspace: copy, worktree
    git,        \* the module lies in a git repository
    disk,       \* the content of each file, as a version
    head,       \* its content in the last commit
    edits,      \* edits made so far
    canceled,   \* the run's context is done
    phase,      \* of planning, then of the mutant at hand
    todo,       \* closureWalk: packages yet to be visited
    seen,       \* closureWalk.seen
    dirs,       \* closureWalk.dirs
    safe,       \* closureWalk.safe
    closure,    \* fileJob.closure: <<>> for nil, else <<the directories>>
    printed,    \* the files the cache fingerprint was computed over
    root,       \* the workspace: content by file
    worktree    \* registered in .git/worktrees: none, made, torn

givens   == <<layout, scope, want, git>>
userVars == <<disk, head, edits, canceled>>
walkVars == <<todo, seen, dirs, safe>>
planVars == <<closure, printed>>
copyVars == <<root, worktree>>
vars == <<givens, userVars, phase, walkVars, planVars, copyVars>>

Empty == [f \in {} |-> 0]
Select(content, files) == [f \in files |-> content[f]]

-----------------------------------------------------------------------------
(* The files of a layout.                                                  *)

\* Directly in a package's directory, and in directories below it.
Beside(d) ==
    {<<"source", d>>} \cup
    (IF d = Target /\ layout.generated THEN {<<"generated", d>>} ELSE {})

Below(d) ==
    (IF d \in layout.embeds THEN {<<"asset", d>>} ELSE {}) \cup
    (IF d = Target /\ layout.testdata THEN {<<"testdata", d>>} ELSE {})

GoMod == {<<"gomod", "module">>}
Vendored == IF layout.vendor THEN {<<"vendor", "module">>} ELSE {}
Replaced(places) == {<<"source", r>> : r \in layout.replaces \cap places}

ModuleFiles ==
    GoMod \cup Vendored \cup Replaced({"nested"})
          \cup UNION {Beside(d) \cup Below(d) : d \in Home}

\* copyModule takes the targets of outside replaces along.
CopiedModule == ModuleFiles \cup Replaced({"sibling", "elsewhere"})

\* A checkout has what is committed, wherever in the repository it lies.
Tracked ==
    (ModuleFiles \cup Replaced({"sibling"})) \ {<<"generated", Target>>}

ClosureFiles(ds) == GoMod \cup UNION {Beside(d) : d \in ds}

-----------------------------------------------------------------------------
Init ==
    /\ layout \in Layouts
    /\ scope \in {"full", "package"}
    /\ want \in {"copy", "worktree"}
    /\ git \in BOOLEAN
    /\ disk = [f \in CopiedModule |-> 0]
    /\ head = disk
    /\ edits = 0
    /\ canceled = FALSE
    /\ phase = "plan"
    /\ todo = {} /\ seen = {} /\ dirs = {} /\ safe = TRUE
    /\ closure = <<>>
    /\ printed = {}
    /\ root = Empty
    /\ worktree = "none"

-----------------------------------------------------------------------------
(* The user.                                                               *)

Edit ==
    /\ phase \in EditPhases
    /\ edits < MaxEdits
    /\ edits' = edits + 1
    /\ \E f \in CopiedModule : disk' = [disk EXCEPT ![f] = @ + 1]
    /\ UNCHANGED <<givens, head, canceled, phase, walkVars, planVars, copyVars>>

Commit ==
    /\ phase \in EditPhases
    /\ head # disk
    /\ head' = disk
    /\ UNCHANGED <<givens, disk, edits, canceled, phase, walkVars, planVars,
                   copyVars>>

Cancel ==
    /\ ~canceled
    /\ canceled' = TRUE
    /\ UNCHANGED <<givens, disk, head, edits, phase, walkVars, planVars, copyVars>>

-----------------------------------------------------------------------------
(* Planning: planClosure, resolveClosure, closureWalk.                     *)

\* Declined at once under the full scope, when loadClosures found no variant
\* of the package, with a vendor directory or with a replace out of the module.
Decline ==
    /\ phase = "plan"
    /\ phase' = "resolved"
    /\ closure' = <<>>
    /\ UNCHANGED <<givens, userVars, walkVars, printed, copyVars>>

StartWalk ==
    /\ phase = "plan"
    /\ scope = "package"
    /\ ~layout.vendor
    /\ layout.replaces \subseteq {"nested"}
    /\ todo' = {Target}
    /\ phase' = "walking"
    /\ UNCHANGED <<givens, userVars, seen, dirs, safe, planVars, copyVars>>

\* Mutant of Imports: closureDirs is given the production variant alone.
ProductionImports(p) == layout.imports[p]

\* mergeVariants: the imports of Target's test variants are pooled with its own.
Imports(p) == layout.imports[p] \cup (IF p = Target THEN layout.tests ELSE {})

Walking(p) ==
    /\ phase = "walking"
    /\ safe
    /\ p \in todo
    /\ seen' = seen \cup {p}
    /\ UNCHANGED <<givens, userVars, phase, planVars, copyVars>>

VisitSeen(p) ==
    /\ Walking(p)
    /\ p \in seen
    /\ todo' = todo \ {p}
    /\ UNCHANGED <<dirs, safe>>

\* Errors come first, even those of other modules' packages; a package with an
\* embed directive still adds its directory.
VisitUnsafe(p) ==
    /\ Walking(p)
    /\ p \notin seen
    /\ p \in layout.broken \cup layout.embeds
    /\ dirs' = dirs \cup ({p} \ layout.broken)
    /\ safe' = FALSE
    /\ UNCHANGED todo

\* Resolves from the module cache: neither copied nor followed.
VisitForeign(p) ==
    /\ Walking(p)
    /\ p \in Foreign \ (seen \cup layout.broken)
    /\ todo' = todo \ {p}
    /\ UNCHANGED <<dirs, safe>>

VisitHome(p) ==
    /\ Walking(p)
    /\ p \in Home \ (seen \cup layout.broken \cup layout.embeds)
    /\ dirs' = dirs \cup {p}
    /\ todo' = (todo \cup Imports(p)) \ {p}
    /\ UNCHANGED safe

\* The last check: targets of replaces inside the module must be among dirs.
WalkEnds ==
    /\ phase = "walking"
    /\ todo = {} \/ ~safe
    /\ closure' = IF safe /\ layout.replaces \cap {"nested"} \subseteq dirs
                    THEN <<dirs>> ELSE <<>>
    /\ phase' = "resolved"
    /\ UNCHANGED <<givens, userVars, walkVars, printed, copyVars>>

\* Mutant of FingerprintFiles: a closure is fingerprinted without go.mod.
DirsAlone == IF closure = <<>> THEN ModuleFiles ELSE UNION {Beside(d) : d \in dirs}

\* wholeModulePaths or closurePaths.
FingerprintFiles ==
    IF closure = <<>> THEN ModuleFiles ELSE ClosureFiles(closure[1])

Fingerprint ==
    /\ phase = "resolved"
    /\ printed' = FingerprintFiles
    /\ phase' = "planned"
    /\ UNCHANGED <<givens, userVars, walkVars, closure, copyVars>>

-----------------------------------------------------------------------------
(* One mutant after another: workspaceFor, then the rest of runner.run.    *)

CopyClosure ==
    /\ phase = "planned"
    /\ closure # <<>>
    /\ root' = Select(disk, ClosureFiles(closure[1]))
    /\ phase' = "copied"
    /\ UNCHANGED <<givens, userVars, walkVars, planVars, worktree>>

Clean == \A f \in Tracked : disk[f] = head[f]

\* Mutant of CheckClean: it is enough to be in a repository.
CheckRepository ==
    /\ phase = "planned"
    /\ closure = <<>>
    /\ want = "worktree"
    /\ phase' = IF git /\ ~canceled THEN "checked" ELSE "fallback"
    /\ UNCHANGED <<givens, userVars, walkVars, planVars, copyVars>>

\* gitRepoRoot and gitWorktreeClean; a done context fails both.
CheckClean ==
    /\ phase = "planned"
    /\ closure = <<>>
    /\ want = "worktree"
    /\ phase' = IF git /\ Clean /\ ~canceled THEN "checked" ELSE "fallback"
    /\ UNCHANGED <<givens, userVars, walkVars, planVars, copyVars>>

AddWorktree ==
    /\ phase = "checked"
    /\ ~canceled
    /\ root' = Select(head, Tracked)
    /\ worktree' = "made"
    /\ phase' = "copied"
    /\ UNCHANGED <<givens, userVars, walkVars, planVars>>

\* git fails, or the done context kills it, possibly half-way.
AddFails ==
    /\ phase = "checked"
    /\ phase' = "fallback"
    /\ worktree' \in IF canceled THEN {worktree, "torn"} ELSE {worktree}
    /\ UNCHANGED <<givens, userVars, walkVars, planVars, root>>

CopyModule ==
    /\ \/ phase = "fallback"
       \/ phase = "planned" /\ closure = <<>> /\ want = "copy"
    /\ root' = Select(disk, CopiedModule)
    /\ phase' = "copied"
    /\ UNCHANGED <<givens, userVars, walkVars, planVars, worktree>>

\* The mutated file is written into the copy; an error leaves at once.
WriteMutant ==
    /\ phase = "copied"
    /\ phase' \in {"written", "leaving"}
    /\ UNCHANGED <<givens, userVars, walkVars, planVars, copyVars>>

Test ==
    /\ phase = "written"
    /\ phase' = "leaving"
    /\ UNCHANGED <<givens, userVars, walkVars, planVars, copyVars>>

\* Mutant of Cleanup: git worktree remove runs under the run's own context.
CleanupUnlessCanceled ==
    /\ phase = "leaving"
    /\ root' = Empty
    /\ worktree' = IF worktree = "made" /\ ~canceled THEN "none" ELSE worktree
    /\ phase' = "planned"
    /\ UNCHANGED <<givens, userVars, walkVars, planVars>>

\* The deferred cleanup, which no cancellation reaches, and RemoveAll.  That git
\* itself fails to remove a worktree (the code ignores it) is left out.
Cleanup ==
    /\ phase = "leaving"
    /\ root' = Empty
    /\ worktree' = IF worktree = "made" THEN "none" ELSE worktree
    /\ phase' = "planned"
    /\ UNCHANGED <<givens, userVars, walkVars, planVars>>

Next ==
    \/ Edit \/ Commit \/ Cancel
    \/ Decline \/ StartWalk
    \/ \E p \in Pkg : VisitSeen(p) \/ VisitUnsafe(p) \/ VisitForeign(p) \/ VisitHome(p)
    \/ WalkEnds \/ Fingerprint
    \/ CopyClosure \/ CheckClean \/ AddWorktree \/ AddFails \/ CopyModule
    \/ WriteMutant \/ Test \/ Cleanup

Spec == Init /\ [][Next]_vars

-----------------------------------------------------------------------------
(* Properties.                                                             *)

\* What testing Target needs: the least set of packages with Target and the
\* imports of its tests in it that is closed under imports, wherever they lead.
Closed(ps) == \A p \in ps : layout.imports[p] \subseteq ps
Needed ==
    {p \in Pkg : \A ps \in SUBSET Pkg :
        {Target} \cup layout.tests \subseteq ps /\ Closed(ps) => p \in ps}

\* What the go command and the tests read: the module graph and these packages,
\* or the whole of it when every package's tests are run.
Reads ==
    IF scope = "full" THEN CopiedModule
    ELSE GoMod \cup Vendored \cup Replaced(Places)
         \cup UNION {Beside(d) \cup Below(d) : d \in Needed \cap Home}

TypeOK ==
    /\ layout \in Layout
    /\ scope \in {"full", "package"} /\ want \in {"copy", "worktree"}
    /\ git \in BOOLEAN /\ canceled \in BOOLEAN /\ safe \in BOOLEAN
    /\ disk \in [CopiedModule -> Nat] /\ head \in [CopiedModule -> Nat]
    /\ edits \in Nat
    /\ phase \in Phase
    /\ todo \subseteq Pkg /\ seen \subseteq Pkg
    /\ dirs \subseteq Home
    /\ closure = <<>> \/ closure = <<dirs>>
    /\ printed \subseteq File
    /\ DOMAIN root \subseteq File /\ \A f \in DOMAIN root : root[f] \in Nat
    /\ worktree \in {"none", "made", "torn"}

HasWorkspace == phase \in {"copied", "written"}

\* A mutant is tested with all its tests read: a file missing from the workspace
\* fails the build or a test of every mutant, which then counts as not viable or
\* killed whatever it changed.  Whichever strategy workspaceFor took, and
\* whatever the import graph of the package, its tests and its obstacles.
WorkspaceComplete == HasWorkspace => Reads \subseteq DOMAIN root

\* The files a cached verdict is keyed by are those the mutant was tested with
\* (cacheFingerprint: "exactly the file set" workspaceFor copies), the targets of
\* replaces out of the module excepted.
KeyIsWorkspace == HasWorkspace => printed = DOMAIN root \cap ModuleFiles

\* The workspace holds what is on disk when it is built, never an older commit,
\* as long as nobody edits between git's status and its checkout.
WorkspaceIsDisk ==
    [][root' \notin {root, Empty} =>
          \A f \in DOMAIN root' : root'[f] = disk[f]]_vars

\* A worktree that was made is gone when its mutant is over, canceled or not:
\* they would pile up in .git/worktrees, one for each mutant.
WorktreeRemoved == phase \in {"planned", "checked", "fallback"} => worktree # "made"
=============================================================================
