--------------------------- MODULE WorkspaceProofs ---------------------------
(***************************************************************************)
(* For every import graph, every set of obstacles and every interleaving   *)
(* with the user: a workspace has what its mutant's tests read, if no      *)
(* other module imports this one back, no test reads below its directory,  *)
(* git knows every file and no replace leaves the repository.  The heart   *)
(* is the closure walk: what it has seen and has yet to visit is closed    *)
(* under the imports of what it has seen, at every step and in any order.  *)
(***************************************************************************)
EXTENDS Workspace, TLAPS

\* The layouts the theorem speaks of; the run workspace_testdata shows what
\* happens in others, as MCWorkspace's RoundTrip and WithGenerated would.
Benign ==
    \A l \in Layouts :
        /\ \A x \in Foreign : l.imports[x] \subseteq Foreign
        /\ ~l.testdata
        /\ ~l.generated
        /\ "elsewhere" \notin l.replaces

\* While the walk is under way and nothing has stopped it.
WalkInv ==
    phase = "walking" =>
        /\ ~layout.vendor
        /\ layout.replaces \subseteq {"nested"}
        /\ scope = "package"
        /\ dirs \subseteq Home
        /\ safe =>
             /\ Target \in seen \cup todo
             /\ \A p \in seen \cap Home : Imports(p) \subseteq seen \cup todo
             /\ dirs = seen \cap Home
             /\ dirs \cap layout.embeds = {}

\* A closure that was accepted holds every directory of the module that its
\* tests need, and nothing in them has to be looked for elsewhere.
ClosureOK ==
    closure # <<>> =>
        /\ ~layout.vendor
        /\ layout.replaces = {}
        /\ scope = "package"
        /\ \E ds \in SUBSET Home :
              /\ closure = <<ds>>
              /\ Needed \cap Home \subseteq ds
              /\ ds \cap layout.embeds = {}

Inv ==
    /\ layout \in Layouts
    /\ phase = "plan" => seen = {} /\ dirs = {}
    /\ phase \in {"plan", "walking"} => closure = <<>>
    /\ WalkInv
    /\ ClosureOK
    /\ WorkspaceComplete

-----------------------------------------------------------------------------
(* Layouts and their files.                                                *)

\* A layout has the type the assumption gives it.
LEMMA LayoutType ==
  ASSUME layout \in Layouts
  PROVE  /\ layout.imports \in [Pkg -> SUBSET Pkg]
         /\ layout.tests \subseteq Pkg
         /\ layout.embeds \subseteq Home
         /\ layout.replaces \subseteq {"nested", "sibling", "elsewhere"}
  BY WorkspaceAssumption DEF Layout, Places

\* Imports, those of the tests included, are packages.
LEMMA ImportsType ==
  ASSUME layout \in Layouts, NEW p \in Pkg
  PROVE  Imports(p) \subseteq Pkg
  BY LayoutType DEF Imports

\* A walk that is done without having been stopped has found all of the module
\* that Target needs: with the other modules' packages, what it has seen is a
\* set that contains Target and its tests' imports and is closed under imports.
LEMMA WalkIsComplete ==
  ASSUME Benign, layout \in Layouts, todo = {}, Target \in seen,
         \A p \in seen \cap Home : Imports(p) \subseteq seen
  PROVE  Needed \cap Home \subseteq seen \cap Home
  <1> DEFINE reached == (seen \cap Home) \cup Foreign
  <1>1. reached \in SUBSET Pkg BY DEF Pkg
  <1>2. \A p \in seen \cap Home : Imports(p) \subseteq reached
    <2> TAKE p \in seen \cap Home
    <2>1. Imports(p) \subseteq seen OBVIOUS
    <2>2. Imports(p) \subseteq Home \cup Foreign BY ImportsType DEF Pkg
    <2> QED BY <2>1, <2>2
  <1>3. {Target} \cup layout.tests \subseteq reached
    <2>1. Target \in seen \cap Home BY WorkspaceAssumption
    <2>2. layout.tests \subseteq Imports(Target) BY DEF Imports
    <2> QED BY <1>2, <2>1, <2>2
  <1>4. Closed(reached)
    <2> SUFFICES ASSUME NEW p \in reached PROVE layout.imports[p] \subseteq reached
      BY DEF Closed
    <2>1. CASE p \in Foreign BY <2>1 DEF Benign
    <2>2. CASE p \in seen \cap Home BY <1>2, <2>2 DEF Imports
    <2> QED BY <2>1, <2>2
  <1>5. Needed \subseteq reached BY <1>1, <1>3, <1>4 DEF Needed
  <1> QED BY <1>5, WorkspaceAssumption

\* What is read lies in the module or is the target of a replace.
LEMMA ModuleHasReads ==
  ASSUME layout \in Layouts
  PROVE  Reads \subseteq CopiedModule
  <1>1. Replaced(Places) \subseteq Replaced({"nested"}) \cup Replaced({"sibling", "elsewhere"})
    BY LayoutType DEF Replaced, Places
  <1>2. CASE scope = "full" BY <1>2 DEF Reads
  <1>3. CASE scope # "full" BY <1>1, <1>3 DEF Reads, CopiedModule, ModuleFiles
  <1> QED BY <1>2, <1>3

\* A checkout has all of it when git knows every file and every replace stays
\* in the repository.
LEMMA CheckoutHasReads ==
  ASSUME Benign, layout \in Layouts
  PROVE  Reads \subseteq Tracked
  <1>1. ~layout.generated /\ "elsewhere" \notin layout.replaces BY DEF Benign
  <1>2. Replaced({"sibling", "elsewhere"}) \subseteq Replaced({"sibling"})
    BY <1>1 DEF Replaced
  <1>3. <<"generated", Target>> \notin CopiedModule
    <2>1. \A d \in Home : <<"generated", Target>> \notin Beside(d) \cup Below(d)
      BY <1>1 DEF Beside, Below
    <2>2. <<"generated", Target>> \notin GoMod \cup Vendored BY DEF GoMod, Vendored
    <2>3. \A ps : <<"generated", Target>> \notin Replaced(ps) BY DEF Replaced
    <2> QED BY <2>1, <2>2, <2>3 DEF CopiedModule, ModuleFiles
  <1>4. CopiedModule \subseteq Tracked
    BY <1>2, <1>3 DEF CopiedModule, Tracked
  <1> QED BY <1>4, ModuleHasReads

\* An accepted closure has all of it.
LEMMA ClosureHasReads ==
  ASSUME Benign, layout \in Layouts, scope = "package",
         ~layout.vendor, layout.replaces = {},
         NEW ds \in SUBSET Home,
         Needed \cap Home \subseteq ds, ds \cap layout.embeds = {}
  PROVE  Reads \subseteq ClosureFiles(ds)
  <1>1. ~layout.testdata BY DEF Benign
  <1>2. \A d \in ds : Below(d) = {} BY <1>1 DEF Below
  <1>3. Vendored = {} /\ Replaced(Places) = {} BY DEF Vendored, Replaced
  <1>4. Reads = GoMod \cup UNION {Beside(d) \cup Below(d) : d \in Needed \cap Home}
    BY <1>3 DEF Reads
  <1>5. UNION {Beside(d) \cup Below(d) : d \in Needed \cap Home}
          \subseteq UNION {Beside(d) : d \in ds}
    BY <1>2
  <1> QED BY <1>4, <1>5 DEF ClosureFiles

-----------------------------------------------------------------------------
(* The invariant.                                                          *)

\* What the user's edits cannot touch.
LEMMA FixedByGivens ==
  ASSUME UNCHANGED givens
  PROVE  /\ layout' = layout /\ scope' = scope
         /\ \A p : Imports(p)' = Imports(p)
         /\ Needed' = Needed
         /\ Reads' = Reads
  <1>1. layout' = layout /\ scope' = scope BY DEF givens
  <1>2. \A p : Imports(p)' = Imports(p) BY <1>1 DEF Imports
  <1>3. Needed' = Needed BY <1>1 DEF Needed, Closed
  <1>4. Reads' = Reads
    BY <1>1, <1>3 DEF Reads, CopiedModule, ModuleFiles, GoMod, Vendored,
                      Replaced, Beside, Below
  <1> QED BY <1>1, <1>2, <1>3, <1>4

\* A step that leaves the phase, the walk, the closure and the workspace alone.
LEMMA Undisturbed ==
  ASSUME Inv, UNCHANGED <<givens, phase, walkVars, closure, root>>
  PROVE  Inv'
  <1>1. UNCHANGED <<layout, scope, phase, todo, seen, dirs, safe, closure, root>>
    BY DEF givens, walkVars
  <1> USE FixedByGivens
  <1>2. WalkInv' BY <1>1 DEF Inv, WalkInv
  <1>3. ClosureOK' BY <1>1 DEF Inv, ClosureOK
  <1>4. WorkspaceComplete' BY <1>1 DEF Inv, WorkspaceComplete, HasWorkspace
  <1> QED BY <1>1, <1>2, <1>3, <1>4 DEF Inv

\* A step after the walk that ends without a workspace, or keeps the one it has.
LEMMA AfterWalk ==
  ASSUME Inv, UNCHANGED <<givens, closure>>,
         phase' \notin {"plan", "walking"},
         HasWorkspace' => HasWorkspace /\ root' = root
  PROVE  Inv'
  <1>1. layout' = layout /\ scope' = scope /\ closure' = closure BY DEF givens
  <1> USE FixedByGivens
  <1>2. WalkInv' BY DEF WalkInv
  <1>3. ClosureOK' BY <1>1 DEF Inv, ClosureOK
  <1>4. WorkspaceComplete' BY DEF Inv, WorkspaceComplete
  <1> QED BY <1>1, <1>2, <1>3, <1>4 DEF Inv

\* A step that builds a workspace with everything in it.
LEMMA WorkspaceBuilt ==
  ASSUME Inv, UNCHANGED <<givens, closure>>,
         phase' = "copied", Reads \subseteq DOMAIN root'
  PROVE  Inv'
  <1>1. layout' = layout /\ scope' = scope /\ closure' = closure BY DEF givens
  <1> USE FixedByGivens
  <1>2. WalkInv' BY DEF WalkInv
  <1>3. ClosureOK' BY <1>1 DEF Inv, ClosureOK
  <1>4. WorkspaceComplete' BY DEF WorkspaceComplete
  <1> QED BY <1>1, <1>2, <1>3, <1>4 DEF Inv

LEMMA InitInv == Init => Inv
  BY DEF Init, Inv, WalkInv, ClosureOK, WorkspaceComplete, HasWorkspace

\* The steps of the walk keep what is true of it.
LEMMA WalkStep ==
  ASSUME Inv, NEW p \in Pkg,
         VisitSeen(p) \/ VisitUnsafe(p) \/ VisitForeign(p) \/ VisitHome(p)
  PROVE  Inv'
  <1>1. /\ phase = "walking" /\ phase' = "walking" /\ safe /\ p \in todo
        /\ seen' = seen \cup {p}
        /\ UNCHANGED <<givens, closure, root>>
    BY DEF VisitSeen, VisitUnsafe, VisitForeign, VisitHome, Walking, planVars,
           copyVars
  <1>2. layout' = layout /\ scope' = scope /\ closure' = closure BY <1>1 DEF givens
  <1>3. UNCHANGED givens BY <1>1
  <1> USE FixedByGivens, <1>3
  <1>4. /\ ~layout.vendor /\ layout.replaces \subseteq {"nested"}
        /\ scope = "package" /\ dirs \subseteq Home
        /\ Target \in seen \cup todo
        /\ \A q \in seen \cap Home : Imports(q) \subseteq seen \cup todo
        /\ dirs = seen \cap Home
        /\ dirs \cap layout.embeds = {}
    BY <1>1 DEF Inv, WalkInv
  <1>5. layout \in Layouts BY DEF Inv
  <1>6. layout.embeds \subseteq Home BY <1>5, LayoutType
  <1>7. WalkInv'
    <2>1. CASE VisitSeen(p)
      <3>1. p \in seen /\ todo' = todo \ {p} /\ UNCHANGED <<dirs, safe>>
        BY <2>1 DEF VisitSeen
      <3>2. seen' = seen /\ seen' \cup todo' = seen \cup todo BY <3>1, <1>1
      <3> QED BY <3>1, <3>2, <1>1, <1>2, <1>4 DEF WalkInv
    <2>2. CASE VisitUnsafe(p)
      <3>1. ~safe' /\ dirs' = dirs \cup ({p} \ layout.broken)
            /\ p \in layout.broken \cup layout.embeds
        BY <2>2 DEF VisitUnsafe
      <3>2. dirs' \subseteq Home BY <3>1, <1>4, <1>6
      <3> QED BY <3>1, <3>2, <1>1, <1>2, <1>4 DEF WalkInv
    <2>3. CASE VisitForeign(p)
      <3>1. p \in Foreign /\ todo' = todo \ {p} /\ UNCHANGED <<dirs, safe>>
        BY <2>3 DEF VisitForeign
      <3>2. seen' \cap Home = seen \cap Home
            /\ seen' \cup todo' = seen \cup todo
        BY <3>1, <1>1, WorkspaceAssumption
      <3> QED BY <3>1, <3>2, <1>1, <1>2, <1>4 DEF WalkInv
    <2>4. CASE VisitHome(p)
      <3>1. /\ p \in Home /\ p \notin layout.embeds
            /\ dirs' = dirs \cup {p}
            /\ todo' = (todo \cup Imports(p)) \ {p}
            /\ safe' = safe
        BY <2>4 DEF VisitHome
      <3>2. seen' \cup todo' = seen \cup todo \cup Imports(p) BY <3>1, <1>1
      <3>3. \A q \in seen' \cap Home : Imports(q) \subseteq seen' \cup todo'
        BY <3>2, <1>1, <1>4
      <3>4. Target \in seen' \cup todo' BY <3>2, <1>4
      <3>5. dirs' = seen' \cap Home /\ dirs' \cap layout.embeds = {}
        BY <3>1, <1>1, <1>4
      <3> QED BY <3>1, <3>3, <3>4, <3>5, <1>1, <1>2, <1>4 DEF WalkInv
    <2> QED BY <2>1, <2>2, <2>3, <2>4
  <1>8. ClosureOK' BY <1>1, <1>2 DEF Inv, ClosureOK
  <1>9. WorkspaceComplete' BY <1>1 DEF WorkspaceComplete, HasWorkspace
  <1> QED BY <1>1, <1>2, <1>7, <1>8, <1>9 DEF Inv

\* A walk that ends undisturbed has found all that Target needs.
LEMMA WalkEndsInv == ASSUME Benign, Inv, WalkEnds PROVE Inv'
  <1>1. /\ phase = "walking" /\ phase' = "resolved"
        /\ todo = {} \/ ~safe
        /\ closure' = IF safe /\ layout.replaces \cap {"nested"} \subseteq dirs
                        THEN <<dirs>> ELSE <<>>
        /\ UNCHANGED givens
    BY DEF WalkEnds
  <1>2. layout' = layout /\ scope' = scope BY <1>1 DEF givens
  <1>3. layout \in Layouts BY DEF Inv
  <1> USE FixedByGivens
  <1>4. ClosureOK'
    <2> SUFFICES ASSUME closure' # <<>>
                 PROVE  /\ ~layout.vendor /\ layout.replaces = {}
                        /\ scope = "package"
                        /\ dirs \subseteq Home /\ closure' = <<dirs>>
                        /\ Needed \cap Home \subseteq dirs
                        /\ dirs \cap layout.embeds = {}
      BY <1>1, <1>2 DEF ClosureOK
    <2>1. /\ safe /\ todo = {} /\ closure' = <<dirs>>
          /\ layout.replaces \cap {"nested"} \subseteq dirs
      BY <1>1
    <2>2. /\ ~layout.vendor /\ layout.replaces \subseteq {"nested"}
          /\ scope = "package"
          /\ Target \in seen
          /\ \A q \in seen \cap Home : Imports(q) \subseteq seen
          /\ dirs = seen \cap Home
          /\ dirs \cap layout.embeds = {}
      BY <1>1, <2>1 DEF Inv, WalkInv
    <2>3. "nested" \notin Home BY WorkspaceAssumption DEF Places
    <2>4. layout.replaces = {} BY <2>1, <2>2, <2>3
    <2>5. Needed \cap Home \subseteq dirs
      BY <1>3, <2>1, <2>2, WalkIsComplete
    <2> QED BY <2>1, <2>2, <2>4, <2>5
  <1>5. WalkInv' BY <1>1 DEF WalkInv
  <1>6. WorkspaceComplete' BY <1>1 DEF WorkspaceComplete, HasWorkspace
  <1> QED BY <1>1, <1>2, <1>3, <1>4, <1>5, <1>6 DEF Inv

LEMMA NextInv == ASSUME Benign, Inv, [Next]_vars PROVE Inv'
  <1>1. layout \in Layouts BY DEF Inv
  <1>2. CASE Edit \/ Commit \/ Cancel \/ UNCHANGED vars
    BY <1>2, Undisturbed
    DEF Edit, Commit, Cancel, vars, walkVars, planVars, copyVars
  <1>3. CASE Decline
    BY <1>3, AfterWalk DEF Decline, HasWorkspace, Inv
  <1>4. CASE StartWalk
    <2>1. /\ phase = "plan" /\ phase' = "walking"
          /\ scope = "package" /\ ~layout.vendor
          /\ layout.replaces \subseteq {"nested"}
          /\ todo' = {Target}
          /\ UNCHANGED <<givens, seen, dirs, safe, closure, root>>
      BY <1>4 DEF StartWalk, planVars, copyVars
    <2>2. seen = {} /\ dirs = {} /\ closure = <<>> BY <2>1 DEF Inv
    <2>3. layout' = layout /\ scope' = scope BY <2>1 DEF givens
    <2>4. WalkInv' BY <2>1, <2>2, <2>3 DEF WalkInv
    <2>5. ClosureOK' BY <2>1, <2>2 DEF ClosureOK
    <2>6. WorkspaceComplete' BY <2>1 DEF WorkspaceComplete, HasWorkspace
    <2> QED BY <1>1, <2>1, <2>2, <2>3, <2>4, <2>5, <2>6 DEF Inv
  <1>5. CASE \E p \in Pkg : VisitSeen(p) \/ VisitUnsafe(p) \/ VisitForeign(p) \/ VisitHome(p)
    BY <1>5, WalkStep
  <1>6. CASE WalkEnds BY <1>6, WalkEndsInv
  <1>7. CASE Fingerprint
    BY <1>7, AfterWalk DEF Fingerprint, HasWorkspace
  <1>8. CASE CopyClosure
    <2>1. /\ closure # <<>> /\ phase' = "copied"
          /\ root' = Select(disk, ClosureFiles(closure[1]))
          /\ UNCHANGED <<givens, closure>>
      BY <1>8 DEF CopyClosure, planVars
    <2>2. /\ ~layout.vendor /\ layout.replaces = {} /\ scope = "package"
          /\ \E ds \in SUBSET Home :
                /\ closure = <<ds>>
                /\ Needed \cap Home \subseteq ds
                /\ ds \cap layout.embeds = {}
      BY <2>1 DEF Inv, ClosureOK
    <2>3. PICK ds \in SUBSET Home : /\ closure = <<ds>>
                                    /\ Needed \cap Home \subseteq ds
                                    /\ ds \cap layout.embeds = {}
      BY <2>2
    <2>4. Reads \subseteq ClosureFiles(ds) BY <1>1, <2>2, <2>3, ClosureHasReads
    <2>5. DOMAIN root' = ClosureFiles(ds) BY <2>1, <2>3 DEF Select
    <2> QED BY <2>1, <2>4, <2>5, WorkspaceBuilt
  <1>9. CASE CheckClean
    BY <1>9, AfterWalk DEF CheckClean, HasWorkspace, planVars
  <1>10. CASE AddWorktree
    <2>1. DOMAIN root' = Tracked BY <1>10 DEF AddWorktree, Select
    <2> QED BY <1>1, <1>10, <2>1, CheckoutHasReads, WorkspaceBuilt
            DEF AddWorktree, planVars
  <1>11. CASE AddFails
    BY <1>11, AfterWalk DEF AddFails, HasWorkspace, planVars
  <1>12. CASE CopyModule
    <2>1. DOMAIN root' = CopiedModule BY <1>12 DEF CopyModule, Select
    <2> QED BY <1>1, <1>12, <2>1, ModuleHasReads, WorkspaceBuilt
            DEF CopyModule, planVars
  <1>13. CASE WriteMutant
    BY <1>13, AfterWalk DEF WriteMutant, HasWorkspace, planVars, copyVars
  <1>14. CASE Test
    BY <1>14, AfterWalk DEF Test, HasWorkspace, planVars
  <1>15. CASE Cleanup
    BY <1>15, AfterWalk DEF Cleanup, HasWorkspace, planVars
  <1> QED BY <1>2, <1>3, <1>4, <1>5, <1>6, <1>7, <1>8, <1>9, <1>10, <1>11,
             <1>12, <1>13, <1>14, <1>15 DEF Next

-----------------------------------------------------------------------------
\* Whatever the import graph, the scope, the strategy and the user do, no mutant
\* of a benign layout is tested in a workspace without a file that its tests read:
\* closureWalk finds every directory of the module that a package's tests need,
\* in whatever order it goes, or gives up and has the module copied.
THEOREM TestedInFull == ASSUME Benign PROVE Spec => []WorkspaceComplete
  <1>1. Init => Inv BY InitInv
  <1>2. Inv /\ [Next]_vars => Inv' BY NextInv
  <1>3. Inv => WorkspaceComplete BY DEF Inv
  <1> QED BY <1>1, <1>2, <1>3, PTL DEF Spec

-----------------------------------------------------------------------------
(* What a verdict is keyed by.                                             *)

\* From planning's last step on the fingerprint covers FingerprintFiles, and so
\* does the part of a workspace that lies in the module.
KeyInv ==
    /\ phase \notin {"plan", "walking", "resolved"} => printed = FingerprintFiles
    /\ phase \in {"checked", "fallback"} => closure = <<>>
    /\ HasWorkspace => DOMAIN root \cap ModuleFiles = FingerprintFiles

\* The files of a closure's directories are files of the module.
LEMMA ClosureInModule ==
  ASSUME NEW ds \in SUBSET Home PROVE ClosureFiles(ds) \subseteq ModuleFiles
  BY DEF ClosureFiles, ModuleFiles

\* A checkout has all of the module's files when git knows every one of them.
LEMMA CheckoutHasModule ==
  ASSUME Benign, layout \in Layouts PROVE Tracked \cap ModuleFiles = ModuleFiles
  <1>1. ~layout.generated BY DEF Benign
  <1>2. <<"generated", Target>> \notin ModuleFiles
    <2>1. \A d \in Home : <<"generated", Target>> \notin Beside(d) \cup Below(d)
      BY <1>1 DEF Beside, Below
    <2>2. <<"generated", Target>> \notin GoMod \cup Vendored BY DEF GoMod, Vendored
    <2>3. <<"generated", Target>> \notin Replaced({"nested"}) BY DEF Replaced
    <2> QED BY <2>1, <2>2, <2>3 DEF ModuleFiles
  <1> QED BY <1>2 DEF Tracked

LEMMA NextKeyInv == ASSUME Benign, Inv, KeyInv, [Next]_vars PROVE KeyInv'
  <1>1. layout \in Layouts /\ ClosureOK BY DEF Inv
  <1>2. ASSUME UNCHANGED <<givens, closure>>
        PROVE  FingerprintFiles' = FingerprintFiles /\ ModuleFiles' = ModuleFiles
    <2>1. layout' = layout /\ closure' = closure BY <1>2 DEF givens
    <2> QED BY <2>1 DEF FingerprintFiles, ModuleFiles, ClosureFiles, GoMod,
                        Vendored, Replaced, Beside, Below
  <1>3. ASSUME UNCHANGED <<givens, closure, printed>>,
               phase' \in {"plan", "walking", "resolved"}
                 \/ phase \notin {"plan", "walking", "resolved"},
               phase' \in {"checked", "fallback"} =>
                 phase \in {"checked", "fallback"} \/ closure = <<>>,
               HasWorkspace' =>
                 \/ HasWorkspace /\ root' = root
                 \/ DOMAIN root' \cap ModuleFiles = FingerprintFiles
        PROVE  KeyInv'
    <2>1. printed' = printed /\ closure' = closure BY <1>3
    <2> QED BY <1>2, <1>3, <2>1 DEF KeyInv
  <1>4. CASE Edit \/ Commit \/ Cancel \/ UNCHANGED vars
    BY <1>3, <1>4
    DEF Edit, Commit, Cancel, vars, planVars, copyVars, HasWorkspace
  <1>5. CASE Decline BY <1>5 DEF Decline, KeyInv, HasWorkspace
  <1>6. CASE StartWalk BY <1>6 DEF StartWalk, KeyInv, HasWorkspace
  <1>7. CASE \E p \in Pkg : VisitSeen(p) \/ VisitUnsafe(p) \/ VisitForeign(p) \/ VisitHome(p)
    BY <1>7 DEF VisitSeen, VisitUnsafe, VisitForeign, VisitHome, Walking,
                KeyInv, HasWorkspace
  <1>8. CASE WalkEnds BY <1>8 DEF WalkEnds, KeyInv, HasWorkspace
  <1>9. CASE Fingerprint
    <2>1. printed' = FingerprintFiles /\ phase' = "planned"
          /\ UNCHANGED <<givens, closure>>
      BY <1>9 DEF Fingerprint
    <2> QED BY <1>2, <2>1 DEF KeyInv, HasWorkspace
  <1>10. CASE CopyClosure
    <2>1. PICK ds \in SUBSET Home : closure = <<ds>>
      BY <1>1, <1>10 DEF CopyClosure, ClosureOK
    <2>2. DOMAIN root' = ClosureFiles(ds)
      BY <1>10, <2>1 DEF CopyClosure, Select
    <2>3. FingerprintFiles = ClosureFiles(ds) BY <2>1 DEF FingerprintFiles
    <2> QED BY <1>3, <1>10, <2>2, <2>3, ClosureInModule DEF CopyClosure, planVars
  <1>11. CASE CheckClean
    BY <1>3, <1>11 DEF CheckClean, HasWorkspace, planVars
  <1>12. CASE AddWorktree
    <2>1. DOMAIN root' = Tracked BY <1>12 DEF AddWorktree, Select
    <2>2. FingerprintFiles = ModuleFiles
      BY <1>12 DEF AddWorktree, KeyInv, FingerprintFiles
    <2> QED BY <1>1, <1>3, <1>12, <2>1, <2>2, CheckoutHasModule
            DEF AddWorktree, planVars
  <1>13. CASE AddFails
    BY <1>3, <1>13 DEF AddFails, HasWorkspace, planVars
  <1>14. CASE CopyModule
    <2>1. DOMAIN root' = CopiedModule BY <1>14 DEF CopyModule, Select
    <2>2. FingerprintFiles = ModuleFiles
      BY <1>14 DEF CopyModule, KeyInv, FingerprintFiles
    <2>3. CopiedModule \cap ModuleFiles = ModuleFiles BY DEF CopiedModule
    <2> QED BY <1>3, <1>14, <2>1, <2>2, <2>3 DEF CopyModule, planVars
  <1>15. CASE WriteMutant
    BY <1>3, <1>15 DEF WriteMutant, HasWorkspace, planVars, copyVars
  <1>16. CASE Test
    BY <1>3, <1>16 DEF Test, HasWorkspace, planVars
  <1>17. CASE Cleanup
    BY <1>3, <1>17 DEF Cleanup, HasWorkspace, planVars
  <1> QED BY <1>4, <1>5, <1>6, <1>7, <1>8, <1>9, <1>10, <1>11, <1>12, <1>13,
             <1>14, <1>15, <1>16, <1>17 DEF Next

\* A verdict of a benign layout is cached under exactly the files of the module
\* that its mutant was tested with, whichever workspace it was given.
THEOREM KeyedByWorkspace == ASSUME Benign PROVE Spec => []KeyIsWorkspace
  <1>1. Init => Inv /\ KeyInv
    BY InitInv DEF Init, KeyInv, HasWorkspace
  <1>2. Inv /\ KeyInv /\ [Next]_vars => (Inv /\ KeyInv)'
    BY NextInv, NextKeyInv
  <1>3. KeyInv => KeyIsWorkspace
    BY DEF KeyInv, KeyIsWorkspace, HasWorkspace
  <1> QED BY <1>1, <1>2, <1>3, PTL DEF Spec

\* Whatever the layout, a worktree exists only while its mutant is being tested.
WorktreeInv == worktree = "made" => phase \in {"copied", "written", "leaving"}

\* A worktree that was made is removed when its mutant is over, whenever the
\* user cancels: the cleanup that copyWorktree returns asks no context.
THEOREM NoWorktreeLeft == Spec => []WorktreeRemoved
  <1>1. Init => WorktreeInv BY DEF Init, WorktreeInv
  <1>2. ASSUME WorktreeInv, [Next]_vars PROVE WorktreeInv'
    BY <1>2 DEF WorktreeInv, Next, vars, copyVars, Edit, Commit, Cancel, Decline,
       StartWalk, VisitSeen, VisitUnsafe, VisitForeign, VisitHome, Walking,
       WalkEnds, Fingerprint, CopyClosure, CheckClean, AddWorktree, AddFails,
       CopyModule, WriteMutant, Test, Cleanup
  <1>3. WorktreeInv => WorktreeRemoved BY DEF WorktreeInv, WorktreeRemoved
  <1> QED BY <1>1, <1>2, <1>3, PTL DEF Spec

-----------------------------------------------------------------------------
(* What a workspace holds.                                                 *)

\* The user leaves the files alone between git's status and its checkout; nothing
\* in the code could see to that.
NoEditWhileChecked == "checked" \notin EditPhases

\* What git found clean is clean when it is checked out.
CleanInv == phase = "checked" => Clean

LEMMA CleanStep == ASSUME NoEditWhileChecked, CleanInv, [Next]_vars PROVE CleanInv'
  <1> USE DEF CleanInv
  <1>1. CASE Edit \/ Commit
    <2>1. phase # "checked" /\ phase' = phase
      BY <1>1 DEF Edit, Commit, NoEditWhileChecked
    <2> QED BY <2>1
  <1>2. CASE CheckClean
    <2>1. UNCHANGED <<layout, disk, head>> /\ (phase' = "checked" => Clean)
      BY <1>2 DEF CheckClean, givens, userVars
    <2>2. Tracked' = Tracked
      BY <2>1 DEF Tracked, ModuleFiles, GoMod, Vendored, Replaced, Beside, Below
    <2> QED BY <2>1, <2>2 DEF Clean
  <1>3. CASE Cancel \/ UNCHANGED vars
    <2>1. UNCHANGED <<layout, disk, head, phase>>
      BY <1>3 DEF Cancel, vars, givens, userVars
    <2>2. Tracked' = Tracked
      BY <2>1 DEF Tracked, ModuleFiles, GoMod, Vendored, Replaced, Beside, Below
    <2> QED BY <2>1, <2>2 DEF Clean
  <1>4. CASE Decline \/ StartWalk \/ WalkEnds \/ Fingerprint
    BY <1>4 DEF Decline, StartWalk, WalkEnds, Fingerprint
  <1>5. CASE \E p \in Pkg : VisitSeen(p) \/ VisitUnsafe(p) \/ VisitForeign(p) \/ VisitHome(p)
    BY <1>5 DEF VisitSeen, VisitUnsafe, VisitForeign, VisitHome, Walking
  <1>6. CASE CopyClosure \/ AddWorktree \/ AddFails \/ CopyModule \/ WriteMutant \/ Test \/ Cleanup
    BY <1>6 DEF CopyClosure, AddWorktree, AddFails, CopyModule, WriteMutant, Test, Cleanup
  <1> QED BY <1>1, <1>2, <1>3, <1>4, <1>5, <1>6 DEF Next

\* Building is the only step that fills a workspace, and it fills it from the disk
\* or from a commit that equals it.
LEMMA BuiltFromDisk ==
  ASSUME CleanInv, [Next]_vars, root' # root, root' # Empty
  PROVE  \A f \in DOMAIN root' : root'[f] = disk[f]
  <1>1. CopyClosure \/ AddWorktree \/ CopyModule
    BY DEF Next, vars, copyVars, Edit, Commit, Cancel, Decline, StartWalk, VisitSeen,
       VisitUnsafe, VisitForeign, VisitHome, Walking, WalkEnds, Fingerprint, CheckClean,
       AddFails, WriteMutant, Test, Cleanup
  <1>2. CASE CopyClosure BY <1>2 DEF CopyClosure, Select
  <1>3. CASE CopyModule BY <1>3 DEF CopyModule, Select
  <1>4. CASE AddWorktree
    BY <1>4 DEF AddWorktree, Select, CleanInv, Clean
  <1> QED BY <1>1, <1>2, <1>3, <1>4

\* workspaceFor, gitWorktreeClean: whichever way it is built, a workspace holds what
\* is on disk at that moment, and a worktree is only made where that is a commit.
THEOREM BuiltOfWhatIsThere == ASSUME NoEditWhileChecked PROVE Spec => WorkspaceIsDisk
  <1>1. Init => CleanInv BY DEF Init, CleanInv
  <1>2. CleanInv /\ [Next]_vars => CleanInv' BY CleanStep
  <1>3. CleanInv /\ [Next]_vars
          => [root' \notin {root, Empty} => \A f \in DOMAIN root' : root'[f] = disk[f]]_vars
    BY BuiltFromDisk
  <1> QED BY <1>1, <1>2, <1>3, PTL DEF Spec, WorkspaceIsDisk

-----------------------------------------------------------------------------
(* Types.                                                                  *)

\* A closure is recorded when the walk is over, and its directories stay.
TypeInv == layout \in Layouts /\ TypeOK /\ (phase \in {"plan", "walking"} => closure = <<>>)

\* All that is copied is in the module or beside it, whatever the strategy.
LEMMA FilesType ==
  ASSUME layout \in Layouts
  PROVE  /\ CopiedModule \subseteq File /\ ModuleFiles \subseteq CopiedModule
         /\ Tracked \subseteq CopiedModule
         /\ \A ds \in SUBSET Home : ClosureFiles(ds) \subseteq ModuleFiles
  <1> USE WorkspaceAssumption, LayoutType
  <1>1. \A d \in Home : Beside(d) \cup Below(d) \subseteq File
    BY DEF Beside, Below, File
  <1>2. GoMod \cup Vendored \subseteq File BY DEF GoMod, Vendored, File, Places
  <1>3. \A ps \in SUBSET Places : Replaced(ps) \subseteq File
    BY DEF Replaced, File
  <1>4. ModuleFiles \subseteq File
    BY <1>1, <1>2, <1>3 DEF ModuleFiles, Places
  <1>5. CopiedModule \subseteq File
    BY <1>3, <1>4 DEF CopiedModule, Places
  <1>6. Tracked \subseteq CopiedModule
    BY DEF Tracked, CopiedModule, Replaced
  <1> QED BY <1>5, <1>6, ClosureInModule DEF CopiedModule

LEMMA TypeInit == Init => TypeInv
  <1> SUFFICES ASSUME Init PROVE TypeInv OBVIOUS
  <1>1. layout \in Layout BY WorkspaceAssumption DEF Init
  <1>2. disk \in [CopiedModule -> Nat] /\ head \in [CopiedModule -> Nat] BY DEF Init
  <1>3. DOMAIN root = {} BY DEF Init, Empty
  <1> QED BY <1>1, <1>2, <1>3 DEF Init, TypeInv, TypeOK, Phase

\* The content of a workspace is a version of each file in it.
LEMMA SelectType ==
  ASSUME NEW content \in [CopiedModule -> Nat], NEW fs \in SUBSET CopiedModule
  PROVE  /\ DOMAIN Select(content, fs) = fs
         /\ \A f \in fs : Select(content, fs)[f] \in Nat
  BY DEF Select

\* What a step does to the workspace.
LEMMA RootType ==
  ASSUME TypeInv, [Next]_vars
  PROVE  DOMAIN root' \subseteq File /\ \A f \in DOMAIN root' : root'[f] \in Nat
  <1> USE FilesType, SelectType DEF TypeInv, TypeOK
  <1>1. CASE CopyClosure
    <2>1. closure[1] \in SUBSET Home BY <1>1 DEF CopyClosure
    <2>2. ClosureFiles(closure[1]) \in SUBSET CopiedModule BY <2>1
    <2>3. root' = Select(disk, ClosureFiles(closure[1])) BY <1>1 DEF CopyClosure
    <2> QED BY <2>2, <2>3
  <1>2. CASE AddWorktree
    <2>1. root' = Select(head, Tracked) BY <1>2 DEF AddWorktree
    <2> QED BY <2>1
  <1>3. CASE CopyModule
    <2>1. root' = Select(disk, CopiedModule) BY <1>3 DEF CopyModule
    <2> QED BY <2>1
  <1>4. CASE Cleanup
    <2>1. DOMAIN root' = {} BY <1>4 DEF Cleanup, Empty
    <2> QED BY <2>1
  <1>5. CASE UNCHANGED root BY <1>5
  <1> QED
    BY <1>1, <1>2, <1>3, <1>4, <1>5 DEF Next, vars, copyVars, Edit, Commit, Cancel,
       Decline, StartWalk, VisitSeen, VisitUnsafe, VisitForeign, VisitHome, Walking,
       WalkEnds, Fingerprint, CheckClean, AddFails, WriteMutant, Test

\* What a step does to the sources and to the plan.
LEMMA PlanType ==
  ASSUME TypeInv, [Next]_vars
  PROVE  /\ todo' \subseteq Pkg /\ seen' \subseteq Pkg /\ dirs' \subseteq Home
         /\ safe' \in BOOLEAN
         /\ closure' = <<>> \/ closure' = <<dirs'>>
         /\ printed' \subseteq File
         /\ phase' \in {"plan", "walking"} => closure' = <<>>
  <1> USE DEF TypeInv, TypeOK
  <1>1. CASE \E p \in Pkg : VisitSeen(p) \/ VisitUnsafe(p) \/ VisitForeign(p) \/ VisitHome(p)
    <2> PICK p \in Pkg : VisitSeen(p) \/ VisitUnsafe(p) \/ VisitForeign(p) \/ VisitHome(p)
      BY <1>1
    <2>1. closure' = <<>> /\ printed' = printed /\ seen' \subseteq Pkg
      BY DEF VisitSeen, VisitUnsafe, VisitForeign, VisitHome, Walking, planVars
    <2>2. todo' \subseteq Pkg
      BY ImportsType DEF VisitSeen, VisitUnsafe, VisitForeign, VisitHome
    <2>3. dirs' \subseteq Home /\ safe' \in BOOLEAN
      BY LayoutType DEF VisitSeen, VisitUnsafe, VisitForeign, VisitHome
    <2> QED BY <2>1, <2>2, <2>3
  <1>2. CASE StartWalk BY <1>2, WorkspaceAssumption DEF StartWalk, planVars, Pkg
  <1>3. CASE WalkEnds BY <1>3 DEF WalkEnds, walkVars
  <1>4. CASE Decline BY <1>4 DEF Decline, walkVars
  <1>5. CASE Fingerprint
    <2>1. FingerprintFiles \subseteq File BY FilesType DEF FingerprintFiles
    <2> QED BY <1>5, <2>1 DEF Fingerprint, walkVars
  <1>6. CASE UNCHANGED <<walkVars, planVars>> /\ (phase' = phase \/ phase' \notin {"plan", "walking"})
    BY <1>6 DEF walkVars, planVars
  <1> QED
    BY <1>1, <1>2, <1>3, <1>4, <1>5, <1>6 DEF Next, vars, Edit, Commit, Cancel,
       CopyClosure, CheckClean, AddWorktree, AddFails, CopyModule, WriteMutant, Test, Cleanup

LEMMA TypeStep == TypeInv /\ [Next]_vars => TypeInv'
  <1> SUFFICES ASSUME TypeInv, [Next]_vars PROVE TypeInv' OBVIOUS
  <1>1. UNCHANGED givens
    BY DEF Next, vars, givens, Edit, Commit, Cancel, Decline, StartWalk, VisitSeen,
       VisitUnsafe, VisitForeign, VisitHome, Walking, WalkEnds, Fingerprint, CopyClosure,
       CheckClean, AddWorktree, AddFails, CopyModule, WriteMutant, Test, Cleanup
  <1>2. CopiedModule' = CopiedModule
    BY <1>1 DEF givens, CopiedModule, ModuleFiles, GoMod, Vendored, Replaced, Beside, Below
  <1>3. canceled' \in BOOLEAN /\ edits' \in Nat
    <2>1. CASE Edit BY <2>1 DEF Edit, TypeInv, TypeOK
    <2>2. CASE Commit \/ Cancel BY <2>2 DEF Commit, Cancel, TypeInv, TypeOK
    <2>3. CASE UNCHANGED userVars BY <2>3 DEF userVars, TypeInv, TypeOK
    <2> QED
      BY <2>1, <2>2, <2>3 DEF Next, vars, Decline, StartWalk, VisitSeen, VisitUnsafe,
         VisitForeign, VisitHome, Walking, WalkEnds, Fingerprint, CopyClosure,
         CheckClean, AddWorktree, AddFails, CopyModule, WriteMutant, Test, Cleanup
  <1>4. phase' \in Phase
    BY DEF TypeInv, TypeOK, Phase, Next, vars, Edit, Commit, Cancel, Decline, StartWalk,
       VisitSeen, VisitUnsafe, VisitForeign, VisitHome, Walking, WalkEnds, Fingerprint,
       CopyClosure, CheckClean, AddWorktree, AddFails, CopyModule, WriteMutant, Test,
       Cleanup
  <1>5. worktree' \in {"none", "made", "torn"}
    BY DEF TypeInv, TypeOK, copyVars, Next, vars, Edit, Commit, Cancel, Decline,
       StartWalk, VisitSeen, VisitUnsafe, VisitForeign, VisitHome, Walking, WalkEnds,
       Fingerprint, CopyClosure, CheckClean, AddWorktree, AddFails, CopyModule,
       WriteMutant, Test, Cleanup
  <1>6. disk' \in [CopiedModule -> Nat] /\ head' \in [CopiedModule -> Nat]
    <2>1. CASE Edit
      <3>1. PICK f \in CopiedModule : disk' = [disk EXCEPT ![f] = @ + 1]
        BY <2>1 DEF Edit
      <3>2. head' = head BY <2>1 DEF Edit
      <3> QED BY <3>1, <3>2 DEF TypeInv, TypeOK
    <2>2. CASE ~Edit
      BY <2>2 DEF TypeInv, TypeOK, userVars, Next, vars, Commit, Cancel, Decline,
         StartWalk, VisitSeen, VisitUnsafe, VisitForeign, VisitHome, Walking, WalkEnds,
         Fingerprint, CopyClosure, CheckClean, AddWorktree, AddFails, CopyModule,
         WriteMutant, Test, Cleanup
    <2> QED BY <2>1, <2>2
  <1> QED BY <1>1, <1>2, <1>3, <1>4, <1>5, <1>6, RootType, PlanType DEF TypeInv, TypeOK, givens

\* Every variable keeps its type, in any layout.
THEOREM TypeCorrect == Spec => []TypeOK
  <1>1. TypeInv => TypeOK BY DEF TypeInv
  <1> QED BY <1>1, TypeInit, TypeStep, PTL DEF Spec
=============================================================================
