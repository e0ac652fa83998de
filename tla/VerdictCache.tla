---------------------------- MODULE VerdictCache ----------------------------
(***************************************************************************)
(* The persistent verdict cache of internal/mutate/cache.go over several   *)
(* runs of turango: loading the JSON-Lines file with its truncation of a   *)
(* torn tail, opening it for append, fingerprinting the sources at plan    *)
(* time, looking verdicts up, testing what is missing in a copy of the     *)
(* sources, and appending each verdict -- while the user edits sources,    *)
(* deletes the cache, changes the configuration, or kills the process, and *)
(* while the disk may fill up in the middle of a write and the file may    *)
(* fail to be read, truncated or opened.                                   *)
(*                                                                         *)
(* The file is a sequence of lines; a line is the pieces written between   *)
(* two newlines, and only the last line may lack its newline.  A piece is  *)
(* a record, whole or cut off.  A line unmarshals when it is exactly one   *)
(* whole piece.  A mutant's id is a position in the sources and does not   *)
(* change with their content.  The tests are deterministic: Truth gives    *)
(* the verdict for a configuration, the sources tested and a mutant.       *)
(***************************************************************************)
EXTENDS Integers, Sequences, FiniteSets

CONSTANTS
    Mutant,         \* mutant ids
    Config,         \* values of (toolchain, scope, TCE)
    Version,        \* contents a source tree may have
    Truth(_, _, _), \* Truth(config, sources, mutant)
    MaxRuns,        \* bound: runs started
    MaxEdits,       \* bound: changes the user makes
    EditDuringRun,  \* the user may edit sources while a run is going on
    SiblingEdits,   \* ... and those of a module a local replace points to
    CacheInside,    \* the cache directory lies in the fingerprinted sources
    TearAtNewline   \* a write may be cut exactly before its final newline

ASSUME CacheAssumption ==
    /\ MaxRuns \in Nat
    /\ MaxEdits \in Nat
    /\ {EditDuringRun, SiblingEdits, CacheInside, TearAtNewline} \subseteq BOOLEAN

VARIABLES
    sources,   \* [own, sibling]: the module's tree and its replace target
    dir,       \* the directory -mutatecache names exists
    file,      \* the lines of mutate-cache.jsonl
    runs,      \* runs started so far
    edits,     \* changes the user made so far
    phase,     \* of the current run: idle, loaded, running, ended
    config,    \* its configuration
    loaded,    \* its loadCacheIndex returned no error (after it: the last run's)
    index,     \* its cacheIndex: a function from keys to verdicts
    attached,  \* its store is open on the file that has the name
    storeOpen, \* its store could be opened
    print,     \* the fingerprint its plan computed
    planned,   \* the sources that fingerprint was computed from
    testing,   \* mutants in flight: pairs <<mutant, sources copied>>
    slot,      \* the record its store's consumer has yet to write
    werr,      \* a write failed in this run
    reported,  \* its Result: a function from mutants to [verdict, hit]
    written    \* history: each line written in full, with the run's inputs

fileVars == <<dir, file>>
userVars == <<sources, runs, edits>>
runVars  == <<phase, config, loaded, index, attached, storeOpen, print, planned>>
workVars == <<testing, slot, werr, reported>>
vars == <<fileVars, userVars, runVars, workVars, written>>

-----------------------------------------------------------------------------
(* The file.                                                               *)

Parses(line) == Len(line.pieces) = 1 /\ line.pieces[1].whole

\* Appending to a file whose last line lacks its newline continues that line.
AppendPiece(f, piece, newline) ==
    IF f # <<>> /\ ~f[Len(f)].newline
      THEN [f EXCEPT ![Len(f)] = [pieces |-> Append(@.pieces, piece),
                                  newline |-> newline]]
      ELSE Append(f, [pieces |-> <<piece>>, newline |-> newline])

\* Mutant of ValidLines: the last line is never read.
ValidButLast(f) ==
    {i \in DOMAIN f : i < Len(f) /\ \A k \in 1 .. i : Parses(f[k])}

\* The lines before the first one that does not unmarshal.
ValidLines(f) ==
    {i \in DOMAIN f : \A k \in 1 .. i : Parses(f[k])}

\* Mutant of Truncated: a torn line is skipped, the file left as it is.
LeftAlone(f) == f

\* loadCacheIndex truncates to the end of the last record it accepted.
Truncated(f) == SubSeq(f, 1, Cardinality(ValidLines(f)))

\* Later records override earlier ones for the same key.
LoadIndex(f) ==
    LET valid == ValidLines(f)
        rec(i) == f[i].pieces[1]
        last(k) == CHOOSE i \in valid :
                      rec(i).key = k /\ \A n \in valid : rec(n).key = k => n <= i
    IN  [k \in {rec(i).key : i \in valid} |-> rec(last(k)).verdict]

-----------------------------------------------------------------------------
(* Keys.                                                                   *)

\* Mutant of Fingerprint: only the mutant's position identifies it.
NoFingerprint(s, f) == <<>>

\* cacheFingerprint: the whole module, which is to say its own tree, and the
\* cache file with it when that lies inside; not the replace targets.
Fingerprint(s, f) == <<s.own, IF CacheInside THEN f ELSE <<>> >>

\* Mutant of Key: the number of the run is part of it.
KeyOfThisRun(c, fp, m) == [config |-> c, print |-> <<runs, fp>>, mutant |-> m]

Key(c, fp, m) == [config |-> c, print |-> fp, mutant |-> m]

NoIndex == [k \in {} |-> "none"]
NoReport == [m \in {} |-> "none"]

Init ==
    /\ sources \in [own : Version, sibling : {CHOOSE v \in Version : TRUE}]
    /\ dir = TRUE
    /\ file = <<>>
    /\ runs = 0
    /\ edits = 0
    /\ phase = "idle"
    /\ config \in Config
    /\ loaded = TRUE
    /\ index = NoIndex
    /\ attached = FALSE
    /\ storeOpen = FALSE
    /\ print = <<>>
    /\ planned = sources
    /\ testing = {}
    /\ slot = <<>>
    /\ werr = FALSE
    /\ reported = NoReport
    /\ written = {}

-----------------------------------------------------------------------------
(* The user.                                                               *)

Edit ==
    /\ edits < MaxEdits
    /\ EditDuringRun \/ phase \in {"idle", "ended"}
    /\ edits' = edits + 1
    /\ \E v \in Version :
          \/ sources' = [sources EXCEPT !.own = v]
          \/ SiblingEdits /\ sources' = [sources EXCEPT !.sibling = v]
    /\ sources' # sources
    /\ UNCHANGED <<runs, fileVars, runVars, workVars, written>>

\* At any time: the file alone, or its directory too.  A store that is open
\* goes on writing to a file that no longer has a name.
DeleteCache ==
    /\ edits < MaxEdits
    /\ edits' = edits + 1
    /\ dir
    /\ dir' \in BOOLEAN
    /\ file' = <<>>
    /\ attached' = FALSE
    /\ written' = {}
    /\ UNCHANGED <<sources, runs, phase, config, loaded, index, storeOpen,
                   print, planned, workVars>>

-----------------------------------------------------------------------------
(* A run.                                                                  *)

\* loadCacheIndex: the index of what the file holds, its torn tail cut off; or,
\* when reading or truncating fails, no index and the file as it is.  A file
\* that is missing is no error.
LoadCacheIndex ==
    \/ /\ loaded' = TRUE
       /\ index' = LoadIndex(file)
       /\ file' = Truncated(file)
    \/ /\ dir
       /\ loaded' = FALSE
       /\ index' = NoIndex
       /\ UNCHANGED file

\* openCache: load the index; then, whether that worked or not, open the file
\* for append, which creates it but not its directory, and may fail.
OpenCache ==
    /\ phase = "idle"
    /\ runs < MaxRuns
    /\ runs' = runs + 1
    /\ config' \in Config
    /\ LoadCacheIndex
    /\ \E opens \in BOOLEAN :
          /\ opens => dir
          /\ attached' = opens
          /\ storeOpen' = opens
    /\ phase' = "loaded"
    /\ reported' = NoReport
    /\ werr' = FALSE
    /\ UNCHANGED <<sources, edits, dir, print, planned, testing, slot, written>>

\* planCacheFingerprint, for every mutant of the run at once.
Plan ==
    /\ phase = "loaded"
    /\ print' = Fingerprint(sources, file)
    /\ planned' = sources
    /\ phase' = "running"
    /\ UNCHANGED <<userVars, fileVars, config, loaded, index, attached,
                   storeOpen, workVars, written>>

Pending(m) ==
    /\ phase = "running"
    /\ m \notin DOMAIN reported
    /\ \A t \in testing : t[1] # m

Reports(m, verdict, hit) ==
    reported' = [n \in DOMAIN reported \cup {m} |->
                   IF n = m THEN [verdict |-> verdict, hit |-> hit]
                            ELSE reported[n]]

CacheLookup(m) ==
    /\ Pending(m)
    /\ Key(config, print, m) \in DOMAIN index
    /\ Reports(m, index[Key(config, print, m)], TRUE)
    /\ UNCHANGED <<userVars, fileVars, runVars, testing, slot, werr, written>>

\* workspaceFor copies the sources as they are now, replace targets included.
CopyWorkspace(m) ==
    /\ Pending(m)
    /\ Key(config, print, m) \notin DOMAIN index
    /\ testing' = testing \cup {<<m, sources>>}
    /\ UNCHANGED <<userVars, fileVars, runVars, slot, werr, reported, written>>

\* The verdict goes to the store, whose consumer must be ready to receive it,
\* then to the collector.
TestEnds(m) ==
    /\ slot = <<>>
    /\ \E t \in testing :
          /\ t[1] = m
          /\ testing' = testing \ {t}
          /\ Reports(m, Truth(config, t[2], m), FALSE)
          /\ slot' = IF storeOpen
                       THEN <<[key |-> Key(config, print, m),
                               verdict |-> Truth(config, t[2], m)]>>
                       ELSE <<>>
    /\ UNCHANGED <<userVars, fileVars, runVars, werr, written>>

Piece(whole) ==
    [key |-> slot[1].key, verdict |-> slot[1].verdict, whole |-> whole]

\* One Encode, one write: it reaches the file in full or, on a full disk, in
\* part; after a failed write the rest of this run's records are dropped.
WriteRecord ==
    /\ slot # <<>>
    /\ slot' = <<>>
    /\ \/ /\ ~werr /\ attached
          /\ file' = AppendPiece(file, Piece(TRUE), TRUE)
          /\ written' = written \cup {[key |-> slot[1].key, config |-> config,
                            sources |-> planned, verdict |-> slot[1].verdict,
                            loaded |-> loaded]}
          /\ UNCHANGED werr
       \/ werr' = TRUE /\ UNCHANGED <<file, written>>
       \/ ~attached /\ UNCHANGED <<file, written, werr>>
       \/ /\ ~werr /\ attached
          /\ werr' = TRUE
          /\ \E whole \in {FALSE, TearAtNewline} :
                file' = AppendPiece(file, Piece(whole), FALSE)
          /\ UNCHANGED written
    /\ UNCHANGED <<userVars, dir, runVars, testing, reported>>

\* Mutant of EndRun: the store is not waited for.
EndRunUndrained ==
    /\ phase = "running"
    /\ testing = {}
    /\ phase' = "ended"
    /\ UNCHANGED <<userVars, fileVars, config, loaded, index, attached,
                   storeOpen, print, planned, workVars, written>>

\* The run ends, complete or interrupted: workers first, then the store.
EndRun ==
    /\ phase = "running"
    /\ testing = {}
    /\ slot = <<>>
    /\ phase' = "ended"
    /\ UNCHANGED <<userVars, fileVars, config, loaded, index, attached,
                   storeOpen, print, planned, workVars, written>>

\* The process is gone.  A kill in the middle of a write cuts it like a full
\* disk does; what was only in memory is lost.
Exit ==
    /\ phase # "idle"
    /\ phase' = "idle"
    /\ testing' = {}
    /\ slot' = <<>>
    /\ reported' = NoReport
    /\ index' = NoIndex
    /\ attached' = FALSE
    /\ storeOpen' = FALSE
    /\ werr' = FALSE
    /\ \/ UNCHANGED file
       \/ /\ slot # <<>> /\ ~werr /\ attached
          /\ \E whole \in {FALSE, TearAtNewline} :
                file' = AppendPiece(file, Piece(whole), FALSE)
    /\ UNCHANGED <<userVars, dir, config, loaded, print, planned, written>>

Work == \E m \in Mutant : CacheLookup(m) \/ CopyWorkspace(m) \/ TestEnds(m)

\* The bound on runs is used up and the last process has exited.
OutOfRuns == phase = "idle" /\ runs = MaxRuns /\ UNCHANGED vars

Next ==
    \/ Edit
    \/ DeleteCache
    \/ OpenCache
    \/ Plan
    \/ Work
    \/ WriteRecord
    \/ EndRun
    \/ Exit
    \/ OutOfRuns

Spec == Init /\ [][Next]_vars

-----------------------------------------------------------------------------
(* Properties.                                                             *)

TypeOK ==
    /\ sources \in [own : Version, sibling : Version]
    /\ planned \in [own : Version, sibling : Version]
    /\ dir \in BOOLEAN
    /\ phase \in {"idle", "loaded", "running", "ended"}
    /\ config \in Config
    /\ {loaded, attached, storeOpen, werr} \subseteq BOOLEAN
    /\ \A t \in testing : t[1] \in Mutant
    /\ Len(slot) <= 1
    /\ DOMAIN reported \subseteq Mutant

\* The central risk cache.go names: a verdict served from the cache is the one
\* the tests would give for this configuration, the sources the run was planned
\* on and this mutant -- across edits, reverts, kills and reconfigurations.
HitIsTruth ==
    \A m \in DOMAIN reported :
        reported[m].hit => reported[m].verdict = Truth(config, planned, m)

\* What the comment of loadCacheIndex says of the file: "complete lines" with at
\* most one torn line, the last, and never "complete lines + garbage + more
\* complete lines".  A run that could not load the file, or not truncate it,
\* opens it for append all the same, and breaks this behind a torn line.
GarbageLast ==
    \A i \in DOMAIN file : i < Len(file) => Parses(file[i]) /\ file[i].newline

\* Unless the last run failed to load, nothing stands behind a torn line: every
\* load that works restores the rule of loadCacheIndex's comment, whatever kills,
\* full disks and failed loads came before it, and no step of such a run, killed
\* or not, breaks it again.
GarbageOnlyAtEnd == loaded => GarbageLast

\* A record whose line was written in full by a run that had loaded the file
\* answers in every later run that loads it, until the cache is deleted: what
\* kills, full disks and runs that failed to load left behind it costs nothing.
\* (What a run that failed to load appends behind a torn line is cut off with it.)
WrittenSurvives ==
    phase = "loaded" /\ loaded =>
        \A w \in written : w.loaded =>
            w.key \in DOMAIN index /\ index[w.key] = w.verdict

\* Resuming works: a mutant whose verdict was written in full is not tested
\* again by a run with the same configuration on the same sources, where both
\* runs could load the file.
NeverRerun ==
    [][\A m \in Mutant :
         loaded /\ (\E t \in testing' \ testing : t[1] = m) =>
             ~\E w \in written : /\ w.loaded
                                 /\ w.key.mutant = m
                                 /\ w.config = config
                                 /\ w.sources = planned]_vars

\* A run that could load the file and open its store, had no write error and
\* whose file nobody deleted under it leaves every verdict it tested for where a
\* load finds it: Run waits for the store's consumer before it returns.
EndedRunIsCached ==
    phase = "ended" /\ loaded /\ ~werr /\ attached =>
        \A m \in DOMAIN reported : ~reported[m].hit =>
            Key(config, print, m) \in DOMAIN LoadIndex(file)
=============================================================================
