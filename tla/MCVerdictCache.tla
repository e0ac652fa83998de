--------------------------- MODULE MCVerdictCache ---------------------------
(***************************************************************************)
(* Instances of VerdictCache for TLC: two mutants, two versions of a tree. *)
(* A verdict is the very inputs it was reached from, so that serving one   *)
(* for other inputs is always seen.                                        *)
(***************************************************************************)
EXTENDS VerdictCache

MCTruth(c, s, m) == <<c, s, m>>
=============================================================================
