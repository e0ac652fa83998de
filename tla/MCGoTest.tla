------------------------------ MODULE MCGoTest ------------------------------
(***************************************************************************)
(* Lines of one and two units, and one that is too long.                   *)
(***************************************************************************)
EXTENDS GoTest

MCLineLength == [e \in EventKind |->
    CASE e = "chatter" -> 4 [] e \in {"test", "pkgFail"} -> 2 [] OTHER -> 1]
=============================================================================
