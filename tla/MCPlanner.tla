----------------------------- MODULE MCPlanner -----------------------------
(***************************************************************************)
(* Two modules of a workspace, a package outside any module and one with   *)
(* tests alone; two operators, of which one needs types.                   *)
(***************************************************************************)
EXTENDS Planner

MCPackage == {"a", "b", "c", "s", "t"}
MCModuleOf == [p \in MCPackage |->
    CASE p \in {"a", "b", "t"} -> "m" [] p = "c" -> "n" [] p = "s" -> "none"]
MCFilesOf == [p \in MCPackage |->
    CASE p = "a" -> <<"a1", "a2">> [] p = "b" -> <<"b1">> [] p = "c" -> <<"c1", "ctest">>
      [] p = "s" -> <<"s1">> [] p = "t" -> <<>>]
MCFinds == [o \in {"swap", "const"} |->
    [f \in {"a1", "a2", "b1", "c1", "ctest", "s1"} |->
        IF f = "b1" THEN 0 ELSE IF o = "swap" /\ f = "a1" THEN 2 ELSE 1]]

Plain == [mode |-> "run", packages |-> <<"a", "b">>, operators |-> <<"swap">>,
          scope |-> "full", timeout |-> 0, tce |-> FALSE, cache |-> FALSE, parallel |-> 2]

MCRequest == {
    [Plain EXCEPT !.packages = <<"a", "b", "c">>, !.operators = <<>>, !.cache = TRUE],
    [Plain EXCEPT !.packages = <<"a", "b", "c">>, !.scope = "impact", !.tce = TRUE,
                  !.cache = TRUE, !.timeout = 5],
    [Plain EXCEPT !.packages = <<"s", "b", "t", "c">>, !.scope = "package", !.cache = TRUE],
    [Plain EXCEPT !.operators = <<"swap", "unknown">>],
    [Plain EXCEPT !.packages = <<>>],
    [Plain EXCEPT !.mode = "estimate", !.operators = <<>>],
    [Plain EXCEPT !.mode = "estimate", !.packages = <<"b", "c", "a">>, !.tce = TRUE,
                  !.scope = "package", !.operators = <<"swap", "swap">>, !.parallel = 0] }

\* A selection that is less than its module.
MCNarrow == {[Plain EXCEPT !.packages = <<"a">>], [Plain EXCEPT !.packages = <<"a">>,
                !.scope = "package"]}

MCBroken == {{}, {"b"}, {"c"}}

=============================================================================
