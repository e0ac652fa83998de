--------------------------- MODULE MCCommandLine ---------------------------
(***************************************************************************)
(* Commands with every kind of argument, and machines with links to        *)
(* turango, with two copies of it, and without a toolchain.                *)
(***************************************************************************)
EXTENDS CommandLine

MCFile == {"link", "second", "real", "goroot", "built", "broken"}
MCRealPath == [f \in MCFile |-> CASE f = "link" -> "turango" [] f = "second" -> "turango 2"
                                  [] OTHER -> f]

Machine == [os |-> "unix", goroot |-> "none", path |-> <<"link", "real">>,
            fallback |-> "built", named |-> "go", alias |-> TRUE, known |-> TRUE]

MCWorld == {
    Machine,
    [Machine EXCEPT !.alias = FALSE],
    [Machine EXCEPT !.named = "turango", !.alias = FALSE, !.goroot = "goroot"],
    [Machine EXCEPT !.os = "windows", !.path = <<"empty", "broken", "real", "link">>],
    [Machine EXCEPT !.named = "turango", !.path = <<"link">>],
    [Machine EXCEPT !.path = <<"link", "broken">>, !.fallback = "none", !.goroot = "link"],
    [Machine EXCEPT !.path = <<"link", "second", "real">>],
    [Machine EXCEPT !.named = "turango", !.path = <<"empty", "real", "goroot">>],
    [Machine EXCEPT !.known = FALSE] }

Flag(n, v) == [is |-> "flag", name |-> n, value |-> v]
Other(k) == [is |-> k, name |-> "none", value |-> ""]
All == Flag("mutate", ".")
Package == Other("package")
Test(args) == [verb |-> "test", args |-> args]

MCCommand == {
    [verb |-> "build", args |-> <<All>>],
    Test(<<Other("other"), Package>>),
    Test(<<Package, Other("-args"), All>>),
    Test(<<Flag("mutatemin", "0.8")>>),
    Test(<<All, Package, Other("-args"), Other("other")>>),
    Test(<<All, Other("other")>>),
    Test(<<Other("misspelt"), Package>>),
    Test(<<[is |-> "bare", name |-> "mutate", value |-> ""]>>),
    Test(<<All, Flag("mutateparallel", "0")>>),
    Test(<<All, Flag("mutatemin", "0.8"), Flag("mutatemin", "0.5"),
           Flag("mutateoutput", "dir")>>),
    Test(<<Flag("mutatemin", "0.8"), All, Flag("mutate", "New")>>),
    Test(<<All, Flag("mutatemin", "nan"), Flag("mutatetce", "true")>>),
    Test(<<All, Flag("mutateoutput", "dir"), Flag("mutatescope", "impact")>>),
    Test(<<All, Flag("mutateoutput", ""), Flag("mutateestimate", "true")>>),
    Test(<<All, Flag("mutatecache", "dir"), Flag("mutateestimate", "true")>>),
    Test(<<All, Flag("mutateestimate", "true"), Flag("mutateestimate", "false"),
           Flag("mutatemin", "0.8")>>),
    Test(<<Flag("mutateestimate", "true"), Flag("mutatemutant", "a1"), All, Package>>),
    Test(<<All, Flag("mutatemutant", "name")>>) }

Ran(k, s, n) == [exists |-> TRUE, killed |-> k, survived |-> s, notViable |-> n]
MCOutcome ==
    [result : {Ran(3, 1, 0), Ran(1, 1, 1), Ran(0, 1, 0), Ran(0, 0, 2), Ran(4, 1, 0)},
     err : {"none", "failed", "canceled"}]
    \cup [result : {NoResult, Ran(0, 0, 0)}, err : {"failed", "canceled"}]

MCIntOf == [v \in {"0", "1", "4"} |-> CASE v = "0" -> 0 [] v = "1" -> 1 [] v = "4" -> 4]
MCFloatOf == [v \in {"0", "0.5", "0.8"} |-> CASE v = "0" -> 0 [] v = "0.5" -> 50 [] v = "0.8" -> 80]
MCBoolOf == [v \in {"true", "false"} |-> v = "true"]
=============================================================================
