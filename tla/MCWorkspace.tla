----------------------------- MODULE MCWorkspace -----------------------------
(***************************************************************************)
(* Instances of Workspace for TLC: Target p, packages q and r of its       *)
(* module, package x of another.  Every acyclic import graph over them in  *)
(* which p may import q and x, q may import r and x, and p's tests r and x;*)
(* with each of them at most one thing that stands in a closure's way.     *)
(***************************************************************************)
EXTENDS Workspace

MCHome == {"p", "q", "r"}
MCForeign == {"x"}

Plain(imports, tests) ==
    [imports |-> imports, tests |-> tests, embeds |-> {}, broken |-> {},
     vendor |-> FALSE, replaces |-> {}, testdata |-> FALSE, generated |-> FALSE]

Graphs(back) ==
    {Plain([p |-> ip, q |-> iq, r |-> {}, x |-> ix], t) :
        ip \in SUBSET {"q", "x"}, iq \in SUBSET {"r", "x"},
        ix \in SUBSET back, t \in SUBSET {"r", "x"}}

Obstructed(l) ==
    {l, [l EXCEPT !.vendor = TRUE]}
    \cup {[l EXCEPT !.embeds = {d}] : d \in MCHome}
    \cup {[l EXCEPT !.broken = {d}] : d \in {"q", "x"}}
    \cup {[l EXCEPT !.replaces = {d}] : d \in {"nested", "sibling"}}

\* No package of another module leads back into this one, no test reads a
\* directory below its own, and git knows every file.
AnyLayout == UNION {Obstructed(l) : l \in Graphs({})}

\* Each of these three in turn.
RoundTrip == Graphs({"r"})
WithTestdata == {[l EXCEPT !.testdata = TRUE] : l \in Graphs({})}
WithGenerated == {[l EXCEPT !.generated = TRUE] : l \in Graphs({})}

\* Any time but between git's status and its checkout.
NotWhileChecked == Phase \ {"checked"}
=============================================================================
