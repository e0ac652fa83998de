----------------------------- MODULE MCFileWalk -----------------------------
(***************************************************************************)
(* A file for TLC, as gofmt would lay it out:                              *)
(*                                                                         *)
(*     1  package p                                                        *)
(*     2  func F(a, b, c int) bool {                                       *)
(*     3      return a + b +       (three expressions start at a, one of   *)
(*     4          c > lim          them is the comparison)                 *)
(*     5  }                                                                *)
(*     6  func G(ok bool) { use(ok || false) }                             *)
(*                                                                         *)
(* with directives on some of its lines; and one with a node that no       *)
(* block counts: an initialiser at package level, or a case's expression.  *)
(***************************************************************************)
EXTENDS FileWalk

N(kind, line, col, last, until, offers, block, by) ==
    [kind |-> kind, line |-> line, col |-> col, last |-> last, until |-> until,
     offers |-> offers, block |-> block, by |-> by]

MCOp == {"binary", "boundary", "constswap", "boolean"}
MCTyped == {"constswap"}
MCTest == {"TestF", "TestG"}
MCLine == 1..6

Functions(f, g) == <<
    N("inert", 1, 1, 6, 9, <<>>, 0, {}),
    N("func", 2, 1, 5, 7, <<>>, 0, {}),
    N("other", 3, 5, 4, 7, <<>>, 1, f),
    N("other", 3, 12, 4, 7, << <<"binary", 0>>, <<"boundary", 0>> >>, 1, f),
    N("other", 3, 12, 4, 6, << <<"binary", 0>> >>, 1, f),
    N("other", 3, 12, 3, 6, << <<"binary", 0>>, <<"constswap", 0>> >>, 1, f),
    N("other", 4, 13, 4, 7, << <<"constswap", 0>>, <<"constswap", 1>> >>, 1, f),
    N("func", 6, 1, 6, 9, <<>>, 0, {}),
    N("other", 6, 23, 6, 9, << <<"binary", 0>>, <<"boolean", 0>> >>, 2, g)>>

Blocks == << [first |-> 2, last |-> 4], [first |-> 6, last |-> 6] >>

Ran(f, g) == [t \in MCTest |-> {b \in 1..2 : t \in IF b = 1 THEN f ELSE g}]

FileWith(directives, f, g) ==
    [nodes |-> Functions(f, g), directives |-> directives, blocks |-> Blocks,
     ran |-> Ran(f, g)]

\* Directives on one line or two, and four more ways to be measured.
Counted ==
    {FileWith(d, {"TestF"}, {}) :
        d \in {{}, {1}, {2}, {3}, {4}, {5}, {6}, {2, 4}, {3, 6}, {3, 5}, {4, 6}}}
    \cup {FileWith({}, {}, {}), FileWith({}, MCTest, {}),
          FileWith({}, {"TestG"}, MCTest), FileWith({}, {"TestF"}, {"TestG"})}

\* Line 6 as   var G = F(1, 2, 3) || false   instead.
Uncounted ==
    {[FileWith({}, {"TestF"}, {}) EXCEPT
        !.nodes[8].kind = "other", !.nodes[9].block = 0, !.nodes[9].by = MCTest]}
=============================================================================
