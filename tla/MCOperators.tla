---------------------------- MODULE MCOperators ----------------------------
(***************************************************************************)
(* Five files for TLC: branches, switches, constants, literals and numbers.*)
(***************************************************************************)
EXTENDS OperatorWalk, TLC, SequencesExt

Tree(nodes) == <<Node("ident", "true", <<>>, <<>>), Node("ident", "false", <<>>, <<>>),
                 Node("empty", "", <<>>, <<>>)>> \o nodes
Ident(name) == Node("ident", name, <<>>, <<>>)
Op(kind, tok, kid) == Node(kind, tok, kid, <<>>)
Block(list) == Node("block", "", <<>>, list)
Lit(shape, size) == Node("lit", Literal(shape, size), <<>>, <<>>)

\* if !ok && a < b { f(!ok); x = -y } else if !(ok) { ; } else { x += 1 }
Branches == Tree(<<
    Block(<<5>>), Op("if", "", <<6, 12, 20>>), Op("binary", "&&", <<7, 9>>), Op("unary", "!", <<8>>),
    Ident("ok"), Op("binary", "<", <<10, 11>>), Ident("a"), Ident("b"),
    Block(<<13, 15>>), Op("expr", "", <<14>>), Op("call", "f", <<29>>),
    Node("assign", "=", <<16>>, <<17>>), Ident("x"), Op("unary", "-", <<18>>), Ident("y"),
    Node("empty", "", <<>>, <<>>), Op("if", "", <<21, 24, 25>>), Op("unary", "!", <<22>>),
    Op("paren", "", <<23>>), Ident("ok"), Block(<<19>>), Block(<<26>>),
    Node("assign", "+=", <<27>>, <<28>>), Ident("x"), Lit("int", 1000000),
    Op("unary", "!", <<30>>), Ident("ok")>>)

\* switch a { case 0: i++; case b: x := -a; f(); default: x = 3; x = 3 }
\* select { case y = <-ch: f() }; return true || ok
Switches == Tree(<<
    Block(<<5, 20, 28>>), Op("switch", "", <<6, 7>>), Ident("a"), Block(<<8, 12, 18>>),
    Node("case", "", <<9>>, <<10>>), Lit("int", 0), Op("incdec", "++", <<11>>), Ident("i"),
    Node("case", "", <<13>>, <<14, 16>>), Ident("b"), Node("assign", ":=", <<15>>, <<31>>), Ident("x"),
    Op("expr", "", <<17>>), Op("call", "f", <<>>), Node("case", "", <<>>, <<19, 37>>),
    Node("assign", "=", <<29>>, <<30>>), Op("select", "", <<21>>), Block(<<22>>),
    Node("comm", "", <<23>>, <<26>>), Node("assign", "=", <<24>>, <<25>>), Ident("y"),
    Op("unary", "<-", <<32>>), Op("expr", "", <<27>>), Op("call", "f", <<>>),
    Op("return", "", <<33>>), Ident("x"), Lit("int", 3000000), Op("unary", "-", <<34>>),
    Ident("ch"), Op("binary", "||", <<35, 36>>), Ident("a"), Ident("true"), Ident("ok"),
    Node("assign", "=", <<38>>, <<39>>), Ident("x"), Lit("int", 3000000)>>)

\* if n < max && true { lv = B }; if lv == A { }
Constants == Tree(<<
    Block(<<5, 12>>), Op("if", "", <<6, 11, None>>), Op("binary", "&&", <<7, 10>>),
    Op("binary", "<", <<8, 9>>), Ident("n"), Ident("max"), Ident("true"), Block(<<16>>),
    Op("if", "", <<13, 18, None>>), Op("binary", "==", <<14, 15>>), Ident("lv"), Ident("A"),
    Node("assign", "=", <<17>>, <<19>>), Ident("lv"), Block(<<>>), Ident("B")>>)

\* x = 0.0; y = 1234.567; z := 1.005 * 3; x &^= a % b; ok = !false || ok
Literals == Tree(<<
    Block(<<5, 8, 11, 16, 21>>), Node("assign", "=", <<6>>, <<7>>), Ident("x"), Lit("float", 0),
    Node("assign", "=", <<9>>, <<10>>), Ident("y"), Lit("float", 1234567000),
    Node("assign", ":=", <<12>>, <<13>>), Ident("z"), Op("binary", "*", <<14, 15>>),
    Lit("float", 1005000), Lit("int", 3000000),
    Node("assign", "&^=", <<17>>, <<18>>), Ident("x"), Op("binary", "%", <<19, 20>>),
    Ident("a"), Ident("b"), Node("assign", "=", <<22>>, <<23>>), Ident("ok"),
    Op("binary", "||", <<24, 26>>), Op("unary", "!", <<25>>), Ident("false"), Ident("ok")>>)

\* x = 1500000.0; y = 123456.0; z = 999001.0; z = 1000.0, in thousandths
Numbers == Tree(<<
    Block(<<5, 8, 11, 14>>), Node("assign", "=", <<6>>, <<7>>), Ident("x"), Lit("float", 1500000000),
    Node("assign", "=", <<9>>, <<10>>), Ident("y"), Lit("float", 123456000),
    Node("assign", "=", <<12>>, <<13>>), Ident("z"), Lit("float", 999001000),
    Node("assign", "=", <<15>>, <<16>>), Ident("z"), Lit("float", 1000000)>>)

\* Constants A, B, C and _ in one block, C of the underlying type; single ones here
\* and in another file; and local variables, one of them named like a constant.
Const(type, value, in, block) ==
    [is |-> "const", type |-> type, value |-> value, file |-> in, block |-> block]
Local(type) == [is |-> "local", type |-> type, value |-> 0, file |-> "a.go", block |-> ""]
MCObject ==
    [A |-> Const("Level", 0, "a.go", "block"), B |-> Const("Level", 1, "a.go", "block"),
     C |-> Const("int8", 2, "a.go", "block"),
     far |-> Const("untyped int", 4, "b.go", "single"), lo |-> Const("untyped int", -1, "a.go", "single"),
     max |-> Const("untyped int", 200, "a.go", "single"),
     n |-> Local("uint8"), lv |-> Local("Level"), localMax |-> Local("uint8")]
    @@ "_" :> Const("Level", 3, "a.go", "block")
MCByName == <<"A", "B", "C", "_", "far", "lo", "max">>
MCUnder == [Level |-> "int8", int8 |-> "int8", uint8 |-> "uint8"]
           @@ "untyped int" :> "untyped int"

Names == {"ok", "a", "b", "n", "max", "lv", "A", "B", "x", "y", "z", "i", "ch"}
Typing(h) ==
    LET type[n \in DOMAIN h] ==
            CASE h[n].kind = "lit" -> "ordered"
              [] h[n].kind = "paren" -> type[h[n].kid[1]]
              [] h[n].tok \in Truths \cup Compares \cup {"!", "true", "false", "ok"} -> "truth"
              [] h[n].kind \in {"ident", "call", "unary", "binary"} -> "ordered"
              [] OTHER -> "none"
    IN type

\* Some names have every value, and the others one.
Envs(type) ==
    {[name |-> [t \in {"true", "false", "ok"} |-> IF t = "ok" THEN ok ELSE t = "true"]
                   @@ ints @@ [t \in Names |-> 0],
      other |-> [n \in DOMAIN type |-> IF type[n] = "truth" THEN ok ELSE 2]] :
        ok \in BOOLEAN, ints \in [{"a", "b", "n", "max", "lv", "A"} -> {0, 1}]}

Plain(h) ==
    LET walk[n \in DOMAIN h] ==
            LET kids == Kids(h, n) IN <<n>> \o FlattenSeq([i \in DOMAIN kids |-> walk[kids[i]]])
        order == walk[4]
        Pos(n) == IF n <= Blank THEN Len(order) + 1 ELSE CHOOSE i \in DOMAIN order : order[i] = n
    IN [tree |-> h, root |-> 4, name |-> "a.go", uses |-> <<>>,
        one |-> 1000000, up |-> {},
        pos |-> [n \in DOMAIN h |-> Pos(n)],
        end |-> [n \in DOMAIN h \ {True, False, Blank} |-> Pos(n) + Len(walk[n]) - 1],
        type |-> Typing(h), envs |-> Envs(Typing(h))]
MCFile == {
    Plain(Branches), Plain(Switches), [Plain(Literals) EXCEPT !.up = {1006005}],
    [Plain(Numbers) EXCEPT !.one = 1000],
    [Plain(Constants) EXCEPT
        !.uses = 8 :> "n" @@ 9 :> "localMax" @@ 14 :> "lv" @@ 15 :> "A" @@ 17 :> "lv" @@ 19 :> "B"]}

MCSelections == {<<>>, <<"statement/remover", "operator/unary", "control/else">>,
                 <<"operator/unary", "operator/unary">>,
                 <<"identifier/localconstswap", "identifier/constswap">>}

=============================================================================
