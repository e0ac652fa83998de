----------------------------- MODULE Operators -----------------------------
(***************************************************************************)
(* The mutation operators on the tree of one file, and the walk that       *)
(* applies and reverts what they offer.                                    *)
(*                                                                         *)
(* The tree is a heap: a node has a kind, a token (an operator, a name or  *)
(* what a literal reads as), and slots that hold nodes: kid for its        *)
(* expressions and single parts, list for the statements or values it      *)
(* owns.  Every operator edits one slot and knows what the slot held, so   *)
(* a mutation is a record of the slot, what it held and what it gets.      *)
(***************************************************************************)
EXTENDS Integers, Sequences, FiniteSets, Functions

CONSTANTS
    File,      \* parsed and type-checked files: [tree, root, name, uses, type,
               \* pos and end: the places in ast.Inspect's order of a node and of the
               \* last one below it, envs: values its names and its calls may have,
               \* one: the units its numbers count in that make 1, up: the ties between
               \* two numbers of six digits that have their float64 above them]
    Object,    \* what identifiers may stand for: name -> [is, type, value, file, block]
    ByName,    \* the names of the package's constants, sorted
    Under,     \* type -> its underlying basic type
    Selections \* the operators a run may ask for

\* mutator.All: in the order of the names.
All == <<"control/case", "control/else", "control/if", "expression/remove",
         "identifier/constswap", "identifier/localconstswap", "literal/boolean",
         "literal/number", "operator/assignment", "operator/binary",
         "operator/boundary", "operator/inc_dec", "operator/unary", "statement/remover">>
Typed == {"identifier/constswap", "identifier/localconstswap"}

\* Nodes that a mutation puts in a slot: two identifiers and an empty statement.
None == 0
True == 1
False == 2
Blank == 3

Node(kind, tok, kid, list) == [kind |-> kind, tok |-> tok, kid |-> kid, list |-> list]
Literal(shape, size) == [shape |-> shape, size |-> size]

-----------------------------------------------------------------------------
(* A parsed file.                                                            *)

\* Nodes of the file itself.
Parsed(f) == DOMAIN f.tree \ {True, False, Blank}

\* What becomes of each index of a set, in their order.
Nth(I, k) == CHOOSE i \in I : Cardinality({j \in I : j <= i}) = k
Each(I, Of(_)) == [k \in 1 .. Cardinality(I) |-> Of(Nth(I, k))]

\* ast.Inspect's order.
Kids(h, n) == Each({i \in DOMAIN h[n].kid : h[n].kid[i] # None}, LAMBDA i : h[n].kid[i])
                  \o h[n].list

Arity == [binary |-> 2, unary |-> 1, paren |-> 1, if |-> 3]

\* A parsed file, and operators that are registered.
ASSUME OperatorsAssumption ==
    /\ \A f \in File :
          /\ f.tree \in Seq({f.tree[n] : n \in DOMAIN f.tree}) /\ f.root \in Parsed(f)
          /\ \A n \in DOMAIN f.tree :
                LET node == f.tree[n] IN
                /\ node = Node(node.kind, node.tok, node.kid, node.list)
                /\ node.kid \in Seq(DOMAIN f.tree \cup {None})
                /\ node.list \in Seq(DOMAIN f.tree)
                /\ node.kind \in DOMAIN Arity =>
                      /\ Len(node.kid) = Arity[node.kind]
                      /\ node.kid[1] # None
                      /\ Len(node.kid) = 2 => node.kid[2] # None
          /\ \A n \in {True, False, Blank} :
                n \in DOMAIN f.tree /\ f.tree[n].kid = <<>> /\ f.tree[n].list = <<>>
          /\ f.tree[True].kind = "ident" /\ f.tree[True].tok = "true"
          /\ f.tree[False].kind = "ident" /\ f.tree[False].tok = "false"
          /\ f.tree[Blank].kind = "empty"
    /\ Selections \subseteq Seq(Range(All))
    /\ ByName \in Seq(DOMAIN Object)

\* The else of an if is a block or another if, an empty statement has no parts, and is
\* no part of an expression.
ASSUME PartsAssumption ==
    \A f \in File : \A n \in DOMAIN f.tree :
        LET node == f.tree[n] IN
        /\ node.kind = "if" =>
              /\ f.tree[node.kid[2]].kind = "block"
              /\ node.kid[3] # None => f.tree[node.kid[3]].kind \in {"block", "if"}
        /\ node.kind = "empty" => node.kid = <<>> /\ node.list = <<>>
        /\ node.kind = "unary" => f.tree[node.kid[1]].kind # "empty"

\* A constant has one name, which an identifier that uses it has too.  And the model's
\* limits: true and false are what they are, and no names of a package's; and of blank
\* constants there is one, since two would make the same mutant, which no compiler takes.
ASSUME NamesAssumption ==
    /\ \A i, j \in DOMAIN ByName : ByName[i] = ByName[j] => i = j
    /\ \A c \in Range(ByName) : Object[c].is # "local" /\ c \notin {"true", "false"}
    /\ \A f \in File : \A n \in DOMAIN f.uses :
          /\ n \in Parsed(f) /\ f.tree[n].kind = "ident"
          /\ f.uses[n] \in Range(ByName) => f.tree[n].tok = f.uses[n]

\* The parser makes a tree: every node has one place in it, and is visited between
\* the one above it and those below it, right after what is before it.
ASSUME FilesAreTrees ==
    \A f \in File :
        LET Kid(n) == f.tree[n].kid
            List(n) == f.tree[n].list IN
        /\ \A p, q \in DOMAIN f.tree :
              /\ \A i \in DOMAIN Kid(p) : \A j \in DOMAIN Kid(q) :
                    Kid(p)[i] = Kid(q)[j] /\ Kid(p)[i] # None => p = q /\ i = j
              /\ \A i \in DOMAIN List(p) : \A j \in DOMAIN List(q) :
                    List(p)[i] = List(q)[j] => p = q /\ i = j
              /\ \A i \in DOMAIN Kid(p) : \A j \in DOMAIN List(q) : Kid(p)[i] # List(q)[j]
        /\ f.pos \in [DOMAIN f.tree -> Nat] /\ f.end \in [Parsed(f) -> Nat]
        /\ f.pos[f.root] = 1
        /\ \A n \in {True, False, Blank} : f.pos[n] = f.end[f.root] + 1
        /\ \A n \in Parsed(f) :
              LET kids == Kids(f.tree, n) IN
              /\ f.pos[n] \in 1 .. f.end[f.root]
              /\ \A p \in Parsed(f) : f.pos[n] = f.pos[p] => n = p
              /\ \A c \in (Range(Kid(n)) \cup Range(List(n))) \ {None} : f.pos[n] < f.pos[c]
              /\ Range(kids) \subseteq Parsed(f)
              /\ \A i \in DOMAIN kids :
                    f.pos[kids[i]] = (IF i = 1 THEN f.pos[n] ELSE f.end[kids[i - 1]]) + 1
              /\ f.end[n] = IF kids = <<>> THEN f.pos[n] ELSE f.end[kids[Len(kids)]]

-----------------------------------------------------------------------------
(* Numbers, as go/constant writes them.                                      *)

Powers == {1, 10, 100, 1000, 10000, 100000, 1000000, 10000000, 100000000, 1000000000}

\* The last of the first six digits, and the nearest number of six digits.
Enough(v) == {u \in Powers : v \div u < 1000000}
Digit(v) == CHOOSE u \in Enough(v) : \A w \in Enough(v) : u <= w
Nearest(f, v) ==
    LET u == Digit(v)
        rest == v % u
    IN IF 2 * rest > u \/ (2 * rest = u /\ v \in f.up) THEN (v - rest) + u ELSE v - rest

\* Mutant of SixDigits: three digits, cut off.
ThreeDigits(f, v) == IF v < 0 THEN v ELSE v - (v % (1000 * Digit(v)))

SixDigits(f, v) == IF v < 0 THEN -Nearest(f, -v) ELSE Nearest(f, v)

\* %.6g writes these with an exponent; and these, with or without it, have no point.
Scientific(f, v) == v \div f.one >= 1000000 \/ v < f.one \div 10000
NoPoint(f, v) ==
    IF Scientific(f, v) THEN \E u \in Powers : v % u = 0 /\ v \div u \in 1 .. 9
    ELSE v % f.one = 0

\* constant.Value.String: six digits, or all of them where six would show no point for
\* what is no integer.  Below a million, an integer reads as one.
Integral(f, v) == v % f.one = 0
Rendered(f, v) ==
    Literal(IF Integral(f, v) /\ v \div f.one < 1000000 THEN "int" ELSE "float",
            IF ~Integral(f, v) /\ NoPoint(f, SixDigits(f, v)) THEN v ELSE SixDigits(f, v))

\* shiftFloat: a thousandth of the value, or a thousandth.
Delta(f, v) == IF v = 0 THEN f.one \div 1000 ELSE v \div 1000

-----------------------------------------------------------------------------
(* Types.                                                                    *)

\* What go/types says of expressions: their values are truths, or in an order, or
\* neither.  A literal has no sign.  And the model's limits: a float is a whole number
\* of thousandths, and no larger than Powers can round.
Truths == {"&&", "||"}
Orders == {"<", "<=", ">", ">="}
Compares == Orders \cup {"==", "!="}
Has(v, type) == (type = "truth" => v \in BOOLEAN) /\ (type = "ordered" => v \in Int)

ASSUME FilesAreTyped ==
    \A f \in File :
        /\ f.one \in Powers /\ f.one >= 1000
        /\ f.type[True] = "truth" /\ f.type[False] = "truth"
        /\ \A env \in f.envs : env.name["true"] = TRUE /\ env.name["false"] = FALSE
        /\ \A n \in DOMAIN f.tree :
              LET node == f.tree[n]
                  Operands == {f.type[node.kid[i]] : i \in DOMAIN node.kid} IN
              /\ node.kind = "paren" => Operands = {f.type[n]}
              /\ node.kind = "unary" /\ node.tok = "!" => Operands \cup {f.type[n]} = {"truth"}
              /\ node.kind = "binary" /\ node.tok \in Truths =>
                    Operands \cup {f.type[n]} = {"truth"}
              /\ node.kind = "binary" /\ node.tok \in Orders => Operands = {"ordered"}
              /\ node.kind = "binary" /\ node.tok \in Compares => f.type[n] = "truth"
              /\ node.kind = "lit" =>
                    /\ f.type[n] # "truth" /\ node.tok.size \in Nat
                    /\ node.tok.shape = "float" =>
                          /\ node.tok.size % 1000 = 0
                          /\ Enough(node.tok.size + Delta(f, node.tok.size)) # {}
              /\ \A env \in f.envs :
                    /\ node.kind = "ident" => Has(env.name[node.tok], f.type[n])
                    /\ node.kind # "ident" => Has(env.other[n], f.type[n])

-----------------------------------------------------------------------------
(* The swap tables.                                                          *)

Pairs(both, oneWay) == both \cup {<<p[2], p[1]>> : p \in both} \cup oneWay
Table(pairs) == [t \in {p[1] : p \in pairs} |-> (CHOOSE p \in pairs : p[1] = t)[2]]

AssignmentPairs == Pairs({<<"+=", "-=">>, <<"*=", "/=">>, <<"&=", "|=">>, <<"<<=", ">>=">>},
                         {<<"%=", "/=">>, <<"^=", "&=">>, <<"&^=", "^=">>})
BinaryPairs == Pairs({<<"+", "-">>, <<"*", "/">>, <<"&", "|">>, <<"<<", ">>">>,
                      <<"&&", "||">>, <<"==", "!=">>, <<"<", ">=">>, <<">", "<=">>},
                     {<<"%", "/">>, <<"^", "&">>, <<"&^", "^">>})

\* Mutant of BoundaryPairs: the negation that operator/binary already makes.
BoundaryNegates == Pairs({<<"<", ">=">>, <<">", "<=">>}, {})
BoundaryPairs == Pairs({<<"<", "<=">>, <<">", ">=">>}, {})
IncDecPairs == Pairs({<<"++", "--">>}, {})

\* buildSwaps panics when a token is to become two others.
ASSUME SwapsAgree ==
    \A table \in {AssignmentPairs, BinaryPairs, BoundaryPairs, IncDecPairs} :
        \A p, q \in table : p[1] = q[1] => p = q

AssignmentSwaps == Table(AssignmentPairs)
BinarySwaps == Table(BinaryPairs)
BoundarySwaps == Table(BoundaryPairs)
IncDecSwaps == Table(IncDecPairs)

-----------------------------------------------------------------------------
(* What each operator offers for a node n of a tree h.                       *)

Edit(n, slot, i, from, to, at) ==
    [at |-> n, slot |-> slot, i |-> i, from |-> from, to |-> to, node |-> at]

SwapToken(h, n, kind, table) ==
    IF h[n].kind = kind /\ h[n].tok \in DOMAIN table
      THEN <<Edit(n, "tok", 0, h[n].tok, table[h[n].tok], n)>> ELSE <<>>

IsUnary(h, n) == n # None /\ h[n].kind = "unary"

\* unary.Mutate: the containers are matched, in their slots.
Strip(h, n) ==
    LET slot == IF h[n].kind = "assign" THEN "list" ELSE "kid"
        slots == CASE h[n].kind = "binary" -> h[n].kid
                   [] h[n].kind = "if" -> <<h[n].kid[1]>>
                   [] h[n].kind = "assign" -> h[n].list
                   [] OTHER -> <<>>
    IN Each({i \in DOMAIN slots : IsUnary(h, slots[i])},
            LAMBDA i : Edit(n, slot, i, slots[i], h[slots[i]].kid[1], n))

\* shiftInt, shiftFloat
Shift(f, h, n) ==
    IF h[n].kind # "lit" \/ h[n].tok.shape \notin {"int", "float"} THEN <<>>
    ELSE LET v == h[n].tok.size
             d == Delta(f, v)
             to == IF h[n].tok.shape = "int"
                     THEN <<Literal("int", v + f.one), Literal("int", v - f.one)>>
                     ELSE <<Rendered(f, v + d), Rendered(f, v - d)>>
         IN [k \in 1 .. 2 |-> Edit(n, "tok", 0, h[n].tok, to[k], n)]

\* BooleanMutator: by name, whatever the name stands for.
Flip(h, n) == SwapToken(h, n, "ident", [true |-> "false", false |-> "true"])

\* Mutant of Identity: the element that decides the whole expression.
Annihilator(op) == IF op = "&&" THEN False ELSE True
Identity(op) == IF op = "&&" THEN True ELSE False

\* RemoveMutator
RemoveOperand(h, n) ==
    IF h[n].kind = "binary" /\ h[n].tok \in Truths
      THEN [i \in 1 .. 2 |-> Edit(n, "kid", i, h[n].kid[i], Identity(h[n].tok), n)]
      ELSE <<>>

\* clearStmts
Clear(h, n) ==
    IF n # None /\ h[n].kind \in {"block", "case"} /\ h[n].list # <<>>
      THEN <<Edit(n, "list", 0, h[n].list, <<>>, n)>> ELSE <<>>

\* Mutant of ClearElse: the branch of an else-if is emptied too.
ClearElseIf(h, n) ==
    IF h[n].kind # "if" \/ h[n].kid[3] = None THEN <<>>
    ELSE IF h[h[n].kid[3]].kind = "if" THEN Clear(h, h[h[n].kid[3]].kid[2])
         ELSE Clear(h, h[n].kid[3])

\* Else: an else-if is no block, and is visited itself.
ClearElse(h, n) == IF h[n].kind = "if" THEN Clear(h, h[n].kid[3]) ELSE <<>>
ClearIf(h, n) == IF h[n].kind = "if" THEN Clear(h, h[n].kid[2]) ELSE <<>>
ClearCase(h, n) == IF h[n].kind = "case" THEN Clear(h, n) ELSE <<>>

\* Remover: a := is not removable.
Removable(h, s) == \/ h[s].kind \in {"expr", "incdec"}
                   \/ h[s].kind = "assign" /\ h[s].tok # ":="

RemoveStatements(h, n) ==
    IF h[n].kind \notin {"block", "case"} THEN <<>>
    ELSE Each({i \in DOMAIN h[n].list : Removable(h, h[n].list[i])},
              LAMBDA i : Edit(n, "list", i, h[n].list[i], Blank, h[n].list[i]))

\* A replaced identifier, by the constants of a set in the order of their names.
Rename(h, n, names) ==
    Each({i \in DOMAIN ByName : ByName[i] \in names},
         LAMBDA i : Edit(n, "tok", 0, h[n].tok, ByName[i], n))

PackageConst == Range(ByName)

\* buildGroups: a parenthesised block, or the single declarations of a file.
GroupOf(c) == IF Object[c].block # "single" THEN Object[c].block ELSE Object[c].file

\* constSwap.candidates: of the group, with an identical type.
Siblings(c) ==
    {d \in PackageConst \ {c} : GroupOf(d) = GroupOf(c) /\ Object[d].type = Object[c].type}

\* info.Uses: identifiers that use an object; definitions and names of other
\* packages' members are not among them.
Uses(f, n) == n \in DOMAIN f.uses

ConstSwap(f, h, n) ==
    IF Uses(f, n) /\ f.uses[n] \in PackageConst THEN Rename(h, n, Siblings(f.uses[n])) ELSE <<>>

\* localVarUse
LocalVar(f, n) == Uses(f, n) /\ Object[f.uses[n]].is = "local"

\* representable, for the two widths that stand for all.
Ranges == [int8 |-> -128 .. 127, uint8 |-> 0 .. 255]
Representable(v, basic) == basic \in DOMAIN Ranges /\ v \in Ranges[basic]

\* typeMatches: an untyped constant by its value, a typed one exactly.
Matches(type, c) ==
    IF Object[c].type = "untyped int" THEN Representable(Object[c].value, Under[type])
    ELSE Object[c].type = type

\* localConstSwap.candidatesFor: constants of the operand's own file.
Candidates(f, n) ==
    IF LocalVar(f, n)
      THEN {c \in PackageConst : Object[c].file = f.name /\ Matches(Object[f.uses[n]].type, c)}
      ELSE {}

LocalConstSwap(f, h, n) ==
    IF h[n].kind = "binary" /\ h[n].tok \in Compares
      THEN Rename(h, h[n].kid[1], Candidates(f, h[n].kid[1]))
               \o Rename(h, h[n].kid[2], Candidates(f, h[n].kid[2]))
      ELSE <<>>

\* Mutate; Applies holds where it offers anything.
Mutate(f, h, op, n) ==
    CASE op = "control/case" -> ClearCase(h, n)
      [] op = "control/else" -> ClearElse(h, n)
      [] op = "control/if" -> ClearIf(h, n)
      [] op = "expression/remove" -> RemoveOperand(h, n)
      [] op = "identifier/constswap" -> ConstSwap(f, h, n)
      [] op = "identifier/localconstswap" -> LocalConstSwap(f, h, n)
      [] op = "literal/boolean" -> Flip(h, n)
      [] op = "literal/number" -> Shift(f, h, n)
      [] op = "operator/assignment" -> SwapToken(h, n, "assign", AssignmentSwaps)
      [] op = "operator/binary" -> SwapToken(h, n, "binary", BinarySwaps)
      [] op = "operator/boundary" -> SwapToken(h, n, "binary", BoundarySwaps)
      [] op = "operator/inc_dec" -> SwapToken(h, n, "incdec", IncDecSwaps)
      [] op = "operator/unary" -> Strip(h, n)
      [] op = "statement/remover" -> RemoveStatements(h, n)

=============================================================================
