---------------------------- MODULE OperatorWalk ----------------------------
(***************************************************************************)
(* The walk over a file's tree that hands each node to each operator, and  *)
(* applies and reverts what is offered, one mutation at a time.  Module    *)
(* FileWalk has the filters and ids of the walk, Engine what happens to a  *)
(* mutant between Apply and Revert; here it is the tree that counts.       *)
(***************************************************************************)
EXTENDS Operators

VARIABLES
    file,      \* the file walked
    bound,     \* its operators, in order: bindMutators
    tree,      \* its tree, live
    stack,     \* the nodes to visit, the next one first
    next,      \* the place in bound of the next operator for the first of them
    pending,   \* what an operator offered for it, and was not yet reverted
    applied,   \* the first of these is applied
    offered    \* everything that was applied, with the program and the report

vars == <<file, bound, tree, stack, next, pending, applied, offered>>

\* What go/printer prints, empty statements left out.
Shown(h, n) == {i \in DOMAIN h[n].list : h[h[n].list[i]].kind # "empty"}
Printed(h, text, n) ==
    IF n = None THEN <<>>
    ELSE <<h[n].kind, h[n].tok, [i \in DOMAIN h[n].kid |-> text[h[n].kid[i]]],
           Each(Shown(h, n), LAMBDA i : text[h[n].list[i]])>>
Texts(h) == LET text[n \in DOMAIN h \cup {None}] == Printed(h, text, n) IN text
Text(h, root) == Texts(h)[root]

\* bindMutators: without type information the typed operators are dropped.
Bind(names, hasTypes) == Each({i \in DOMAIN names : hasTypes \/ names[i] \notin Typed},
                              LAMBDA i : names[i])

Init ==
    /\ file \in File
    /\ \E names \in Selections, hasTypes \in BOOLEAN :
          bound = Bind(IF names = <<>> THEN All ELSE names, hasTypes)
    /\ tree = file.tree
    /\ stack = <<file.root>>
    /\ next = 1
    /\ pending = <<>>
    /\ applied = FALSE
    /\ offered = <<>>

Walking == stack # <<>> /\ pending = <<>>

Offer ==
    /\ Walking
    /\ next \in DOMAIN bound
    /\ pending' = Mutate(file, tree, bound[next], Head(stack))
    /\ next' = next + 1
    /\ UNCHANGED <<file, bound, tree, stack, applied, offered>>

\* The children are those of the tree as it is now.
Descend ==
    /\ Walking
    /\ next \notin DOMAIN bound
    /\ stack' = Kids(tree, Head(stack)) \o Tail(stack)
    /\ next' = 1
    /\ UNCHANGED <<file, bound, tree, pending, applied, offered>>

Write(h, m, v) == IF m.i = 0 THEN [h EXCEPT ![m.at][m.slot] = v]
                  ELSE [h EXCEPT ![m.at][m.slot][m.i] = v]

\* renderNode before Apply, renderAfter after it: the same text means that it was
\* taken out.
After(m, now) == IF Text(now, m.node) = Text(tree, m.node) THEN <<>> ELSE Text(now, m.node)

Apply ==
    /\ pending # <<>>
    /\ ~applied
    /\ LET m == Head(pending)
           now == Write(tree, m, m.to) IN
       /\ tree' = now
       /\ offered' = Append(offered, [op |-> bound[next - 1], edit |-> m,
                                      program |-> Text(now, file.root), after |-> After(m, now)])
    /\ applied' = TRUE
    /\ UNCHANGED <<file, bound, stack, next, pending>>

\* Mutant of Revert: an early return leaves the mutation where it is.
RevertForgotten ==
    /\ applied
    /\ tree' \in {tree, Write(tree, Head(pending), Head(pending).from)}
    /\ pending' = Tail(pending)
    /\ applied' = FALSE
    /\ UNCHANGED <<file, bound, stack, next, offered>>

\* Deferred: whatever became of the mutant.
Revert ==
    /\ applied
    /\ tree' = Write(tree, Head(pending), Head(pending).from)
    /\ pending' = Tail(pending)
    /\ applied' = FALSE
    /\ UNCHANGED <<file, bound, stack, next, offered>>

\* The context ends or the runner fails: between two mutations the walk stops.
Abandon ==
    /\ pending # <<>>
    /\ ~applied
    /\ stack' = <<>> /\ pending' = <<>>
    /\ UNCHANGED <<file, bound, tree, next, applied, offered>>

Next == Offer \/ Descend \/ Apply \/ Revert \/ Abandon

Spec == Init /\ [][Next]_vars

-----------------------------------------------------------------------------
(* Properties.                                                               *)

Original == Text(file.tree, file.root)

\* Between two mutations the tree is the file's, node for node: no mutant is
\* compounded of two, and what is visited is what was parsed.
TreeRestored == ~applied => tree = file.tree

\* The walk came to its end, and was not abandoned.
Whole == stack = <<>> /\ pending = <<>> /\ next = 1
By(ops) == {k \in DOMAIN offered : offered[k].op \in ops}
Times(op) == Cardinality({k \in DOMAIN bound : bound[k] = op})
Parts(n) == Range(file.tree[n].kid)
Owned(n) == Range(file.tree[n].list)
Kind(kinds) == {n \in Parsed(file) : file.tree[n].kind \in kinds}

\* Operators match containers and look down.  Looked at from below, over a whole
\* walk: a unary expression is stripped once if it is an operand of a binary
\* expression, the condition of an if or assigned, and nowhere else; a statement
\* that can go is removed once if a block or a case owns it; and the body of every
\* if, else-ifs among them, and every plain else is emptied once.
SlotsOnce ==
    Whole =>
        /\ \A u \in Kind({"unary"}) :
              Cardinality({k \in By({"operator/unary"}) : offered[k].edit.from = u})
                = IF \/ \E p \in Kind({"binary"}) : u \in Parts(p)
                     \/ \E p \in Kind({"if"}) : u = file.tree[p].kid[1]
                     \/ \E p \in Kind({"assign"}) : u \in Owned(p)
                    THEN Times("operator/unary") ELSE 0
        /\ \A s \in Kind({"expr", "incdec", "assign"}) :
              Cardinality({k \in By({"statement/remover"}) : offered[k].edit.from = s})
                = IF /\ file.tree[s].kind = "assign" => file.tree[s].tok # ":="
                     /\ \E p \in Kind({"block", "case"}) : s \in Owned(p)
                    THEN Times("statement/remover") ELSE 0
        /\ \A b \in Kind({"block"}) :
              Cardinality({k \in By({"control/if", "control/else"}) : offered[k].edit.at = b})
                = IF file.tree[b].list = <<>> THEN 0
                  ELSE CASE \E p \in Kind({"if"}) : b = file.tree[p].kid[2] -> Times("control/if")
                         [] \E p \in Kind({"if"}) : b = file.tree[p].kid[3] -> Times("control/else")
                         [] OTHER -> 0

IsName(n, name) == file.tree[n].kind = "ident" /\ file.tree[n].tok = name

\* Two mutations that are the same: a body emptied, and its only statement removed;
\* either of two neighbours removed that say the same; an operand of && or ||
\* replaced by a truth value, and flipped to it or stripped down to it.
Twins(j, k) ==
    LET a == offered[j].edit  b == offered[k].edit
        Says(i) == Text(file.tree, file.tree[a.at].list[i])
        Between == (a.i .. b.i) \cup (b.i .. a.i) IN
    \/ /\ {offered[j].op, offered[k].op} \in
            {{"statement/remover", c} : c \in {"control/if", "control/else", "control/case"}}
       /\ a.at = b.at /\ Cardinality(Shown(file.tree, a.at)) = 1
    \/ /\ {offered[j].op, offered[k].op} = {"statement/remover"} /\ a.at = b.at /\ a.i # b.i
       /\ \A i \in Between \cap Shown(file.tree, a.at) : Says(i) = Says(a.i)
    \/ \E one \in {a, b} : \E other \in {a, b} :
          /\ one.slot = "kid" /\ one.to \in {True, False}
          /\ \/ one.from = other.at /\ IsName(other.at, IF one.to = True THEN "false" ELSE "true")
             \/ /\ one.at = other.at /\ one.i = other.i /\ one # other
                /\ IsName(other.to, IF one.to = True THEN "true" ELSE "false")

\* No two mutants of a file are the same program, which would count one hole in
\* the tests twice, except in those cases.
ProgramsDiffer ==
    (\A op \in Range(bound) : Times(op) = 1) =>
        \A j, k \in DOMAIN offered :
            j < k /\ offered[j].program = offered[k].program /\ offered[j].program # Original
                => Twins(j, k)

\* What is offered changes the program, except an operand that already is what it
\* would become, a body of empty statements, and a local variable with the name
\* of the constant that would replace it.  Those a run drops and an estimate counts.
NoOpsKnown ==
    \A k \in DOMAIN offered :
        LET m == offered[k].edit IN
        offered[k].program = Original =>
            CASE offered[k].op = "expression/remove" ->
                    IsName(m.from, IF m.to = True THEN "true" ELSE "false")
              [] offered[k].op \in {"control/if", "control/else", "control/case"} -> Shown(file.tree, m.at) = {}
              [] offered[k].op = "identifier/localconstswap" -> m.from = m.to
              [] OTHER -> FALSE

\* The report shows nothing after exactly where a statement was removed.
AfterTells ==
    \A k \in DOMAIN offered :
        offered[k].program # Original =>
            (offered[k].after = <<>> <=> offered[k].op = "statement/remover")

\* No mutant is wasted on a program that was or will be tested, but for those
\* known to be, and the report tells which it was.
DistinctPrograms == ProgramsDiffer /\ NoOpsKnown /\ AfterTells

\* What an expression denotes, where its operands have the values of value, and names
\* and what is neither a truth nor a comparison have those of env.
Denotes(h, env, value, n) ==
    LET kind == h[n].kind
        tok == h[n].tok
        V(i) == value[h[n].kid[i]] IN
    CASE kind = "lit" -> tok.size
      [] kind = "ident" -> env.name[tok]
      [] kind = "paren" -> V(1)
      [] kind = "unary" /\ tok = "!" -> ~V(1)
      [] kind = "binary" /\ tok = "&&" -> V(1) /\ V(2)
      [] kind = "binary" /\ tok = "||" -> V(1) \/ V(2)
      [] kind = "binary" /\ tok = "<" -> V(1) < V(2)
      [] kind = "binary" /\ tok = "<=" -> V(1) <= V(2)
      [] kind = "binary" /\ tok = ">" -> V(1) > V(2)
      [] kind = "binary" /\ tok = ">=" -> V(1) >= V(2)
      [] kind = "binary" /\ tok = "==" -> V(1) = V(2)
      [] kind = "binary" /\ tok = "!=" -> V(1) # V(2)
      [] OTHER -> env.other[n]

Values(h, env) == LET value[n \in DOMAIN h] == Denotes(h, env, value, n) IN value
Value(h, root, env) == Values(h, env)[root]

Distance(v) == IF v < 0 THEN -v ELSE v

\* An integer moves by one.  A float moves by a thousandth, however it is printed, give
\* or take a hundredth of that; and it stays a float, unless it becomes a whole number
\* below a million.
Moves(f, from, to) ==
    LET moved == to.size - from.size
        d == Delta(f, from.size)
    IN IF from.shape = "int" THEN to.shape = "int" /\ moved \in {-f.one, f.one}
       ELSE /\ \E w \in {-d, d} : Distance(moved - w) * 100 <= d
            /\ moved # 0
            /\ to.shape = "float" \/ (Integral(f, to.size) /\ to.size \div f.one < 1000000)

Means(f, now, op, m) ==
    LET Was(n, env) == Value(f.tree, n, env)
        Is(n, env) == Value(now, n, env)
        before == f.tree[m.at] IN
    /\ op = "literal/number" => Moves(f, m.from, m.to)
    /\ \A env \in f.envs :
          /\ op = "expression/remove" => Is(m.at, env) = Was(before.kid[3 - m.i], env)
          /\ op = "operator/boundary" =>
                (Is(m.at, env) # Was(m.at, env) <=> Was(before.kid[1], env) = Was(before.kid[2], env))
          /\ op = "operator/binary" /\ before.tok \in Compares => Is(m.at, env) = ~Was(m.at, env)
          /\ op = "operator/unary" /\ f.tree[m.from].tok = "!" => Is(m.to, env) = ~Was(m.from, env)

\* What the operators claim a mutant does: without a term the other one alone
\* decides; a shifted boundary matters exactly where both sides are equal; a
\* swapped comparison and a stripped negation say the opposite, whatever the
\* values; and a literal, as it is printed, moves as little as it should and never
\* not at all.
MeansWhatItSays == applied => Means(file, tree, bound[next - 1], Head(pending))

=============================================================================
