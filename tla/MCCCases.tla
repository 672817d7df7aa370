------------------------------- MODULE MCCCases -------------------------------
(***************************************************************************)
(* Small functions for CCases: every pattern of depth two over integers,   *)
(* lists of integers, lists of lists and tuples, in a function that        *)
(* returns the names the pattern binds, functions with tail calls, and the *)
(* operators on numbers, lists, tuples and texts.                          *)
(***************************************************************************)
EXTENDS CCases

P(op, kids, ty) == [op |-> op, id |-> <<>>, val |-> 0, kids |-> kids, ty |-> ty]
E(op, kids, ty) == [op |-> op, id |-> <<>>, val |-> 0, kids |-> kids, ty |-> ty, of |-> <<>>]
Name(pos, ty) == [P("IdPattern", <<>>, ty) EXCEPT !.id = pos]
Wild == P("WildPattern", <<>>, "")
OnePat == [P("IntPattern", <<>>, "INT") EXCEPT !.val = 1]
Var(pos, ty) == [E("IdExpr", <<>>, ty) EXCEPT !.id = pos]
Num(n) == [E("IntExpr", <<>>, "INT") EXCEPT !.val = n]
Nil == E("ListExpr", <<>>, "LIST")
Case(pats, when, expr) == [pats |-> pats, when |-> when, tail |-> FALSE, expr |-> <<expr>>]
TailCase(pats, expr) == [pats |-> pats, when |-> <<>>, tail |-> TRUE, expr |-> expr]

\* Patterns; a name is called after its position in the pattern.
Ints(pos) == {Wild, OnePat, Name(pos, "INT")}
ListPats(pos, d, Elements(_)) ==
    LET at(i) == Append(pos, i)
        RECURSIVE L(_, _)
        L(p, n) == {Wild, Name(p, "LIST"), P("ListPattern", <<>>, "LIST")}
            \cup IF n = 0 THEN {}
                 ELSE {P("ListPattern", <<a>>, "LIST") : a \in Elements(Append(p, 1))}
                      \cup {P("ListPattern", <<a, b>>, "LIST") : a \in Elements(Append(p, 1)), b \in Elements(Append(p, 2))}
                      \cup {P("ListSplit", <<a, r>>, "LIST") : a \in Elements(Append(p, 1)), r \in L(Append(p, 2), n - 1)}
    IN L(pos, d)
IntLists(pos) == ListPats(pos, 1, Ints)
Tuples(pos) == {P("TuplePattern", <<a, b>>, "TUPLE") : a \in Ints(Append(pos, 1)), b \in IntLists(Append(pos, 2))}
               \cup {Name(pos, "TUPLE")}
Elements(pos) == {p \in IntLists(pos) : p.op # "ListPattern" \/ Len(p.kids) < 2}
FewElements(pos) == {Wild, Name(pos, "LIST"), P("ListPattern", <<>>, "LIST"),
                     P("ListSplit", <<Name(Append(pos, 1), "INT"), Name(Append(pos, 2), "LIST")>>, "LIST")}

\* The names a pattern binds, in order, and the expression that returns them.
RECURSIVE Names(_)
Names(p) == IF p.op = "IdPattern" THEN <<Var(p.id, p.ty)>>
            ELSE FlattenSeq([i \in DOMAIN p.kids |-> Names(p.kids[i])])
Body(ns) == E("TupleExpr", ns, "TUPLE")
FirstInt(ns) == {i \in DOMAIN ns : ns[i].ty = "INT"}
\* The function that returns what a pattern binds, then the one that does so
\* only if a number it binds is not 1, each with a last case for the rest.
Functions(p) ==
    LET ns == Names(p)
        other == <<Case(<<Wild>>, <<>>, Num(0))>>
        when(i) == <<E("NotEqual", <<Var(ns[i].id, "INT"), Num(1)>>, "BOOL")>>
    IN {<<Case(<<p>>, <<>>, Body(ns))>> \o other}
       \cup {<<Case(<<p>>, when(i), Body(ns))>> \o other : i \in FirstInt(ns)}

IntListValues == BoundedSeq({1, 2}, 3)
NestedValues == BoundedSeq({<<>>, <<1>>, <<2, 1>>}, 2)
\* The calls of the functions of one pattern on the values of its type.
Applied(patterns, values) ==
    [p \in patterns |-> Functions(p) \X {<<v>> : v \in values}]

\* f [] acc = acc   f (x:xs) acc = f xs (x:acc)
Rev == LET x == Var(<<1>>, "INT")
           xs == Var(<<2>>, "LIST")
           acc == Var(<<3>>, "LIST")
       IN <<Case(<<P("ListPattern", <<>>, "LIST"), Name(<<3>>, "LIST")>>, <<>>, acc),
            TailCase(<<P("ListSplit", <<Name(<<1>>, "INT"), Name(<<2>>, "LIST")>>, "LIST"), Name(<<3>>, "LIST")>>,
                     <<xs, E("ListAdd", <<x, acc>>, "LIST")>>)>>
\* f a b n | n < 1 = [a, b]   f a b n = f b (a + b) (n - 1)
Fib == LET a == Var(<<1>>, "INT")
           b == Var(<<2>>, "INT")
           n == Var(<<3>>, "INT")
           pats == <<Name(<<1>>, "INT"), Name(<<2>>, "INT"), Name(<<3>>, "INT")>>
       IN <<Case(pats, <<E("Lesser", <<n, Num(1)>>, "BOOL")>>, E("ListExpr", <<a, b>>, "LIST")),
            TailCase(pats, <<b, E("Add", <<a, b>>, "INT"), E("Sub", <<n, Num(1)>>, "INT")>>)>>
\* f [a, b] = f (a:[b] ++ [a])   f [a, _, b] = a == b, and no other case
Partial == LET a == Var(<<1>>, "INT")
               b == Var(<<2>>, "INT")
               list(es) == E("ListExpr", es, "LIST")
           IN <<TailCase(<<P("ListPattern", <<Name(<<1>>, "INT"), Name(<<2>>, "INT")>>, "LIST")>>,
                         <<E("ListAdd", <<a, E("Concat", <<list(<<b>>), list(<<a>>)>>, "LIST")>>, "LIST")>>),
                Case(<<P("ListPattern", <<Name(<<1>>, "INT"), Wild, Name(<<2>>, "INT")>>, "LIST")>>, <<>>,
                     E("Equal", <<a, b>>, "BOOL"))>>

TailCalls == <<{Rev} \X (IntListValues \X {<<>>, <<3>>}),
               {Fib} \X ({1} \X {1, 2} \X (0..3)),
               {Partial} \X {<<v>> : v \in IntListValues}>>

\* path : "map_par" : rest of tests/source/maptest.sppl, on lists of strings.
Texts == {P("ListSplit", <<Wild, P("ListSplit", <<text, Wild>>, "LIST")>>, "LIST") :
             text \in {[P("StringPattern", <<>>, "STRING") EXCEPT !.val = v] : v \in {<<>>, <<1>>}}}

\* Expressions over a number x and lists xs of integers, ys of lists and ss
\* of strings, each that of the one case of a function.
Of(e, ts) == [e EXCEPT !.of = ts]
Ty(ty, ts) == [ty |-> ty, of |-> ts]
INT == Ty("INT", <<>>)
x == Var(<<1>>, "INT")
xs == Of(Var(<<2>>, "LIST"), <<INT>>)
ys == Of(Var(<<3>>, "LIST"), <<Ty("LIST", <<INT>>)>>)
ss == Of(Var(<<4>>, "LIST"), <<Ty("STRING", <<>>)>>)
Op(op, left, right) == E(op, <<left, right>>, "")
List(es) == E("ListExpr", es, "LIST")
Chr(n) == [E("CharExpr", <<>>, "CHAR") EXCEPT !.val = n]
Text(v) == [E("StringExpr", <<>>, "STRING") EXCEPT !.val = v]
Pair(a, l) == Of(E("TupleExpr", <<a, l>>, "TUPLE"), <<INT, Ty("LIST", <<INT>>)>>)
Low == Op("Sub", x, Num(4))
Bodies ==
    {Op(op, x, Num(2)) : op \in {"Lesser", "LesserEq", "Greater", "GreaterEq", "Equal", "NotEqual"}}
    \cup {Op(op, Low, Num(2)) : op \in {"Mul", "Div", "Mod"}}
    \cup {Op(op, Num(1), Op("Sub", x, Num(1))) : op \in {"Div", "Mod"}}
    \cup {Op(op, Op("LesserEq", x, Num(1)), E("Not", <<Op("GreaterEq", x, Num(2))>>, "BOOL")) : op \in {"And", "Or"}}
    \cup {Op(op, xs, List(<<x, Num(2)>>)) : op \in {"Equal", "NotEqual", "Concat"}}
    \cup {Op("Equal", Pair(x, xs), Pair(Num(1), List(<<x>>))), Op("Equal", ys, List(<<xs>>)),
          Op("NotEqual", ys, ys), Op("Equal", ss, List(<<Text(<<1>>)>>)), Op("Equal", xs, xs),
          Op("Equal", Text(<<1, 2>>), Op("ListAdd", Chr(1), Text(<<2>>))), Op("NotEqual", Chr(1), Chr(2)),
          List(<<E("Negative", <<Num(1)>>, "INT")>>), List(<<E("Negative", <<x>>, "INT")>>),
          E("ParExpr", <<E("UnPrint", <<Op("ListAdd", x, xs)>>, "LIST")>>, "LIST"),
          [E("FloatExpr", <<>>, "FLOAT") EXCEPT !.val = 2]}
Operators == [e \in Bodies |->
    {<<Case(<<Name(<<1>>, "INT"), Name(<<2>>, "LIST"), Name(<<3>>, "LIST"), Name(<<4>>, "LIST")>>, <<>>, e)>>}
        \X {<<n, l, m, t>> : n \in {1, 2}, l \in BoundedSeq({1, 2}, 2), m \in {<<>>, <<<<1>>>>, <<<<2>>>>},
                            t \in {<<>>, <<<<1>>>>, <<<<2>>>>}}]

MCCalls == <<Applied(ListPats(<<>>, 2, Ints), IntListValues),
             Applied(ListPats(<<>>, 1, Elements) \cup ListPats(<<>>, 2, FewElements), NestedValues),
             Applied(Tuples(<<>>), {1, 2} \X BoundedSeq({1, 2}, 2)),
             Applied(Texts, NestedValues),
             Operators,
             TailCalls>>
===============================================================================
