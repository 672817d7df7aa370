------------------------------ MODULE MCLlvmCases ------------------------------
(***************************************************************************)
(* Small functions for LlvmCases: every pair of a pattern of depth two and *)
(* a value of its type, two patterns side by side, expressions,            *)
(* conditions and tail calls.                                              *)
(***************************************************************************)
EXTENDS LlvmCases

Node(op, kids, ty) == [op |-> op, id |-> <<>>, val |-> 0, kids |-> kids, ty |-> ty]
Name(at, ty) == [Node("IdPattern", <<>>, ty) EXCEPT !.id = at]
Wild == Node("WildPattern", <<>>, "")
One == [Node("IntPattern", <<>>, "INT") EXCEPT !.val = 1]
Str(s) == [Node("StringPattern", <<>>, "STRING") EXCEPT !.val = s]
Var(at, ty) == [Node("IdExpr", <<>>, ty) EXCEPT !.id = at]
Num(n) == [Node("IntExpr", <<>>, "INT") EXCEPT !.val = n]
Truth(v) == [Node("BoolExpr", <<>>, "BOOL") EXCEPT !.val = v]
StrExpr(s) == [Node("StringExpr", <<>>, "STRING") EXCEPT !.val = s]
Op(op, left, right, ty) == Node(op, <<left, right>>, ty)
Case(pats, when, expr) == [pats |-> pats, when |-> when, tail |-> FALSE, expr |-> <<expr>>]
TailCase(pats, expr) == [pats |-> pats, when |-> <<>>, tail |-> TRUE, expr |-> expr]

Ints(at) == {Wild, One, Name(at, "INT")}
ListPats(at, d, Elements(_)) ==
    LET RECURSIVE L(_, _)
        L(p, n) == {Wild, Name(p, "LIST"), Node("ListPattern", <<>>, "LIST")}
            \cup IF n = 0 THEN {}
                 ELSE {Node("ListPattern", <<e>>, "LIST") : e \in Elements(Append(p, 1))}
                      \cup {Node("ListPattern", <<e, f>>, "LIST") : e \in Elements(Append(p, 1)), f \in Elements(Append(p, 2))}
                      \cup {Node("ListSplit", <<e, r>>, "LIST") : e \in Elements(Append(p, 1)), r \in L(Append(p, 2), n - 1)}
    IN L(at, d)
IntLists(at) == ListPats(at, 1, Ints)
Strings(at) == {Str(<<>>), Str(<<1>>), Str(<<1, 2>>), Node("ListSplit", <<Wild, Name(at, "LIST")>>, "LIST")}
Tuples(at) == {Node("TuplePattern", <<i, l>>, "TUPLE") : i \in Ints(Append(at, 1)), l \in IntLists(Append(at, 2))}
               \cup {Name(at, "TUPLE")}
Nested(at) == {p \in IntLists(at) : p.op # "ListPattern" \/ Len(p.kids) = 1} \cup Strings(at)

RECURSIVE Names(_)
Names(p) == IF p.op = "IdPattern" THEN <<Var(p.id, p.ty)>>
            ELSE FlattenSeq([i \in DOMAIN p.kids |-> Names(p.kids[i])])
\* The function that returns what its patterns bind, if a number they bind is
\* greater than 1, and else goes on to a case that needs no pattern to hold.
Bindings(ps) ==
    LET ns == FlattenSeq([i \in DOMAIN ps |-> Names(ps[i])])
        ints == {i \in DOMAIN ns : ns[i].ty = "INT"}
        cond == IF ints = {} THEN <<>>
                ELSE <<Op("Greater", Var(ns[Min(ints)].id, "INT"), Num(1), "BOOL")>>
    IN {<<Case(ps, when, Node("TupleExpr", ns, "TUPLE")),
          Case([i \in DOMAIN ps |-> Wild], <<>>, Num(0))>> : when \in {<<>>, cond}}
Applied(patterns, values) == [p \in patterns |-> Bindings(<<p>>) \X {<<v>> : v \in values}]
Applied2(ps, qs, vs, ws) == [pq \in ps \X qs |-> Bindings(pq) \X (vs \X ws)]

IntListValues == BoundedSeq({1, 2}, 3)
NestedValues == BoundedSeq({<<>>, <<1>>, <<1, 2>>}, 2)

x == Var(<<1>>, "INT")
xs == Var(<<2>>, "LIST")
acc == Var(<<3>>, "LIST")
Split == Node("ListSplit", <<Name(<<1>>, "INT"), Name(<<2>>, "LIST")>>, "LIST")
Nil == Node("ListPattern", <<>>, "LIST")
List(es) == Node("ListExpr", es, "LIST")
\* f [] acc = acc   f (x:xs) acc = f xs (x:acc)
Rev == <<Case(<<Nil, Name(<<3>>, "LIST")>>, <<>>, acc),
         TailCase(<<Split, Name(<<3>>, "LIST")>>, <<xs, Op("ListAdd", x, acc, "LIST")>>)>>
\* f (x:xs) acc = f acc xs, and [1] where the first is empty and a condition holds
Swap == <<TailCase(<<Split, Name(<<3>>, "LIST")>>, <<acc, xs>>),
          Case(<<Nil, Wild>>, <<Op("And", Truth(TRUE), Node("Not", <<Truth(FALSE)>>, "BOOL"), "BOOL")>>, List(<<Num(1)>>))>>
Less == Op("Lesser", x, Num(2), "BOOL")
NotLess == Node("Not", <<Less>>, "BOOL")
\* Expressions over x = 1 or 2 and xs, each the only case of a function, and
\* conditions over them.
Bodies == {Op(op, Op("Add", x, Num(1), "INT"), Num(3), "BOOL") : op \in {"Equal", "NotEqual", "Lesser", "LesserEq", "Greater", "GreaterEq"}}
          \cup {Op(op, Op("Sub", x, Num(4), "INT"), Num(2), "INT") : op \in {"Div", "Mod"}}
          \cup {Op(op, Num(1), Op("Sub", x, Num(1), "INT"), "INT") : op \in {"Div", "Mod"}}
          \cup {Op(op, xs, ys, "BOOL") : op \in {"Equal", "NotEqual"}, ys \in {xs, List(<<x>>), List(<<>>)}}
          \cup {Op(op, Less, NotLess, "BOOL") : op \in {"And", "Or", "Equal"}} \cup {NotLess}
          \cup {Op("Mul", x, Num(3), "INT"), Op("Sub", x, Node("Negative", <<x>>, "INT"), "INT"),
                Op("Or", Op("Lesser", x, Num(1), "BOOL"), Op("Greater", x, Num(1), "BOOL"), "BOOL"),
                Node("ParExpr", <<List(<<x, Num(2)>>)>>, "LIST"),
                Op("Concat", List(<<Num(1), Num(2)>>), List(<<Num(3)>>), "LIST"),
                Op("Concat", Op("Concat", List(<<Num(1)>>), List(<<>>), "LIST"), List(<<Num(3)>>), "LIST"),
                Op("Concat", List(<<x>>), Op("Concat", xs, List(<<Num(3)>>), "LIST"), "LIST"),
                Op("ListAdd", Num(1), List(<<Num(2)>>), "LIST"),
                Op("Concat", StrExpr(<<1, 2>>), StrExpr(<<3>>), "STRING"),
                Op("Concat", StrExpr(<<1>>), StrExpr(<<>>), "STRING"),
                Node("TupleExpr", <<Num(1), List(<<Num(2)>>)>>, "TUPLE"),
                Node("UnPrint", <<[Node("FloatExpr", <<>>, "FLOAT") EXCEPT !.val = 2]>>, "FLOAT"),
                Node("TupleExpr", <<Node("TupleExpr", <<x, Num(1)>>, "TUPLE"), xs>>, "TUPLE")}
Expressions == [e \in Bodies |-> {<<<<Case(<<Split>>, <<>>, e)>>, <<v>>>> : v \in IntListValues}]
Tests == {NotLess, Op("And", NotLess, NotLess, "BOOL"), Op("Or", Node("Not", <<NotLess>>, "BOOL"), NotLess, "BOOL"),
          Op("Or", NotLess, Node("Not", <<Truth(TRUE)>>, "BOOL"), "BOOL"),
          Node("Not", <<Op("And", Less, NotLess, "BOOL")>>, "BOOL"),
          Op("Equal", NotLess, Truth(FALSE), "BOOL"), Op("NotEqual", xs, List(<<x>>), "BOOL")}
Conditions == [e \in Tests |->
    {<<<<Case(<<Split>>, <<e>>, x), Case(<<Wild>>, <<>>, Num(0))>>, <<v>>>> : v \in IntListValues}]
\* A constant, and cases of which no one may hold.
Constants == <<{<<<<Case(<<>>, <<>>, List(<<Num(1)>>)), Case(<<>>, <<>>, Num(2))>>, <<>>>>},
               {<<<<Case(<<One, Split>>, <<>>, x), Case(<<Wild, Nil>>, <<>>, Num(0))>>, <<n, v>>>> :
                    n \in {1, 2}, v \in IntListValues},
               {Rev, Swap} \X (BoundedSeq({1, 2}, 2) \X BoundedSeq({3}, 2))>>

MCCalls == <<Applied(ListPats(<<>>, 2, Ints), IntListValues),
             Applied(ListPats(<<>>, 1, Nested), NestedValues),
             Applied(Tuples(<<>>), {1, 2} \X BoundedSeq({1, 2}, 2)),
             Applied2(Tuples(<<1>>), Ints(<<2>>), {1, 2} \X BoundedSeq({1, 2}, 1), {1, 2}),
             Applied2({p \in IntLists(<<1>>) : p.op = "ListSplit"}, Strings(<<2>>), BoundedSeq({1, 2}, 1), BoundedSeq({1, 2}, 2)),
             Expressions, Conditions, Constants>>
===============================================================================
