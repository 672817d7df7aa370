----------------------------- MODULE MCTypeSafety -----------------------------
(***************************************************************************)
(* Small programs for TypeSafety: one function with every body of depth    *)
(* two, functions of two cases and programs of several declarations.       *)
(***************************************************************************)
EXTENDS TypeSafety

E(op, kids) == Node(op, "", kids, UNKNOWN)
One == Node("IntExpr", "", <<>>, INT)
True == Node("BoolExpr", "", <<>>, BOOL)
Chr == Node("CharExpr", "", <<>>, CHAR)
Str == Node("StringExpr", "", <<>>, String)
Nil == Node("ListExpr", "", <<>>, Type("LIST", <<>>))
Id(x) == Node("IdExpr", x, <<>>, UNKNOWN)
ListOf(es) == Node("ListExpr", "", es, Type("LIST", <<>>))
Bind(x, e) == Node("Assosiate", x, <<e>>, UNKNOWN)
ToInt(e) == [Node("To", "", <<e>>, UNKNOWN) EXCEPT !.cast = INT]

Binary == {"And", "Equal", "Lesser", "Add", "ListAdd", "Concat"}
Unary == {"Negative", "Not", "ParExpr"}

Leaves == {One, True, Chr, Str, Nil, Id("x"), Id("g")}
Depth1(S) ==
    {E(op, <<a, b>>) : op \in Binary, a \in S, b \in S}
        \cup {E(op, <<a>>) : op \in Unary, a \in S}
        \cup {ListOf(<<a>>) : a \in S} \cup {ListOf(<<a, b>>) : a \in S, b \in S}
        \cup {E("TupleExpr", <<a, b>>) : a \in S, b \in S}
        \cup {E("CallExpr", <<f, a>>) : f \in {Id("g"), Id("x")}, a \in S}
        \cup {E("DoExpr", <<Bind("y", a), b>>) : a \in S, b \in S \cup {Id("y")}}
        \cup {ToInt(a) : a \in S}
\* The leaves and the well typed, or nearly so, expressions over them that
\* depth two starts from.
Parts ==
    {One, Nil, Str, Id("x"), E("Negative", <<One>>), ListOf(<<One>>), ListOf(<<Nil>>),
     E("ListAdd", <<One, Nil>>), E("CallExpr", <<Id("g"), Nil>>), E("Concat", <<Nil, Nil>>),
     E("TupleExpr", <<One, Nil>>), E("Equal", <<Nil, Nil>>), E("DoExpr", <<Bind("x", One), Id("x")>>),
     E("ParExpr", <<Nil>>), E("Not", <<One>>), ToInt(Str), E("AlgebraicExpr", <<One>>),
     E("LambdaFunction", <<>>)}

P(op, kids) == Node(op, "", kids, UNKNOWN)
Var(x) == Node("IdPattern", x, <<>>, UNKNOWN)
Wild == P("WildPattern", <<>>)
Pats == {Wild, Var("x"), Var("g"), P("IntPattern", <<>>), P("CharPattern", <<>>),
         P("ListPattern", <<>>), P("ListPattern", <<Var("x"), P("ParPattern", <<Var("x")>>)>>),
         P("ListSplit", <<Var("x"), Var("y")>>), P("ListSplit", <<Var("x"), Var("x")>>),
         P("TuplePattern", <<Var("x"), P("IntPattern", <<>>)>>), P("AlgebraicPattern", <<>>)}

Case(pats, when, expr) == [pats |-> pats, when |-> when, expr |-> expr]
Function(id, tys, cases) ==
    [kind |-> "function", id |-> id, sig |-> Signature(tys), anon |-> FALSE, cases |-> cases]
\* The parser makes one block of all the expressions of an input.
Anon(es) == [kind |-> "function", id |-> "__anon__", sig |-> UNKNOWN, anon |-> TRUE,
             cases |-> <<Case(<<>>, <<>>, E("DoExpr", es))>>]
ADT(id, cs) == [kind |-> "adt", id |-> id, constructors |-> cs]

\* def g : [Int] -> Int | _ = 1
G == Function("g", <<List(INT), INT>>, <<Case(<<Wild>>, <<>>, One)>>)

Results == {INT, BOOL, String, List(INT), List(List(INT)), Tuple(<<INT, List(INT)>>), VOID}
F(r, b) == Function("f", <<INT, r>>, <<Case(<<Var("x")>>, <<>>, b)>>)

\* Inputs of an interpreter that bind a name, use it twice and end in a
\* binding or in a value; y := [] may be taken for a list of any type.
Binds == {Bind("y", e) : e \in {One, Nil, Id("x"), ListOf(<<Nil>>), E("Equal", <<Nil, Nil>>)}}
Uses == {Id("y"), Bind("y", One), Bind("z", Id("y")), ListOf(<<Id("y")>>),
         E("Concat", <<Id("y"), ListOf(<<One>>)>>), E("Concat", <<Id("y"), Str>>),
         E("ListAdd", <<Id("y"), Nil>>), E("CallExpr", <<Id("g"), Id("y")>>)}
Blocks == {<<b>> : b \in Binds} \cup {<<b, u>> : b \in Binds, u \in Uses}
            \cup {<<b, u, v>> : b \in Binds, u \in Uses, v \in Uses}

OneBody ==
    <<{<<G, F(r, b)>> : r \in Results, b \in Depth1(Leaves)},
      {<<G, F(r, b)>> : r \in {VOID, List(INT)}, b \in Depth1(Parts)},
      {<<G, Anon(es)>> : es \in {<<b>> : b \in Depth1(Leaves)} \cup Blocks}>>

Inputs == {INT, List(INT), String, Tuple(<<List(INT), INT>>), List(List(CHAR))}
Patterned == {<<G, Function("f", <<t, INT>>, <<Case(<<p>>, <<>>, b)>>)>> :
                t \in Inputs, p \in Pats, b \in {One, Id("x"), E("CallExpr", <<Id("g"), Id("y")>>)}}

\* Cases good and bad in each way, one after the other.
Cases == {Case(<<Var("x")>>, <<>>, Id("x")), Case(<<Var("x")>>, <<>>, Id("y")),
          Case(<<Var("y")>>, <<>>, ListOf(<<Id("y"), True>>)), Case(<<Wild>>, <<One>>, One),
          Case(<<Wild>>, <<True>>, ToInt(Str)), Case(<<>>, <<>>, One),
          Case(<<Wild, Wild>>, <<>>, One), Case(<<Wild>>, <<>>, Chr),
          Case(<<Wild>>, <<E("Not", <<One>>)>>, One),
          Case(<<Var("x")>>, <<>>, E("DoExpr", <<Bind("y", Id("x")), Id("y")>>))}
TwoCases == {<<G, Function("f", <<INT, INT>>, <<a, b>>), h>> :
                a \in Cases, b \in Cases,
                h \in {Function("h", <<INT, INT>>, <<Case(<<Var("x")>>, <<>>, Id("x"))>>),
                       Function("g", <<INT, INT>>, <<Case(<<Var("x")>>, <<>>, Id("x"))>>)}}
\* An input of expressions follows the files that declare.
Mains == {<<Function("main", tys, <<Case(<<Wild>>, <<>>, One)>>), a, b>> :
            tys \in {<<List(String), INT>>, <<INT, INT>>, <<List(String), INT, INT>>},
            a \in {ADT("A", <<"C">>), ADT("A", <<"C", "D">>), ADT("A", <<"C", "C">>)},
            b \in {ADT("A", <<"D">>), ADT("B", <<"C">>), ADT("B", <<"E">>),
                   Anon(<<Node("AlgebraicExpr", "C", <<>>, UNKNOWN)>>), Anon(<<Bind("x", One)>>)}}
TooMany == {<<Function("f", <<INT, INT>>, <<Case(<<Wild, Wild, p>>, <<>>, One)>>)>> : p \in {Wild, Var("x")}}

MCPrograms == OneBody \o <<Patterned, TwoCases, TooMany, Mains>>

\* Deep enough, and with two types of each shape, for every "[]" above.
MCUniverse == {INT, BOOL, CHAR, String, List(INT), List(CHAR), List(String), List(List(INT)),
               Tuple(<<INT, List(INT)>>), Tuple(<<INT, String>>), Signature(<<List(INT), INT>>)}
=============================================================================
