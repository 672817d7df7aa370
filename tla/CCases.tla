-------------------------------- MODULE CCases --------------------------------
(***************************************************************************)
(* The C function that CCodeGen generates for an SPPL function: patterns   *)
(* become a condition over paths into the arguments and declarations of    *)
(* the names they bind, a case becomes an if around them, and a tail call  *)
(* becomes assignments to the arguments and a goto.                        *)
(*                                                                         *)
(* Lists are sequences here: what the list functions do with nodes is the  *)
(* subject of GenList.  A call of another function is not an expression of *)
(* this module, and what "print" writes is left out.  An expression has    *)
(* the class of its type in ty and those of its elements or items in of.   *)
(* The result of a C expression is [is, val]: is tells a value, an         *)
(* indeterminate one (the value field of the node that ends a list is      *)
(* never written), one that depends on addresses, undefined behaviour, and *)
(* gat_list's exit.                                                        *)
(***************************************************************************)
EXTENDS CaseSemantics, SequencesExt

CONSTANT Calls      \* what is called: for each family and index a set of pairs of
                    \* a function (its cases) and arguments

VARIABLES code,     \* the function's body: one record for each case
          pc, k, j, \* where the body is, the case, the argument assigned
          locals,   \* the variables declared for the patterns of the case
          entry     \* the arguments at the last passage of the label Entry

vars == <<cases, args, outcome, code, pc, k, j, locals, entry>>

---------------------------------------------------------------------------
(* The C expressions that are generated. *)

C(op, sub) == [op |-> op, sub |-> sub, val |-> <<>>]
Literal(v) == [op |-> "literal", sub |-> <<>>, val |-> v]
Arg(i) == [op |-> "arg", sub |-> <<>>, val |-> i]
User(id) == [op |-> "user", sub |-> <<>>, val |-> id]
Item(e, i) == [op |-> "->item", sub |-> <<e>>, val |-> i]
At(e, n) == IF n > 0 THEN [op |-> "gat", sub |-> <<e>>, val |-> n] ELSE e
GetValue(e) == C("->value", <<e>>)
GetLength(e) == C("->length", <<e>>)

\* e1 && (e2 && (... && en)), or nothing.
GenerateAndChain(es) ==
    IF es = <<>> THEN <<>> ELSE <<FoldRight(LAMBDA e, rest : C("&&", <<e, rest>>), Front(es), Last(es))>>

Test(e) == [test |-> <<e>>, decls |-> <<>>]
Nothing == [test |-> <<>>, decls |-> <<>>]
All(parts) == [test |-> GenerateAndChain(FlattenSeq([i \in DOMAIN parts |-> parts[i].test])),
               decls |-> FlattenSeq([i \in DOMAIN parts |-> parts[i].decls])]

VisitIdPattern(p, path, offset) ==
    [test |-> <<>>,
     decls |-> <<[id |-> p.id, expr |-> IF p.ty \in {"LIST", "STRING"} THEN At(path, offset) ELSE path]>>]

VisitLiteralPattern(p, path) == Test(C("==", <<path, Literal(p.val)>>))

\* The text of the literal is built by adding the character to a pointer.
VisitCharPattern(path) == Test(C("==", <<path, C("text outside a literal", <<>>)>>))

\* The text has its quotes already when the C literal adds its own, so that
\* it ends before the first character.
VisitStringPattern(p, path, offset) ==
    Test(C("gcompare_string",
           <<path, IF p.val = <<>> THEN Literal(<<>>) ELSE C("two literals and a name", <<>>), Literal(offset)>>))

\* Paths are read through gat where the enclosing splits have moved on;
\* offset is ListOffsets.back(), which only the right side of a split changes.
RECURSIVE Visit(_, _, _)
VisitListSplit_NoOffset(p, path, offset) ==
    All(<<Visit(p.kids[1], GetValue(At(path, offset)), offset), Visit(p.kids[2], path, offset)>>)
VisitListPattern(p, path, offset) ==
    LET length == IF offset > 0 THEN C("-", <<GetLength(path), Literal(offset)>>) ELSE GetLength(path)
    IN All(<<Test(C("==", <<length, Literal(Len(p.kids))>>))>>
           \o [i \in DOMAIN p.kids |-> Visit(p.kids[i], GetValue(At(path, offset + i - 1)), offset)])
VisitTuplePattern(p, path, offset) ==
    All([i \in DOMAIN p.kids |-> Visit(p.kids[i], Item(path, i), offset)])
VisitListSplit(p, path, offset) ==
    All(<<Visit(p.kids[1], GetValue(At(path, offset)), offset), Visit(p.kids[2], path, offset + 1)>>)
Visit(p, path, offset) ==
    CASE p.op = "WildPattern" -> Nothing
      [] p.op = "IdPattern" -> VisitIdPattern(p, path, offset)
      [] p.op = "ParPattern" -> Visit(p.kids[1], path, offset)
      [] p.op \in {"IntPattern", "FloatPattern", "BoolPattern"} -> VisitLiteralPattern(p, path)
      [] p.op = "CharPattern" -> VisitCharPattern(path)
      [] p.op = "StringPattern" -> VisitStringPattern(p, path, offset)
      [] p.op = "ListPattern" -> VisitListPattern(p, path, offset)
      [] p.op = "TuplePattern" -> VisitTuplePattern(p, path, offset)
      [] p.op = "ListSplit" -> VisitListSplit(p, path, offset)

RECURSIVE Expr(_)
VisitBinOp(op, e) == C(op, <<Expr(e.kids[1]), Expr(e.kids[2])>>)
\* Lists and tuples are compared by the function generated for the type of
\* the left operand, everything else by ==.
VisitEqual(e) ==
    LET left == e.kids[1]
    IN IF left.ty \in {"TUPLE", "LIST", "STRING"}
       THEN [VisitBinOp("gcompare", e) EXCEPT !.val = [ty |-> left.ty, of |-> left.of]]
       ELSE VisitBinOp("==", e)
VisitListAdd(e) == C("gadd", <<Expr(e.kids[2]), Expr(e.kids[1])>>)
Symbol == "Or" :> "||" @@ "And" :> "&&" @@ "Lesser" :> "<" @@ "Greater" :> ">"
            @@ "LesserEq" :> "<=" @@ "GreaterEq" :> ">="
            @@ "Add" :> "+" @@ "Sub" :> "-" @@ "Mul" :> "*" @@ "Div" :> "/" @@ "Mod" :> "%"
Expr(e) ==
    CASE e.op \in DOMAIN Symbol -> VisitBinOp(Symbol[e.op], e)
      [] e.op = "Equal" -> VisitEqual(e)
      [] e.op = "NotEqual" -> C("!", <<VisitEqual(e)>>)
      [] e.op = "Not" -> C("!", <<Expr(e.kids[1])>>)
      [] e.op = "Negative" -> C("negate", <<Expr(e.kids[1])>>)
      [] e.op = "ParExpr" -> Expr(e.kids[1])
      [] e.op = "ListAdd" -> VisitListAdd(e)
      [] e.op = "Concat" -> VisitBinOp("gconcat", e)
      [] e.op = "ListExpr" -> C("gcrt", Reverse([i \in DOMAIN e.kids |-> Expr(e.kids[i])]))
      [] e.op = "TupleExpr" -> C("gcrt_tuple", [i \in DOMAIN e.kids |-> Expr(e.kids[i])])
      [] e.op = "IdExpr" -> User(e.id)
      [] e.op \in {"IntExpr", "FloatExpr", "CharExpr", "BoolExpr"} -> Literal(e.val)
      [] e.op = "StringExpr" -> C("gcrt_string", <<Literal(e.val)>>)
      [] e.op = "UnPrint" -> C("gprint", <<Expr(e.kids[1])>>)

VisitCase(cs) ==
    LET pattern == All([i \in DOMAIN cs.pats |-> Visit(cs.pats[i], Arg(i), 0)])
    IN [test |-> pattern.test, decls |-> pattern.decls,
        when |-> [i \in DOMAIN cs.when |-> Expr(cs.when[i])],
        tail |-> cs.tail,
        expr |-> [i \in DOMAIN cs.expr |-> Expr(cs.expr[i])]]

RECURSIVE IsC(_)
IsC(e) == /\ e.op \notin {"text outside a literal", "two literals and a name"}
          /\ \A i \in DOMAIN e.sub : IsC(e.sub[i])

---------------------------------------------------------------------------
(* What C makes of them. *)

Val(v) == [is |-> "value", val |-> v]
Indeterminate == [is |-> "indeterminate", val |-> <<>>]
Undefined == [is |-> "undefined", val |-> <<>>]
OutOfBound == [is |-> "out of bound", val |-> <<>>]
Unspecified == [is |-> "unspecified", val |-> <<>>]

\* An operation on operands that have to be values.
Use(rs, F(_)) ==
    IF \E i \in DOMAIN rs : rs[i].is = "out of bound" THEN OutOfBound
    ELSE IF \E i \in DOMAIN rs : rs[i].is = "unspecified" THEN Unspecified
    ELSE IF \E i \in DOMAIN rs : rs[i].is # "value" THEN Undefined
    ELSE F([i \in DOMAIN rs |-> rs[i].val])

GAt(l, i) == IF Len(l) < i THEN OutOfBound ELSE Val(SubSeq(l, i + 1, Len(l)))
GValue(l) == IF l = <<>> THEN Indeterminate ELSE Val(Head(l))

\* gcompare_string: what is compared with each character is the length of
\* the rest of the list.
GCompareString(l, v, o) ==
    IF o > Len(l) THEN OutOfBound
    ELSE LET rest == SubSeq(l, o + 1, Len(l))
         IN Val(/\ Len(v) = Len(rest)
                /\ \A i \in DOMAIN rest : Len(rest) - i + 1 = v[i])

\* gcompare_list and gcompare_tuple: what they may return.  A list goes on
\* to its next element if those at hand are equal, strings being compared by
\* their addresses; but where they are lists or tuples it goes on if the
\* function that compares those returns 0.
AllOf(n, May(_)) == {r \in BOOLEAN : IF r THEN \A i \in 1..n : TRUE \in May(i)
                                         ELSE \E i \in 1..n : FALSE \in May(i)}
RECURSIVE GCompare(_, _, _)
GoesOn(t, v, w) ==
    CASE t.ty \in {"LIST", "TUPLE"} -> {~r : r \in GCompare(t, v, w)}
      [] t.ty = "STRING" -> IF v = w THEN BOOLEAN ELSE {FALSE}
      [] OTHER -> {v = w}
GCompare(t, v, w) ==
    CASE t.ty = "LIST" -> IF Len(v) # Len(w) THEN {FALSE}
                          ELSE AllOf(Len(v), LAMBDA i : GoesOn(t.of[1], v[i], w[i]))
      [] t.ty = "TUPLE" -> AllOf(Len(v), LAMBDA i : GCompare(t.of[i], v[i], w[i]))
      [] OTHER -> {v = w}

\* An element of a list literal is passed as an int and read as an int64_t:
\* one computed from literals alone that is negative is not read as it was.
RECURSIVE IsInt(_)
IsInt(e) == e.op \in {"literal", "negate", "+", "-", "*", "/", "%"} /\ \A i \in DOMAIN e.sub : IsInt(e.sub[i])
Passed(e, r) == IF e.op # "literal" /\ IsInt(e) THEN Use(<<r>>, LAMBDA v : IF v[1] < 0 THEN Undefined ELSE r) ELSE r

RECURSIVE Eval(_)
Eval(e) ==
    LET L == Eval(e.sub[1])
        rs == [i \in DOMAIN e.sub |-> Eval(e.sub[i])]
    IN CASE e.op = "literal" -> Val(e.val)
         [] e.op = "arg" -> args[e.val]
         [] e.op = "user" -> locals[e.val]
         [] e.op = "->item" -> Use(<<L>>, LAMBDA v : Val(v[1][e.val]))
         [] e.op = "gat" -> Use(<<L>>, LAMBDA v : GAt(v[1], e.val))
         [] e.op = "->value" -> Use(<<L>>, LAMBDA v : GValue(v[1]))
         [] e.op = "->length" -> Use(<<L>>, LAMBDA v : Val(Len(v[1])))
         [] e.op = "gcompare_string" -> Use(rs, LAMBDA v : GCompareString(v[1], v[2], v[3]))
         [] e.op = "&&" -> Use(<<L>>, LAMBDA v : IF v[1] THEN Eval(e.sub[2]) ELSE L)
         [] e.op = "||" -> Use(<<L>>, LAMBDA v : IF v[1] THEN L ELSE Eval(e.sub[2]))
         [] e.op = "==" -> Use(rs, LAMBDA v : Val(v[1] = v[2]))
         [] e.op = "gcompare" ->
              Use(rs, LAMBDA v : LET may == GCompare(e.val, v[1], v[2])
                                 IN IF may = BOOLEAN THEN Unspecified ELSE Val(TRUE \in may))
         [] e.op = "<" -> Use(rs, LAMBDA v : Val(v[1] < v[2]))
         [] e.op = ">" -> Use(rs, LAMBDA v : Val(v[1] > v[2]))
         [] e.op = "<=" -> Use(rs, LAMBDA v : Val(v[1] <= v[2]))
         [] e.op = ">=" -> Use(rs, LAMBDA v : Val(v[1] >= v[2]))
         [] e.op = "*" -> Use(rs, LAMBDA v : Val(v[1] * v[2]))
         [] e.op = "/" -> Use(rs, LAMBDA v : IF v[2] = 0 THEN Undefined ELSE Val(Quotient(v[1], v[2])))
         [] e.op = "%" -> Use(rs, LAMBDA v : IF v[2] = 0 THEN Undefined ELSE Val(Remainder(v[1], v[2])))
         [] e.op = "+" -> Use(rs, LAMBDA v : Val(v[1] + v[2]))
         [] e.op = "-" -> Use(rs, LAMBDA v : Val(v[1] - v[2]))
         [] e.op = "!" -> Use(rs, LAMBDA v : Val(~v[1]))
         [] e.op = "negate" -> Use(rs, LAMBDA v : Val(-v[1]))
         [] e.op = "gadd" -> Use(rs, LAMBDA v : Val(<<v[2]>> \o v[1]))
         [] e.op = "gconcat" -> Use(rs, LAMBDA v : Val(v[1] \o v[2]))
         [] e.op = "gcrt" -> Use([i \in DOMAIN rs |-> Passed(e.sub[i], rs[i])], LAMBDA v : Val(Reverse(v)))
         [] e.op \in {"gcrt_string", "gprint"} -> L
         [] e.op = "gcrt_tuple" -> Use(rs, LAMBDA v : Val(v))

---------------------------------------------------------------------------
(* The generated function, run on one call. *)

CInit ==
    /\ Init
    /\ \E family \in DOMAIN Calls : \E i \in DOMAIN Calls[family] :
          \E call \in Calls[family][i] : cases = call[1] /\ args = call[2]
    /\ code = <<>> /\ pc = "visit" /\ k = 1 /\ j = 1
    /\ locals = <<>> /\ entry = args

\* visit(Function): the cases are generated, in order.
Generate ==
    /\ pc = "visit" /\ k <= Len(cases)
    /\ code' = Append(code, VisitCase(cases[k]))
    /\ k' = k + 1
    /\ UNCHANGED <<cases, args, outcome, pc, j, locals, entry>>

\* The C compiler takes the function, or it does not; the call begins.
Compile ==
    /\ pc = "visit" /\ k > Len(cases)
    /\ IF \A i \in DOMAIN code : \A t \in ToSet(code[i].test) : IsC(t)
       THEN /\ pc' = "Entry"
            /\ args' = [i \in DOMAIN args |-> Val(args[i])]
            /\ UNCHANGED outcome
       ELSE /\ pc' = "end"
            /\ outcome' = [kind |-> "rejected"]
            /\ UNCHANGED args
    /\ UNCHANGED <<cases, code, k, j, locals, entry>>

Entry ==
    /\ pc = "Entry"
    /\ pc' = "test" /\ k' = 1
    /\ entry' = [i \in DOMAIN args |-> args[i].val]
    /\ UNCHANGED <<cases, args, outcome, code, j, locals>>

\* The program ends with the last result it came to.
End(r) ==
    /\ pc' = "end"
    /\ outcome' = IF r.is = "value" THEN Returned(r.val) ELSE [kind |-> r.is]

\* Where a condition leads: into the block, past it, or out of the program.
Branch(condition, inside) ==
    LET r == IF condition = <<>> THEN Val(TRUE) ELSE Use(<<Eval(condition[1])>>, LAMBDA v : Val(v[1]))
    IN IF r.is # "value" THEN End(r) /\ UNCHANGED k
       ELSE /\ pc' = IF r.val THEN inside ELSE "test"
            /\ k' = IF r.val THEN k ELSE k + 1
            /\ UNCHANGED outcome

TestPatterns ==
    /\ pc = "test" /\ k <= Len(code)
    /\ Branch(code[k].test, "declare")
    /\ UNCHANGED <<cases, args, code, j, locals, entry>>

\* The declarations of the case, in order; gat_list may exit in one.
Declare ==
    /\ pc = "declare"
    /\ LET ds == code[k].decls
           rs == [i \in DOMAIN ds |-> Eval(ds[i].expr)]
           bad == {i \in DOMAIN rs : rs[i].is \in {"out of bound", "undefined"}}
       IN IF bad # {} THEN End(rs[Min(bad)]) /\ UNCHANGED locals
          ELSE /\ locals' = [id \in {ds[i].id : i \in DOMAIN ds} |->
                                rs[CHOOSE i \in DOMAIN ds : ds[i].id = id]]
               /\ pc' = "when"
               /\ UNCHANGED outcome
    /\ UNCHANGED <<cases, args, code, k, j, entry>>

TestWhen ==
    /\ pc = "when"
    /\ Branch(code[k].when, IF code[k].tail THEN "assign" ELSE "return")
    /\ UNCHANGED <<cases, args, code, j, locals, entry>>

\* arg_j = e_j, one after the other.
AssignArg ==
    /\ pc = "assign" /\ j <= Len(code[k].expr)
    /\ args' = [args EXCEPT ![j] = Eval(code[k].expr[j])]
    /\ j' = j + 1
    /\ UNCHANGED <<cases, outcome, code, pc, k, locals, entry>>

GotoEntry ==
    /\ pc = "assign" /\ j > Len(code[k].expr)
    /\ pc' = "Entry" /\ j' = 1
    /\ UNCHANGED <<cases, args, outcome, code, k, locals, entry>>

Return ==
    /\ pc = "return"
    /\ End(Eval(code[k].expr[1]))
    /\ UNCHANGED <<cases, args, code, k, j, locals, entry>>

NoCasesRealized ==
    /\ pc = "test" /\ k > Len(code)
    /\ pc' = "end" /\ outcome' = NoCase
    /\ UNCHANGED <<cases, args, code, k, j, locals, entry>>

\* The program has ended.
Ended == pc = "end" /\ UNCHANGED vars

CNext == \/ Generate \/ Compile \/ Entry \/ TestPatterns \/ Declare \/ TestWhen
         \/ AssignArg \/ GotoEntry \/ Return \/ NoCasesRealized \/ Ended

CSpec == CInit /\ [][CNext]_vars

---------------------------------------------------------------------------
\* The text of these patterns is not C (VisitCharPattern, VisitStringPattern),
\* and the C compiler refuses the function.
RECURSIVE TextIsC(_)
TextIsC(p) == /\ p.op # "CharPattern"
              /\ p.op = "StringPattern" => p.val = <<>>
              /\ \A i \in DOMAIN p.kids : TextIsC(p.kids[i])

\* ListOffsets.back() is that of a split around the element that the list is
\* compared or bound in, and not 0, only where this is false.
RECURSIVE OffsetsRight(_, _, _)
OffsetsRight(p, offset, spine) ==
    CASE p.op = "ListSplit" -> /\ spine \/ offset = 0
                               /\ OffsetsRight(p.kids[1], offset, FALSE)
                               /\ OffsetsRight(p.kids[2], offset + 1, TRUE)
      [] p.op \in {"ListPattern", "StringPattern"} ->
           /\ spine \/ offset = 0
           /\ \A i \in DOMAIN p.kids : OffsetsRight(p.kids[i], offset, FALSE)
      [] p.op = "IdPattern" -> p.ty \notin {"LIST", "STRING"} \/ spine \/ offset = 0
      [] OTHER -> \A i \in DOMAIN p.kids : OffsetsRight(p.kids[i], offset, FALSE)

\* A split only meets lists that have an element: it does not test that, and
\* what is behind a part that does not match is not looked at.
RECURSIVE SplitsMeetElements(_, _)
InTurn(ps, vs) == \A i \in DOMAIN ps : \/ SplitsMeetElements(ps[i], vs[i])
                                       \/ \E h \in 1..i - 1 : Match(ps[h], vs[h]) = {}
SplitsMeetElements(p, v) ==
    CASE p.op = "ListSplit" -> v # <<>> /\ InTurn(p.kids, <<Head(v), Tail(v)>>)
      [] p.op = "ListPattern" -> Len(v) = Len(p.kids) => InTurn(p.kids, v)
      [] p.op = "TuplePattern" -> InTurn(p.kids, v)
      [] OTHER -> TRUE

\* Types that gcompare compares by their values: no list of lists, tuples or
\* strings is in them.
RECURSIVE ComparesValues(_)
ComparesValues(t) == /\ t.ty = "LIST" => t.of[1].ty \notin {"LIST", "TUPLE", "STRING"}
                     /\ \A i \in DOMAIN t.of : ComparesValues(t.of[i])

RECURSIVE OfLiterals(_), PlainExpr(_)
OfLiterals(e) == /\ e.op \in {"IntExpr", "ParExpr", "Negative", "Add", "Sub", "Mul", "Div", "Mod"}
                 /\ \A i \in DOMAIN e.kids : OfLiterals(e.kids[i])
\* An expression that only compares such types, divides by no literal 0 nor
\* by what may be 0, and has no list literal of a number computed from
\* literals.
PlainExpr(e) ==
    /\ e.op \in {"Equal", "NotEqual"} => ComparesValues([ty |-> e.kids[1].ty, of |-> e.kids[1].of])
    /\ e.op \in {"Div", "Mod"} => e.kids[2].op = "IntExpr" /\ e.kids[2].val # 0
    /\ e.op = "ListExpr" => \A i \in DOMAIN e.kids : e.kids[i].op = "IntExpr" \/ ~OfLiterals(e.kids[i])
    /\ \A i \in DOMAIN e.kids : PlainExpr(e.kids[i])

\* A call that avoids what the definitions above name.
Plain ==
    /\ \A i \in DOMAIN cases : \A e \in ToSet(cases[i].when \o cases[i].expr) : PlainExpr(e)
    /\ \A i \in DOMAIN cases :
          /\ \A n \in DOMAIN cases[i].pats : TextIsC(cases[i].pats[n])
          /\ (\A h \in 1..i - 1 : ~CanTake(cases[h], entry)) =>
                 /\ \A n \in DOMAIN entry : OffsetsRight(cases[i].pats[n], 0, TRUE)
                 /\ InTurn(cases[i].pats, entry)

Meaning == INSTANCE CaseSemantics WITH args <- entry

\* The generated function does what its cases mean, call by call: the tests,
\* declarations and assignments of a case are one step of CaseSemantics, taken
\* when it returns or is back at its label (visit(Function), visit(Case) and
\* the visits of patterns).  The calls that are not Plain are run as well, and
\* there the code does something else.
ImplementsCases ==
    Meaning!Init /\ [][Plain => Meaning!Next]_<<cases, entry, outcome>>
===============================================================================
