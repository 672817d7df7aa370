-------------------------------- MODULE Typing --------------------------------
(***************************************************************************)
(* The typing rules of SPPL as a relation, independent of the order in     *)
(* which the checker visits a tree and of Safe.  "[]" has every list type  *)
(* and String; an expression has a type if its parts can be given types    *)
(* that fit.  The relation is taken over a finite universe of types.  ":=" *)
(* binds its name, for the rest of the case, to every type its expression  *)
(* has, so that each use of the name may take another one, and is itself   *)
(* no value: its type is UNKNOWN.                                          *)
(*                                                                         *)
(* With ann TRUE only those types of a node count that fit the one the     *)
(* checker wrote into it, which is what the generators read.               *)
(***************************************************************************)
EXTENDS Types, FiniteSets, TLC

CONSTANT Universe

Numbers == {INT, FLOAT}
Lists == {String} \cup {List(t) : t \in Universe}
Elem(t) == IF t.id = "STRING" THEN CHAR ELSE t.sub[1]

\* A value of type t may stand where the checker wrote a: the same type,
\* up to places left open, where t has a list or String.
RECURSIVE Fits(_, _)
Fits(a, t) ==
    IF a.id = "EMPTYLIST" THEN t.id \in {"LIST", "STRING"}
    ELSE /\ a.id = t.id
         /\ a.id \in {"LIST", "TUPLE", "SIGNATURE"} =>
               /\ Len(a.sub) = Len(t.sub)
               /\ \A i \in 1..Len(t.sub) : Fits(a.sub[i], t.sub[i])

\* The environments after a pattern has matched a value of type t: none if
\* it cannot match, or binds a name twice.
RECURSIVE Matches(_, _, _, _), MatchAll(_, _, _, _)
MatchAll(ps, ts, env, ann) ==
    IF ps = <<>> THEN {env}
    ELSE UNION {MatchAll(Tail(ps), Tail(ts), e, ann) : e \in Matches(Head(ps), Head(ts), env, ann)}
Matches(p, t, env, ann) ==
    IF ann /\ p.ty # t THEN {}
    ELSE CASE p.op = "WildPattern" -> {env}
      [] p.op = "IdPattern" -> IF p.id \in DOMAIN env THEN {} ELSE {env @@ (p.id :> {t})}
      [] p.op = "ParPattern" -> Matches(p.kids[1], t, env, ann)
      [] p.op = "IntPattern" -> IF t = INT THEN {env} ELSE {}
      [] p.op = "CharPattern" -> IF t = CHAR THEN {env} ELSE {}
      [] p.op = "ListPattern" ->
           IF t.id # "LIST" THEN {}
           ELSE MatchAll(p.kids, [i \in 1..Len(p.kids) |-> Elem(t)], env, ann)
      [] p.op = "ListSplit" ->
           IF t.id \in {"LIST", "STRING"} THEN MatchAll(p.kids, <<Elem(t), t>>, env, ann) ELSE {}
      [] p.op = "TuplePattern" ->
           IF t.id = "TUPLE" /\ Len(t.sub) = Len(p.kids)
           THEN MatchAll(p.kids, t.sub, env, ann) ELSE {}
      [] OTHER -> {}

Typing(tys, env) == [tys |-> tys, env |-> env]

\* The rule of a node whose children have the types ts.
TypesOf(n, ts) ==
    LET If(ok, t) == IF ok THEN {t} ELSE {}
        SameFrom(S) == ts[1] \in S /\ ts[1] = ts[2]
    IN CASE n.op = "ListExpr" -> If(\A i \in 1..Len(ts) : ts[i] = ts[1], List(ts[1]))
         [] n.op = "TupleExpr" -> {Tuple(ts)}
         [] n.op \in {"ParExpr", "UnPrint"} -> {ts[1]}
         [] n.op \in {"And", "Or"} -> If(SameFrom({BOOL}), BOOL)
         [] n.op \in {"Equal", "NotEqual"} -> If(ts[1] = ts[2], BOOL)
         [] n.op \in {"Lesser", "Greater", "LesserEq", "GreaterEq"} -> If(SameFrom(Numbers), BOOL)
         [] n.op \in {"Add", "Sub", "Mul", "Div", "Mod"} -> If(SameFrom(Numbers), ts[1])
         [] n.op = "Negative" -> If(ts[1] \in Numbers, ts[1])
         [] n.op = "Not" -> If(ts[1] = BOOL, BOOL)
         [] n.op = "ListAdd" -> If(ts[2].id \in {"LIST", "STRING"} /\ Elem(ts[2]) = ts[1], ts[2])
         [] n.op = "Concat" -> If(ts[1] = ts[2] /\ ts[1].id \in {"LIST", "STRING"}, ts[1])
         [] n.op = "To" -> If(ts[1] \in Numbers \cup {BOOL, CHAR}, n.cast)
         [] n.op = "CallExpr" ->
              If(ts[1].id = "SIGNATURE" /\ SubSeq(ts[1].sub, 1, Len(ts[1].sub) - 1) = Tail(ts), Back(ts[1].sub))
         [] n.op = "DoExpr" -> {Back(ts)}
         [] n.op = "Assosiate" -> {UNKNOWN}
         [] OTHER -> {}

\* A node is settled if the checker left no choice open that its place in
\* the tree decides: a node is open only if it has several types by itself,
\* and an operand that is given the type of another, or of a parameter,
\* only if the expression it is in has several.
Operands == {"ListAdd", "Concat", "CallExpr"}
Settled(n, types) ==
    Cardinality(types) < 2 =>
        /\ ~ContainsEmptyList(n.ty)
        /\ n.op \in Operands => \A i \in 1..Len(n.kids) : ~ContainsEmptyList(n.kids[i].ty)

\* Typings(n, env, ann): the types n has and the environment after it;
\* AllTypings for children taken from left to right.
RECURSIVE Typings(_, _, _), AllTypings(_, _, _)
AllTypings(ns, env, ann) ==
    IF ns = <<>> THEN Typing({<<>>}, env)
    ELSE LET one == Typings(Head(ns), env, ann)
             rest == AllTypings(Tail(ns), one.env, ann)
         IN Typing({<<t>> \o ts : t \in one.tys, ts \in rest.tys}, rest.env)
Typings(n, env, ann) ==
    LET kids == AllTypings(n.kids, env, ann)
        types == CASE n.op \in {"IntExpr", "CharExpr", "BoolExpr", "FloatExpr", "StringExpr"} -> {n.ty}
                   [] n.op = "IdExpr" -> IF n.id \in DOMAIN env THEN env[n.id] ELSE {}
                   [] n.op = "ListExpr" /\ n.kids = <<>> -> Lists
                   [] n.op = "Assosiate" /\ n.id \in DOMAIN kids.env -> {}
                   [] OTHER -> UNION {TypesOf(n, ts) : ts \in kids.tys}
        after == IF n.op = "Assosiate" /\ n.id \notin DOMAIN kids.env
                 THEN kids.env @@ (n.id :> {ts[1] : ts \in kids.tys}) ELSE kids.env
        fit == IF Settled(n, Typings(n, env, FALSE).tys) THEN {t \in types : Fits(n.ty, t)} ELSE {}
    IN Typing(IF ann THEN fit ELSE types, after)

\* A case of a function of this signature is well typed in the environment.
WellTyped(cs, sig, env, ann) ==
    /\ Len(cs.pats) = Len(sig.sub) - 1
    /\ \E e \in MatchAll(cs.pats, sig.sub, env, ann) :
         LET when == AllTypings(cs.when, e, ann)
         IN /\ when.tys \cap {<<>>, <<BOOL>>} # {}
            /\ \E t \in Typings(cs.expr, when.env, ann).tys : Back(sig.sub) \in {t, VOID}

RECURSIVE Has(_, _)
Has(n, op) == n.op = op \/ \E i \in 1..Len(n.kids) : Has(n.kids[i], op)
RECURSIVE HasEmptyList(_)
HasEmptyList(n) ==
    (n.op = "ListExpr" /\ n.kids = <<>>) \/ \E i \in 1..Len(n.kids) : HasEmptyList(n.kids[i])
=============================================================================
