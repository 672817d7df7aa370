---------------------------- MODULE CaseSemantics ----------------------------
(***************************************************************************)
(* What a call of an SPPL function means, whatever generates its code: the *)
(* cases are tried in order, the first one whose patterns match all the    *)
(* arguments and whose condition holds is taken, its expression is         *)
(* evaluated with the names its patterns bind, and a call that no case     *)
(* takes is reported.  A case that ends in a call of the function itself   *)
(* goes on with the new arguments, all computed from the old ones.         *)
(*                                                                         *)
(* Values are integers, tuples and lists; tuples and lists are sequences.  *)
(* Characters, and numbers with a fraction, are integers that stand for    *)
(* them; / and % are those of integers and round towards zero.             *)
(* A pattern is [op, id, val, kids, ty], ty being the class of the type it *)
(* matches; a case is [pats, when, tail, expr]: when is a sequence of at   *)
(* most one expression, expr one expression, or one for each argument.     *)
(***************************************************************************)
EXTENDS Integers, Sequences, FiniteSets, TLC

VARIABLES cases, args, outcome

Running == [kind |-> "running"]
Returned(v) == [kind |-> "returned", value |-> v]
NoCase == [kind |-> "no case"]

\* The bindings under which a pattern matches a value: none or one.
RECURSIVE Match(_, _), MatchAll(_, _)
MatchAll(ps, vs) ==
    IF ps = <<>> THEN {<<>>}
    ELSE {a @@ b : a \in Match(Head(ps), Head(vs)), b \in MatchAll(Tail(ps), Tail(vs))}
Match(p, v) ==
    CASE p.op = "WildPattern" -> {<<>>}
      [] p.op = "IdPattern" -> {p.id :> v}
      [] p.op = "ParPattern" -> Match(p.kids[1], v)
      [] p.op \in {"IntPattern", "FloatPattern", "BoolPattern", "CharPattern", "StringPattern"} ->
           IF v = p.val THEN {<<>>} ELSE {}
      [] p.op = "TuplePattern" -> MatchAll(p.kids, v)
      [] p.op = "ListPattern" -> IF Len(v) = Len(p.kids) THEN MatchAll(p.kids, v) ELSE {}
      [] p.op = "ListSplit" -> IF v = <<>> THEN {} ELSE MatchAll(p.kids, <<Head(v), Tail(v)>>)

Abs(n) == IF n < 0 THEN -n ELSE n
Quotient(n, m) == IF n < 0 <=> m < 0 THEN Abs(n) \div Abs(m) ELSE -(Abs(n) \div Abs(m))
Remainder(n, m) == n - m * Quotient(n, m)

RECURSIVE Value(_, _)
Value(e, env) ==
    LET L == Value(e.kids[1], env)
        R == Value(e.kids[2], env)
    IN CASE e.op \in {"IntExpr", "FloatExpr", "BoolExpr", "CharExpr", "StringExpr"} -> e.val
         [] e.op = "IdExpr" -> env[e.id]
         [] e.op \in {"ParExpr", "UnPrint"} -> L
         [] e.op = "ListExpr" -> [i \in 1..Len(e.kids) |-> Value(e.kids[i], env)]
         [] e.op = "TupleExpr" -> [i \in 1..Len(e.kids) |-> Value(e.kids[i], env)]
         [] e.op = "ListAdd" -> <<L>> \o R
         [] e.op = "Concat" -> L \o R
         [] e.op = "Add" -> L + R
         [] e.op = "Sub" -> L - R
         [] e.op = "Mul" -> L * R
         [] e.op = "Div" -> Quotient(L, R)
         [] e.op = "Mod" -> Remainder(L, R)
         [] e.op = "Lesser" -> L < R
         [] e.op = "LesserEq" -> L <= R
         [] e.op = "GreaterEq" -> L >= R
         [] e.op = "Greater" -> L > R
         [] e.op = "Equal" -> L = R
         [] e.op = "NotEqual" -> L # R
         [] e.op = "And" -> L /\ R
         [] e.op = "Or" -> L \/ R
         [] e.op = "Not" -> ~L
         [] e.op = "Negative" -> -L

Takes(cs, as, env) ==
    env \in MatchAll(cs.pats, as) /\ \A i \in 1..Len(cs.when) : Value(cs.when[i], env)

CanTake(cs, as) == \E env \in MatchAll(cs.pats, as) : Takes(cs, as, env)

\* Any function may be called, with any arguments.
Init == outcome = Running

Take ==
    /\ outcome = Running
    /\ \E i \in 1..Len(cases) : \E env \in MatchAll(cases[i].pats, args) :
          /\ Takes(cases[i], args, env)
          /\ \A j \in 1..i - 1 : ~CanTake(cases[j], args)
          /\ IF cases[i].tail
             THEN /\ args' = [k \in 1..Len(args) |-> Value(cases[i].expr[k], env)]
                  /\ UNCHANGED outcome
             ELSE /\ outcome' = Returned(Value(cases[i].expr[1], env))
                  /\ UNCHANGED args
    /\ UNCHANGED cases

ReportNoCase ==
    /\ outcome = Running
    /\ \A i \in 1..Len(cases) : ~CanTake(cases[i], args)
    /\ outcome' = NoCase
    /\ UNCHANGED <<cases, args>>

Next == Take \/ ReportNoCase

Spec == Init /\ [][Next]_<<cases, args, outcome>>
=============================================================================
