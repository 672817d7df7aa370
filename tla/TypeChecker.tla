----------------------------- MODULE TypeChecker -----------------------------
(***************************************************************************)
(* The semantic passes of the compiler: ScopeGenerator declares every      *)
(* function and data type of a program in the global scope, TypeChecker    *)
(* then visits every case of every function and writes a type (RetTy) into *)
(* every node.  Errors do not stop a pass: they are collected, and the     *)
(* flag Safe suppresses the errors that would only follow from another.    *)
(*                                                                         *)
(* A node is a record: its class, a name, its children in the order the    *)
(* visitor takes them and its RetTy.  A pattern is a node as well.         *)
(***************************************************************************)
EXTENDS Types, FiniteSets, TLC

CONSTANT Programs       \* the programs the parser may hand over: a sequence of sets

VARIABLES
    prog,       \* the declarations, with the types written so far
    phase,      \* "scopes", "types" or "done"
    d,          \* the declaration the running pass is at
    c,          \* the case of it; 0 before the function is entered
    chain,      \* the scopes from the global one to CurScope: name -> type
    types,      \* the names of the data types declared
    constructors, \* the names of the constructors declared
    safe,       \* Visitor::Safe
    errors      \* the errors so far: stage, declaration, case and kind

vars == <<prog, phase, d, c, chain, types, constructors, safe, errors>>

-----------------------------------------------------------------------------
(* Nodes.  A call's callee is its first child; "To" keeps its TypeCast in  *)
(* cast.                                                                   *)

Node(op, id, kids, ty) == [op |-> op, id |-> id, kids |-> kids, ty |-> ty, cast |-> UNKNOWN]

IntOps == {"Add", "Sub", "Mul", "Div", "Mod"}
OrderOps == {"Lesser", "Greater", "LesserEq", "GreaterEq"}

\* What a visit threads through the tree: Safe, the scope chain and the kinds
\* of the errors added.
Pass(ss, ch) == [safe |-> ss, chain |-> ch, errs |-> <<>>]

AddError(st, kind) == [st EXCEPT !.safe = FALSE, !.errs = Append(@, kind)]

Kept(n, st) == [n |-> n, st |-> st]
Fails(n, st, kind) == [n |-> n, st |-> AddError(st, kind)]
\* The node with what the visit of its children made of them, and a visited
\* node in front of those that Rest visits after it.
WithKids(n, r) == Kept([n EXCEPT !.kids = r.ns], r.st)
Behind(one, Rest(_)) ==
    LET Joined(rest) == [ns |-> <<one.n>> \o rest.ns, st |-> rest.st] IN Joined(Rest(one))
Typed(n, t, st) == [n |-> [n EXCEPT !.ty = t], st |-> st]

\* Scope::tryGetDecl looks in the scope itself and then in its parents.
Declared(ch, id) == \E i \in 1..Len(ch) : id \in DOMAIN ch[i]
GetDecl(ch, id) ==
    LET i == CHOOSE j \in 1..Len(ch) :
                /\ id \in DOMAIN ch[j]
                /\ \A k \in j + 1..Len(ch) : id \notin DOMAIN ch[k]
    IN ch[i][id]

\* unordered_map::insert keeps an entry that is already there.
Insert(scope, id, t) == scope @@ (id :> t)
Declare(st, id, t) ==
    [st EXCEPT !.chain[Len(st.chain)] = Insert(@, id, t)]

-----------------------------------------------------------------------------
(* Patterns.  The type a pattern must match is handed down in ty.          *)

LiteralPattern(p) ==
    CASE p.op = "IntPattern" -> "INT"
      [] p.op = "FloatPattern" -> "FLOAT"
      [] p.op = "BoolPattern" -> "BOOL"
      [] p.op = "CharPattern" -> "CHAR"
      [] p.op = "StringPattern" -> "STRING"

WithTy(n, t) == [n EXCEPT !.ty = t]

\* The types handed to the children, if the pattern can have the type it got.
ListPatternTys(p) == [i \in 1..Len(p.kids) |-> Front(p.ty.sub)]
TuplePatternTys(p) == p.ty.sub
ListSplitTys(p) ==
    <<IF p.ty.id = "LIST" THEN Front(p.ty.sub) ELSE CHAR, p.ty>>

VisitIdPattern(p, st) ==
    IF Declared(st.chain, p.id) THEN Fails(p, st, "already declared")
    ELSE Kept(p, Declare(st, p.id, p.ty))

RECURSIVE VisitPattern(_, _), VisitPatterns(_, _, _)
VisitPatterns(ps, tys, st) ==
    IF ps = <<>> THEN [ns |-> <<>>, st |-> st]
    ELSE Behind(VisitPattern(WithTy(Front(ps), Front(tys)), st),
                LAMBDA one : VisitPatterns(Tail(ps), Tail(tys), one.st))

\* An algebraic pattern looks for its constructor in the scope of the case
\* alone, and constructors are declared in the global one.
VisitPattern(p, st) ==
    LET Below(tys) == WithKids(p, VisitPatterns(p.kids, tys, st))
    IN CASE p.op = "WildPattern" -> Kept(p, st)
         [] p.op = "IdPattern" -> VisitIdPattern(p, st)
         [] p.op = "ParPattern" -> Below(<<p.ty>>)
         [] p.op = "ListPattern" ->
              IF p.ty.id # "LIST" THEN Fails(p, st, "type mismatch")
              ELSE Below(ListPatternTys(p))
         [] p.op = "TuplePattern" ->
              IF p.ty.id # "TUPLE" THEN Fails(p, st, "type mismatch")
              ELSE IF Len(p.ty.sub) # Len(p.kids) THEN Fails(p, st, "tuple size")
              ELSE Below(TuplePatternTys(p))
         [] p.op = "ListSplit" ->
              IF p.ty.id \notin {"LIST", "STRING"} THEN Fails(p, st, "type mismatch")
              ELSE Below(ListSplitTys(p))
         [] p.op = "AlgebraicPattern" -> Fails(p, st, "no constructor")
         [] OTHER -> IF p.ty.id # LiteralPattern(p) THEN Fails(p, st, "type mismatch")
                     ELSE Kept(p, st)
-----------------------------------------------------------------------------
(* Expressions.  Each rule is a visit after its children were visited and  *)
(* Safe is still set.                                                      *)

Left(n) == n.kids[1].ty
Right(n) == n.kids[2].ty
Child(n) == n.kids[1].ty

IsNumber(t) == t.id \in {"INT", "FLOAT"}

VisitLogic(n, st) ==
    IF Left(n).id # "BOOL" \/ Left(n).id # Right(n).id
    THEN Fails(n, st, "Bool children") ELSE Typed(n, BOOL, st)

VisitEqual(n, st) ==
    IF ~TypeEq(Left(n), Right(n))
    THEN Fails(n, st, "same type") ELSE Typed(n, BOOL, st)

VisitOrder(n, st) ==
    IF ~IsNumber(Left(n)) \/ Left(n).id # Right(n).id
    THEN Fails(n, st, "Int or Float children") ELSE Typed(n, BOOL, st)

VisitArith(n, st) ==
    IF ~IsNumber(Left(n)) \/ Left(n).id # Right(n).id
    THEN Fails(n, st, "Int or Float children") ELSE Typed(n, Left(n), st)

\* Only the RetTy of the child itself is changed, not what is below it.
Resolve(n, i, resolver) == [n EXCEPT !.kids[i].ty = ResolveEmptyList(@, resolver)]

VisitListAdd(m, st) ==
    LET n == Resolve(m, 2, List(Left(m)))
    IN IF \/ Right(n).id = "LIST" /\ TypeEq(Left(n), Front(Right(n).sub))
          \/ Right(n).id = "STRING" /\ Left(n).id = "CHAR"
       THEN Typed(n, Right(n), st) ELSE Fails(n, st, "list of the element's type")

\* Mutant: two lists of any types are one.
VisitConcat_AnyType(m, st) ==
    LET n == Resolve(m, 1, Right(m))
    IN IF Left(n).id # Right(n).id \/ Left(n).id \notin {"LIST", "STRING"} THEN Fails(n, st, "lists")
       ELSE Typed(n, Left(n), st)

VisitConcat(m, st) ==
    LET ResolveRight(n) == Resolve(n, 2, Left(n))
        Checked(n) ==
            IF ~TypeEq(Left(n), Right(n)) THEN Fails(n, st, "same type")
            ELSE IF Right(n).id = "EMPTYLIST" THEN Fails(n, st, "lists of unknown type")
            ELSE IF Right(n).id \notin {"LIST", "STRING"} THEN Fails(n, st, "lists")
            ELSE Typed(n, Left(n), st)
    IN Checked(ResolveRight(Resolve(m, 1, Right(m))))

\* The one visit that does not ask whether its child was safe.
VisitTo(n, st) ==
    IF Child(n).id \in {"BOOL", "CHAR", "INT", "FLOAT"}
    THEN Typed(n, n.cast, st) ELSE Fails(n, st, "not implemented")

VisitNegative(n, st) ==
    IF ~IsNumber(Child(n)) THEN Fails(n, st, "Int or Float children")
    ELSE Typed(n, Child(n), st)

VisitNot(n, st) ==
    IF Child(n).id # "BOOL" THEN Fails(n, st, "Bool children")
    ELSE Typed(n, Child(n), st)

VisitListExpr(n, st) ==
    IF n.kids = <<>> THEN Typed(n, EMPTYLIST, st)
    ELSE IF \E i \in 2..Len(n.kids) : ~TypeEq(n.kids[1].ty, n.kids[i].ty)
    THEN Fails(n, st, "items of one type")
    ELSE Typed(n, List(n.kids[1].ty), st)

VisitTupleExpr(n, st) == Typed(n, Tuple([i \in 1..Len(n.kids) |-> n.kids[i].ty]), st)

VisitIdExpr(n, st) ==
    IF ~Declared(st.chain, n.id) THEN Fails(n, st, "no such id")
    ELSE Typed(n, GetDecl(st.chain, n.id), st)


\* The arguments are compared one by one; the first that differs ends the
\* visit, and the ones behind it keep the type they had.
VisitCallExpr(m, st) ==
    LET sig == m.kids[1].ty
        args == Len(m.kids) - 1
        Resolved(i) == ResolveEmptyList(m.kids[i + 1].ty, sig.sub[i])
        Bad == {i \in 1..args : ~TypeEq(Resolved(i), sig.sub[i])}
        last == IF Bad = {} THEN args ELSE CHOOSE i \in Bad : \A j \in Bad : i <= j
        n == [m EXCEPT !.kids = [i \in 1..Len(m.kids) |->
                IF i = 1 \/ i > last + 1 THEN m.kids[i] ELSE WithTy(m.kids[i], Resolved(i - 1))]]
    IN IF sig.id # "SIGNATURE" THEN Fails(m, st, "not a signature")
       ELSE IF args + 1 # Len(sig.sub) THEN Fails(m, st, "number of arguments")
       ELSE IF Bad # {} THEN Fails(n, st, "invalid argument")
       ELSE Typed(n, Back(sig.sub), st)

\* The node of ":=" itself never gets a type.
VisitAssosiate(n, st) ==
    IF Declared(st.chain, n.id) THEN Fails(n, st, "already declared")
    ELSE Kept(n, Declare(st, n.id, Child(n)))

VisitDoExpr(n, st) == Typed(n, Back(n.kids).ty, st)

VisitAlgebraicExpr(n, st) ==
    Fails(n, st, IF n.id \in constructors THEN "not implemented" ELSE "no constructor")

Literals == {"IntExpr", "FloatExpr", "CharExpr", "BoolExpr", "StringExpr"}
NotImplemented == {"LambdaFunction", "ProducerConsumer"}

Rule(n, st) ==
    CASE n.op \in {"Or", "And"} -> VisitLogic(n, st)
      [] n.op \in {"Equal", "NotEqual"} -> VisitEqual(n, st)
      [] n.op \in OrderOps -> VisitOrder(n, st)
      [] n.op \in IntOps -> VisitArith(n, st)
      [] n.op = "ListAdd" -> VisitListAdd(n, st)
      [] n.op = "Concat" -> VisitConcat(n, st)
      [] n.op \in {"ParExpr", "UnPrint"} -> Typed(n, Child(n), st)
      [] n.op = "Negative" -> VisitNegative(n, st)
      [] n.op = "Not" -> VisitNot(n, st)
      [] n.op = "ListExpr" -> VisitListExpr(n, st)
      [] n.op = "TupleExpr" -> VisitTupleExpr(n, st)
      [] n.op = "IdExpr" -> VisitIdExpr(n, st)
      [] n.op = "CallExpr" -> VisitCallExpr(n, st)
      [] n.op = "Assosiate" -> VisitAssosiate(n, st)
      [] n.op = "DoExpr" -> VisitDoExpr(n, st)
      [] n.op = "AlgebraicExpr" -> VisitAlgebraicExpr(n, st)

RECURSIVE Visit(_, _), VisitAll(_, _)
VisitAll(ns, st) ==
    IF ns = <<>> THEN [ns |-> <<>>, st |-> st]
    ELSE Behind(Visit(Front(ns), st), LAMBDA one : VisitAll(Tail(ns), one.st))

\* A callee that fails keeps the arguments from being visited.
VisitKids(n, st) ==
    IF n.op = "CallExpr"
    THEN Behind(Visit(n.kids[1], st),
                LAMBDA callee : IF callee.st.safe THEN VisitAll(Tail(n.kids), callee.st)
                                ELSE [ns |-> Tail(n.kids), st |-> callee.st])
    ELSE VisitAll(n.kids, st)

Visit(n, st) ==
    IF n.op \in Literals THEN Kept(n, st)
    ELSE IF n.op \in NotImplemented THEN Fails(n, st, "not implemented")
    ELSE LET Own(r) == IF n.op = "To" THEN VisitTo(r.n, r.st)
                       ELSE IF r.st.safe THEN Rule(r.n, r.st) ELSE r
         IN Own(WithKids(n, VisitKids(n, st)))
-----------------------------------------------------------------------------
(* Cases.  A case has its patterns, at most one condition (when) and its   *)
(* expression; it is visited in a scope of its own.                        *)

\* The patterns get their types before anyone compares the two lengths:
\* from the second pattern too many on, the read is past the signature's
\* end.  Whatever is read there, the case is rejected below.
PatternTys(sig, pats) ==
    [i \in 1..Len(pats) |-> IF i <= Len(sig.sub) THEN sig.sub[i] ELSE UNKNOWN]

CaseSignature(f, expr) == IF f.anon THEN Signature(<<expr.ty>>) ELSE f.sig

\* The checks of a case whose nodes all passed; that a pattern still has the
\* type it was handed (lines 85-92) holds for every pattern.
CaseErrors(cs, sig) ==
    IF Len(cs.pats) # Len(sig.sub) - 1 THEN <<"pattern count">>
    ELSE IF cs.when # <<>> /\ cs.when[1].ty.id # "BOOL" THEN <<"when">>
    ELSE IF Back(sig.sub).id # "VOID"
            /\ ~TypeEq(Back(sig.sub), ResolveEmptyList(cs.expr.ty, Back(sig.sub)))
    THEN <<"return type">>
    ELSE <<>>

\* The case after its nodes were visited, and after they all passed.
SeenCase(f, cs, st) ==
    LET Seen(pats, when, expr) ==
            [cs |-> [cs EXCEPT !.pats = pats.ns, !.when = when.ns, !.expr = expr.n], sig |-> f.sig, st |-> expr.st]
        AfterWhen(pats, when) == Seen(pats, when, Visit(cs.expr, when.st))
        AfterPats(pats) == AfterWhen(pats, VisitAll(cs.when, pats.st))
    IN AfterPats(VisitPatterns(cs.pats, PatternTys(f.sig, cs.pats), st))

CheckSignature(seen, sig) ==
    LET Checked(errs) ==
            [cs |-> IF errs \in {<<>>, <<"return type">>}
                    THEN [seen.cs EXCEPT !.expr.ty = ResolveEmptyList(@, Back(sig.sub))]
                    ELSE seen.cs,
             sig |-> sig,
             st |-> IF errs = <<>> THEN seen.st ELSE AddError(seen.st, errs[1])]
    IN Checked(CaseErrors(seen.cs, sig))

VisitCase(f, cs, st) ==
    LET Checked(seen) == IF seen.st.safe THEN CheckSignature(seen, CaseSignature(f, seen.cs.expr)) ELSE seen
    IN Checked(SeenCase(f, cs, st))

-----------------------------------------------------------------------------
(* The passes.                                                             *)

Init ==
    /\ \E i \in 1..Len(Programs) : prog \in Programs[i]
    /\ phase = "scopes"
    /\ d = 1
    /\ c = 0
    /\ chain = <<<<>>>>
    /\ types = {}
    /\ constructors = {}
    /\ safe = TRUE
    /\ errors = {}

Failed(kind) == errors' = errors \cup {[stage |-> phase, d |-> d, c |-> c, kind |-> kind]}

\* ScopeGenerator::visit(Function).
DeclareFunction ==
    /\ phase = "scopes"
    /\ d <= Len(prog)
    /\ prog[d].kind = "function"
    /\ IF ~Declared(chain, prog[d].id) \/ prog[d].anon
       THEN /\ chain' = [chain EXCEPT ![1] = Insert(@, prog[d].id, prog[d].sig)]
            /\ UNCHANGED errors
       ELSE Failed("already declared") /\ UNCHANGED chain
    /\ d' = d + 1
    /\ UNCHANGED <<prog, phase, c, types, constructors, safe>>

\* ScopeGenerator::visit(AlgebraicDT) and, for each of its constructors in
\* turn, visit(Product).
DeclareADT ==
    /\ phase = "scopes"
    /\ d <= Len(prog)
    /\ prog[d].kind = "adt"
    /\ IF prog[d].id \in types
       THEN Failed("already declared") /\ UNCHANGED <<types, constructors>>
       ELSE /\ types' = types \cup {prog[d].id}
            /\ LET cs == prog[d].constructors
                   Taken(i) == cs[i] \in constructors \cup {cs[j] : j \in 1..i - 1}
               IN /\ constructors' = constructors \cup {cs[i] : i \in 1..Len(cs)}
                  /\ IF \E i \in 1..Len(cs) : Taken(i)
                     THEN Failed("already declared") ELSE UNCHANGED errors
    /\ d' = d + 1
    /\ UNCHANGED <<prog, phase, c, chain, safe>>

\* The compiler goes on to the next pass only when the one before it has no
\* error (Compiler::compile).
NextPass ==
    /\ phase \in {"scopes", "types"}
    /\ d > Len(prog)
    /\ phase' = IF phase = "scopes" /\ errors = {} THEN "types" ELSE "done"
    /\ d' = 1
    /\ UNCHANGED <<prog, c, chain, types, constructors, safe, errors>>

MainError(f) ==
    IF f.id # "main" THEN <<>>
    ELSE IF ~TypeEq(Front(f.sig.sub), List(Type("STRING", <<>>))) THEN <<"main input">>
    ELSE IF Len(f.sig.sub) # 2 THEN <<"main inputs">>
    ELSE <<>>

\* TypeChecker::visit(Function) up to its cases, and the declarations that
\* are not visited any further.
EnterDecl ==
    /\ phase = "types"
    /\ d <= Len(prog)
    /\ c = 0
    /\ IF prog[d].kind = "adt" THEN d' = d + 1 /\ UNCHANGED <<c, errors>>
       ELSE IF MainError(prog[d]) # <<>>
       THEN d' = d + 1 /\ UNCHANGED c /\ Failed(MainError(prog[d])[1])
       ELSE c' = 1 /\ UNCHANGED <<d, errors>>
    /\ UNCHANGED <<prog, phase, chain, types, constructors, safe>>

CheckCase_SafeNotReset ==
    /\ phase = "types"
    /\ c > 0
    /\ LET f == prog[d]
           r == VisitCase(f, f.cases[c], Pass(safe, Append(chain, <<>>)))
       IN /\ prog' = [prog EXCEPT ![d].cases[c] = r.cs, ![d].sig = r.sig]
          /\ errors' = errors \cup
                {[stage |-> phase, d |-> d, c |-> c, kind |-> r.st.errs[i]] : i \in 1..Len(r.st.errs)}
          /\ IF c < Len(f.cases) THEN c' = c + 1 /\ UNCHANGED d
             ELSE c' = 0 /\ d' = d + 1
          /\ safe' = r.st.safe
          /\ chain' = SubSeq(r.st.chain, 1, Len(r.st.chain) - 1)
    /\ UNCHANGED <<phase, types, constructors>>

\* One turn of the loop over the cases of a function: a new scope, the visit
\* of the case, Safe set again and the scope left.
CheckCase ==
    /\ phase = "types"
    /\ c > 0
    /\ LET f == prog[d]
           r == VisitCase(f, f.cases[c], Pass(safe, Append(chain, <<>>)))
       IN /\ prog' = [prog EXCEPT ![d].cases[c] = r.cs, ![d].sig = r.sig]
          /\ errors' = errors \cup
                {[stage |-> phase, d |-> d, c |-> c, kind |-> r.st.errs[i]] : i \in 1..Len(r.st.errs)}
          /\ IF c < Len(f.cases) THEN c' = c + 1 /\ UNCHANGED d
             ELSE c' = 0 /\ d' = d + 1
          /\ chain' = SubSeq(r.st.chain, 1, Len(r.st.chain) - 1)
    /\ safe' = TRUE
    /\ UNCHANGED <<phase, types, constructors>>

Done == phase = "done" /\ UNCHANGED vars

Next == DeclareFunction \/ DeclareADT \/ NextPass \/ EnterDecl \/ CheckCase \/ Done

Spec == Init /\ [][Next]_vars

Accepted == phase = "done" /\ errors = {}
=============================================================================
