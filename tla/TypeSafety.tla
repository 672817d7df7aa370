------------------------------ MODULE TypeSafety ------------------------------
(***************************************************************************)
(* What the two passes promise the code generators, against the typing     *)
(* relation.                                                               *)
(***************************************************************************)
EXTENDS TypeChecker

CONSTANT Universe

INSTANCE Typing

Functions == {i \in 1..Len(prog) : prog[i].kind = "function"}

\* The names a case starts from, each with its one type.
Globals == [id \in DOMAIN chain[1] |-> {chain[1][id]}]

\* An expression of the interpreter has no signature to fit.
CaseWellTyped(f, cs, ann) ==
    IF f.anon THEN Typings(cs.expr, Globals, ann).tys # {} ELSE WellTyped(cs, f.sig, Globals, ann)

NoEmptyList(cs) ==
    ~HasEmptyList(cs.expr) /\ \A i \in 1..Len(cs.when) : ~HasEmptyList(cs.when[i])

Visited(i) == \A e \in errors : e.stage = "types" /\ ~(e.d = i /\ e.c = 0)

\* Every case is judged by itself: at the end of the pass, a case without
\* "[]" has an error if and only if it is ill typed, whatever the cases and
\* functions before it did to Safe and to the scopes.
CaseVerdicts ==
    phase = "done" =>
        \A i \in Functions : Visited(i) =>
            \A j \in 1..Len(prog[i].cases) :
                NoEmptyList(prog[i].cases[j]) =>
                    (CaseWellTyped(prog[i], prog[i].cases[j], FALSE)
                        <=> ~\E e \in errors : e.d = i /\ e.c = j)

\* A program that reaches the code generators has a typing: no name stands
\* for two functions, and each case can be given the type of its function,
\* "[]" being any list.
AcceptedIsWellTyped ==
    Accepted =>
        /\ \A i, j \in Functions : (prog[i].id = prog[j].id /\ i # j) => prog[j].anon
        /\ \A i \in Functions : \A j \in 1..Len(prog[i].cases) :
              CaseWellTyped(prog[i], prog[i].cases[j], FALSE)

=============================================================================
