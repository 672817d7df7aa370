--------------------------- MODULE MCParallelPlan ---------------------------
(***************************************************************************)
(* Small instances of ParallelPlan: every case with at most a few calls.   *)
(***************************************************************************)
EXTENDS ParallelPlan

CONSTANT MaxCalls  \* the most calls a case has

\* Where calls 1 .. count are: call m is in slot At[m].slot of At[m].in.
\* Numbering them outermost first, and from the left, gives each case once.
Before(a, b) == a.in < b.in \/ (a.in = b.in /\ a.slot <= b.slot)
FirstPlaces == [in : {Top}, slot : {0, 1}]

Shapes ==
  LET shapes[count \in 1 .. MaxCalls] ==
        IF count = 1 THEN {<<p>> : p \in FirstPlaces}
        ELSE UNION {{Append(At, p) : p \in {q \in FirstPlaces \cup [in : 1 .. count - 1, slot : 0 .. Slots] :
                                              Before(Last(At), q)}} : At \in shapes[count - 1]}
  IN UNION {shapes[count] : count \in 1 .. MaxCalls}

\* A recursive call has the function's name for a callee; the result of a
\* case can be a call and nothing else if it has one outermost call.
AllCases ==
  {c \in [at : Shapes, rec : UNION {[1 .. count -> BOOLEAN] : count \in 1 .. MaxCalls}, bare : BOOLEAN] :
     /\ DOMAIN c.rec = CallIds(c)
     /\ \A m \in CallIds(c) : c.rec[m] => Kids(c, m, 0) = <<>>
     /\ c.bare => Len(Kids(c, Top, 1)) = 1}

\* k(f(a(1))(2) + h(f(j(1)))), in the function f that returns a function.
CurriedCase ==
  [at |-> <<[in |-> Top, slot |-> 1], [in |-> 1, slot |-> 1], [in |-> 1, slot |-> 1], [in |-> 2, slot |-> 0],
            [in |-> 3, slot |-> 1], [in |-> 4, slot |-> 1], [in |-> 5, slot |-> 1]>>,
   rec |-> [m \in 1 .. 7 |-> m \in {4, 5}],
   bare |-> TRUE]

CheckedCases == AllCases \cup {CurriedCase}
CurriedCases == {CurriedCase}

=============================================================================
