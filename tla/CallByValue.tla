----------------------------- MODULE CallByValue -----------------------------
(***************************************************************************)
(* What the evaluation of a case promises, whatever the order its calls    *)
(* are run in: a call is evaluated once, after the calls its callee and    *)
(* its arguments are made from; nothing of the result is evaluated before  *)
(* the guard holds; and the case is finished when all it needs has been    *)
(* evaluated.  Calls may be evaluated one at a time or together.           *)
(*                                                                         *)
(* A case is a record: call k is outermost in slot at[k].slot of call      *)
(* at[k].in, or of the case itself when that is 0.                         *)
(***************************************************************************)
EXTENDS Naturals, FiniteSets, Sequences

CONSTANT Cases

VARIABLES
  case,
  stage,      \* guard, result, refused (the guard does not hold), done
  evaluated   \* the calls that have been evaluated

vars == <<case, stage, evaluated>>

Calls == DOMAIN case.at
Outermost(m, i) == {k \in Calls : case.at[k] = [in |-> m, slot |-> i]}
Inner(m) == {k \in Calls : case.at[k].in = m}

\* The calls inside call m.  A call inside another has the greater number.
Below ==
  LET below[m \in Calls] == Inner(m) \cup UNION {below[k] : k \in Inner(m)}
  IN below

\* A case whose result is a call of the function itself does not make that
\* call: its arguments become those of the next round.
TailCall == case.bare /\ \E m \in Outermost(0, 1) : case.rec[m]

\* What must have been evaluated when the stage is over.
Needed ==
  CASE stage = "guard" -> Outermost(0, 0)
    [] stage = "result" /\ ~TailCall -> Outermost(0, 1)
    [] stage = "result" /\ TailCall -> UNION {Inner(m) : m \in Outermost(0, 1)}
    [] OTHER -> {}

Init ==
  /\ case \in Cases
  /\ stage = IF Outermost(0, 0) = {} THEN "result" ELSE "guard"
  /\ evaluated = {}

Evaluate ==
  /\ \E S \in SUBSET ((Needed \cup UNION {Below[m] : m \in Needed}) \ evaluated) :
       /\ S # {}
       /\ \A m \in S : Inner(m) \subseteq evaluated
       /\ evaluated' = evaluated \cup S
  /\ UNCHANGED <<case, stage>>

Guard ==
  /\ stage = "guard"
  /\ Needed \subseteq evaluated
  /\ stage' \in {"result", "refused"}
  /\ UNCHANGED <<case, evaluated>>

Finish ==
  /\ stage = "result"
  /\ Needed \subseteq evaluated
  /\ stage' = "done"
  /\ UNCHANGED <<case, evaluated>>

Next == Evaluate \/ Guard \/ Finish

Spec == Init /\ [][Next]_vars

=============================================================================
