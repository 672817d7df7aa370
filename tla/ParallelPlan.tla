---------------------------- MODULE ParallelPlan ----------------------------
(***************************************************************************)
(* How the parallel C backend turns the calls of a case into tasks:        *)
(* optimizer/GeneralOptimizer.cpp decides which calls run as tasks, and    *)
(* codegen/cpar/CParCodeGen.cpp hoists all calls out of the expression,    *)
(* deepest level first, with one taskyield per level.                      *)
(*                                                                         *)
(* A case is abstracted to its call expressions.  A call has the calls     *)
(* that are outermost in its callee (slot 0) and in its arguments (slots   *)
(* 1 and up); Top stands for the case itself, with those of the when       *)
(* expression (slot 0) and of the result expression (slot 1).              *)
(*                                                                         *)
(* Both passes are visitors.  todo holds the visits and the statements     *)
(* after them that are still to come, so that one action is one call of a  *)
(* visit function or the rest of one after its last recursive visit.       *)
(***************************************************************************)
EXTENDS Naturals, FiniteSets, SequencesExt

CONSTANTS
  Cases,        \* the cases that may be compiled
  Slots,        \* how many arguments a call has
  StartDepths   \* what the uninitialized CParCodeGen::CallDepth may hold

Top == 0
Null == 0

\* The calls of case c, outermost first, and those outermost in slot i of m,
\* from the left.
CallIds(c) == DOMAIN c.at
Kids(c, m, i) ==
  LET kids[k \in 0 .. Len(c.at)] ==
        IF k = 0 THEN <<>>
        ELSE IF c.at[k] = [in |-> m, slot |-> i] THEN Append(kids[k - 1], k) ELSE kids[k - 1]
  IN kids[Len(c.at)]
Elements(s) == {s[i] : i \in DOMAIN s}

\* A call inside another has the greater number.  A call is recursive when its
\* callee is the function's name.
ASSUME CasesAssumption ==
  /\ Slots \in Nat
  /\ StartDepths \subseteq Nat
  /\ \A c \in Cases :
       /\ c.at \in Seq([in : Nat, slot : Nat])
       /\ \A k \in CallIds(c) :
            /\ c.at[k].in < k
            /\ c.at[k].slot \in IF c.at[k].in = Top THEN {0, 1} ELSE 0 .. Slots
       /\ c.rec \in [CallIds(c) -> BOOLEAN]
       /\ \A k \in CallIds(c) : c.rec[k] => Kids(c, k, 0) = <<>>
       /\ c.bare \in BOOLEAN
       /\ c.bare => Len(Kids(c, Top, 1)) = 1

VARIABLES
  case,           \* the case: at, where each call is (in a slot of a call or
                  \* of Top); rec, whether it calls the function itself; bare,
                  \* whether the result is that call and nothing else
  phase,          \* optimize, generate, run, and how it ended
  todo,           \* what is left of the traversal
  DoParallel,     \* CallExpr::DoParallel
  Calls, LastRecCall, LastOtherCall, OptDepth,       \* of GeneralOptimizer
  ParallelCalls, SequentialCall, CallDepth, code,    \* of CParCodeGen
  next,           \* the statement of code that runs next
  ready,          \* calls whose result has been computed
  pending,        \* calls spawned and not waited for
  filled          \* the arguments written for calls that are to be spawned

optVars == <<DoParallel, Calls, LastRecCall, LastOtherCall, OptDepth>>
genVars == <<ParallelCalls, SequentialCall, CallDepth, code>>
runVars == <<next, ready, pending, filled>>
vars == <<case, phase, todo, optVars, genVars, runVars>>

\* A case whose whole expression is a call of the function itself.
TailRec(c) ==
  /\ c.bare
  /\ Len(Kids(c, Top, 1)) = 1
  /\ c.rec[Head(Kids(c, Top, 1))]

Item(op, n, i) == [op |-> op, n |-> n, i |-> i]
Visits(s) == [k \in DOMAIN s |-> Item("call", s[k], 0)]

\* What GeneralOptimizer does for the when expression or the result of a case.
OptVisits(c, i) ==
  <<Item("begin", Top, i)>> \o Visits(Kids(c, Top, i)) \o <<Item("determine", Top, i)>>

Levels == 1 .. Len(Calls)

Init ==
  /\ case \in Cases
  /\ phase = "optimize"
  /\ todo = (IF Kids(case, Top, 0) = <<>> THEN <<>> ELSE OptVisits(case, 0)) \o OptVisits(case, 1)
  /\ DoParallel = [n \in CallIds(case) |-> TRUE]
  /\ Calls = <<>>
  /\ LastRecCall = <<>>
  /\ LastOtherCall = <<>>
  /\ OptDepth = 0
  /\ ParallelCalls = <<>>
  /\ SequentialCall = <<>>
  /\ CallDepth \in StartDepths
  /\ code = <<>>
  /\ next = 1
  /\ ready = {}
  /\ pending = {}
  /\ filled = {}

\* The next item of the traversal is op, for the call Node.
Doing(op) == todo # <<>> /\ Head(todo).op = op
Node == Head(todo).n
Rest == Tail(todo)

\* The visits of the arguments of call m.
ArgVisits(m) == FlattenSeq([i \in 1 .. Slots |-> Visits(Kids(case, m, i))])

----------------------------------------------------------------------------
(* GeneralOptimizer                                                        *)

Optimizing == phase = "optimize" /\ UNCHANGED <<case, genVars, runVars>>

\* visit(Case): a level for the outermost calls.
OptBegin ==
  /\ Optimizing
  /\ Doing("begin")
  /\ Calls' = Append(Calls, 0)
  /\ LastRecCall' = Append(LastRecCall, Null)
  /\ LastOtherCall' = Append(LastOtherCall, Null)
  /\ todo' = Rest
  /\ UNCHANGED <<phase, DoParallel, OptDepth>>

\* visit(CallExpr): the callee, the arguments, and the callee again.
OptCall ==
  /\ Optimizing
  /\ Doing("call")
  /\ todo' = Visits(Kids(case, Node, 0)) \o <<Item("open", Node, 0)>> \o ArgVisits(Node)
             \o Visits(Kids(case, Node, 0)) \o <<Item("close", Node, 0)>> \o Rest
  /\ UNCHANGED <<phase, optVars>>

\* The level of a call is taken to be there.
OptOpen_NoLevel ==
  /\ Optimizing
  /\ Doing("open")
  /\ OptDepth' = OptDepth + 1
  /\ todo' = Rest
  /\ UNCHANGED <<phase, DoParallel, Calls, LastRecCall, LastOtherCall>>

\* A new level for what the call contains.
OptOpen ==
  /\ Optimizing
  /\ Doing("open")
  /\ IF Len(LastOtherCall) = OptDepth
       THEN /\ Calls' = Append(Calls, 0)
            /\ LastRecCall' = Append(LastRecCall, Null)
            /\ LastOtherCall' = Append(LastOtherCall, Null)
       ELSE UNCHANGED <<Calls, LastRecCall, LastOtherCall>>
  /\ OptDepth' = OptDepth + 1
  /\ todo' = Rest
  /\ UNCHANGED <<phase, DoParallel>>

\* The call is entered at its level, as a recursive one or another.  (C
\* counts levels from 0.)
OptClose ==
  /\ Optimizing
  /\ Doing("close")
  /\ OptDepth' = OptDepth - 1
  /\ LastRecCall' = IF case.rec[Node] THEN [LastRecCall EXCEPT ![OptDepth] = Node] ELSE LastRecCall
  /\ LastOtherCall' = IF case.rec[Node] THEN LastOtherCall ELSE [LastOtherCall EXCEPT ![OptDepth] = Node]
  /\ Calls' = [Calls EXCEPT ![OptDepth] = @ + 1]
  /\ todo' = Rest
  /\ UNCHANGED <<phase, DoParallel>>

\* A recursive call and another one are both kept.
Kept_Both(l) ==
  IF Calls[l] > 1 \/ LastRecCall[l] # Null THEN {LastRecCall[l], LastOtherCall[l]} \ {Null} ELSE {}

\* A single recursive call runs as a task, too.
Kept_NoSingleRec(l) ==
  CASE Calls[l] > 1 /\ LastOtherCall[l] # Null -> {LastOtherCall[l]}
    [] Calls[l] > 1 /\ LastOtherCall[l] = Null -> {LastRecCall[l]}
    [] OTHER -> {}

\* The call of level l that the task runs itself.
Kept(l) ==
  CASE Calls[l] = 1 /\ LastRecCall[l] # Null -> {LastRecCall[l]}
    [] Calls[l] > 1 /\ LastOtherCall[l] # Null -> {LastOtherCall[l]}
    [] Calls[l] > 1 /\ LastOtherCall[l] = Null -> {LastRecCall[l]}
    [] OTHER -> {}

\* determingParallelism
Determine ==
  /\ Optimizing
  /\ Doing("determine")
  /\ DoParallel' = [m \in CallIds(case) |-> DoParallel[m] /\ \A l \in Levels : m \notin Kept(l)]
  /\ Calls' = <<>>
  /\ LastRecCall' = <<>>
  /\ LastOtherCall' = <<>>
  /\ OptDepth' = 0
  /\ todo' = Rest
  /\ UNCHANGED phase

----------------------------------------------------------------------------
(* CParCodeGen.  A statement [do, n, i, reads] reads the results of the    *)
(* calls in reads.                                                         *)

Generating == phase = "generate" /\ UNCHANGED <<case, optVars, runVars>>

Statement(do, m, i, reads) == [do |-> do, n |-> m, i |-> i, reads |-> reads]
Outermost(m, i) == Elements(Kids(case, m, i))

\* The arguments of a tail call, each followed by its own outputParallel.
TailVisits(m) ==
  FlattenSeq([i \in 1 .. Slots |->
    Visits(Kids(case, m, i)) \o <<Item("output", m, 0), Item("assign", m, i)>>])
  \o <<Item("goto", m, 0)>>

\* visit(Case): the guard, then the arguments of the tail call or the result.
StartGenerating ==
  /\ phase = "optimize"
  /\ todo = <<>>
  /\ phase' = "generate"
  /\ todo' = (IF Kids(case, Top, 0) = <<>> THEN <<>>
              ELSE Visits(Kids(case, Top, 0)) \o <<Item("output", Top, 0), Item("guard", Top, 0)>>)
             \o (IF TailRec(case) THEN TailVisits(Head(Kids(case, Top, 1)))
                 ELSE Visits(Kids(case, Top, 1)) \o <<Item("output", Top, 0), Item("exit", Top, 1)>>)
  /\ UNCHANGED <<case, optVars, genVars, runVars>>

\* A level for the call, if it is the first of its level.
OpenLevel ==
  IF Len(ParallelCalls) = CallDepth
    THEN /\ ParallelCalls' = Append(ParallelCalls, <<>>)
         /\ SequentialCall' = Append(SequentialCall, Null)
    ELSE UNCHANGED <<ParallelCalls, SequentialCall>>

\* ParallelCalls[CallDepth] is there.
InBounds == CallDepth <= Len(ParallelCalls)

\* An access out of bounds: nothing can be said of the rest.
GenUndefined ==
  /\ Generating
  /\ Doing("call")
  /\ ~InBounds
  /\ phase' = "undefined"
  /\ UNCHANGED <<todo, genVars>>

\* The visits of the arguments of call m, each with the statement after it.
ArgStatements(m) ==
  FlattenSeq([i \in 1 .. Slots |-> Append(Visits(Kids(case, m, i)), Item("arg", m, i))])

\* visit(CallExpr), up to the visits of what it contains.
GenCall ==
  /\ Generating
  /\ Doing("call")
  /\ InBounds
  /\ OpenLevel
  /\ CallDepth' = CallDepth + 1
  /\ todo' = IF DoParallel[Node]
               THEN ArgStatements(Node) \o Visits(Kids(case, Node, 0)) \o <<Item("spawn", Node, 0)>> \o Rest
               ELSE Visits(Kids(case, Node, 0)) \o ArgVisits(Node) \o <<Item("seq", Node, 0)>> \o Rest
  /\ UNCHANGED <<phase, code>>

AddParallel(level, s) == ParallelCalls' = [ParallelCalls EXCEPT ![level] = Append(@, s)]

\* taskN_arg.argI = ...
GenArg ==
  /\ Generating
  /\ Doing("arg")
  /\ LET i == Head(todo).i IN AddParallel(CallDepth, Statement("arg", Node, i, Outermost(Node, i)))
  /\ todo' = Rest
  /\ UNCHANGED <<phase, SequentialCall, CallDepth, code>>

\* The level of the call is not left.
GenSpawn_SameLevel ==
  /\ Generating
  /\ Doing("spawn")
  /\ AddParallel(CallDepth, Statement("spawn", Node, 0, Outermost(Node, 0)))
  /\ todo' = Rest
  /\ UNCHANGED <<phase, SequentialCall, CallDepth, code>>

\* taskN = taskcreate(callee, &taskN_arg); subtaskadd(task, taskN)
GenSpawn ==
  /\ Generating
  /\ Doing("spawn")
  /\ CallDepth' = CallDepth - 1
  /\ AddParallel(CallDepth, Statement("spawn", Node, 0, Outermost(Node, 0)))
  /\ todo' = Rest
  /\ UNCHANGED <<phase, SequentialCall, code>>

\* The second sequential call of a level has no place.
GenSeqFails ==
  /\ Generating
  /\ Doing("seq")
  /\ SequentialCall[CallDepth] # Null
  /\ phase' = "failed"
  /\ UNCHANGED <<todo, genVars>>

\* taskN_res = callee.call(arguments)
GenSeq ==
  /\ Generating
  /\ Doing("seq")
  /\ SequentialCall[CallDepth] = Null
  /\ CallDepth' = CallDepth - 1
  /\ SequentialCall' = [SequentialCall EXCEPT ![CallDepth] = Node]
  /\ todo' = Rest
  /\ UNCHANGED <<phase, ParallelCalls, code>>

\* The task does not wait when it has run a call of its own meanwhile.
LevelCode_NoYieldAfterOwn(l) ==
  LET m == SequentialCall[l] IN
  IF m = Null THEN Append(ParallelCalls[l], Statement("yield", Top, 0, {}))
  ELSE Append(ParallelCalls[l], Statement("seq", m, 0, UNION {Outermost(m, i) : i \in 0 .. Slots}))

\* What outputParallel writes for level l.
LevelCode(l) ==
  LET m == SequentialCall[l] IN
  ParallelCalls[l]
  \o (IF m = Null THEN <<>>
      ELSE <<Statement("seq", m, 0, UNION {Outermost(m, i) : i \in 0 .. Slots})>>)
  \o (IF ParallelCalls[l] = <<>> THEN <<>> ELSE <<Statement("yield", Top, 0, {})>>)

\* The outermost calls come first.
GenOutput_ShallowFirst ==
  /\ Generating
  /\ Doing("output")
  /\ code' = code \o FlattenSeq([l \in DOMAIN ParallelCalls |-> LevelCode(l)])
  /\ ParallelCalls' = <<>>
  /\ SequentialCall' = <<>>
  /\ todo' = Rest
  /\ UNCHANGED <<phase, CallDepth>>

\* outputParallel
GenOutput ==
  /\ Generating
  /\ Doing("output")
  /\ code' = code \o FlattenSeq(Reverse([l \in DOMAIN ParallelCalls |-> LevelCode(l)]))
  /\ ParallelCalls' = <<>>
  /\ SequentialCall' = <<>>
  /\ todo' = Rest
  /\ UNCHANGED <<phase, CallDepth>>

\* if (when), argI = ..., goto Entry, and res = ... with taskexit.
GenStatement ==
  /\ Generating
  /\ \E op \in {"guard", "assign", "goto", "exit"} :
       /\ Doing(op)
       /\ code' = Append(code, Statement(op, Node, Head(todo).i,
                                         IF op = "goto" THEN {} ELSE Outermost(Node, Head(todo).i)))
  /\ todo' = Rest
  /\ UNCHANGED <<phase, ParallelCalls, SequentialCall, CallDepth>>

----------------------------------------------------------------------------
(* The task runs the code.                                                 *)

StartRunning ==
  /\ phase = "generate"
  /\ todo = <<>>
  /\ phase' = "run"
  /\ UNCHANGED <<case, todo, optVars, genVars, runVars>>

Running == phase = "run" /\ UNCHANGED <<case, todo, optVars, genVars>>
Is(do) == code[next].do = do

RunArg ==
  /\ Running
  /\ Is("arg")
  /\ filled' = filled \cup {<<code[next].n, code[next].i>>}
  /\ next' = next + 1
  /\ UNCHANGED <<phase, ready, pending>>

RunSpawn ==
  /\ Running
  /\ Is("spawn")
  /\ pending' = pending \cup {code[next].n}
  /\ next' = next + 1
  /\ UNCHANGED <<phase, ready, filled>>

RunSeq ==
  /\ Running
  /\ Is("seq")
  /\ ready' = ready \cup {code[next].n}
  /\ next' = next + 1
  /\ UNCHANGED <<phase, pending, filled>>

\* taskyield returns when the sub tasks are done.
RunYield ==
  /\ Running
  /\ Is("yield")
  /\ ready' = ready \cup pending
  /\ pending' = {}
  /\ next' = next + 1
  /\ UNCHANGED <<phase, filled>>

\* The when expression holds, or the next case is tried.
RunGuard ==
  /\ Running
  /\ Is("guard")
  /\ \/ next' = next + 1 /\ UNCHANGED phase
     \/ phase' = "other case" /\ UNCHANGED next
  /\ UNCHANGED <<ready, pending, filled>>

RunAssign ==
  /\ Running
  /\ Is("assign")
  /\ next' = next + 1
  /\ UNCHANGED <<phase, ready, pending, filled>>

RunEnd ==
  /\ Running
  /\ Is("exit") \/ Is("goto")
  /\ phase' = "done"
  /\ UNCHANGED runVars

Stopped == phase \in {"done", "other case", "failed", "undefined"} /\ UNCHANGED vars

Optimize == OptBegin \/ OptCall \/ OptOpen \/ OptClose \/ Determine
Generate ==
  \/ StartGenerating \/ GenUndefined \/ GenCall \/ GenArg \/ GenSpawn \/ GenSeqFails \/ GenSeq
  \/ GenOutput \/ GenStatement
Run == StartRunning \/ RunArg \/ RunSpawn \/ RunSeq \/ RunYield \/ RunGuard \/ RunAssign \/ RunEnd

Next == Optimize \/ Generate \/ Run \/ Stopped

Spec == Init /\ [][Next]_vars

----------------------------------------------------------------------------
(* Properties                                                              *)

Phases == {"optimize", "generate", "run", "done", "other case", "failed", "undefined"}

TypeOK ==
  /\ case \in Cases
  /\ phase \in Phases
  /\ DoParallel \in [CallIds(case) -> BOOLEAN]
  /\ Len(LastRecCall) = Len(Calls) /\ Len(LastOtherCall) = Len(Calls)
  /\ OptDepth <= Len(Calls)
  /\ Elements(LastRecCall) \cup Elements(LastOtherCall) \subseteq {Null} \cup CallIds(case)
  /\ Len(SequentialCall) = Len(ParallelCalls)
  /\ Elements(SequentialCall) \subseteq {Null} \cup CallIds(case)
  /\ CallDepth \in Nat
  /\ next \in 1 .. Len(code) + 1
  /\ ready \subseteq CallIds(case)
  /\ pending \subseteq CallIds(case)

\* A statement of the generated code reads the result of a call only when it
\* is there: it was computed earlier, or a taskyield came after its task was
\* spawned.  A task is spawned when its arguments have been written.
ResultsBeforeUse ==
  phase = "run" =>
    /\ code[next].reads \subseteq ready
    /\ Is("spawn") => \A i \in 1 .. Slots : <<code[next].n, i>> \in filled

\* A task does not exit, or start over, with a sub task it has not waited
\* for: taskexit deallocates the sub tasks.  Runtime takes this for granted.
NothingPendingAtExit ==
  phase = "run" /\ (Is("exit") \/ Is("goto")) => pending = {}

\* Only what CallDepth held before the first call can take an access out of
\* the bounds of ParallelCalls, and 0 does not: CParCodeGen enters and leaves
\* the levels in step with the calls.
BoundsFollowStart ==
  phase = "undefined" => ParallelCalls = <<>> /\ CallDepth \in StartDepths \ {0}

\* No call is part of the callee of another.
NamedCallees(c) == \A m \in CallIds(c) : Kids(c, m, 0) = <<>>

\* The calls of one level: those i calls deep in slot s of the case.
AtLevel(c, s) ==
  LET level[i \in Nat] ==
        IF i = 0 THEN Elements(Kids(c, Top, s))
        ELSE UNION {Elements(Kids(c, m, j)) : m \in level[i - 1], j \in 0 .. Slots}
  IN level

\* Of the calls of a level exactly one is left to the task itself, a call of
\* another function when there is one; a single call of another function
\* runs as a task, a single recursive one does not.
OneOwnCallPerLevel ==
  phase \in {"generate", "run"} /\ NamedCallees(case) =>
    \A s \in {0, 1}, i \in 0 .. Cardinality(CallIds(case)) :
      LET level == AtLevel(case, s)[i]
          own == {m \in level : ~DoParallel[m]}
          others == {m \in level : ~case.rec[m]}
      IN CASE Cardinality(level) > 1 -> Cardinality(own) = 1 /\ (others # {} => own \subseteq others)
           [] Cardinality(level) <= 1 -> own = level \ others

\* CParCodeGen.cpp has a place for one sequential call per level, and gives
\* up "for unknown reasons" on a second one.
NeverTwoOwnCalls == phase # "failed"

\* The same, of cases without a call in a callee.
NeverTwoOwnCallsIfNamed == NamedCallees(case) => NeverTwoOwnCalls

\* The guard is behind.
GuardPassed == \E k \in 1 .. next - 1 : code[k].do = "guard"

Stage ==
  CASE phase = "done" -> "done"
    [] phase = "other case" -> "refused"
    [] phase \notin {"done", "other case"} /\ (Kids(case, Top, 0) = <<>> \/ GuardPassed) -> "result"
    [] OTHER -> "guard"

CBV == INSTANCE CallByValue WITH stage <- Stage, evaluated <- ready

\* Whatever runs as a task, the case is evaluated as its calls are nested.
ImplementsCallByValue == CBV!Spec

=============================================================================
