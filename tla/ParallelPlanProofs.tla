-------------------------- MODULE ParallelPlanProofs --------------------------
(***************************************************************************)
(* The plan that CParCodeGen makes of a case is a sound one: for every     *)
(* case, with any number of calls and arguments, and whatever calls the    *)
(* optimizer has left to the task itself.                                  *)
(*                                                                         *)
(* The argument follows a result from where it is promised to where it is  *)
(* read.  What a visit still to come, or a statement after it, needs has   *)
(* been made by an earlier one, is placed at a level, or is in the code    *)
(* (Covered).  What a statement placed at a level needs is placed at a     *)
(* deeper one (LevelsOK), which outputParallel writes first, with a        *)
(* taskyield before the next level.  So it is available when the code      *)
(* reads it (CodeOK), and the task, at any statement, has what the         *)
(* statements before it have made available (Progress).                    *)
(***************************************************************************)
EXTENDS ParallelPlan, Induction

\* How deep call k is, which is the level it is placed at.  The call that a
\* tail call replaces is not made, its arguments are outermost.
Depth ==
  LET depth[k \in CallIds(case)] ==
        IF case.at[k].in = Top
          THEN IF TailRec(case) /\ case.at[k].slot = 1 THEN 0 ELSE 1
          ELSE depth[case.at[k].in] + 1
  IN depth

\* Whether it is part of the when expression (0) or of the result (1).
Side ==
  LET side[k \in CallIds(case)] ==
        IF case.at[k].in = Top THEN case.at[k].slot ELSE side[case.at[k].in]
  IN side

Inner(m) == {k \in CallIds(case) : case.at[k].in = m}
TailHead == Head(Kids(case, Top, 1))

Calling == {"arg", "spawn", "seq"}
\* The statements that are no part of a level.
Direct == {"guard", "assign", "goto", "exit"}

\* What the traversal may hold, and with "yield" what the code may.
Fits(op, m, i) ==
  \/ op \in {"call", "spawn", "seq"} /\ m \in CallIds(case) /\ Depth[m] >= 1 /\ i = 0
  \/ op = "arg" /\ m \in CallIds(case) /\ Depth[m] >= 1 /\ i \in 1 .. Slots
  \/ op = "guard" /\ m = Top /\ i = 0 /\ Kids(case, Top, 0) # <<>>
  \/ op = "assign" /\ TailRec(case) /\ m = TailHead /\ i \in 1 .. Slots
  \/ op = "goto" /\ TailRec(case) /\ m = TailHead /\ i = 0
  \/ op = "exit" /\ ~TailRec(case) /\ m = Top /\ i = 1

Reads(op, m, i) ==
  CASE op \in {"arg", "assign", "guard", "exit"} -> Outermost(m, i)
    [] op = "spawn" -> Outermost(m, 0)
    [] op = "seq" -> UNION {Outermost(m, j) : j \in 0 .. Slots}
    [] OTHER -> {}

\* <<k, 0>> stands for the result of call k, <<k, i>> for argument i of it.
Needs(op, m, i) ==
  {<<k, 0>> : k \in IF op = "goto" THEN Inner(m) ELSE Reads(op, m, i)}
  \cup (IF op = "spawn" THEN {<<m, j>> : j \in 1 .. Slots} ELSE {})
Makes(op, m, i) == IF op \in {"call", "spawn", "seq", "arg"} THEN {<<m, i>>} ELSE {}

-----------------------------------------------------------------------------
(* The traversal *)

Ops == {"begin", "call", "open", "close", "determine", "arg", "spawn", "seq", "output"} \cup Direct
ItemSet == [op : Ops, n : Nat, i : Nat]
MakesItem(x) == Makes(x.op, x.n, x.i)
NeedsItem(x) == Needs(x.op, x.n, x.i)

\* CallDepth before and after an item.
Enters(x) ==
  CASE x.op = "call" -> Depth[x.n] - 1
    [] x.op \in Calling -> Depth[x.n]
    [] OTHER -> 0
Leaves(x) ==
  CASE x.op \in {"call", "spawn", "seq"} -> Depth[x.n] - 1
    [] x.op = "arg" -> Depth[x.n]
    [] OTHER -> 0

GuardIn(s, from) == \E q \in from .. Len(s) : s[q].op = "guard"

TraversalOK(s) ==
  /\ s \in Seq(ItemSet)
  /\ \A p \in 1 .. Len(s) : s[p].op = "output" \/ Fits(s[p].op, s[p].n, s[p].i)
  /\ \A p \in 1 .. Len(s) - 1 : Leaves(s[p]) = Enters(s[p + 1])
  /\ \A p \in 2 .. Len(s) : s[p].op \in Direct => s[p - 1].op \in {"output", "guard", "assign"}
  /\ \A p \in 1 .. Len(s) :
       /\ s[p].op \in Calling \cup {"call"} => (Side[s[p].n] = 0 <=> GuardIn(s, p + 1))
       /\ s[p].op \in Direct => ~GuardIn(s, p + 1)
  /\ s # <<>> => s[Len(s)].op \in {"exit", "goto"}

-----------------------------------------------------------------------------
(* The code *)

Dos == Calling \cup Direct \cup {"yield"}
StatementSet == [do : Dos, n : Nat, i : Nat, reads : SUBSET Nat]
MakesStatement(s) == Makes(s.do, s.n, s.i)
NeedsStatement(s) == Needs(s.do, s.n, s.i)

IsStatement(s) ==
  /\ s \in StatementSet
  /\ s.reads = Reads(s.do, s.n, s.i)
  /\ s.do = "yield" \/ (s.do # "call" /\ Fits(s.do, s.n, s.i))

YieldIn(c, from, to) == \E y \in from .. to : c[y].do = "yield"

\* At statement k of the code c, t is there.
Available(c, k, t) ==
  \E s \in 1 .. k - 1 :
    /\ t \in MakesStatement(c[s])
    /\ c[s].do = "spawn" => YieldIn(c, s + 1, k - 1)

\* The guard, if there is one, is before statement k.
Past(c, k) == Kids(case, Top, 0) = <<>> \/ \E s \in 1 .. k - 1 : c[s].do = "guard"

CodeOK(c) ==
  /\ c \in Seq(StatementSet)
  /\ \A k \in 1 .. Len(c) : IsStatement(c[k])
  /\ \A k \in 1 .. Len(c) : \A t \in NeedsStatement(c[k]) : Available(c, k, t)
  /\ \A k \in 1 .. Len(c) : c[k].do = "spawn" =>
       \E y \in k + 1 .. Len(c) : c[y].do = "yield" /\ \A z \in k + 1 .. y : c[z].do \notin Direct
  /\ \A k \in 1 .. Len(c) :
       /\ c[k].do \in Calling => (Side[c[k].n] = 1 <=> Past(c, k))
       /\ c[k].do \in {"assign", "goto", "exit"} => Past(c, k)
       /\ c[k].do = "guard" => ~Past(c, k)

InCode(c, t) == \E k \in 1 .. Len(c) : t \in MakesStatement(c[k])

-----------------------------------------------------------------------------
(* The levels *)

InLevel(pc, sc, l, t) ==
  \/ \E j \in 1 .. Len(pc[l]) : t \in MakesStatement(pc[l][j])
  \/ sc[l] # Null /\ t = <<sc[l], 0>>
Placed(pc, sc, t) == \E l \in 1 .. Len(pc) : InLevel(pc, sc, l, t)
Deeper(pc, sc, l, t) == \E d \in l + 1 .. Len(pc) : InLevel(pc, sc, d, t)

\* What the items of a traversal need is there, or made by earlier ones.
Covered(s, c, pc, sc) ==
  \A p \in 1 .. Len(s) : \A t \in NeedsItem(s[p]) :
    \/ InCode(c, t) \/ Placed(pc, sc, t)
    \/ \E q \in 1 .. p - 1 : t \in MakesItem(s[q])

LevelTypes(pc, sc) ==
  /\ pc \in Seq(Seq(StatementSet))
  /\ sc \in Seq({Null} \cup CallIds(case))
  /\ Len(sc) = Len(pc)

LevelsOK(pc, sc, c) ==
  \A l \in 1 .. Len(pc) :
    /\ \A j \in 1 .. Len(pc[l]) :
         /\ IsStatement(pc[l][j]) /\ pc[l][j].do \in {"arg", "spawn"}
         /\ Depth[pc[l][j].n] = l
         /\ Side[pc[l][j].n] = 1 <=> Past(c, Len(c) + 1)
         /\ \A t \in NeedsStatement(pc[l][j]) :
              \/ InCode(c, t) \/ Deeper(pc, sc, l, t)
              \/ \E h \in 1 .. j - 1 : pc[l][h].do = "arg" /\ t \in MakesStatement(pc[l][h])
    /\ sc[l] # Null =>
         /\ Depth[sc[l]] = l
         /\ Side[sc[l]] = 1 <=> Past(c, Len(c) + 1)
         /\ \A t \in Needs("seq", sc[l], 0) : InCode(c, t) \/ Deeper(pc, sc, l, t)

-----------------------------------------------------------------------------
(* The invariant *)

\* CallDepth is the level that the next item is at, or was never 0: then no
\* call can be visited without leaving the bounds.
Aligned ==
  \/ todo # <<>> => CallDepth = Enters(todo[1]) /\ CallDepth <= Len(ParallelCalls)
  \/ /\ ParallelCalls = <<>> /\ CallDepth > 0 /\ CallDepth \in StartDepths
     /\ \A p \in 1 .. Len(todo) : todo[p].op \notin Calling

GenerateInv ==
  /\ TraversalOK(todo)
  /\ Covered(todo, code, ParallelCalls, SequentialCall)
  /\ Aligned
  /\ todo # <<>> /\ todo[1].op \in Direct => ParallelCalls = <<>>
  /\ todo = <<>> => code # <<>> /\ code[Len(code)].do \in {"exit", "goto"}
  /\ GuardIn(todo, 1) <=> ~Past(code, Len(code) + 1)
  /\ LevelsOK(ParallelCalls, SequentialCall, code)
  /\ CodeOK(code)

\* After n statements of the code the results r are there, the calls p are
\* pending and the arguments f are written: what those statements made.
Progress(n, r, p, f) ==
  /\ \A s \in 1 .. n :
       /\ code[s].do = "seq" => code[s].n \in r
       /\ code[s].do = "arg" => <<code[s].n, code[s].i>> \in f
       /\ code[s].do = "spawn" => IF YieldIn(code, s + 1, n) THEN code[s].n \in r ELSE code[s].n \in p
  /\ \A m \in p :
       /\ Inner(m) \subseteq r
       /\ \E s \in 1 .. n : code[s].do = "spawn" /\ code[s].n = m /\ ~YieldIn(code, s + 1, n)
  /\ \A m \in CallIds(case), i \in 1 .. Slots : <<m, i>> \in f => Outermost(m, i) \subseteq r

RunInv ==
  /\ CodeOK(code)
  /\ next <= Len(code)
  /\ code[Len(code)].do \in {"exit", "goto"}
  /\ Progress(next - 1, ready, pending, filled)

OptItem(x) ==
  /\ x \in ItemSet
  /\ x.op \in {"call", "open", "close"} => x.n \in CallIds(case)
OptItems(s) == s \in Seq(ItemSet) /\ \A p \in 1 .. Len(s) : OptItem(s[p])

PlanTypes ==
  /\ case \in Cases
  /\ phase \in Phases
  /\ DoParallel \in [CallIds(case) -> BOOLEAN]
  /\ Calls \in Seq(Nat)
  /\ LastRecCall \in Seq({Null} \cup CallIds(case)) /\ Len(LastRecCall) = Len(Calls)
  /\ LastOtherCall \in Seq({Null} \cup CallIds(case)) /\ Len(LastOtherCall) = Len(Calls)
  /\ OptDepth \in Int /\ OptDepth <= Len(Calls)
  /\ LevelTypes(ParallelCalls, SequentialCall)
  /\ CallDepth \in Nat
  /\ code \in Seq(StatementSet)
  /\ next \in 1 .. Len(code) + 1
  /\ ready \subseteq CallIds(case)
  /\ pending \subseteq CallIds(case)

NotRun == next = 1 /\ ready = {} /\ pending = {} /\ filled = {}

PlanInv ==
  /\ PlanTypes
  /\ phase = "optimize" =>
       /\ OptItems(todo)
       /\ ParallelCalls = <<>> /\ code = <<>> /\ CallDepth \in StartDepths
  /\ phase = "generate" => GenerateInv
  /\ BoundsFollowStart
  /\ phase = "run" => RunInv
  /\ phase \in {"optimize", "generate", "failed", "undefined"} => NotRun

-----------------------------------------------------------------------------
(* Cases *)

LEMMA CaseFacts ==
  ASSUME case \in Cases
  PROVE  /\ Slots \in Nat
         /\ Len(case.at) \in Nat /\ CallIds(case) = 1 .. Len(case.at) /\ CallIds(case) \subseteq Nat
         /\ \A k \in CallIds(case) :
              /\ case.at[k] \in [in : Nat, slot : Nat]
              /\ case.at[k].in \in Nat /\ case.at[k].in < k
              /\ case.at[k].in # Top => case.at[k].in \in CallIds(case)
              /\ case.at[k].in = Top => case.at[k].slot \in {0, 1}
              /\ case.at[k].in # Top => case.at[k].slot \in 0 .. Slots
              /\ case.rec[k] \in BOOLEAN
              /\ case.rec[k] => Kids(case, k, 0) = <<>>
         /\ case.bare \in BOOLEAN
         /\ case.bare => Len(Kids(case, Top, 1)) = 1
<1>1. case.at \in Seq([in : Nat, slot : Nat])
  BY CasesAssumption
<1>2. Len(case.at) \in Nat /\ CallIds(case) = 1 .. Len(case.at)
  BY <1>1 DEF CallIds
<1>3. ASSUME NEW k \in CallIds(case)
      PROVE  /\ case.at[k] \in [in : Nat, slot : Nat]
             /\ case.at[k].in \in Nat /\ case.at[k].in < k
             /\ case.at[k].in # Top => case.at[k].in \in CallIds(case)
             /\ case.at[k].in = Top => case.at[k].slot \in {0, 1}
             /\ case.at[k].in # Top => case.at[k].slot \in 0 .. Slots
  <2>1. case.at[k] \in [in : Nat, slot : Nat]
    <3>1. \A S, q : q \in Seq(S) => \A j \in 1 .. Len(q) : q[j] \in S
      OBVIOUS
    <3>2. k \in 1 .. Len(case.at)
      BY <1>2
    <3> QED BY <1>1, <3>1, <3>2, Zenon
  <2>2. case.at[k].in < k
    BY CasesAssumption
  <2>3. case.at[k].slot \in IF case.at[k].in = Top THEN {0, 1} ELSE 0 .. Slots
    BY CasesAssumption
  <2>4. case.at[k].in \in Nat
    BY <2>1
  <2>5. k \in 1 .. Len(case.at)
    BY <1>2
  <2>6. case.at[k].in # Top => case.at[k].in \in 1 .. Len(case.at)
    BY <2>2, <2>4, <2>5, <1>2 DEF Top
  <2> QED BY <2>1, <2>2, <2>3, <2>4, <2>6, <1>2
<1>4. ASSUME NEW k \in CallIds(case)
      PROVE  case.rec[k] \in BOOLEAN /\ (case.rec[k] => Kids(case, k, 0) = <<>>)
  BY CasesAssumption
<1>5. Slots \in Nat /\ case.bare \in BOOLEAN /\ (case.bare => Len(Kids(case, Top, 1)) = 1)
  BY CasesAssumption
<1>6. CallIds(case) \subseteq Nat
  BY <1>2
<1> QED BY <1>2, <1>3, <1>4, <1>5, <1>6

\* The calls of a slot, each once and from the left.
LEMMA KidsFacts ==
  ASSUME case \in Cases, NEW m, NEW i
  PROVE  /\ Kids(case, m, i) \in Seq(CallIds(case))
         /\ Outermost(m, i) = {k \in CallIds(case) : case.at[k] = [in |-> m, slot |-> i]}
         /\ \A a, b \in DOMAIN Kids(case, m, i) : a < b => Kids(case, m, i)[a] < Kids(case, m, i)[b]
<1> DEFINE n == Len(case.at)
           Is_(k) == case.at[k] = [in |-> m, slot |-> i]
           Def(v, k) == IF Is_(k) THEN Append(v, k) ELSE v
           kids[k \in 0 .. n] == IF k = 0 THEN <<>> ELSE Def(kids[k - 1], k)
<1>1. n \in Nat /\ CallIds(case) = 1 .. n
  BY CaseFacts
<1>2. FiniteNatInductiveDefHypothesis(kids, <<>>, Def, 0, n)
  BY DEF FiniteNatInductiveDefHypothesis
<1>3. FiniteNatInductiveDefConclusion(kids, <<>>, Def, 0, n)
  BY <1>1, <1>2, FiniteNatInductiveDef
<1>4. kids = [k \in 0 .. n |-> IF k = 0 THEN <<>> ELSE Def(kids[k - 1], k)]
  BY <1>3 DEF FiniteNatInductiveDefConclusion
<1>5. Kids(case, m, i) = kids[n]
  BY DEF Kids
<1> HIDE DEF kids, n, Is_
<1> DEFINE Good(k) ==
             /\ kids[k] \in Seq(1 .. n)
             /\ \A e : e \in Elements(kids[k]) <=> e \in 1 .. k /\ Is_(e)
             /\ \A a, b \in DOMAIN kids[k] : a < b => kids[k][a] < kids[k][b]
           G == {k \in Nat : k <= n => Good(k)}
<1>6. 0 \in G
  <2>1. kids[0] = <<>>
    BY <1>1, <1>4
  <2>2. DOMAIN kids[0] = {}
    BY <2>1
  <2>3. Good(0)
    BY <2>1, <2>2 DEF Elements
  <2> HIDE DEF Good
  <2> QED BY <2>3
<1>7. ASSUME NEW k \in Nat, k \in G PROVE k + 1 \in G
  <2>1. SUFFICES ASSUME k + 1 <= n PROVE Good(k + 1)
    OBVIOUS
  <2>2. k + 1 \in 1 .. n /\ (k + 1) - 1 = k /\ k <= n /\ k + 1 # 0 /\ k + 1 \in 0 .. n
    BY <2>1, <1>1
  <2>3. Good(k)
    BY <1>7, <2>2
  <2>4. kids[k + 1] = IF Is_(k + 1) THEN Append(kids[k], k + 1) ELSE kids[k]
    <3>1. kids[k + 1] = Def(kids[(k + 1) - 1], k + 1)
      BY <1>4, <2>2, Zenon
    <3> QED BY <3>1, <2>2
  <2>5. PICK s \in Seq(1 .. n) : s = kids[k]
    BY <2>3
  <2>6. CASE Is_(k + 1)
    <3>1. kids[k + 1] = Append(s, k + 1)
      BY <2>4, <2>5, <2>6
    <3> DEFINE t == Append(s, k + 1)
    <3>2. t \in Seq(1 .. n) /\ Len(s) \in Nat /\ DOMAIN s = 1 .. Len(s) /\ DOMAIN t = 1 .. Len(s) + 1
      BY <2>2
    <3>3. t[Len(s) + 1] = k + 1 /\ \A a \in 1 .. Len(s) : t[a] = s[a]
      BY <2>2
    <3> HIDE DEF t
    <3>4. \A a \in 1 .. Len(s) : s[a] \in 1 .. k
      BY <2>3, <2>5, <3>2 DEF Elements
    <3>5. ASSUME NEW e PROVE e \in Elements(t) <=> e \in 1 .. k + 1 /\ Is_(e)
      <4>1. e \in Elements(t) <=> e \in Elements(s) \/ e = k + 1
        BY <3>2, <3>3 DEF Elements
      <4>2. e \in Elements(s) <=> e \in 1 .. k /\ Is_(e)
        BY <2>3, <2>5
      <4> QED BY <4>1, <4>2, <2>6
    <3>6. ASSUME NEW a \in DOMAIN t, NEW b \in DOMAIN t, a < b PROVE t[a] < t[b]
      <4>1. a \in 1 .. Len(s)
        BY <3>2, <3>6
      <4>2. CASE b \in 1 .. Len(s)
        <5>1. s[a] < s[b]
          BY <4>1, <4>2, <3>2, <3>6, <2>3, <2>5
        <5> QED BY <4>1, <4>2, <3>3, <5>1
      <4>3. CASE b = Len(s) + 1
        <5>1. s[a] \in 1 .. k
          BY <4>1, <3>4
        <5> QED BY <4>1, <4>3, <3>3, <5>1
      <4> QED BY <4>2, <4>3, <3>2
    <3> QED BY <3>1, <3>2, <3>5, <3>6 DEF t
  <2>7. CASE ~Is_(k + 1)
    <3>1. kids[k + 1] = kids[k]
      BY <2>4, <2>7
    <3>2. ASSUME NEW e PROVE e \in 1 .. k /\ Is_(e) <=> e \in 1 .. k + 1 /\ Is_(e)
      BY <2>7
    <3> QED BY <3>1, <3>2, <2>3
  <2> QED BY <2>6, <2>7
<1>8. \A k \in Nat : k \in G
  <2> HIDE DEF G
  <2> QED BY <1>6, <1>7, SimpleInduction
<1>9. Good(n)
  BY <1>1, <1>8
<1>10. Elements(kids[n]) = {k \in 1 .. n : Is_(k)}
  BY <1>9
<1> QED BY <1>1, <1>5, <1>9, <1>10 DEF Outermost, Is_

LEMMA OutermostIds ==
  ASSUME case \in Cases, NEW m, NEW i, NEW k \in Outermost(m, i)
  PROVE  k \in CallIds(case)
<1>1. Outermost(m, i) = {j \in CallIds(case) : case.at[j] = [in |-> m, slot |-> i]}
  BY KidsFacts
<1> QED BY <1>1

-----------------------------------------------------------------------------
(* Depth and Side *)

\* What follows a call from the outermost one that it is inside of.
LEMMA TreeRecursion ==
  ASSUME case \in Cases, NEW base \in [CallIds(case) -> Nat], NEW inc \in Nat
  PROVE  \E g \in [CallIds(case) -> Nat] : \A k \in CallIds(case) :
           g[k] = IF case.at[k].in = Top THEN base[k] ELSE g[case.at[k].in] + inc
<1> DEFINE n == Len(case.at)
           up == [k \in CallIds(case) |-> case.at[k].in]
           Follows(g, j) == g \in [1 .. j -> Nat]
                            /\ \A k \in 1 .. j : g[k] = IF up[k] = Top THEN base[k] ELSE g[up[k]] + inc
           G == {j \in Nat : j <= n => \E g : Follows(g, j)}
<1>1. n \in Nat /\ CallIds(case) = 1 .. n
  BY CaseFacts
<1>2. \A k \in 1 .. n : up[k] \in Nat /\ up[k] < k /\ (up[k] # Top => up[k] \in 1 .. k - 1)
  <2>1. ASSUME NEW k \in 1 .. n
        PROVE  up[k] \in Nat /\ up[k] < k /\ (up[k] # Top => up[k] \in 1 .. k - 1)
    <3>1. up[k] \in Nat /\ up[k] < k
      BY <1>1, CaseFacts
    <3> HIDE DEF up
    <3> QED BY <3>1, <1>1 DEF Top
  <2> QED BY <2>1
<1> HIDE DEF up, n
<1>3. 0 \in G
  <2>1. Follows([k \in 1 .. 0 |-> 0], 0)
    OBVIOUS
  <2> HIDE DEF Follows
  <2> QED BY <2>1
<1>4. ASSUME NEW j \in Nat, j \in G PROVE j + 1 \in G
  <2>1. SUFFICES ASSUME j + 1 <= n PROVE \E g : Follows(g, j + 1)
    OBVIOUS
  <2>2. j + 1 \in 1 .. n /\ j <= n
    BY <2>1, <1>1
  <2>3. PICK g : Follows(g, j)
    BY <1>4, <2>2
  <2> DEFINE new == IF up[j + 1] = Top THEN base[j + 1] ELSE g[up[j + 1]] + inc
             h == [k \in 1 .. j + 1 |-> IF k = j + 1 THEN new ELSE g[k]]
  <2>4. new \in Nat
    <3>1. base[j + 1] \in Nat
      BY <1>1, <2>2
    <3>2. up[j + 1] # Top => up[j + 1] \in 1 .. j
      BY <1>2, <2>2
    <3>3. up[j + 1] # Top => g[up[j + 1]] \in Nat
      BY <2>3, <3>2
    <3> QED BY <3>1, <3>3
  <2>5. h \in [1 .. j + 1 -> Nat]
    <3> HIDE DEF new
    <3> QED BY <2>3, <2>4
  <2>6. ASSUME NEW k \in 1 .. j + 1
        PROVE  h[k] = IF up[k] = Top THEN base[k] ELSE h[up[k]] + inc
    <3>1. up[k] # Top => up[k] \in 1 .. k - 1
      BY <1>2, <2>2, <1>1
    <3>2. up[k] # Top => h[up[k]] = g[up[k]]
      BY <3>1
    <3>3. CASE k = j + 1
      BY <3>2, <3>3
    <3>4. CASE k # j + 1
      <4>1. k \in 1 .. j /\ h[k] = g[k]
        BY <3>4
      <4> QED BY <4>1, <3>2, <2>3
    <3> QED BY <3>3, <3>4
  <2>7. Follows(h, j + 1)
    <3> HIDE DEF h
    <3> QED BY <2>5, <2>6
  <2> HIDE DEF Follows
  <2> QED BY <2>7
<1>5. \A j \in Nat : j \in G
  <2> HIDE DEF G
  <2> QED BY <1>3, <1>4, SimpleInduction
<1>6. PICK g : Follows(g, n)
  <2>1. n \in G
    <3> HIDE DEF G
    <3> QED BY <1>1, <1>5
  <2>2. n <= n
    BY <1>1
  <2> HIDE DEF Follows
  <2> QED BY <2>1, <2>2
<1>7. \A k \in CallIds(case) : up[k] = case.at[k].in
  BY DEF up
<1>8. g \in [CallIds(case) -> Nat]
  BY <1>1, <1>6
<1>9. \A k \in CallIds(case) : g[k] = IF case.at[k].in = Top THEN base[k] ELSE g[case.at[k].in] + inc
  BY <1>1, <1>6, <1>7
<1> QED BY <1>8, <1>9

LEMMA DepthFacts ==
  ASSUME case \in Cases
  PROVE  /\ Depth \in [CallIds(case) -> Nat]
         /\ \A k \in CallIds(case) :
              Depth[k] = IF case.at[k].in = Top
                           THEN IF TailRec(case) /\ case.at[k].slot = 1 THEN 0 ELSE 1
                           ELSE Depth[case.at[k].in] + 1
<1> DEFINE base == [k \in CallIds(case) |-> IF TailRec(case) /\ case.at[k].slot = 1 THEN 0 ELSE 1]
           Def(d, k) == IF case.at[k].in = Top
                          THEN IF TailRec(case) /\ case.at[k].slot = 1 THEN 0 ELSE 1
                          ELSE d[case.at[k].in] + 1
           depth[k \in CallIds(case)] == Def(depth, k)
<1>1. base \in [CallIds(case) -> Nat]
  OBVIOUS
<1>2. PICK g \in [CallIds(case) -> Nat] : \A k \in CallIds(case) :
        g[k] = IF case.at[k].in = Top THEN base[k] ELSE g[case.at[k].in] + 1
  <2> HIDE DEF base
  <2> QED BY <1>1, TreeRecursion
<1>3. \A k \in CallIds(case) : g[k] = Def(g, k)
  BY <1>2
<1>4. g = [k \in CallIds(case) |-> Def(g, k)]
  BY <1>2, <1>3
<1>5. depth = [k \in CallIds(case) |-> Def(depth, k)]
  <2> HIDE DEF Def
  <2> QED BY <1>4
<1>6. Depth = depth
  BY DEF Depth
<1> HIDE DEF depth
<1>7. \A k \in CallIds(case) : depth[k] = Def(depth, k)
  BY <1>5
<1> DEFINE T == {k \in Nat : k \in CallIds(case) => depth[k] \in Nat}
<1>8. ASSUME NEW k \in Nat, \A j \in Nat : j < k => j \in T PROVE k \in T
  <2>1. SUFFICES ASSUME k \in CallIds(case) PROVE depth[k] \in Nat
    OBVIOUS
  <2>2. case.at[k].in # Top => depth[case.at[k].in] \in Nat
    BY <1>8, <2>1, CaseFacts
  <2> QED BY <2>1, <2>2, <1>7
<1>9. \A k \in CallIds(case) : depth[k] \in Nat
  <2>1. \A k \in Nat : k \in T
    <3> HIDE DEF T
    <3> QED BY <1>8, StrongInduction
  <2> QED BY <2>1, CaseFacts
<1>10. depth \in [CallIds(case) -> Nat]
  BY <1>5, <1>9
<1> QED BY <1>6, <1>7, <1>10

LEMMA SideFacts ==
  ASSUME case \in Cases
  PROVE  /\ Side \in [CallIds(case) -> {0, 1}]
         /\ \A k \in CallIds(case) :
              Side[k] = IF case.at[k].in = Top THEN case.at[k].slot ELSE Side[case.at[k].in]
<1> DEFINE base == [k \in CallIds(case) |-> case.at[k].slot]
           Def(d, k) == IF case.at[k].in = Top THEN case.at[k].slot ELSE d[case.at[k].in]
           side[k \in CallIds(case)] == Def(side, k)
<1>1. base \in [CallIds(case) -> Nat]
  BY CaseFacts
<1>2. PICK g \in [CallIds(case) -> Nat] : \A k \in CallIds(case) :
        g[k] = IF case.at[k].in = Top THEN base[k] ELSE g[case.at[k].in] + 0
  <2> HIDE DEF base
  <2> QED BY <1>1, TreeRecursion
<1>3. ASSUME NEW k \in CallIds(case) PROVE g[k] = Def(g, k)
  <2>1. case.at[k].in # Top => g[case.at[k].in] \in Nat
    BY <1>2, CaseFacts
  <2> QED BY <1>2, <2>1
<1>4. g = [k \in CallIds(case) |-> Def(g, k)]
  BY <1>2, <1>3
<1>5. side = [k \in CallIds(case) |-> Def(side, k)]
  <2> HIDE DEF Def
  <2> QED BY <1>4
<1>6. Side = side
  BY DEF Side
<1> HIDE DEF side
<1>7. \A k \in CallIds(case) : side[k] = Def(side, k)
  BY <1>5
<1> DEFINE T == {k \in Nat : k \in CallIds(case) => side[k] \in {0, 1}}
<1>8. ASSUME NEW k \in Nat, \A j \in Nat : j < k => j \in T PROVE k \in T
  <2>1. SUFFICES ASSUME k \in CallIds(case) PROVE side[k] \in {0, 1}
    OBVIOUS
  <2>2. case.at[k].in # Top => side[case.at[k].in] \in {0, 1}
    BY <1>8, <2>1, CaseFacts
  <2>3. case.at[k].in = Top => case.at[k].slot \in {0, 1}
    BY <2>1, CaseFacts
  <2> QED BY <2>1, <2>2, <2>3, <1>7
<1>9. \A k \in CallIds(case) : side[k] \in {0, 1}
  <2>1. \A k \in Nat : k \in T
    <3> HIDE DEF T
    <3> QED BY <1>8, StrongInduction
  <2> QED BY <2>1, CaseFacts
<1>10. side \in [CallIds(case) -> {0, 1}]
  BY <1>5, <1>9
<1> QED BY <1>6, <1>7, <1>10

\* The calls inside another, and the outermost ones.
LEMMA InnerFacts ==
  ASSUME case \in Cases, NEW m \in CallIds(case), NEW k \in CallIds(case)
  PROVE  /\ k \in Inner(m) <=> \E i \in 0 .. Slots : k \in Outermost(m, i)
         /\ \A i : k \in Outermost(m, i) => k \in Inner(m)
         /\ k \in Inner(m) => Depth[k] = Depth[m] + 1 /\ Side[k] = Side[m]
<1>1. m # Top
  BY CaseFacts DEF Top
<1>2. \A i : k \in Outermost(m, i) <=> case.at[k] = [in |-> m, slot |-> i]
  BY KidsFacts
<1>3. case.at[k] = [in |-> case.at[k].in, slot |-> case.at[k].slot]
  <2>1. case.at[k] \in [in : Nat, slot : Nat]
    BY CaseFacts
  <2> QED BY <2>1
<1>4. k \in Inner(m) => case.at[k].slot \in 0 .. Slots /\ k \in Outermost(m, case.at[k].slot)
  BY <1>1, <1>2, <1>3, CaseFacts DEF Inner
<1>5. \A i : k \in Outermost(m, i) => k \in Inner(m)
  <2>1. ASSUME NEW i, k \in Outermost(m, i) PROVE k \in Inner(m)
    <3>1. case.at[k] = [in |-> m, slot |-> i]
      BY <1>2, <2>1
    <3>2. case.at[k].in = m
      BY <3>1
    <3> QED BY <3>2 DEF Inner
  <2> QED BY <2>1
<1>6. k \in Inner(m) => Depth[k] = Depth[m] + 1 /\ Side[k] = Side[m]
  BY <1>1, DepthFacts, SideFacts DEF Inner
<1> QED BY <1>4, <1>5, <1>6

LEMMA OutermostFacts ==
  ASSUME case \in Cases, NEW i \in {0, 1}, NEW k \in Outermost(Top, i)
  PROVE  /\ k \in CallIds(case)
         /\ Side[k] = i
         /\ Depth[k] = IF TailRec(case) /\ i = 1 THEN 0 ELSE 1
<1>1. k \in CallIds(case) /\ case.at[k] = [in |-> Top, slot |-> i]
  BY KidsFacts
<1>2. case.at[k].in = Top /\ case.at[k].slot = i
  BY <1>1
<1> QED BY <1>1, <1>2, DepthFacts, SideFacts

\* A tail call is the only outermost call of the result.
LEMMA TailFacts ==
  ASSUME case \in Cases, TailRec(case)
  PROVE  /\ TailHead \in CallIds(case)
         /\ Outermost(Top, 1) = {TailHead}
         /\ case.rec[TailHead] /\ Kids(case, TailHead, 0) = <<>> /\ Outermost(TailHead, 0) = {}
         /\ Depth[TailHead] = 0 /\ Side[TailHead] = 1
<1> DEFINE s == Kids(case, Top, 1)
<1>1. s \in Seq(CallIds(case)) /\ Len(s) = 1
  BY KidsFacts DEF TailRec
<1>2. Elements(s) = {Head(s)} /\ Head(s) \in CallIds(case)
  <2> HIDE DEF s
  <2> QED BY <1>1 DEF Elements
<1>3. TailHead = Head(s) /\ Outermost(Top, 1) = Elements(s)
  BY DEF TailHead, Outermost
<1>4. TailHead \in CallIds(case) /\ Outermost(Top, 1) = {TailHead}
  BY <1>2, <1>3
<1>5. case.rec[TailHead]
  BY DEF TailRec, TailHead
<1>6. Kids(case, TailHead, 0) = <<>>
  BY <1>4, <1>5, CaseFacts
<1>7. Outermost(TailHead, 0) = {}
  BY <1>6 DEF Outermost, Elements
<1>8. Depth[TailHead] = 0 /\ Side[TailHead] = 1
  BY <1>4, OutermostFacts
<1> QED BY <1>4, <1>5, <1>6, <1>7, <1>8

-----------------------------------------------------------------------------
(* The visits of the calls that a call contains *)

LEMMA ItemFacts ==
  ASSUME NEW op \in Ops, NEW n \in Nat, NEW i \in Nat
  PROVE  /\ Item(op, n, i) \in ItemSet
         /\ Item(op, n, i).op = op /\ Item(op, n, i).n = n /\ Item(op, n, i).i = i
BY DEF Item, ItemSet

LEMMA VisitsFacts ==
  ASSUME case \in Cases, NEW m, NEW i
  PROVE  /\ Visits(Kids(case, m, i)) \in Seq(ItemSet)
         /\ \A p \in 1 .. Len(Visits(Kids(case, m, i))) :
              \E k \in Outermost(m, i) : Visits(Kids(case, m, i))[p] = Item("call", k, 0)
         /\ \A k \in Outermost(m, i) :
              \E p \in 1 .. Len(Visits(Kids(case, m, i))) : Visits(Kids(case, m, i))[p] = Item("call", k, 0)
<1> DEFINE s == Kids(case, m, i)
           v == Visits(s)
<1>1. s \in Seq(CallIds(case)) /\ Outermost(m, i) = Elements(s)
  BY KidsFacts DEF Outermost
<1> HIDE DEF s
<1>2. DOMAIN s = 1 .. Len(s) /\ Len(s) \in Nat /\ \A p \in 1 .. Len(s) : s[p] \in CallIds(case)
  BY <1>1
<1>3. v = [p \in 1 .. Len(s) |-> Item("call", s[p], 0)]
  BY <1>2 DEF Visits
<1>4. \A p \in 1 .. Len(s) : Item("call", s[p], 0) \in ItemSet
  <2>1. ASSUME NEW p \in 1 .. Len(s) PROVE Item("call", s[p], 0) \in ItemSet
    <3>1. PICK k \in Nat : k = s[p]
      BY <1>2, CaseFacts
    <3>2. Item("call", k, 0) \in ItemSet
      BY ItemFacts DEF Ops
    <3> QED BY <3>1, <3>2
  <2> QED BY <2>1
<1> HIDE DEF v
<1>5. v \in Seq(ItemSet) /\ Len(v) = Len(s) /\ \A p \in 1 .. Len(s) : v[p] = Item("call", s[p], 0)
  <2>1. v \in [1 .. Len(s) -> ItemSet]
    BY <1>3, <1>4
  <2> QED BY <2>1, <1>2, <1>3
<1>6. \A p \in 1 .. Len(v) : \E k \in Elements(s) : v[p] = Item("call", k, 0)
  BY <1>2, <1>5 DEF Elements
<1>7. \A k \in Elements(s) : \E p \in 1 .. Len(v) : v[p] = Item("call", k, 0)
  BY <1>2, <1>5 DEF Elements
<1> QED BY <1>1, <1>5, <1>6, <1>7 DEF v, s

LEMMA ArgVisitsFacts ==
  ASSUME case \in Cases, NEW m
  PROVE  /\ ArgVisits(m) \in Seq(ItemSet)
         /\ \A p \in 1 .. Len(ArgVisits(m)) :
              \E i \in 1 .. Slots : \E k \in Outermost(m, i) : ArgVisits(m)[p] = Item("call", k, 0)
         /\ \A i \in 1 .. Slots : \A k \in Outermost(m, i) :
              \E p \in 1 .. Len(ArgVisits(m)) : ArgVisits(m)[p] = Item("call", k, 0)
<1> DEFINE ss == [i \in 1 .. Slots |-> Visits(Kids(case, m, i))]
           f == FlattenSeq(ss)
<1>1. Slots \in Nat
  BY CaseFacts
<1>2. \A i \in 1 .. Slots :
        /\ ss[i] \in Seq(ItemSet)
        /\ \A p \in 1 .. Len(ss[i]) : \E k \in Outermost(m, i) : ss[i][p] = Item("call", k, 0)
        /\ \A k \in Outermost(m, i) : \E p \in 1 .. Len(ss[i]) : ss[i][p] = Item("call", k, 0)
  BY VisitsFacts
<1>3. ss \in [1 .. Slots -> Seq(ItemSet)]
  BY <1>2
<1>4. ArgVisits(m) = f
  BY DEF ArgVisits
<1> HIDE DEF ss
<1>5. ss \in Seq(Seq(ItemSet)) /\ Len(ss) = Slots
  BY <1>1, <1>3
<1>6. f \in Seq(ItemSet)
  BY <1>5, FlattenLayout
<1>7. PICK off : Layout(ss, f, off)
  BY <1>5, FlattenLayout
<1> HIDE DEF f
<1>8. /\ \A i \in 1 .. Slots : \A j \in 1 .. Len(ss[i]) :
           off[i - 1] + j \in 1 .. Len(f) /\ f[off[i - 1] + j] = ss[i][j]
      /\ \A q \in 1 .. Len(f) : \E i \in 1 .. Slots : \E j \in 1 .. Len(ss[i]) :
           q = off[i - 1] + j /\ f[q] = ss[i][j]
  <2>1. Places(ss, f, off)
    BY <1>5, <1>6, <1>7, LayoutPlaces
  <2> QED BY <2>1, <1>5, Zenon DEF Places
<1>9. \A p \in 1 .. Len(f) : \E i \in 1 .. Slots : \E k \in Outermost(m, i) : f[p] = Item("call", k, 0)
  <2>1. ASSUME NEW p \in 1 .. Len(f)
        PROVE  \E i \in 1 .. Slots : \E k \in Outermost(m, i) : f[p] = Item("call", k, 0)
    <3>1. PICK i \in 1 .. Slots : \E j \in 1 .. Len(ss[i]) : p = off[i - 1] + j /\ f[p] = ss[i][j]
      BY <1>8
    <3>2. PICK j \in 1 .. Len(ss[i]) : f[p] = ss[i][j]
      BY <3>1
    <3>3. PICK k \in Outermost(m, i) : ss[i][j] = Item("call", k, 0)
      BY <1>2
    <3> QED BY <3>2, <3>3
  <2> QED BY <2>1
<1>10. \A i \in 1 .. Slots : \A k \in Outermost(m, i) : \E p \in 1 .. Len(f) : f[p] = Item("call", k, 0)
  <2>1. ASSUME NEW i \in 1 .. Slots, NEW k \in Outermost(m, i)
        PROVE  \E p \in 1 .. Len(f) : f[p] = Item("call", k, 0)
    <3>1. PICK j \in 1 .. Len(ss[i]) : ss[i][j] = Item("call", k, 0)
      BY <1>2
    <3>2. off[i - 1] + j \in 1 .. Len(f) /\ f[off[i - 1] + j] = ss[i][j]
      BY <1>8
    <3> QED BY <3>1, <3>2
  <2> QED BY <2>1
<1> QED BY <1>4, <1>6, <1>9, <1>10

VisitsThen(v, m, i, rest) ==
  \E n \in Nat :
    /\ v \in Seq(ItemSet) /\ Len(v) = n + Len(rest)
    /\ \A p \in 1 .. n : \E k \in Outermost(m, i) : v[p] = Item("call", k, 0)
    /\ \A k \in Outermost(m, i) : \E p \in 1 .. n : v[p] = Item("call", k, 0)
    /\ \A p \in 1 .. Len(rest) : v[n + p] = rest[p]

LEMMA VisitsThenFacts ==
  ASSUME case \in Cases, NEW m, NEW i, NEW rest \in Seq(ItemSet),
         NEW v, v = Visits(Kids(case, m, i)) \o rest
  PROVE  VisitsThen(v, m, i, rest)
<1>1. PICK s \in Seq(ItemSet) : s = Visits(Kids(case, m, i))
  BY VisitsFacts
<1>2. /\ v \in Seq(ItemSet) /\ Len(v) = Len(s) + Len(rest) /\ Len(s) \in Nat
      /\ \A q \in 1 .. Len(s) : v[q] = s[q]
      /\ \A q \in 1 .. Len(rest) : v[Len(s) + q] = rest[q]
  BY <1>1
<1>3. /\ \A p \in 1 .. Len(s) : \E k \in Outermost(m, i) : s[p] = Item("call", k, 0)
      /\ \A k \in Outermost(m, i) : \E p \in 1 .. Len(s) : s[p] = Item("call", k, 0)
  BY <1>1, VisitsFacts
<1>4. ASSUME NEW p \in 1 .. Len(s) PROVE \E k \in Outermost(m, i) : v[p] = Item("call", k, 0)
  BY <1>2, <1>3
<1>5. ASSUME NEW k \in Outermost(m, i) PROVE \E p \in 1 .. Len(s) : v[p] = Item("call", k, 0)
  BY <1>2, <1>3
<1> QED BY <1>2, <1>4, <1>5, Zenon DEF VisitsThen

LEMMA ArgStatementsFacts ==
  ASSUME case \in Cases, NEW m \in CallIds(case)
  PROVE  /\ ArgStatements(m) \in Seq(ItemSet)
         /\ \A p \in 1 .. Len(ArgStatements(m)) : \E i \in 1 .. Slots :
              \/ \E k \in Outermost(m, i) : ArgStatements(m)[p] = Item("call", k, 0)
              \/ /\ ArgStatements(m)[p] = Item("arg", m, i)
                 /\ \A k \in Outermost(m, i) : \E q \in 1 .. p - 1 : ArgStatements(m)[q] = Item("call", k, 0)
         /\ \A i \in 1 .. Slots : \E p \in 1 .. Len(ArgStatements(m)) : ArgStatements(m)[p] = Item("arg", m, i)
<1> DEFINE ss == [i \in 1 .. Slots |-> Append(Visits(Kids(case, m, i)), Item("arg", m, i))]
           f == FlattenSeq(ss)
<1>1. Slots \in Nat /\ m \in Nat
  BY CaseFacts
<1>2. ASSUME NEW i \in 1 .. Slots
      PROVE  /\ ss[i] \in Seq(ItemSet) /\ Len(ss[i]) \in 1 .. Len(ss[i])
             /\ ss[i][Len(ss[i])] = Item("arg", m, i)
             /\ \A p \in 1 .. Len(ss[i]) : p # Len(ss[i]) =>
                  \E k \in Outermost(m, i) : ss[i][p] = Item("call", k, 0)
             /\ \A k \in Outermost(m, i) : \E p \in 1 .. Len(ss[i]) :
                  p < Len(ss[i]) /\ ss[i][p] = Item("call", k, 0)
  <2> DEFINE x == Item("arg", m, i)
             s == Visits(Kids(case, m, i))
  <2>1. x \in ItemSet
    BY <1>1, ItemFacts DEF Ops
  <2>2. s \in Seq(ItemSet)
    BY VisitsFacts
  <2>3. ss[i] = Append(s, x)
    OBVIOUS
  <2> HIDE DEF x, s, ss
  <2>4. Append(s, x) = s \o <<x>> /\ <<x>> \in Seq(ItemSet) /\ Len(<<x>>) = 1 /\ <<x>>[1] = x
    BY <2>1, <2>2
  <2>5. ss[i] = s \o <<x>>
    BY <2>3, <2>4
  <2>11. PICK r \in Seq(ItemSet), v \in {ss[i]} : r = <<x>> /\ v = ss[i]
    BY <2>4
  <2>12. v = Visits(Kids(case, m, i)) \o r
    BY <2>5, <2>11, Zenon DEF s
  <2>13. VisitsThen(v, m, i, r)
    BY <2>12, VisitsThenFacts
  <2>14. PICK n \in Nat :
           /\ v \in Seq(ItemSet) /\ Len(v) = n + Len(r)
           /\ \A p \in 1 .. n : \E k \in Outermost(m, i) : v[p] = Item("call", k, 0)
           /\ \A k \in Outermost(m, i) : \E p \in 1 .. n : v[p] = Item("call", k, 0)
           /\ \A p \in 1 .. Len(r) : v[n + p] = r[p]
    BY <2>13 DEF VisitsThen
  <2>6. /\ ss[i] \in Seq(ItemSet)
        /\ \A p \in 1 .. n : \E k \in Outermost(m, i) : ss[i][p] = Item("call", k, 0)
        /\ \A k \in Outermost(m, i) : \E p \in 1 .. n : ss[i][p] = Item("call", k, 0)
    BY <2>11, <2>14, Zenon
  <2>7. Len(ss[i]) = n + 1 /\ ss[i][n + 1] = x
    BY <2>4, <2>11, <2>14
  <2>8. \A p \in 1 .. Len(ss[i]) : p # Len(ss[i]) => p \in 1 .. n
    BY <2>7
  <2>9. \A p \in 1 .. n : p \in 1 .. Len(ss[i]) /\ p < Len(ss[i])
    BY <2>7
  <2>10. n + 1 \in 1 .. n + 1
    OBVIOUS
  <2> QED BY <2>6, <2>7, <2>8, <2>9, <2>10, Zenon DEF x
<1>3. ss \in [1 .. Slots -> Seq(ItemSet)]
  BY <1>2
<1>4. ArgStatements(m) = f
  BY DEF ArgStatements
<1> HIDE DEF ss
<1>5. ss \in Seq(Seq(ItemSet)) /\ Len(ss) = Slots
  BY <1>1, <1>3
<1>6. f \in Seq(ItemSet)
  BY <1>5, FlattenLayout
<1>7. PICK off : Layout(ss, f, off)
  BY <1>5, FlattenLayout
<1> HIDE DEF f
<1>8. /\ \A i \in 1 .. Slots : \A j \in 1 .. Len(ss[i]) :
           off[i - 1] + j \in 1 .. Len(f) /\ f[off[i - 1] + j] = ss[i][j]
      /\ \A q \in 1 .. Len(f) : \E i \in 1 .. Slots : \E j \in 1 .. Len(ss[i]) :
           q = off[i - 1] + j /\ f[q] = ss[i][j]
  <2>1. Places(ss, f, off)
    BY <1>5, <1>6, <1>7, LayoutPlaces
  <2> QED BY <2>1, <1>5, Zenon DEF Places
<1>9. ASSUME NEW p \in 1 .. Len(f)
      PROVE  \E i \in 1 .. Slots :
               \/ \E k \in Outermost(m, i) : f[p] = Item("call", k, 0)
               \/ /\ f[p] = Item("arg", m, i)
                  /\ \A k \in Outermost(m, i) : \E q \in 1 .. p - 1 : f[q] = Item("call", k, 0)
  <2>1. PICK i \in 1 .. Slots : \E j \in 1 .. Len(ss[i]) : p = off[i - 1] + j /\ f[p] = ss[i][j]
    BY <1>8
  <2>2. PICK j \in 1 .. Len(ss[i]) : p = off[i - 1] + j /\ f[p] = ss[i][j]
    BY <2>1
  <2>3. CASE j # Len(ss[i])
    <3>1. \E k \in Outermost(m, i) : f[p] = Item("call", k, 0)
      BY <1>2, <2>2, <2>3
    <3> QED BY <3>1
  <2>4. CASE j = Len(ss[i])
    <3>1. f[p] = Item("arg", m, i)
      BY <1>2, <2>2, <2>4
    <3>2. ASSUME NEW k \in Outermost(m, i) PROVE \E q \in 1 .. p - 1 : f[q] = Item("call", k, 0)
      <4>1. PICK h \in 1 .. Len(ss[i]) : h < Len(ss[i]) /\ ss[i][h] = Item("call", k, 0)
        BY <1>2
      <4>2. off[i - 1] + h \in 1 .. Len(f) /\ f[off[i - 1] + h] = Item("call", k, 0)
        BY <1>8, <4>1
      <4>3. off[i - 1] + h < p
        <5>1. i - 1 \in 0 .. Slots
          BY <1>1
        <5>2. off[i - 1] \in Nat
          BY <5>1, <1>5, <1>7 DEF Layout
        <5> QED BY <5>2, <4>1, <2>2, <2>4
      <4>4. off[i - 1] + h \in 1 .. p - 1
        BY <4>2, <4>3, <1>6
      <4> QED BY <4>2, <4>4
    <3> QED BY <3>1, <3>2
  <2> QED BY <2>3, <2>4
<1>10. ASSUME NEW i \in 1 .. Slots PROVE \E p \in 1 .. Len(f) : f[p] = Item("arg", m, i)
  <2>1. PICK h \in 1 .. Len(ss[i]) : ss[i][h] = Item("arg", m, i)
    BY <1>2
  <2>2. off[i - 1] + h \in 1 .. Len(f) /\ f[off[i - 1] + h] = Item("arg", m, i)
    BY <1>8, <2>1
  <2> QED BY <2>2
<1> QED BY <1>4, <1>6, <1>9, <1>10, Zenon

LEMMA NeedsFacts ==
  ASSUME NEW m, NEW i
  PROVE  /\ Needs("call", m, i) = {} /\ Needs("output", m, i) = {} /\ Needs("yield", m, i) = {}
         /\ \A op \in {"arg", "assign", "guard", "exit"} :
              Needs(op, m, i) = {<<k, 0>> : k \in Outermost(m, i)}
         /\ Needs("goto", m, i) = {<<k, 0>> : k \in Inner(m)}
         /\ Needs("spawn", m, i) = {<<k, 0>> : k \in Outermost(m, 0)} \cup {<<m, j>> : j \in 1 .. Slots}
         /\ Needs("seq", m, i) = {<<k, 0>> : k \in UNION {Outermost(m, j) : j \in 0 .. Slots}}
BY DEF Needs, Reads

LEMMA MakesFacts ==
  ASSUME NEW m, NEW i
  PROVE  /\ \A op \in {"call", "spawn", "seq", "arg"} : Makes(op, m, i) = {<<m, i>>}
         /\ \A op \in Direct \cup {"output", "yield"} : Makes(op, m, i) = {}
BY DEF Makes, Direct

\* What the visit of call m comes to: the calls in it and its arguments, then
\* the call itself, with all it needs made before.
BlockOK(x, m, op) ==
  /\ x \in Seq(ItemSet) /\ Len(x) >= 1
  /\ x[Len(x)] = Item(op, m, 0)
  /\ \A p \in 1 .. Len(x) - 1 :
       \/ \E k \in Inner(m) : x[p] = Item("call", k, 0)
       \/ \E i \in 1 .. Slots : x[p] = Item("arg", m, i)
  /\ \A p \in 1 .. Len(x) : \A t \in NeedsItem(x[p]) :
       \E q \in 1 .. p - 1 : t \in MakesItem(x[q])

LEMMA ParallelBlock ==
  ASSUME case \in Cases, NEW m \in CallIds(case),
         NEW x, x = ArgStatements(m) \o Visits(Kids(case, m, 0)) \o <<Item("spawn", m, 0)>>
  PROVE  BlockOK(x, m, "spawn")
<1> DEFINE s == ArgStatements(m)
           last == Item("spawn", m, 0)
           rest == <<last>>
           v == Visits(Kids(case, m, 0)) \o rest
<1>1. m \in Nat /\ Slots \in Nat
  BY CaseFacts
<1>2. last \in ItemSet
  BY <1>1, ItemFacts DEF Ops
<1>3. rest \in Seq(ItemSet) /\ Len(rest) = 1 /\ rest[1] = last
  <2> HIDE DEF last
  <2> QED BY <1>2
<1>4. s \in Seq(ItemSet)
  BY ArgStatementsFacts
<1>5. VisitsThen(v, m, 0, rest)
  <2> HIDE DEF rest
  <2> QED BY <1>3, VisitsThenFacts
<1> HIDE DEF rest
<1>6. PICK n \in Nat :
        /\ v \in Seq(ItemSet) /\ Len(v) = n + Len(rest)
        /\ \A p \in 1 .. n : \E k \in Outermost(m, 0) : v[p] = Item("call", k, 0)
        /\ \A k \in Outermost(m, 0) : \E p \in 1 .. n : v[p] = Item("call", k, 0)
        /\ \A p \in 1 .. Len(rest) : v[n + p] = rest[p]
  <2> HIDE DEF v
  <2> QED BY <1>5 DEF VisitsThen
<1>7. Visits(Kids(case, m, 0)) \in Seq(ItemSet)
  BY VisitsFacts
<1>8. x = s \o v
  <2> HIDE DEF s
  <2>1. PICK b \in Seq(ItemSet) : b = Visits(Kids(case, m, 0))
    BY <1>7
  <2>2. (s \o b) \o rest = s \o (b \o rest)
    BY <1>3, <1>4
  <2> QED BY <2>1, <2>2 DEF s, rest
<1> HIDE DEF s, v
<1>9. PICK a \in Nat : a = Len(s)
  BY <1>4
<1>10. /\ x \in Seq(ItemSet) /\ Len(x) = a + n + 1
       /\ \A q \in 1 .. a : x[q] = s[q]
       /\ \A q \in 1 .. n + 1 : x[a + q] = v[q]
  <2>1. Len(v) = n + 1
    BY <1>3, <1>6
  <2>2. PICK u \in Seq(ItemSet), w \in Seq(ItemSet) : u = v /\ w = s
    BY <1>4, <1>6
  <2>3. /\ w \o u \in Seq(ItemSet) /\ Len(w \o u) = Len(w) + Len(u)
        /\ \A q \in 1 .. Len(w) : (w \o u)[q] = w[q]
        /\ \A q \in 1 .. Len(u) : (w \o u)[Len(w) + q] = u[q]
    BY ConcatFacts
  <2>4. x = w \o u /\ Len(w) = a /\ Len(u) = n + 1
    BY <1>8, <1>9, <2>1, <2>2
  <2>5. Len(x) = a + n + 1
    <3>1. Len(x) = a + (n + 1)
      BY <2>3, <2>4, Zenon
    <3>2. a + (n + 1) = a + n + 1
      OBVIOUS
    <3> QED BY <3>1, <3>2, Zenon
  <2> QED BY <2>2, <2>3, <2>4, <2>5, Zenon
<1>11. x[a + n + 1] = last
  <2>1. n + 1 \in 1 .. n + 1 /\ a + (n + 1) = a + n + 1
    OBVIOUS
  <2>2. v[n + 1] = last
    BY <1>3, <1>6
  <2>3. x[a + (n + 1)] = v[n + 1]
    BY <1>10, <2>1
  <2> QED BY <2>1, <2>2, <2>3
<1>12. ASSUME NEW k \in Outermost(m, 0) PROVE \E q \in 1 .. a + n : x[q] = Item("call", k, 0)
  <2>1. PICK p \in 1 .. n : v[p] = Item("call", k, 0)
    BY <1>6
  <2>2. a + p \in 1 .. a + n /\ p \in 1 .. n + 1
    OBVIOUS
  <2>3. x[a + p] = v[p]
    BY <1>10, <2>2
  <2> QED BY <2>1, <2>2, <2>3
<1>13. ASSUME NEW i \in 1 .. Slots PROVE \E q \in 1 .. a + n : x[q] = Item("arg", m, i)
  <2>1. PICK p \in 1 .. a : s[p] = Item("arg", m, i)
    BY <1>9, ArgStatementsFacts DEF s
  <2>2. x[p] = s[p] /\ p \in 1 .. a + n
    BY <1>10
  <2> QED BY <2>1, <2>2
<1>14. ASSUME NEW p \in 1 .. a
       PROVE  \E i \in 1 .. Slots :
                \/ \E k \in Outermost(m, i) : x[p] = Item("call", k, 0)
                \/ /\ x[p] = Item("arg", m, i)
                   /\ \A k \in Outermost(m, i) : \E q \in 1 .. p - 1 : x[q] = Item("call", k, 0)
  <2>1. PICK i \in 1 .. Slots :
                \/ \E k \in Outermost(m, i) : s[p] = Item("call", k, 0)
                \/ /\ s[p] = Item("arg", m, i)
                   /\ \A k \in Outermost(m, i) : \E q \in 1 .. p - 1 : s[q] = Item("call", k, 0)
    BY <1>9, ArgStatementsFacts DEF s
  <2>2. x[p] = s[p] /\ \A q \in 1 .. p - 1 : x[q] = s[q]
    BY <1>10
  <2> QED BY <2>1, <2>2
<1>15. ASSUME NEW p \in 1 .. n PROVE \E k \in Outermost(m, 0) : x[a + p] = Item("call", k, 0)
  <2>1. p \in 1 .. n + 1
    OBVIOUS
  <2>2. x[a + p] = v[p]
    BY <1>10, <2>1
  <2> QED BY <1>6, <2>2
<1>16. \A i, k : k \in Outermost(m, i) => k \in Inner(m)
  <2>1. ASSUME NEW i, NEW k \in Outermost(m, i) PROVE k \in Inner(m)
    <3>1. k \in CallIds(case)
      BY OutermostIds
    <3> QED BY <3>1, InnerFacts
  <2> QED BY <2>1
<1>17. ASSUME NEW p \in 1 .. Len(x) - 1
       PROVE  \/ \E k \in Inner(m) : x[p] = Item("call", k, 0)
              \/ \E i \in 1 .. Slots : x[p] = Item("arg", m, i)
  <2>1. CASE p \in 1 .. a
    BY <2>1, <1>14, <1>16
  <2>2. CASE p \notin 1 .. a
    <3>1. p - a \in 1 .. n /\ p = a + (p - a)
      BY <2>2, <1>10
    <3>2. \E k \in Outermost(m, 0) : x[a + (p - a)] = Item("call", k, 0)
      BY <3>1, <1>15
    <3> QED BY <3>1, <3>2, <1>16
  <2> QED BY <2>1, <2>2
<1>18. ASSUME NEW p \in 1 .. Len(x), NEW t \in NeedsItem(x[p])
       PROVE  \E q \in 1 .. p - 1 : t \in MakesItem(x[q])
  <2>1. ASSUME NEW k, NEW q \in 1 .. p - 1, x[q] = Item("call", k, 0), t = <<k, 0>>
        PROVE  t \in MakesItem(x[q])
    <3>1. MakesItem(x[q]) = {<<k, 0>>}
      BY <2>1, MakesFacts DEF MakesItem, Item
    <3> QED BY <2>1, <3>1
  <2>2. ASSUME NEW i, NEW q \in 1 .. p - 1, x[q] = Item("arg", m, i), t = <<m, i>>
        PROVE  t \in MakesItem(x[q])
    <3>1. MakesItem(x[q]) = {<<m, i>>}
      BY <2>2, MakesFacts DEF MakesItem, Item
    <3> QED BY <2>2, <3>1
  <2>3. ~(\E k : x[p] = Item("call", k, 0))
    <3>1. ASSUME NEW k, x[p] = Item("call", k, 0) PROVE FALSE
      <4>1. NeedsItem(x[p]) = {}
        BY <3>1, NeedsFacts DEF NeedsItem, Item
      <4> QED BY <4>1
    <3> QED BY <3>1
  <2>4. CASE p \in 1 .. a
    <3>1. PICK i \in 1 .. Slots :
                /\ x[p] = Item("arg", m, i)
                /\ \A k \in Outermost(m, i) : \E q \in 1 .. p - 1 : x[q] = Item("call", k, 0)
      BY <2>3, <2>4, <1>14
    <3>2. NeedsItem(x[p]) = {<<k, 0>> : k \in Outermost(m, i)}
      BY <3>1, NeedsFacts DEF NeedsItem, Item
    <3>3. PICK k \in Outermost(m, i) : t = <<k, 0>>
      BY <3>2
    <3> QED BY <3>1, <3>3, <2>1
  <2>5. CASE p = a + n + 1
    <3>1. NeedsItem(x[p]) = {<<k, 0>> : k \in Outermost(m, 0)} \cup {<<m, j>> : j \in 1 .. Slots}
      BY <2>5, <1>11, NeedsFacts DEF NeedsItem, Item
    <3>2. 1 .. p - 1 = 1 .. a + n
      BY <2>5
    <3>3. CASE \E k \in Outermost(m, 0) : t = <<k, 0>>
      BY <3>2, <3>3, <1>12, <2>1
    <3>4. CASE \E j \in 1 .. Slots : t = <<m, j>>
      BY <3>2, <3>4, <1>13, <2>2
    <3> QED BY <3>1, <3>3, <3>4
  <2>6. CASE p \notin 1 .. a /\ p # a + n + 1
    <3>1. p - a \in 1 .. n /\ p = a + (p - a)
      BY <2>6, <1>10
    <3>2. \E k \in Outermost(m, 0) : x[a + (p - a)] = Item("call", k, 0)
      BY <3>1, <1>15
    <3> QED BY <3>1, <3>2, <2>3
  <2> QED BY <2>4, <2>5, <2>6
<1>19. Len(x) >= 1 /\ x[Len(x)] = Item("spawn", m, 0)
  BY <1>10, <1>11
<1> QED BY <1>10, <1>17, <1>18, <1>19 DEF BlockOK

LEMMA SequentialBlock ==
  ASSUME case \in Cases, NEW m \in CallIds(case),
         NEW x, x = Visits(Kids(case, m, 0)) \o ArgVisits(m) \o <<Item("seq", m, 0)>>
  PROVE  BlockOK(x, m, "seq")
<1> DEFINE s == Visits(Kids(case, m, 0))
           v == ArgVisits(m)
           last == Item("seq", m, 0)
<1>1. m \in Nat /\ Slots \in Nat
  BY CaseFacts
<1>2. last \in ItemSet
  BY <1>1, ItemFacts DEF Ops
<1>3. /\ s \in Seq(ItemSet)
      /\ \A p \in 1 .. Len(s) : \E k \in Outermost(m, 0) : s[p] = Item("call", k, 0)
      /\ \A k \in Outermost(m, 0) : \E p \in 1 .. Len(s) : s[p] = Item("call", k, 0)
  BY VisitsFacts
<1>4. /\ v \in Seq(ItemSet)
      /\ \A p \in 1 .. Len(v) : \E i \in 1 .. Slots : \E k \in Outermost(m, i) : v[p] = Item("call", k, 0)
      /\ \A i \in 1 .. Slots : \A k \in Outermost(m, i) : \E p \in 1 .. Len(v) : v[p] = Item("call", k, 0)
  BY ArgVisitsFacts
<1>5. x = s \o v \o <<last>>
  OBVIOUS
<1> HIDE DEF s, v, last
<1>6. PICK a \in Nat, n \in Nat : a = Len(s) /\ n = Len(v)
  BY <1>3, <1>4
<1>7. /\ x \in Seq(ItemSet) /\ Len(x) = a + n + 1
      /\ \A q \in 1 .. a : x[q] = s[q]
      /\ \A q \in 1 .. n : x[a + q] = v[q]
      /\ x[a + n + 1] = last
  <2>1. s \in Seq(ItemSet) /\ v \in Seq(ItemSet)
    BY <1>3, <1>4
  <2>2. Parts(s \o v \o <<last>>, s, v, last, ItemSet)
    BY <2>1, <1>2, ConcatAppend
  <2> QED BY <2>2, <1>5, <1>6 DEF Parts
<1>8. \A k : k \in Inner(m) <=> \E i \in 0 .. Slots : k \in Outermost(m, i)
  <2>1. ASSUME NEW k PROVE k \in Inner(m) <=> \E i \in 0 .. Slots : k \in Outermost(m, i)
    <3>1. k \in Inner(m) => k \in CallIds(case)
      BY DEF Inner
    <3>2. \A i : k \in Outermost(m, i) => k \in CallIds(case)
      BY OutermostIds
    <3> QED BY <3>1, <3>2, InnerFacts
  <2> QED BY <2>1
<1>9. ASSUME NEW p \in 1 .. Len(x) - 1 PROVE \E k \in Inner(m) : x[p] = Item("call", k, 0)
  <2>1. CASE p \in 1 .. a
    <3>1. PICK k \in Outermost(m, 0) : s[p] = Item("call", k, 0)
      BY <2>1, <1>3, <1>6
    <3>2. k \in Inner(m)
      BY <1>1, <1>8
    <3> QED BY <2>1, <3>1, <3>2, <1>7
  <2>2. CASE p \notin 1 .. a
    <3>1. p - a \in 1 .. n /\ p = a + (p - a)
      BY <2>2, <1>7
    <3>2. PICK i \in 1 .. Slots : \E k \in Outermost(m, i) : v[p - a] = Item("call", k, 0)
      BY <3>1, <1>4, <1>6
    <3>3. PICK k \in Outermost(m, i) : v[p - a] = Item("call", k, 0)
      BY <3>2
    <3>4. k \in Inner(m)
      <4>1. i \in 0 .. Slots
        BY <1>1
      <4> QED BY <4>1, <1>8
    <3>5. x[a + (p - a)] = v[p - a]
      BY <3>1, <1>7
    <3> QED BY <3>1, <3>3, <3>4, <3>5
  <2> QED BY <2>1, <2>2
<1>10. ASSUME NEW i \in 0 .. Slots, NEW k \in Outermost(m, i)
       PROVE  \E q \in 1 .. a + n : x[q] = Item("call", k, 0)
  <2>1. CASE i = 0
    <3>1. PICK p \in 1 .. a : s[p] = Item("call", k, 0)
      BY <2>1, <1>3, <1>6
    <3>2. x[p] = s[p] /\ p \in 1 .. a + n
      BY <1>7
    <3> QED BY <3>1, <3>2
  <2>2. CASE i # 0
    <3>1. i \in 1 .. Slots
      BY <2>2, <1>1
    <3>2. PICK p \in 1 .. n : v[p] = Item("call", k, 0)
      BY <3>1, <1>4, <1>6
    <3>3. x[a + p] = v[p] /\ a + p \in 1 .. a + n
      BY <1>7
    <3> QED BY <3>2, <3>3
  <2> QED BY <2>1, <2>2
<1>11. ASSUME NEW p \in 1 .. Len(x), NEW t \in NeedsItem(x[p])
       PROVE  \E q \in 1 .. p - 1 : t \in MakesItem(x[q])
  <2>1. CASE p # Len(x)
    <3>1. p \in 1 .. Len(x) - 1
      <4>1. Len(x) = a + n + 1
        BY <1>7
      <4> QED BY <4>1, <2>1
    <3>2. PICK k : x[p] = Item("call", k, 0)
      BY <3>1, <1>9
    <3>3. NeedsItem(x[p]) = {}
      BY <3>2, NeedsFacts DEF NeedsItem, Item
    <3> QED BY <3>3
  <2>2. CASE p = Len(x)
    <3>1. x[p] = Item("seq", m, 0) /\ 1 .. p - 1 = 1 .. a + n
      BY <2>2, <1>7 DEF last
    <3>2. NeedsItem(x[p]) = {<<k, 0>> : k \in UNION {Outermost(m, j) : j \in 0 .. Slots}}
      BY <3>1, NeedsFacts DEF NeedsItem, Item
    <3>3. PICK i \in 0 .. Slots : \E k \in Outermost(m, i) : t = <<k, 0>>
      BY <3>2
    <3>4. PICK k \in Outermost(m, i) : t = <<k, 0>>
      BY <3>3
    <3>5. PICK q \in 1 .. a + n : x[q] = Item("call", k, 0)
      BY <1>10
    <3>6. MakesItem(Item("call", k, 0)) = {<<k, 0>>}
      BY MakesFacts DEF MakesItem, Item
    <3> QED BY <3>1, <3>4, <3>5, <3>6
  <2> QED BY <2>1, <2>2
<1>12. Len(x) >= 1 /\ x[Len(x)] = Item("seq", m, 0)
  BY <1>7 DEF last
<1> QED BY <1>7, <1>9, <1>11, <1>12 DEF BlockOK

-----------------------------------------------------------------------------
(* Steps of the traversal *)

LEMMA GuardSpliced ==
  ASSUME NEW r, NEW x, NEW s, Spliced(r, x, s, ItemSet)
  PROVE  /\ \A q \in 2 .. Len(s) + 1 : GuardIn(r, Len(x) + q - 1) <=> GuardIn(s, q)
         /\ (\A p \in 1 .. Len(x) : x[p].op # "guard") =>
              \A p \in 1 .. Len(x) + 1 : GuardIn(r, p) <=> GuardIn(s, 2)
<1> DEFINE a == Len(x)
           n == Len(s)
           m == Len(r)
<1>1. a \in Nat /\ n \in Nat /\ m = a + n - 1
  BY DEF Spliced
<1>2. /\ \A p \in 1 .. a : r[p] = x[p]
      /\ \A q \in 2 .. n : r[a + q - 1] = s[q]
  BY DEF Spliced
<1> HIDE DEF a, n, m
<1>3. ASSUME NEW q \in 2 .. n + 1 PROVE GuardIn(r, a + q - 1) <=> GuardIn(s, q)
  <2>1. ASSUME GuardIn(r, a + q - 1) PROVE GuardIn(s, q)
    <3>1. PICK h \in a + q - 1 .. m : r[h].op = "guard"
      BY <2>1 DEF GuardIn, m
    <3>2. h - a + 1 \in q .. n /\ h - a + 1 \in 2 .. n /\ a + (h - a + 1) - 1 = h
      BY <1>1
    <3>3. s[h - a + 1].op = "guard"
      BY <3>1, <3>2, <1>2
    <3> QED BY <3>2, <3>3 DEF GuardIn, n
  <2>2. ASSUME GuardIn(s, q) PROVE GuardIn(r, a + q - 1)
    <3>1. PICK h \in q .. n : s[h].op = "guard"
      BY <2>2 DEF GuardIn, n
    <3>2. a + h - 1 \in a + q - 1 .. m /\ h \in 2 .. n
      BY <1>1
    <3>3. r[a + h - 1].op = "guard"
      BY <3>1, <3>2, <1>2
    <3> QED BY <3>2, <3>3 DEF GuardIn, m
  <2> QED BY <2>1, <2>2
<1>4. ASSUME \A p \in 1 .. a : x[p].op # "guard", NEW p \in 1 .. a + 1
      PROVE  GuardIn(r, p) <=> GuardIn(s, 2)
  <2>1. CASE n = 0
    <3>1. m <= a
      BY <2>1, <1>1
    <3>2. ~GuardIn(r, p)
      BY <3>1, <1>1, <1>2, <1>4 DEF GuardIn, m
    <3>3. ~GuardIn(s, 2)
      BY <2>1 DEF GuardIn, n
    <3> QED BY <3>2, <3>3
  <2>2. CASE n # 0
    <3>1. 2 \in 2 .. n + 1 /\ a + 2 - 1 = a + 1
      BY <2>2, <1>1
    <3>2. GuardIn(r, a + 1) <=> GuardIn(s, 2)
      BY <3>1, <1>3
    <3>3. GuardIn(r, p) <=> GuardIn(r, a + 1)
      BY <1>1, <1>2, <1>4 DEF GuardIn, m
    <3> QED BY <3>2, <3>3
  <2> QED BY <2>1, <2>2
<1> QED BY <1>3, <1>4 DEF a, n

\* The visit of a call is replaced by what it comes to.
LEMMA BlockKeeps ==
  ASSUME case \in Cases, NEW s, TraversalOK(s), s # <<>>, s[1].op = "call",
         NEW op \in {"spawn", "seq"}, NEW x, BlockOK(x, s[1].n, op),
         NEW r, Spliced(r, x, s, ItemSet),
         NEW c, NEW pc, NEW sc, Covered(s, c, pc, sc)
  PROVE  /\ TraversalOK(r) /\ Covered(r, c, pc, sc)
         /\ r # <<>> /\ Enters(r[1]) = Depth[s[1].n] /\ r[1].op \notin Direct
         /\ GuardIn(r, 1) <=> GuardIn(s, 1)
<1> DEFINE a == Len(x)
           n == Len(s)
           l == Len(r)
           m == s[1].n
           d == Depth[m]
<1>1. a \in Nat /\ n \in Nat /\ l = a + n - 1 /\ a >= 1 /\ r \in Seq(ItemSet)
  BY DEF Spliced, BlockOK
<1>2. /\ \A p \in 1 .. a : r[p] = x[p]
      /\ \A q \in 2 .. n : r[a + q - 1] = s[q]
  BY DEF Spliced
<1>3. /\ 1 \in 1 .. n /\ Fits("call", m, s[1].i) /\ s[1] \in ItemSet
      /\ s[1].op = "call"
  <2>1. s \in Seq(ItemSet) /\ 1 \in 1 .. n
    BY DEF TraversalOK
  <2>2. s[1].op = "output" \/ Fits(s[1].op, s[1].n, s[1].i)
    BY <2>1 DEF TraversalOK
  <2>3. s[1] \in ItemSet
    BY <2>1
  <2> QED BY <2>1, <2>2, <2>3
<1>4. m \in CallIds(case) /\ d \in Nat /\ d >= 1 /\ s[1].i = 0
  BY <1>3, DepthFacts DEF Fits, Direct
<1>5. ASSUME NEW p \in 1 .. a
      PROVE  \/ p < a /\ \E k \in CallIds(case) :
                          x[p] = Item("call", k, 0) /\ Depth[k] = d + 1 /\ Side[k] = Side[m]
             \/ p < a /\ \E i \in 1 .. Slots : x[p] = Item("arg", m, i)
             \/ p = a /\ x[p] = Item(op, m, 0)
  <2>1. CASE p = a
    BY <2>1 DEF BlockOK
  <2>2. CASE p # a
    <3>1. p < a /\ p \in 1 .. a - 1
      BY <2>2, <1>1
    <3>2. CASE \E k \in Inner(m) : x[p] = Item("call", k, 0)
      <4>1. PICK k \in Inner(m) : x[p] = Item("call", k, 0)
        BY <3>2
      <4>2. k \in CallIds(case)
        BY DEF Inner
      <4>3. Depth[k] = d + 1 /\ Side[k] = Side[m]
        BY <4>2, <1>4, InnerFacts
      <4> QED BY <3>1, <4>1, <4>2, <4>3
    <3>3. CASE \E i \in 1 .. Slots : x[p] = Item("arg", m, i)
      BY <3>1, <3>3
    <3> QED BY <3>1, <3>2, <3>3 DEF BlockOK
  <2> QED BY <2>1, <2>2
<1> HIDE DEF a, n, l, m, d
<1>6. ASSUME NEW p \in 1 .. a
      PROVE  /\ x[p].op \in Calling \cup {"call"} /\ Fits(x[p].op, x[p].n, x[p].i)
             /\ Enters(x[p]) = d /\ Leaves(x[p]) = IF p = a THEN d - 1 ELSE d
             /\ Side[x[p].n] = Side[m]
  <2>1. CASE p < a /\ \E k \in CallIds(case) :
                          x[p] = Item("call", k, 0) /\ Depth[k] = d + 1 /\ Side[k] = Side[m]
    <3>1. PICK k \in CallIds(case) : x[p] = Item("call", k, 0) /\ Depth[k] = d + 1 /\ Side[k] = Side[m]
      BY <2>1
    <3>2. x[p].op = "call" /\ x[p].n = k /\ x[p].i = 0
      BY <3>1 DEF Item
    <3>3. Depth[k] - 1 = d /\ Depth[k] >= 1
      BY <3>1, <1>4
    <3>4. Fits(x[p].op, x[p].n, x[p].i)
      BY <3>2, <3>3 DEF Fits
    <3>5. Enters(x[p]) = d /\ Leaves(x[p]) = d
      <4>1. Enters(x[p]) = Depth[x[p].n] - 1 /\ Leaves(x[p]) = Depth[x[p].n] - 1
        BY <3>2 DEF Enters, Leaves, Calling
      <4>2. Depth[x[p].n] - 1 = d
        BY <3>2, <3>3
      <4> QED BY <4>1, <4>2
    <3>6. p # a
      BY <2>1, <1>1
    <3> QED BY <3>1, <3>2, <3>4, <3>5, <3>6
  <2>2. CASE p < a /\ \E i \in 1 .. Slots : x[p] = Item("arg", m, i)
    <3>1. PICK i \in 1 .. Slots : x[p] = Item("arg", m, i)
      BY <2>2
    <3>2. x[p].op = "arg" /\ x[p].n = m /\ x[p].i = i
      BY <3>1 DEF Item
    <3> QED BY <2>2, <3>2, <1>4 DEF Fits, Enters, Leaves, Calling, d
  <2>3. CASE p = a /\ x[p] = Item(op, m, 0)
    <3>1. x[p].op = op /\ x[p].n = m /\ x[p].i = 0
      BY <2>3 DEF Item
    <3>2. op = "spawn" \/ op = "seq"
      OBVIOUS
    <3> QED BY <2>3, <3>1, <3>2, <1>4 DEF Fits, Enters, Leaves, Calling, d
  <2> QED BY <1>5, <2>1, <2>2, <2>3
<1>7. ASSUME NEW p \in 1 .. l
      PROVE  \/ p \in 1 .. a /\ r[p] = x[p]
             \/ p \notin 1 .. a /\ p - a + 1 \in 2 .. n /\ r[p] = s[p - a + 1]
                /\ p = a + (p - a + 1) - 1
  <2>1. CASE p \in 1 .. a
    BY <2>1, <1>2
  <2>2. CASE p \notin 1 .. a
    <3>1. p - a + 1 \in 2 .. n /\ p = a + (p - a + 1) - 1
      BY <2>2, <1>1
    <3>2. r[a + (p - a + 1) - 1] = s[p - a + 1]
      BY <3>1, <1>2
    <3> QED BY <2>2, <3>1, <3>2
  <2> QED BY <2>1, <2>2
<1>8. /\ \A q \in 2 .. n + 1 : GuardIn(r, a + q - 1) <=> GuardIn(s, q)
      /\ \A p \in 1 .. a + 1 : GuardIn(r, p) <=> GuardIn(s, 2)
  <2>1. \A p \in 1 .. a : x[p].op # "guard"
    BY <1>6 DEF Calling
  <2> QED BY <2>1, GuardSpliced DEF a, n
<1>9. ASSUME NEW p \in 1 .. l PROVE r[p].op = "output" \/ Fits(r[p].op, r[p].n, r[p].i)
  <2>1. CASE p \in 1 .. a /\ r[p] = x[p]
    BY <2>1, <1>6
  <2>2. CASE p - a + 1 \in 2 .. n /\ r[p] = s[p - a + 1]
    BY <2>2, <1>1 DEF TraversalOK, n
  <2> QED BY <1>7, <2>1, <2>2
<1>10. ASSUME NEW p \in 1 .. l - 1 PROVE Leaves(r[p]) = Enters(r[p + 1])
  <2>1. p \in 1 .. l /\ p + 1 \in 1 .. l
    BY <1>1
  <2>2. CASE p < a
    <3>1. p \in 1 .. a /\ p + 1 \in 1 .. a /\ p # a
      BY <2>2, <1>1
    <3> QED BY <3>1, <1>2, <1>6
  <2>3. CASE p = a
    <3>1. 2 \in 2 .. n /\ a + 2 - 1 = p + 1 /\ 1 \in 1 .. n - 1 /\ a \in 1 .. a
      BY <2>3, <1>1
    <3>2. r[p] = x[a] /\ r[p + 1] = s[2]
      BY <2>3, <3>1, <1>2
    <3>3. Leaves(x[a]) = d - 1
      BY <3>1, <1>6
    <3>4. Leaves(s[1]) = d - 1
      BY <1>3 DEF Leaves, d, m
    <3>5. Leaves(s[1]) = Enters(s[1 + 1])
      BY <3>1 DEF TraversalOK, n
    <3> QED BY <3>2, <3>3, <3>4, <3>5
  <2>4. CASE p > a
    <3>1. p \notin 1 .. a /\ p + 1 \notin 1 .. a /\ p - a + 1 \in 1 .. n - 1
      BY <2>1, <2>4, <1>1
    <3>2. r[p] = s[p - a + 1] /\ r[p + 1] = s[(p - a + 1) + 1]
      <4>1. (p + 1) - a + 1 = (p - a + 1) + 1
        BY <1>1
      <4> QED BY <2>1, <3>1, <4>1, <1>7
    <3> QED BY <3>1, <3>2 DEF TraversalOK, n
  <2> QED BY <2>2, <2>3, <2>4, <1>1
<1>11. ASSUME NEW p \in 2 .. l, r[p].op \in Direct PROVE r[p - 1].op \in {"output", "guard", "assign"}
  <2>1. p \in 1 .. l /\ p - 1 \in 1 .. l
    BY <1>1
  <2>2. CASE p \in 1 .. a
    BY <2>1, <2>2, <1>2, <1>6, <1>11 DEF Calling, Direct
  <2>3. CASE p \notin 1 .. a
    <3>1. p - a + 1 \in 2 .. n /\ r[p] = s[p - a + 1]
      BY <2>1, <2>3, <1>7
    <3>2. s[(p - a + 1) - 1].op \in {"output", "guard", "assign"}
      BY <3>1, <1>11 DEF TraversalOK, n
    <3>3. CASE p - 1 \in 1 .. a
      <4>1. (p - a + 1) - 1 = 1
        BY <2>3, <3>3, <1>1
      <4> QED BY <4>1, <3>2, <1>3
    <3>4. CASE p - 1 \notin 1 .. a
      <4>1. r[p - 1] = s[(p - 1) - a + 1] /\ (p - 1) - a + 1 = (p - a + 1) - 1
        BY <2>1, <3>4, <1>1, <1>7
      <4> QED BY <4>1, <3>2
    <3> QED BY <3>3, <3>4
  <2> QED BY <2>2, <2>3
<1>12. ASSUME NEW p \in 1 .. l
       PROVE  /\ r[p].op \in Calling \cup {"call"} => (Side[r[p].n] = 0 <=> GuardIn(r, p + 1))
              /\ r[p].op \in Direct => ~GuardIn(r, p + 1)
  <2>1. CASE p \in 1 .. a /\ r[p] = x[p]
    <3>1. Side[m] = 0 <=> GuardIn(s, 1 + 1)
      BY <1>3 DEF TraversalOK, n, m
    <3>2. GuardIn(r, p + 1) <=> GuardIn(s, 2)
      <4>1. p + 1 \in 1 .. a + 1
        BY <2>1, <1>1
      <4> QED BY <4>1, <1>8
    <3>3. r[p].op \notin Direct /\ Side[r[p].n] = Side[m]
      BY <2>1, <1>6 DEF Calling, Direct
    <3> QED BY <3>1, <3>2, <3>3
  <2>2. CASE p - a + 1 \in 2 .. n /\ r[p] = s[p - a + 1] /\ p = a + (p - a + 1) - 1
    <3>1. p - a + 1 \in 1 .. n /\ (p - a + 1) + 1 \in 2 .. n + 1
      BY <2>2, <1>1
    <3>2. a + ((p - a + 1) + 1) - 1 = p + 1
      BY <1>1
    <3>3. GuardIn(r, p + 1) <=> GuardIn(s, (p - a + 1) + 1)
      BY <3>1, <3>2, <1>8
    <3> QED BY <3>1, <3>3, <2>2 DEF TraversalOK, n
  <2> QED BY <1>7, <2>1, <2>2
<1>13. n >= 2 /\ s[n].op \in {"exit", "goto"}
  <2>1. s[n].op \in {"exit", "goto"}
    BY DEF TraversalOK, n
  <2>2. n # 1
    BY <2>1, <1>3
  <2> QED BY <2>1, <2>2, <1>1, <1>3
<1>14. r # <<>> /\ r[l].op \in {"exit", "goto"}
  <2>1. n \in 2 .. n /\ a + n - 1 = l /\ l >= 1
    BY <1>1, <1>13
  <2>2. r[l] = s[n]
    BY <2>1, <1>2
  <2> QED BY <2>1, <2>2, <1>13 DEF l
<1>15. TraversalOK(r)
  BY <1>1, <1>9, <1>10, <1>11, <1>12, <1>14 DEF TraversalOK, l
<1>16. ASSUME NEW p \in 1 .. l, NEW t \in NeedsItem(r[p])
       PROVE  \/ InCode(c, t) \/ Placed(pc, sc, t)
              \/ \E q \in 1 .. p - 1 : t \in MakesItem(r[q])
  <2>1. CASE p \in 1 .. a /\ r[p] = x[p]
    <3>1. PICK q \in 1 .. p - 1 : t \in MakesItem(x[q])
      BY <2>1 DEF BlockOK, a
    <3>2. r[q] = x[q]
      BY <2>1, <1>1, <1>2
    <3> QED BY <3>1, <3>2
  <2>2. CASE p - a + 1 \in 2 .. n /\ r[p] = s[p - a + 1] /\ p = a + (p - a + 1) - 1
    <3>1. p - a + 1 \in 1 .. n
      BY <2>2, <1>1
    <3>2. CASE InCode(c, t) \/ Placed(pc, sc, t)
      BY <3>2
    <3>3. CASE \E h \in 1 .. (p - a + 1) - 1 : t \in MakesItem(s[h])
      <4>1. PICK h \in 1 .. (p - a + 1) - 1 : t \in MakesItem(s[h])
        BY <3>3
      <4>2. CASE h = 1
        <5>1. MakesItem(s[1]) = {<<m, 0>>}
          BY <1>3, <1>4, MakesFacts DEF MakesItem, m
        <5>2. x[a] = Item(op, m, 0)
          BY DEF BlockOK, a, m
        <5>3. MakesItem(x[a]) = {<<m, 0>>}
          BY <5>2, MakesFacts DEF MakesItem, Item
        <5>4. a \in 1 .. p - 1 /\ a \in 1 .. a
          BY <2>2, <1>1, <1>2
        <5>5. r[a] = x[a]
          BY <5>4, <1>1, <1>2
        <5> QED BY <4>1, <4>2, <5>1, <5>3, <5>4, <5>5
      <4>3. CASE h # 1
        <5>1. h \in 2 .. n /\ a + h - 1 \in 1 .. p - 1
          BY <2>2, <4>3, <1>1
        <5>2. r[a + h - 1] = s[h]
          BY <5>1, <1>2
        <5> QED BY <4>1, <5>1, <5>2
      <4> QED BY <4>2, <4>3
    <3>4. \/ InCode(c, t) \/ Placed(pc, sc, t)
          \/ \E h \in 1 .. (p - a + 1) - 1 : t \in MakesItem(s[h])
      BY <2>2, <3>1 DEF Covered, n
    <3> QED BY <3>2, <3>3, <3>4
  <2> QED BY <1>7, <2>1, <2>2
<1>17. Covered(r, c, pc, sc)
  BY <1>16 DEF Covered, l
<1>18. r[1] = x[1] /\ Enters(x[1]) = d /\ r[1].op \notin Direct
  <2>1. 1 \in 1 .. a
    BY <1>1
  <2> QED BY <2>1, <1>2, <1>6 DEF Calling, Direct
<1>19. GuardIn(r, 1) <=> GuardIn(s, 1)
  <2>1. GuardIn(s, 1) <=> GuardIn(s, 2)
    BY <1>1, <1>3 DEF GuardIn, n
  <2>2. 1 \in 1 .. a + 1
    BY <1>1
  <2> QED BY <2>1, <2>2, <1>8
<1> QED BY <1>14, <1>15, <1>17, <1>18, <1>19 DEF d, m

\* The sequence r is s without its first element.
IsTail(r, s, S) ==
  /\ r \in Seq(S) /\ Len(s) \in Nat /\ Len(s) >= 1 /\ Len(r) = Len(s) - 1
  /\ \A p \in 1 .. Len(s) - 1 : r[p] = s[p + 1]

LEMMA TailIndex ==
  ASSUME NEW S, NEW s \in Seq(S), s # <<>>
  PROVE  IsTail(Tail(s), s, S) /\ Head(s) = s[1]
<1>1. Tail(s) \in Seq(S) /\ Len(s) \in Nat /\ Len(s) >= 1 /\ Len(Tail(s)) = Len(s) - 1
  OBVIOUS
<1>2. \A p \in 1 .. Len(s) - 1 : Tail(s)[p] = s[p + 1]
  OBVIOUS
<1> QED BY <1>1, <1>2 DEF IsTail

\* An item is done.
LEMMA TailKeeps ==
  ASSUME case \in Cases, NEW s, TraversalOK(s), s # <<>>, NEW r, IsTail(r, s, ItemSet)
  PROVE  /\ TraversalOK(r)
         /\ r # <<>> => Enters(r[1]) = Leaves(s[1])
         /\ r # <<>> /\ r[1].op \in Direct => s[1].op \in {"output", "guard", "assign"}
         /\ r = <<>> => s[1].op \in {"exit", "goto"}
         /\ GuardIn(s, 1) <=> (s[1].op = "guard" \/ GuardIn(r, 1))
         /\ s[1].op \in Calling => (Side[s[1].n] = 0 <=> GuardIn(r, 1))
         /\ s[1].op \in Direct => ~GuardIn(r, 1)
<1> DEFINE n == Len(s)
           l == Len(r)
<1>1. /\ r \in Seq(ItemSet) /\ n \in Nat /\ n >= 1 /\ l = n - 1
      /\ \A p \in 1 .. l : r[p] = s[p + 1]
  BY DEF IsTail
<1>2. /\ \A p \in 1 .. n : s[p].op = "output" \/ Fits(s[p].op, s[p].n, s[p].i)
      /\ \A p \in 1 .. n - 1 : Leaves(s[p]) = Enters(s[p + 1])
      /\ \A p \in 2 .. n : s[p].op \in Direct => s[p - 1].op \in {"output", "guard", "assign"}
      /\ \A p \in 1 .. n :
           /\ s[p].op \in Calling \cup {"call"} => (Side[s[p].n] = 0 <=> GuardIn(s, p + 1))
           /\ s[p].op \in Direct => ~GuardIn(s, p + 1)
      /\ s[n].op \in {"exit", "goto"}
  BY DEF TraversalOK
<1>3. l = 0 <=> r = <<>>
  <2>1. r \in Seq(ItemSet)
    BY <1>1
  <2> QED BY <2>1
<1> HIDE DEF n, l
<1>4. ASSUME NEW p \in 1 .. l + 1 PROVE GuardIn(r, p) <=> GuardIn(s, p + 1)
  <2>1. ASSUME GuardIn(r, p) PROVE GuardIn(s, p + 1)
    <3>1. PICK q \in p .. l : r[q].op = "guard"
      BY <2>1 DEF GuardIn, l
    <3>2. q + 1 \in p + 1 .. n /\ q \in 1 .. l
      BY <1>1
    <3> QED BY <3>1, <3>2, <1>1 DEF GuardIn, n
  <2>2. ASSUME GuardIn(s, p + 1) PROVE GuardIn(r, p)
    <3>1. PICK q \in p + 1 .. n : s[q].op = "guard"
      BY <2>2 DEF GuardIn, n
    <3>2. q - 1 \in p .. l /\ q - 1 \in 1 .. l /\ (q - 1) + 1 = q
      BY <1>1
    <3>3. r[q - 1] = s[q]
      BY <3>2, <1>1
    <3> QED BY <3>1, <3>2, <3>3 DEF GuardIn, l
  <2> QED BY <2>1, <2>2
<1>5. ASSUME NEW p \in 1 .. l
      PROVE  /\ r[p].op = "output" \/ Fits(r[p].op, r[p].n, r[p].i)
             /\ r[p].op \in Calling \cup {"call"} => (Side[r[p].n] = 0 <=> GuardIn(r, p + 1))
             /\ r[p].op \in Direct => ~GuardIn(r, p + 1)
  <2>1. p + 1 \in 1 .. n /\ p + 1 \in 1 .. l + 1 /\ r[p] = s[p + 1]
    <3>1. n \in Nat /\ l = n - 1
      BY <1>1
    <3>2. r[p] = s[p + 1]
      BY <1>1
    <3> QED BY <3>1, <3>2
  <2>2. GuardIn(r, p + 1) <=> GuardIn(s, (p + 1) + 1)
    BY <2>1, <1>4
  <2> QED BY <2>1, <2>2, <1>2
<1>6. ASSUME NEW p \in 1 .. l - 1 PROVE Leaves(r[p]) = Enters(r[p + 1])
  <2>1. n \in Nat /\ l = n - 1
    BY <1>1
  <2>2. p + 1 \in 1 .. n - 1 /\ p \in 1 .. l /\ p + 1 \in 1 .. l
    BY <2>1
  <2>3. r[p] = s[p + 1] /\ r[p + 1] = s[(p + 1) + 1]
    BY <2>2, <1>1
  <2> QED BY <2>2, <2>3, <1>2
<1>7. ASSUME NEW p \in 2 .. l, r[p].op \in Direct PROVE r[p - 1].op \in {"output", "guard", "assign"}
  <2>1. p + 1 \in 2 .. n /\ r[p] = s[p + 1] /\ p - 1 \in 1 .. l
    <3>1. n \in Nat /\ l = n - 1
      BY <1>1
    <3>2. p \in 1 .. l
      BY <3>1
    <3>3. r[p] = s[p + 1]
      BY <3>2, <1>1
    <3> QED BY <3>1, <3>3
  <2>2. r[p - 1] = s[(p + 1) - 1]
    <3>1. (p - 1) + 1 = (p + 1) - 1
      OBVIOUS
    <3> QED BY <2>1, <3>1, <1>1
  <2> QED BY <2>1, <2>2, <1>2, <1>7
<1>8. r # <<>> => r[l].op \in {"exit", "goto"}
  <2>1. r # <<>> => l \in 1 .. l /\ l + 1 = n
    BY <1>1, <1>3
  <2> QED BY <2>1, <1>1, <1>2
<1>9. TraversalOK(r)
  BY <1>1, <1>5, <1>6, <1>7, <1>8 DEF TraversalOK, l
<1>10. ASSUME r # <<>>
       PROVE  /\ Enters(r[1]) = Leaves(s[1])
              /\ r[1].op \in Direct => s[1].op \in {"output", "guard", "assign"}
  <2>1. 1 \in 1 .. l /\ 1 \in 1 .. n - 1 /\ 2 \in 2 .. n /\ 2 - 1 = 1 /\ 1 + 1 = 2
    BY <1>1, <1>3, <1>10
  <2>2. r[1] = s[2]
    BY <2>1, <1>1
  <2>3. Leaves(s[1]) = Enters(s[2])
    BY <2>1, <1>2
  <2>4. s[2].op \in Direct => s[1].op \in {"output", "guard", "assign"}
    BY <2>1, <1>2
  <2> QED BY <2>2, <2>3, <2>4
<1>11. r = <<>> => s[1].op \in {"exit", "goto"}
  <2>1. r = <<>> => n = 1
    BY <1>1, <1>3
  <2> QED BY <2>1, <1>2
<1>12. /\ GuardIn(s, 1) <=> (s[1].op = "guard" \/ GuardIn(r, 1))
       /\ GuardIn(r, 1) <=> GuardIn(s, 1 + 1)
  <2>1. 1 \in 1 .. l + 1 /\ 1 \in 1 .. n
    BY <1>1
  <2>2. GuardIn(r, 1) <=> GuardIn(s, 1 + 1)
    BY <2>1, <1>4
  <2>3. GuardIn(s, 1) <=> (s[1].op = "guard" \/ GuardIn(s, 1 + 1))
    BY <1>1 DEF GuardIn, n
  <2> QED BY <2>2, <2>3
<1>13. 1 \in 1 .. n
  BY <1>1
<1>14. /\ s[1].op \in Calling => (Side[s[1].n] = 0 <=> GuardIn(r, 1))
       /\ s[1].op \in Direct => ~GuardIn(r, 1)
  BY <1>2, <1>12, <1>13
<1> QED BY <1>9, <1>10, <1>11, <1>12, <1>14

LEMMA TailCovered ==
  ASSUME NEW s, TraversalOK(s), s # <<>>,
         NEW c, NEW pc, NEW sc, Covered(s, c, pc, sc), NEW d, NEW qc, NEW tc,
         \A t : InCode(c, t) \/ Placed(pc, sc, t) \/ t \in MakesItem(s[1])
                  => InCode(d, t) \/ Placed(qc, tc, t)
  PROVE  Covered(Tail(s), d, qc, tc)
<1> DEFINE r == Tail(s)
           n == Len(s)
<1>1. n \in Nat /\ n >= 1 /\ Len(r) = n - 1 /\ \A p \in 1 .. n - 1 : r[p] = s[p + 1]
  <2>1. s \in Seq(ItemSet)
    BY DEF TraversalOK
  <2>2. IsTail(r, s, ItemSet)
    BY <2>1, TailIndex
  <2> HIDE DEF r
  <2> QED BY <2>2 DEF IsTail
<1> HIDE DEF r
<1>2. ASSUME NEW p \in 1 .. Len(r), NEW t \in NeedsItem(r[p])
      PROVE  InCode(d, t) \/ Placed(qc, tc, t) \/ \E q \in 1 .. p - 1 : t \in MakesItem(r[q])
  <2>1. p + 1 \in 1 .. n /\ r[p] = s[p + 1]
    BY <1>1
  <2>2. \/ InCode(c, t) \/ Placed(pc, sc, t)
        \/ \E q \in 1 .. (p + 1) - 1 : t \in MakesItem(s[q])
    BY <2>1 DEF Covered
  <2>3. CASE \E q \in 1 .. (p + 1) - 1 : t \in MakesItem(s[q])
    <3>1. PICK q \in 1 .. (p + 1) - 1 : t \in MakesItem(s[q])
      BY <2>3
    <3>2. CASE q = 1
      BY <3>1, <3>2
    <3>3. CASE q # 1
      <4>1. q - 1 \in 1 .. p - 1 /\ q - 1 \in 1 .. n - 1 /\ (q - 1) + 1 = q
        BY <3>3, <1>1
      <4>2. r[q - 1] = s[q]
        BY <4>1, <1>1
      <4> QED BY <3>1, <4>1, <4>2
    <3> QED BY <3>2, <3>3
  <2> QED BY <2>2, <2>3
<1> QED BY <1>2 DEF Covered, r

-----------------------------------------------------------------------------
(* What visit(Case) comes to *)

\* The calls of one side with the statements they are made for.
Piece(x, side) ==
  /\ x \in Seq(ItemSet) /\ Len(x) >= 1
  /\ x[Len(x)].op \in IF side = 0 THEN {"guard"} ELSE {"exit", "goto"}
  /\ \A p \in 1 .. Len(x) - 1 : x[p].op \in {"call", "output", "assign"}
  /\ \A p \in 1 .. Len(x) :
       /\ x[p].op = "output" \/ Fits(x[p].op, x[p].n, x[p].i)
       /\ x[p].op = "call" => Depth[x[p].n] = 1 /\ Side[x[p].n] = side
       /\ x[p].op = "assign" => side = 1
       /\ p > 1 /\ x[p].op \in Direct => x[p - 1].op \in {"output", "assign"}
       /\ \A t \in NeedsItem(x[p]) : \E q \in 1 .. p - 1 : t \in MakesItem(x[q])

\* The when expression, or the result unless it is a tail call.
LEMMA ExpressionPiece ==
  ASSUME case \in Cases, NEW i \in {0, 1}, NEW op,
         op = IF i = 0 THEN "guard" ELSE "exit",
         IF i = 0 THEN Kids(case, Top, 0) # <<>> ELSE ~TailRec(case),
         NEW x, x = Visits(Kids(case, Top, i)) \o <<Item("output", Top, 0), Item(op, Top, i)>>
  PROVE  Piece(x, i)
<1> DEFINE o == Item("output", Top, 0)
           e == Item(op, Top, i)
           rest == <<o, e>>
<1>1. op \in Direct /\ op \in Ops /\ op \in {"guard", "exit"} /\ Fits(op, Top, i)
  BY DEF Ops, Direct, Fits
<1>2. o \in ItemSet /\ o.op = "output" /\ e \in ItemSet /\ e.op = op /\ e.n = Top /\ e.i = i
  BY <1>1 DEF Item, ItemSet, Ops, Top
<1> HIDE DEF o, e
<1>3. rest \in Seq(ItemSet) /\ Len(rest) = 2 /\ rest[1] = o /\ rest[2] = e
  BY <1>2
<1>4. VisitsThen(x, Top, i, rest)
  <2>1. x = Visits(Kids(case, Top, i)) \o rest
    BY DEF o, e
  <2> HIDE DEF rest
  <2> QED BY <2>1, <1>3, VisitsThenFacts
<1> HIDE DEF rest
<1>5. PICK n \in Nat :
        /\ x \in Seq(ItemSet) /\ Len(x) = n + Len(rest)
        /\ \A p \in 1 .. n : \E k \in Outermost(Top, i) : x[p] = Item("call", k, 0)
        /\ \A k \in Outermost(Top, i) : \E p \in 1 .. n : x[p] = Item("call", k, 0)
        /\ \A p \in 1 .. Len(rest) : x[n + p] = rest[p]
  BY <1>4 DEF VisitsThen
<1> DEFINE l == Len(x)
<1>6. l = n + 2 /\ x[n + 1] = o /\ x[n + 2] = e
  BY <1>3, <1>5
<1> HIDE DEF l
<1>7. ASSUME NEW p \in 1 .. n
      PROVE  /\ x[p].op = "call" /\ Fits("call", x[p].n, x[p].i)
             /\ Depth[x[p].n] = 1 /\ Side[x[p].n] = i /\ NeedsItem(x[p]) = {}
  <2>1. PICK k \in Outermost(Top, i) : x[p] = Item("call", k, 0)
    BY <1>5
  <2>2. x[p].op = "call" /\ x[p].n = k /\ x[p].i = 0
    <3>1. Item("call", k, 0).op = "call" /\ Item("call", k, 0).n = k /\ Item("call", k, 0).i = 0
      BY DEF Item
    <3> QED BY <2>1, <3>1, Zenon
  <2>3. k \in CallIds(case) /\ Depth[k] = 1 /\ Side[k] = i
    <3>1. ~(TailRec(case) /\ i = 1)
      OBVIOUS
    <3>2. /\ k \in CallIds(case) /\ Side[k] = i
          /\ Depth[k] = IF TailRec(case) /\ i = 1 THEN 0 ELSE 1
      BY OutermostFacts
    <3> QED BY <3>1, <3>2, Zenon
  <2>4. NeedsItem(x[p]) = {}
    <3>1. NeedsItem(x[p]) = Needs("call", k, 0)
      BY <2>2 DEF NeedsItem
    <3>2. Needs("call", k, 0) = {}
      BY NeedsFacts
    <3> QED BY <3>1, <3>2
  <2>5. Fits("call", k, 0)
    BY <2>3 DEF Fits
  <2> QED BY <2>2, <2>3, <2>4, <2>5
<1>8. \A p \in 1 .. l : p \in 1 .. n \/ p = n + 1 \/ p = n + 2
  BY <1>6
<1>9. NeedsItem(o) = {} /\ NeedsItem(e) = {<<k, 0>> : k \in Outermost(Top, i)}
  <2>1. op \in {"arg", "assign", "guard", "exit"}
    BY <1>1
  <2> QED BY <2>1, <1>2, NeedsFacts DEF NeedsItem
<1>10. ASSUME NEW t \in NeedsItem(e) PROVE \E q \in 1 .. n : t \in MakesItem(x[q])
  <2>1. PICK k \in Outermost(Top, i) : t = <<k, 0>>
    BY <1>9
  <2>2. PICK q \in 1 .. n : x[q] = Item("call", k, 0)
    BY <1>5
  <2>3. MakesItem(Item("call", k, 0)) = {<<k, 0>>}
    BY MakesFacts DEF MakesItem, Item
  <2> QED BY <2>1, <2>2, <2>3
<1>11. ASSUME NEW p \in 1 .. l
       PROVE  /\ x[p].op = "output" \/ Fits(x[p].op, x[p].n, x[p].i)
              /\ x[p].op = "call" => Depth[x[p].n] = 1 /\ Side[x[p].n] = i
              /\ x[p].op = "assign" => i = 1
              /\ p > 1 /\ x[p].op \in Direct => x[p - 1].op \in {"output", "assign"}
              /\ \A t \in NeedsItem(x[p]) : \E q \in 1 .. p - 1 : t \in MakesItem(x[q])
  <2>1. CASE p \in 1 .. n
    BY <2>1, <1>7 DEF Direct
  <2>2. CASE p = n + 1
    BY <2>2, <1>2, <1>6, <1>9 DEF Direct
  <2>3. CASE p = n + 2
    <3>1. x[p] = e /\ p - 1 = n + 1 /\ x[p - 1] = o
      <4>1. p - 1 = n + 1
        BY <2>3
      <4> QED BY <4>1, <2>3, <1>6, Zenon
    <3>2. ASSUME NEW t \in NeedsItem(x[p]) PROVE \E q \in 1 .. p - 1 : t \in MakesItem(x[q])
      <4>1. PICK q \in 1 .. n : t \in MakesItem(x[q])
        BY <3>1, <1>10
      <4>2. q \in 1 .. p - 1
        BY <3>1
      <4> QED BY <4>1, <4>2
    <3> QED BY <3>1, <3>2, <1>1, <1>2
  <2> QED BY <1>8, <2>1, <2>2, <2>3
<1>12. \A p \in 1 .. l - 1 : x[p].op \in {"call", "output", "assign"}
  <2>1. ASSUME NEW p \in 1 .. l - 1 PROVE x[p].op \in {"call", "output", "assign"}
    <3>1. p \in 1 .. n \/ p = n + 1
      BY <1>6
    <3> QED BY <3>1, <1>2, <1>6, <1>7
  <2> QED BY <2>1
<1>13. l >= 1 /\ x[l].op = op
  <2>1. l = n + 2 /\ x[l] = e
    BY <1>6, Zenon
  <2>2. l >= 1
    BY <2>1
  <2> QED BY <2>1, <2>2, <1>2
<1>14. op \in IF i = 0 THEN {"guard"} ELSE {"exit", "goto"}
  OBVIOUS
<1>15. x \in Seq(ItemSet)
  BY <1>5
<1> QED BY <1>11, <1>12, <1>13, <1>14, <1>15, Zenon DEF Piece, l


\* The argument i of a tail call, with what follows its visits.
AssignPiece(y, m, i) ==
  \E n \in Nat :
    /\ y \in Seq(ItemSet) /\ Len(y) = n + 2
    /\ \A p \in 1 .. n : \E k \in Outermost(m, i) : y[p] = Item("call", k, 0)
    /\ \A k \in Outermost(m, i) : \E p \in 1 .. n : y[p] = Item("call", k, 0)
    /\ y[n + 1] = Item("output", m, 0) /\ y[n + 2] = Item("assign", m, i)

LEMMA AssignPieceFacts ==
  ASSUME case \in Cases, NEW m \in CallIds(case), NEW i \in 1 .. Slots
  PROVE  AssignPiece(Visits(Kids(case, m, i)) \o <<Item("output", m, 0), Item("assign", m, i)>>, m, i)
<1> DEFINE o == Item("output", m, 0)
           e == Item("assign", m, i)
           rest == <<o, e>>
           x == Visits(Kids(case, m, i)) \o rest
<1>1. m \in Nat /\ i \in Nat
  BY CaseFacts
<1>2. o \in ItemSet /\ e \in ItemSet
  BY <1>1, ItemFacts DEF Ops, Direct
<1> HIDE DEF o, e
<1>3. rest \in Seq(ItemSet) /\ Len(rest) = 2 /\ rest[1] = o /\ rest[2] = e
  BY <1>2
<1> HIDE DEF rest
<1>4. VisitsThen(x, m, i, rest)
  BY <1>3, VisitsThenFacts
<1> HIDE DEF x
<1>5. PICK n \in Nat :
        /\ x \in Seq(ItemSet) /\ Len(x) = n + Len(rest)
        /\ \A p \in 1 .. n : \E k \in Outermost(m, i) : x[p] = Item("call", k, 0)
        /\ \A k \in Outermost(m, i) : \E p \in 1 .. n : x[p] = Item("call", k, 0)
        /\ \A p \in 1 .. Len(rest) : x[n + p] = rest[p]
  BY <1>4 DEF VisitsThen
<1>6. Len(x) = n + 2 /\ x[n + 1] = o /\ x[n + 2] = e
  BY <1>3, <1>5
<1>7. AssignPiece(x, m, i)
  BY <1>5, <1>6, Zenon DEF AssignPiece, o, e
<1> QED BY <1>7 DEF x, rest, o, e

\* The arguments of a tail call.
Assigns(f, m) ==
  /\ f \in Seq(ItemSet)
  /\ \A p \in 1 .. Len(f) : \E i \in 1 .. Slots :
       \/ \E k \in Outermost(m, i) : f[p] = Item("call", k, 0)
       \/ f[p] = Item("output", m, 0)
       \/ /\ f[p] = Item("assign", m, i) /\ p > 1 /\ f[p - 1] = Item("output", m, 0)
          /\ \A k \in Outermost(m, i) : \E q \in 1 .. p - 1 : f[q] = Item("call", k, 0)
  /\ \A i \in 1 .. Slots : \A k \in Outermost(m, i) : \E q \in 1 .. Len(f) : f[q] = Item("call", k, 0)
  /\ Len(f) >= 1 => \E i \in 1 .. Slots : f[Len(f)] = Item("assign", m, i)

LEMMA AssignsFacts ==
  ASSUME case \in Cases, NEW m \in CallIds(case)
  PROVE  Assigns(FlattenSeq([i \in 1 .. Slots |->
            Visits(Kids(case, m, i)) \o <<Item("output", m, 0), Item("assign", m, i)>>]), m)
<1> DEFINE ss == [i \in 1 .. Slots |-> Visits(Kids(case, m, i)) \o <<Item("output", m, 0), Item("assign", m, i)>>]
           f == FlattenSeq(ss)
<1>1. Slots \in Nat
  BY CaseFacts
<1>2. ASSUME NEW i \in 1 .. Slots PROVE AssignPiece(ss[i], m, i)
  <2>1. ss[i] = Visits(Kids(case, m, i)) \o <<Item("output", m, 0), Item("assign", m, i)>>
    OBVIOUS
  <2> HIDE DEF ss
  <2> QED BY <2>1, AssignPieceFacts
<1>3. ss = [i \in 1 .. Slots |-> ss[i]]
  OBVIOUS
<1> HIDE DEF ss
<1>4. \A i \in 1 .. Slots : ss[i] \in Seq(ItemSet)
  BY <1>2 DEF AssignPiece
<1>5. ss \in Seq(Seq(ItemSet)) /\ Len(ss) = Slots
  <2>1. ss \in [1 .. Slots -> Seq(ItemSet)]
    BY <1>3, <1>4
  <2> QED BY <2>1, <1>1
<1>6. f \in Seq(ItemSet)
  BY <1>5, FlattenLayout
<1>7. PICK off : Layout(ss, f, off)
  BY <1>5, FlattenLayout
<1> HIDE DEF f
<1>8. /\ \A i \in 1 .. Slots : \A j \in 1 .. Len(ss[i]) :
           off[i - 1] + j \in 1 .. Len(f) /\ f[off[i - 1] + j] = ss[i][j]
      /\ \A q \in 1 .. Len(f) : \E i \in 1 .. Slots : \E j \in 1 .. Len(ss[i]) :
           q = off[i - 1] + j /\ f[q] = ss[i][j]
  <2>1. Places(ss, f, off)
    BY <1>5, <1>6, <1>7, LayoutPlaces
  <2> QED BY <2>1, <1>5, Zenon DEF Places
<1>9. \A i \in 1 .. Slots : off[i - 1] \in Nat
  <2>1. \A i \in 1 .. Slots : i - 1 \in 0 .. Slots
    BY <1>1
  <2> QED BY <2>1, <1>5, <1>7 DEF Layout
<1> DEFINE l == Len(f)
<1>10. l \in Nat
  BY <1>6
<1>11. ASSUME NEW p \in 1 .. l
       PROVE  \E i \in 1 .. Slots :
                /\ \/ \E k \in Outermost(m, i) : f[p] = Item("call", k, 0)
                   \/ f[p] = Item("output", m, 0)
                   \/ /\ f[p] = Item("assign", m, i) /\ p > 1 /\ f[p - 1] = Item("output", m, 0)
                      /\ \A k \in Outermost(m, i) : \E q \in 1 .. p - 1 : f[q] = Item("call", k, 0)
                /\ p = l => f[p] = Item("assign", m, i)
  <2>1. PICK i \in 1 .. Slots : \E j \in 1 .. Len(ss[i]) : p = off[i - 1] + j /\ f[p] = ss[i][j]
    BY <1>8
  <2>2. PICK j \in 1 .. Len(ss[i]) : p = off[i - 1] + j /\ f[p] = ss[i][j]
    BY <2>1
  <2>3. PICK n \in Nat :
          /\ ss[i] \in Seq(ItemSet) /\ Len(ss[i]) = n + 2
          /\ \A h \in 1 .. n : \E k \in Outermost(m, i) : ss[i][h] = Item("call", k, 0)
          /\ \A k \in Outermost(m, i) : \E h \in 1 .. n : ss[i][h] = Item("call", k, 0)
          /\ ss[i][n + 1] = Item("output", m, 0) /\ ss[i][n + 2] = Item("assign", m, i)
    BY <1>2 DEF AssignPiece
  <2>4. PICK b \in Nat : b = off[i - 1]
    BY <1>9
  <2>5. \A h \in 1 .. n + 2 : b + h \in 1 .. l /\ f[b + h] = ss[i][h]
    BY <1>8, <2>3, <2>4, Zenon
  <2> HIDE DEF l
  <2>6. j \in 1 .. n + 2 /\ p = b + j /\ f[p] = ss[i][j]
    BY <2>2, <2>3, <2>4, Zenon
  <2>7. p = l => j = n + 2
    <3>1. n + 2 \in 1 .. n + 2
      OBVIOUS
    <3>2. b + (n + 2) \in 1 .. l
      BY <3>1, <2>5
    <3> QED BY <3>2, <2>6, <1>10
  <2>8. CASE j \in 1 .. n
    <3>1. j # n + 2
      BY <2>8
    <3>2. \E k \in Outermost(m, i) : f[p] = Item("call", k, 0)
      BY <2>3, <2>6, <2>8
    <3> QED BY <3>1, <3>2, <2>7
  <2>9. CASE j = n + 1
    <3>1. j # n + 2
      BY <2>9
    <3>2. f[p] = Item("output", m, 0)
      BY <2>3, <2>6, <2>9, Zenon
    <3> QED BY <3>1, <3>2, <2>7
  <2>10. CASE j = n + 2
    <3>1. f[p] = Item("assign", m, i)
      BY <2>3, <2>6, <2>10, Zenon
    <3>2. p > 1 /\ p - 1 = b + (n + 1) /\ n + 1 \in 1 .. n + 2
      BY <2>6, <2>10
    <3>3. f[p - 1] = Item("output", m, 0)
      BY <3>2, <2>3, <2>5, Zenon
    <3>4. ASSUME NEW k \in Outermost(m, i) PROVE \E q \in 1 .. p - 1 : f[q] = Item("call", k, 0)
      <4>1. PICK h \in 1 .. n : ss[i][h] = Item("call", k, 0)
        BY <2>3
      <4>2. h \in 1 .. n + 2 /\ b + h \in 1 .. p - 1
        BY <2>6, <2>10
      <4> QED BY <4>1, <4>2, <2>5
    <3> QED BY <3>1, <3>2, <3>3, <3>4
  <2>11. j \in 1 .. n \/ j = n + 1 \/ j = n + 2
    BY <2>6
  <2> QED BY <2>8, <2>9, <2>10, <2>11
<1>12. ASSUME NEW i \in 1 .. Slots, NEW k \in Outermost(m, i)
       PROVE  \E q \in 1 .. l : f[q] = Item("call", k, 0)
  <2>1. PICK n \in Nat : Len(ss[i]) = n + 2 /\ \E h \in 1 .. n : ss[i][h] = Item("call", k, 0)
    BY <1>2 DEF AssignPiece
  <2>2. PICK h \in 1 .. n : ss[i][h] = Item("call", k, 0)
    BY <2>1
  <2>3. Len(ss[i]) = n + 2
    BY <2>1
  <2>4. h \in 1 .. Len(ss[i])
    BY <2>3
  <2>5. off[i - 1] + h \in 1 .. l /\ f[off[i - 1] + h] = ss[i][h]
    BY <2>4, <1>8, Zenon
  <2> QED BY <2>2, <2>5, Zenon
<1>13. l >= 1 => \E i \in 1 .. Slots : f[l] = Item("assign", m, i)
  <2>1. l >= 1 => l \in 1 .. l
    BY <1>10
  <2> HIDE DEF l
  <2> QED BY <2>1, <1>11
<1> HIDE DEF l
<1>14. \A p \in 1 .. l : \E i \in 1 .. Slots :
         \/ \E k \in Outermost(m, i) : f[p] = Item("call", k, 0)
         \/ f[p] = Item("output", m, 0)
         \/ /\ f[p] = Item("assign", m, i) /\ p > 1 /\ f[p - 1] = Item("output", m, 0)
            /\ \A k \in Outermost(m, i) : \E q \in 1 .. p - 1 : f[q] = Item("call", k, 0)
  BY <1>11
<1>15. Assigns(f, m)
  BY <1>6, <1>12, <1>13, <1>14 DEF Assigns, l
<1> QED BY <1>15 DEF f, ss


\* A tail call.
LEMMA TailPiece ==
  ASSUME case \in Cases, TailRec(case)
  PROVE  Piece(TailVisits(TailHead), 1)
<1> DEFINE m == TailHead
           f == FlattenSeq([i \in 1 .. Slots |->
                  Visits(Kids(case, m, i)) \o <<Item("output", m, 0), Item("assign", m, i)>>])
           g == Item("goto", m, 0)
           rest == <<g>>
           x == f \o rest
<1>1. /\ m \in CallIds(case) /\ m \in Nat /\ Slots \in Nat
      /\ Outermost(m, 0) = {} /\ Depth[m] = 0 /\ Side[m] = 1
  BY TailFacts, CaseFacts
<1>2. TailVisits(TailHead) = x
  BY DEF TailVisits
<1> HIDE DEF m
<1>3. Assigns(f, m)
  BY <1>1, AssignsFacts
<1>4. g \in ItemSet /\ g.op = "goto" /\ g.n = m /\ g.i = 0
  BY <1>1, ItemFacts DEF Ops, Direct
<1> HIDE DEF f, g
<1>5. rest \in Seq(ItemSet) /\ Len(rest) = 1 /\ rest[1] = g
  BY <1>4
<1> HIDE DEF rest
<1>6. f \in Seq(ItemSet)
  BY <1>3 DEF Assigns
<1>7. PICK y \in Seq(ItemSet), w \in Seq(ItemSet), l \in Nat : y = f /\ w = rest /\ l = Len(f)
  BY <1>5, <1>6
<1>8. /\ y \o w \in Seq(ItemSet) /\ Len(y \o w) = Len(y) + Len(w)
      /\ \A q \in 1 .. Len(y) : (y \o w)[q] = y[q]
      /\ \A q \in 1 .. Len(w) : (y \o w)[Len(y) + q] = w[q]
  BY ConcatFacts
<1> HIDE DEF x
<1>9. x \in Seq(ItemSet) /\ Len(x) = l + 1 /\ (\A q \in 1 .. l : x[q] = f[q]) /\ x[l + 1] = g
  <2>1. x = y \o w /\ Len(y) = l /\ Len(w) = 1 /\ w[1] = g /\ 1 \in 1 .. 1
    <3>1. 1 \in 1 .. 1
      OBVIOUS
    <3> QED BY <3>1, <1>5, <1>7, Zenon DEF x
  <2>2. (y \o w)[Len(y) + 1] = w[1]
    BY <2>1, <1>8, Zenon
  <2> QED BY <2>1, <2>2, <1>7, <1>8, Zenon
<1>10. \A p \in 1 .. l + 1 : p \in 1 .. l \/ p = l + 1
  BY <1>7
<1>11. ASSUME NEW i, NEW k \in Outermost(m, i)
       PROVE  /\ k \in CallIds(case) /\ Depth[k] = 1 /\ Side[k] = 1
              /\ Item("call", k, 0).op = "call" /\ Item("call", k, 0).n = k /\ Item("call", k, 0).i = 0
              /\ Fits("call", k, 0) /\ NeedsItem(Item("call", k, 0)) = {}
              /\ MakesItem(Item("call", k, 0)) = {<<k, 0>>}
  <2>1. k \in CallIds(case)
    BY OutermostIds
  <2>2. k \in Inner(m)
    BY <1>1, <2>1, InnerFacts
  <2>3. Depth[k] = 0 + 1 /\ Side[k] = 1
    BY <1>1, <2>1, <2>2, InnerFacts
  <2>4. Item("call", k, 0).op = "call" /\ Item("call", k, 0).n = k /\ Item("call", k, 0).i = 0
    BY DEF Item
  <2>5. NeedsItem(Item("call", k, 0)) = {} /\ MakesItem(Item("call", k, 0)) = {<<k, 0>>}
    BY NeedsFacts, MakesFacts DEF NeedsItem, MakesItem, Item
  <2>6. Depth[k] = 1
    BY <2>3
  <2>7. Fits("call", k, 0)
    BY <2>1, <2>6 DEF Fits
  <2> QED BY <2>1, <2>3, <2>4, <2>5, <2>6, <2>7
<1> DEFINE Good(p) ==
       /\ x[p].op = "output" \/ Fits(x[p].op, x[p].n, x[p].i)
       /\ x[p].op = "call" => Depth[x[p].n] = 1 /\ Side[x[p].n] = 1
       /\ p > 1 /\ x[p].op \in Direct => x[p - 1].op \in {"output", "assign"}
       /\ \A t \in NeedsItem(x[p]) : \E q \in 1 .. p - 1 : t \in MakesItem(x[q])
<1>12. ASSUME NEW p \in 1 .. l PROVE x[p].op \in {"call", "output", "assign"} /\ Good(p)
  <2>1. PICK i \in 1 .. Slots :
           \/ \E k \in Outermost(m, i) : f[p] = Item("call", k, 0)
           \/ f[p] = Item("output", m, 0)
           \/ /\ f[p] = Item("assign", m, i) /\ p > 1 /\ f[p - 1] = Item("output", m, 0)
              /\ \A k \in Outermost(m, i) : \E q \in 1 .. p - 1 : f[q] = Item("call", k, 0)
    BY <1>3, <1>7 DEF Assigns
  <2>2. x[p] = f[p] /\ \A q \in 1 .. p - 1 : x[q] = f[q]
    BY <1>9
  <2>3. CASE \E k \in Outermost(m, i) : f[p] = Item("call", k, 0)
    <3>1. PICK k \in Outermost(m, i) : x[p] = Item("call", k, 0)
      BY <2>2, <2>3
    <3>2. /\ Depth[k] = 1 /\ Side[k] = 1
          /\ x[p].op = "call" /\ x[p].n = k /\ x[p].i = 0
          /\ Fits("call", k, 0) /\ NeedsItem(x[p]) = {}
      BY <3>1, <1>11, Zenon
    <3> QED BY <3>2 DEF Direct
  <2>4. CASE f[p] = Item("output", m, 0)
    <3>1. NeedsItem(Item("output", m, 0)) = {} /\ Item("output", m, 0).op = "output"
      BY NeedsFacts DEF NeedsItem, Item
    <3> QED BY <3>1, <2>2, <2>4 DEF Direct
  <2>5. CASE /\ f[p] = Item("assign", m, i) /\ p > 1 /\ f[p - 1] = Item("output", m, 0)
             /\ \A k \in Outermost(m, i) : \E q \in 1 .. p - 1 : f[q] = Item("call", k, 0)
    <3>1. /\ NeedsItem(Item("assign", m, i)) = {<<k, 0>> : k \in Outermost(m, i)}
          /\ Item("assign", m, i).op = "assign" /\ Item("assign", m, i).n = m
          /\ Item("assign", m, i).i = i /\ Item("output", m, 0).op = "output"
      BY NeedsFacts DEF NeedsItem, Item
    <3>2. x[p] = Item("assign", m, i) /\ x[p - 1] = Item("output", m, 0)
      <4>1. p - 1 \in 1 .. p - 1
        BY <2>5
      <4> QED BY <4>1, <2>2, <2>5
    <3>3. Fits("assign", m, i)
      BY DEF Fits, m
    <3>4. ASSUME NEW t \in NeedsItem(x[p]) PROVE \E q \in 1 .. p - 1 : t \in MakesItem(x[q])
      <4>1. PICK k \in Outermost(m, i) : t = <<k, 0>>
        BY <3>1, <3>2
      <4>2. PICK q \in 1 .. p - 1 : x[q] = Item("call", k, 0)
        BY <2>2, <2>5
      <4> QED BY <4>1, <4>2, <1>11
    <3> QED BY <3>1, <3>2, <3>3, <3>4
  <2> QED BY <2>1, <2>3, <2>4, <2>5
<1>13. x[l + 1].op = "goto" /\ Good(l + 1)
  <2>1. x[l + 1].op = "goto" /\ Fits("goto", m, 0) /\ x[l + 1].n = m /\ x[l + 1].i = 0
    BY <1>4, <1>9 DEF Fits, m
  <2>2. NeedsItem(x[l + 1]) = {<<k, 0>> : k \in Inner(m)}
    BY <2>1, NeedsFacts DEF NeedsItem
  <2>3. ASSUME NEW t \in NeedsItem(x[l + 1]) PROVE \E q \in 1 .. (l + 1) - 1 : t \in MakesItem(x[q])
    <3>1. PICK k \in Inner(m) : t = <<k, 0>>
      BY <2>2
    <3>2. k \in CallIds(case)
      BY DEF Inner
    <3>3. PICK i \in 0 .. Slots : k \in Outermost(m, i)
      BY <3>2, <1>1, InnerFacts
    <3>4. i \in 1 .. Slots
      BY <3>3, <1>1
    <3>5. PICK q \in 1 .. l : f[q] = Item("call", k, 0)
      BY <3>3, <3>4, <1>3, <1>7 DEF Assigns
    <3>6. x[q] = Item("call", k, 0)
      BY <3>5, <1>9
    <3>7. MakesItem(x[q]) = {<<k, 0>>}
      BY <3>3, <3>6, <1>11
    <3>8. q \in 1 .. (l + 1) - 1
      OBVIOUS
    <3> QED BY <3>1, <3>7, <3>8
  <2>4. l + 1 > 1 => x[(l + 1) - 1].op \in {"output", "assign"}
    <3>1. l + 1 > 1 => l >= 1 /\ l \in 1 .. l /\ (l + 1) - 1 = l
      OBVIOUS
    <3>2. l >= 1 => \E i \in 1 .. Slots : f[l] = Item("assign", m, i)
      BY <1>3, <1>7 DEF Assigns
    <3>3. \A i : Item("assign", m, i).op = "assign"
      BY DEF Item
    <3> QED BY <3>1, <3>2, <3>3, <1>9
  <2> QED BY <2>1, <2>3, <2>4
<1>14. \A p \in 1 .. l + 1 : Good(p)
  <2> HIDE DEF Good
  <2> QED BY <1>10, <1>12, <1>13
<1>15. \A p \in 1 .. Len(x) - 1 : x[p].op \in {"call", "output", "assign"}
  <2>1. \A p \in 1 .. (l + 1) - 1 : p \in 1 .. l
    OBVIOUS
  <2> HIDE DEF Good
  <2> QED BY <2>1, <1>9, <1>12
<1>16. Len(x) >= 1 /\ x[Len(x)].op = "goto"
  BY <1>9, <1>13
<1>17. Piece(x, 1)
  BY <1>9, <1>14, <1>15, <1>16 DEF Piece
<1> QED BY <1>2, <1>17


\* The traversal of a case: a (the when expression, if there is one), then b.
LEMMA StartTraversal ==
  ASSUME case \in Cases,
         NEW a \in Seq(ItemSet), a = <<>> \/ Piece(a, 0), NEW b \in Seq(ItemSet), Piece(b, 1),
         NEW s, s = a \o b
  PROVE  /\ TraversalOK(s) /\ Covered(s, <<>>, <<>>, <<>>)
         /\ s # <<>> /\ Enters(s[1]) = 0
         /\ GuardIn(s, 1) <=> a # <<>>
         /\ \A p \in 1 .. Len(s) : s[p].op \notin Calling
<1>1. /\ s \in Seq(ItemSet) /\ Len(a) \in Nat /\ Len(b) \in Nat /\ Len(s) = Len(a) + Len(b)
      /\ \A q \in 1 .. Len(a) : s[q] = a[q]
      /\ \A q \in 1 .. Len(b) : s[Len(a) + q] = b[q]
  BY ConcatFacts
<1>2. PICK l \in Nat, n \in Nat : l = Len(a) /\ n = Len(b)
  BY <1>1
<1>3. a = <<>> <=> l = 0
  BY <1>2
<1>4. n >= 1
  BY <1>2 DEF Piece
<1> DEFINE h == Len(s)
<1>5. h = l + n
  BY <1>1, <1>2, Zenon
<1> HIDE DEF h
<1>6. \A p \in 1 .. h : p \in 1 .. l \/ (p \notin 1 .. l /\ p - l \in 1 .. n /\ p = l + (p - l))
  BY <1>5
<1>7. ASSUME NEW p \in 1 .. l
      PROVE  /\ s[p] = a[p]
             /\ s[p].op = "output" \/ Fits(s[p].op, s[p].n, s[p].i)
             /\ s[p].op = "call" => Depth[s[p].n] = 1 /\ Side[s[p].n] = 0
             /\ IF p = l THEN s[p].op = "guard" ELSE s[p].op \in {"call", "output"}
             /\ p > 1 /\ s[p].op \in Direct => s[p - 1].op \in {"output", "assign"}
             /\ \A t \in NeedsItem(s[p]) : \E q \in 1 .. p - 1 : t \in MakesItem(s[q])
  <2>1. Piece(a, 0)
    BY <1>3
  <2>2. /\ a[l].op = "guard"
        /\ \A q \in 1 .. l - 1 : a[q].op \in {"call", "output", "assign"}
        /\ a[p].op = "output" \/ Fits(a[p].op, a[p].n, a[p].i)
        /\ a[p].op = "call" => Depth[a[p].n] = 1 /\ Side[a[p].n] = 0
        /\ a[p].op # "assign"
        /\ p > 1 /\ a[p].op \in Direct => a[p - 1].op \in {"output", "assign"}
        /\ \A t \in NeedsItem(a[p]) : \E q \in 1 .. p - 1 : t \in MakesItem(a[q])
    <3>1. p \in 1 .. Len(a) /\ \A q \in 1 .. l - 1 : q \in 1 .. Len(a) - 1
      BY <1>2
    <3>2. a[Len(a)].op = "guard"
      BY <2>1 DEF Piece
    <3>3. \A q \in 1 .. l - 1 : a[q].op \in {"call", "output", "assign"}
      BY <2>1, <3>1 DEF Piece
    <3>4. /\ a[p].op = "output" \/ Fits(a[p].op, a[p].n, a[p].i)
          /\ a[p].op = "call" => Depth[a[p].n] = 1 /\ Side[a[p].n] = 0
          /\ p > 1 /\ a[p].op \in Direct => a[p - 1].op \in {"output", "assign"}
          /\ \A t \in NeedsItem(a[p]) : \E q \in 1 .. p - 1 : t \in MakesItem(a[q])
      BY <2>1, <3>1, Zenon DEF Piece
    <3>5. a[p].op = "assign" => 0 = 1
      BY <2>1, <3>1, Zenon DEF Piece
    <3> QED BY <3>2, <3>3, <3>4, <3>5, <1>2
  <2>3. s[p] = a[p] /\ \A q \in 1 .. p - 1 : s[q] = a[q]
    BY <1>1, <1>2
  <2>4. p > 1 => s[p - 1] = a[p - 1]
    <3>1. p > 1 => p - 1 \in 1 .. p - 1
      OBVIOUS
    <3> QED BY <2>3, <3>1
  <2>5. p # l => p \in 1 .. l - 1
    OBVIOUS
  <2>6. \A t \in NeedsItem(s[p]) : \E q \in 1 .. p - 1 : t \in MakesItem(s[q])
    BY <2>2, <2>3
  <2> QED BY <2>2, <2>3, <2>4, <2>5, <2>6
<1>8. ASSUME NEW p \in 1 .. n
      PROVE  /\ s[l + p] = b[p]
             /\ b[p].op = "output" \/ Fits(b[p].op, b[p].n, b[p].i)
             /\ b[p].op = "call" => Depth[b[p].n] = 1 /\ Side[b[p].n] = 1
             /\ b[p].op \in IF p = n THEN {"exit", "goto"} ELSE {"call", "output", "assign"}
             /\ p > 1 /\ b[p].op \in Direct => b[p - 1].op \in {"output", "assign"}
             /\ \A t \in NeedsItem(b[p]) : \E q \in 1 .. p - 1 : t \in MakesItem(b[q])
  <2>1. s[l + p] = b[p]
    BY <1>1, <1>2, Zenon
  <2>2. p # n => p \in 1 .. n - 1
    OBVIOUS
  <2>3. /\ b[n].op \in {"exit", "goto"}
        /\ \A q \in 1 .. n - 1 : b[q].op \in {"call", "output", "assign"}
        /\ b[p].op = "output" \/ Fits(b[p].op, b[p].n, b[p].i)
        /\ b[p].op = "call" => Depth[b[p].n] = 1 /\ Side[b[p].n] = 1
        /\ p > 1 /\ b[p].op \in Direct => b[p - 1].op \in {"output", "assign"}
        /\ \A t \in NeedsItem(b[p]) : \E q \in 1 .. p - 1 : t \in MakesItem(b[q])
    <3>1. p \in 1 .. Len(b) /\ \A q \in 1 .. n - 1 : q \in 1 .. Len(b) - 1
      BY <1>2
    <3>2. b[Len(b)].op \in {"exit", "goto"}
      BY DEF Piece
    <3>3. \A q \in 1 .. n - 1 : b[q].op \in {"call", "output", "assign"}
      BY <3>1 DEF Piece
    <3>4. /\ b[p].op = "output" \/ Fits(b[p].op, b[p].n, b[p].i)
          /\ b[p].op = "call" => Depth[b[p].n] = 1 /\ Side[b[p].n] = 1
          /\ p > 1 /\ b[p].op \in Direct => b[p - 1].op \in {"output", "assign"}
          /\ \A t \in NeedsItem(b[p]) : \E q \in 1 .. p - 1 : t \in MakesItem(b[q])
      BY <3>1, Zenon DEF Piece
    <3> QED BY <3>2, <3>3, <3>4, <1>2
  <2>4. b[p].op \in IF p = n THEN {"exit", "goto"} ELSE {"call", "output", "assign"}
    BY <2>2, <2>3
  <2> QED BY <2>1, <2>3, <2>4
<1>9. ASSUME NEW p \in 1 .. h
      PROVE  /\ s[p].op = "output" \/ Fits(s[p].op, s[p].n, s[p].i)
             /\ s[p].op \in {"call", "output", "assign", "guard", "exit", "goto"}
             /\ s[p].op = "call" => Depth[s[p].n] = 1
  <2>1. CASE p \in 1 .. l
    BY <2>1, <1>7
  <2>2. CASE p - l \in 1 .. n /\ p = l + (p - l)
    <3>1. PICK q \in 1 .. n : q = p - l
      BY <2>2
    <3>2. s[p] = b[q]
      BY <2>2, <3>1, <1>8, Zenon
    <3>3. /\ b[q].op = "output" \/ Fits(b[q].op, b[q].n, b[q].i)
          /\ b[q].op \in {"call", "output", "assign", "exit", "goto"}
          /\ b[q].op = "call" => Depth[b[q].n] = 1
      BY <3>1, <1>8
    <3> QED BY <3>2, <3>3
  <2> QED BY <1>6, <2>1, <2>2
<1>10. ASSUME NEW p \in 1 .. h PROVE Enters(s[p]) = 0 /\ Leaves(s[p]) = 0 /\ s[p].op \notin Calling
  <2>1. s[p].op \notin Calling
    BY <1>9 DEF Calling
  <2>2. CASE s[p].op = "call"
    <3>1. Enters(s[p]) = Depth[s[p].n] - 1 /\ Leaves(s[p]) = Depth[s[p].n] - 1
      BY <2>2 DEF Enters, Leaves, Calling
    <3>2. Depth[s[p].n] = 1
      BY <2>2, <1>9
    <3>3. 1 - 1 = 0
      OBVIOUS
    <3> QED BY <2>1, <3>1, <3>2, <3>3, Zenon
  <2>3. CASE s[p].op # "call"
    BY <2>1, <2>3 DEF Enters, Leaves, Calling
  <2> QED BY <2>1, <2>2, <2>3
<1>11. ASSUME NEW p \in 1 .. h - 1 PROVE Leaves(s[p]) = Enters(s[p + 1])
  <2>1. p \in 1 .. h /\ p + 1 \in 1 .. h
    BY <1>5
  <2> QED BY <2>1, <1>10
<1>12. ASSUME NEW p \in 2 .. h, s[p].op \in Direct PROVE s[p - 1].op \in {"output", "guard", "assign"}
  <2>1. CASE p \in 1 .. l
    <3>1. p > 1
      OBVIOUS
    <3>2. s[p - 1].op \in {"output", "assign"}
      BY <2>1, <3>1, <1>7, <1>12
    <3> QED BY <3>2
  <2>2. CASE p - l \in 1 .. n /\ p = l + (p - l)
    <3>1. CASE p - l = 1
      <4>1. p - 1 = l /\ l \in 1 .. l
        BY <3>1
      <4>2. s[l].op = "guard"
        BY <4>1, <1>7
      <4> QED BY <4>1, <4>2
    <3>2. CASE p - l # 1
      <4>1. (p - l) - 1 \in 1 .. n /\ p - l > 1 /\ l + ((p - l) - 1) = p - 1
        BY <2>2, <3>2
      <4>2. s[p - 1] = b[(p - l) - 1] /\ s[p] = b[p - l]
        BY <2>2, <4>1, <1>8
      <4> QED BY <4>1, <4>2, <2>2, <1>8, <1>12
    <3> QED BY <3>1, <3>2
  <2>3. p \in 1 .. h
    OBVIOUS
  <2> QED BY <1>6, <2>1, <2>2, <2>3
<1>13. ASSUME NEW p \in 1 .. h + 1 PROVE GuardIn(s, p) <=> p <= l
  <2>1. ASSUME p <= l PROVE GuardIn(s, p)
    <3>1. l \in 1 .. l /\ l \in p .. h
      BY <2>1, <1>5
    <3> QED BY <3>1, <1>7 DEF GuardIn, h
  <2>2. ASSUME GuardIn(s, p) PROVE p <= l
    <3>1. PICK q \in p .. h : s[q].op = "guard"
      BY <2>2 DEF GuardIn, h
    <3>2. CASE q \in 1 .. l
      BY <3>2
    <3>3. CASE q - l \in 1 .. n /\ q = l + (q - l)
      <4>1. b[q - l].op = "guard"
        BY <3>1, <3>3, <1>8
      <4> QED BY <3>3, <4>1, <1>8
    <3>4. q \in 1 .. h
      BY <1>5
    <3> QED BY <1>6, <3>2, <3>3, <3>4
  <2> QED BY <2>1, <2>2
<1>14. ASSUME NEW p \in 1 .. h
       PROVE  /\ s[p].op \in Calling \cup {"call"} => (Side[s[p].n] = 0 <=> GuardIn(s, p + 1))
              /\ s[p].op \in Direct => ~GuardIn(s, p + 1)
  <2>1. p + 1 \in 1 .. h + 1
    BY <1>5
  <2>2. CASE p \in 1 .. l
    <3>1. p = l \/ p + 1 <= l
      BY <2>2
    <3>2. CASE p = l
      <4>1. s[p].op = "guard"
        BY <2>2, <3>2, <1>7
      <4>2. ~(p + 1 <= l)
        BY <3>2
      <4>3. ~GuardIn(s, p + 1)
        BY <2>1, <4>2, <1>13
      <4> QED BY <4>1, <4>3 DEF Calling
    <3>3. CASE p + 1 <= l
      <4>1. p # l
        BY <3>3
      <4>2. s[p].op \in {"call", "output"} /\ (s[p].op = "call" => Side[s[p].n] = 0)
        BY <4>1, <2>2, <1>7
      <4>3. GuardIn(s, p + 1)
        BY <2>1, <3>3, <1>13
      <4> QED BY <4>2, <4>3 DEF Calling, Direct
    <3> QED BY <3>1, <3>2, <3>3
  <2>3. CASE p - l \in 1 .. n /\ p = l + (p - l)
    <3>1. ~(p + 1 <= l)
      BY <2>3
    <3>2. ~GuardIn(s, p + 1)
      BY <2>1, <3>1, <1>13
    <3>3. s[p].op \in {"call", "output", "assign", "exit", "goto"} /\ (s[p].op = "call" => Side[s[p].n] = 1)
      <4>1. PICK q \in 1 .. n : q = p - l
        BY <2>3
      <4>2. s[p] = b[q]
        BY <2>3, <4>1, <1>8, Zenon
      <4>3. /\ b[q].op \in {"call", "output", "assign", "exit", "goto"}
            /\ b[q].op = "call" => Side[b[q].n] = 1
        BY <4>1, <1>8
      <4> QED BY <4>2, <4>3
    <3>4. s[p].op \in Calling \cup {"call"} => s[p].op = "call"
      BY <3>3 DEF Calling
    <3>5. ASSUME s[p].op = "call" PROVE ~(Side[s[p].n] = 0)
      <4>1. Side[s[p].n] = 1
        BY <3>3, <3>5, Zenon
      <4> HIDE DEF h
      <4> QED BY <4>1, SMT
    <3> QED BY <3>2, <3>4, <3>5, Zenon
  <2> QED BY <1>6, <2>2, <2>3
<1>15. s # <<>> /\ h \in 1 .. h /\ s[h].op \in {"exit", "goto"} /\ 1 \in 1 .. h
  <2>1. h \in 1 .. h /\ 1 \in 1 .. h /\ n \in 1 .. n
    BY <1>4, <1>5
  <2>2. s[l + n].op \in {"exit", "goto"}
    BY <2>1, <1>8
  <2>3. s # <<>>
    BY <2>1 DEF h
  <2> QED BY <2>1, <2>2, <2>3, <1>5
<1>16. TraversalOK(s)
  BY <1>1, <1>9, <1>11, <1>12, <1>14, <1>15 DEF TraversalOK, h
<1>17. ASSUME NEW p \in 1 .. h, NEW t \in NeedsItem(s[p])
       PROVE  \E q \in 1 .. p - 1 : t \in MakesItem(s[q])
  <2>1. CASE p \in 1 .. l
    BY <2>1, <1>7
  <2>2. CASE p - l \in 1 .. n /\ p = l + (p - l)
    <3>1. PICK q \in 1 .. (p - l) - 1 : t \in MakesItem(b[q])
      <4>1. s[p] = b[p - l] /\ \A e \in NeedsItem(b[p - l]) : \E q \in 1 .. (p - l) - 1 : e \in MakesItem(b[q])
        BY <2>2, <1>8
      <4> QED BY <4>1
    <3>2. q \in 1 .. n /\ l + q \in 1 .. p - 1
      BY <2>2
    <3>3. s[l + q] = b[q]
      BY <3>2, <1>8
    <3> QED BY <3>1, <3>2, <3>3
  <2> QED BY <1>6, <2>1, <2>2
<1>18. Covered(s, <<>>, <<>>, <<>>)
  BY <1>17 DEF Covered, h
<1>19. GuardIn(s, 1) <=> a # <<>>
  <2>1. 1 \in 1 .. h + 1 /\ (1 <= l <=> l # 0)
    BY <1>5
  <2> QED BY <2>1, <1>3, <1>13
<1>20. Enters(s[1]) = 0
  BY <1>10, <1>15
<1> QED BY <1>10, <1>15, <1>16, <1>18, <1>19, <1>20 DEF h


-----------------------------------------------------------------------------
(* Placing calls at their levels *)

LEMMA CoveredMonotone ==
  ASSUME NEW s, NEW c, NEW pc, NEW sc, Covered(s, c, pc, sc), NEW qc, NEW tc,
         \A t : Placed(pc, sc, t) => Placed(qc, tc, t)
  PROVE  Covered(s, c, qc, tc)
BY DEF Covered

\* A new level is empty.
LEMMA OpenKeeps ==
  ASSUME NEW pc, NEW sc, NEW c, LevelTypes(pc, sc), LevelsOK(pc, sc, c)
  PROVE  /\ LevelTypes(Append(pc, <<>>), Append(sc, Null))
         /\ LevelsOK(Append(pc, <<>>), Append(sc, Null), c)
         /\ Len(Append(pc, <<>>)) = Len(pc) + 1
         /\ \A t : Placed(pc, sc, t) => Placed(Append(pc, <<>>), Append(sc, Null), t)
<1> DEFINE qc == Append(pc, <<>>)
           tc == Append(sc, Null)
           n == Len(pc)
<1>1. pc \in Seq(Seq(StatementSet)) /\ sc \in Seq({Null} \cup CallIds(case)) /\ Len(sc) = Len(pc) /\ n \in Nat
  BY DEF LevelTypes
<1>2. <<>> \in Seq(StatementSet) /\ Len(<<>>) = 0
  OBVIOUS
<1>3. /\ qc \in Seq(Seq(StatementSet)) /\ Len(qc) = n + 1 /\ qc[n + 1] = <<>>
      /\ \A l \in 1 .. n : qc[l] = pc[l]
  BY <1>1, <1>2
<1>4. /\ tc \in Seq({Null} \cup CallIds(case)) /\ Len(tc) = n + 1 /\ tc[n + 1] = Null
      /\ \A l \in 1 .. n : tc[l] = sc[l]
  BY <1>1
<1> HIDE DEF qc, tc
<1>5. \A l \in 1 .. n : \A t : InLevel(qc, tc, l, t) <=> InLevel(pc, sc, l, t)
  BY <1>3, <1>4 DEF InLevel
<1> HIDE DEF n
<1>6. ASSUME NEW t, Placed(pc, sc, t) PROVE Placed(qc, tc, t)
  <2>1. PICK l \in 1 .. n : InLevel(pc, sc, l, t)
    BY <1>6 DEF Placed, n
  <2>2. l \in 1 .. n + 1
    BY <1>1
  <2> QED BY <2>1, <2>2, <1>3, <1>5 DEF Placed
<1>7. ASSUME NEW l \in 1 .. n, NEW t, Deeper(pc, sc, l, t) PROVE Deeper(qc, tc, l, t)
  <2>1. PICK d \in l + 1 .. n : InLevel(pc, sc, d, t)
    BY <1>7 DEF Deeper, n
  <2>2. d \in l + 1 .. n + 1 /\ d \in 1 .. n
    BY <1>1
  <2> QED BY <2>1, <2>2, <1>3, <1>5 DEF Deeper
<1>8. \A l \in 1 .. n + 1 : l \in 1 .. n \/ l = n + 1
  BY <1>1
<1>9. LevelsOK(qc, tc, c)
  <2>1. ASSUME NEW l \in 1 .. n + 1
        PROVE  /\ \A j \in 1 .. Len(qc[l]) :
                    /\ IsStatement(qc[l][j]) /\ qc[l][j].do \in {"arg", "spawn"}
                    /\ Depth[qc[l][j].n] = l
                    /\ Side[qc[l][j].n] = 1 <=> Past(c, Len(c) + 1)
                    /\ \A t \in NeedsStatement(qc[l][j]) :
                         \/ InCode(c, t) \/ Deeper(qc, tc, l, t)
                         \/ \E h \in 1 .. j - 1 : qc[l][h].do = "arg" /\ t \in MakesStatement(qc[l][h])
               /\ tc[l] # Null =>
                    /\ Depth[tc[l]] = l
                    /\ Side[tc[l]] = 1 <=> Past(c, Len(c) + 1)
                    /\ \A t \in Needs("seq", tc[l], 0) : InCode(c, t) \/ Deeper(qc, tc, l, t)
    <3>1. CASE l \in 1 .. n
      <4>1. qc[l] = pc[l] /\ tc[l] = sc[l]
        BY <3>1, <1>3, <1>4
      <4>2. \A t : Deeper(pc, sc, l, t) => Deeper(qc, tc, l, t)
        BY <3>1, <1>7
      <4> QED BY <3>1, <4>1, <4>2 DEF LevelsOK, n
    <3>2. CASE l = n + 1
      <4>1. \A j \in 1 .. Len(qc[l]) : FALSE
        BY <3>2, <1>2, <1>3
      <4>2. tc[l] = Null
        BY <3>2, <1>4
      <4> QED BY <4>1, <4>2
    <3> QED BY <1>8, <3>1, <3>2
  <2> QED BY <2>1, <1>3 DEF LevelsOK
<1>10. LevelTypes(qc, tc)
  BY <1>3, <1>4 DEF LevelTypes
<1> QED BY <1>3, <1>6, <1>9, <1>10 DEF qc, tc, n

\* A call that is placed is at the level of its depth.
LEMMA PlacedAt ==
  ASSUME NEW pc, NEW sc, NEW c, LevelsOK(pc, sc, c), NEW l \in 1 .. Len(pc),
         NEW k, NEW i, InLevel(pc, sc, l, <<k, i>>)
  PROVE  /\ Depth[k] = l
         /\ i # 0 => \E j \in 1 .. Len(pc[l]) :
              pc[l][j].do = "arg" /\ <<k, i>> \in MakesStatement(pc[l][j])
<1>1. CASE \E j \in 1 .. Len(pc[l]) : <<k, i>> \in MakesStatement(pc[l][j])
  <2>1. PICK j \in 1 .. Len(pc[l]) : <<k, i>> \in MakesStatement(pc[l][j])
    BY <1>1
  <2>2. IsStatement(pc[l][j]) /\ pc[l][j].do \in {"arg", "spawn"} /\ Depth[pc[l][j].n] = l
    BY DEF LevelsOK
  <2>3. MakesStatement(pc[l][j]) = {<<pc[l][j].n, pc[l][j].i>>}
    BY <2>2, MakesFacts DEF MakesStatement
  <2>4. k = pc[l][j].n /\ i = pc[l][j].i
    BY <2>1, <2>3
  <2>5. pc[l][j].do = "spawn" => pc[l][j].i = 0
    BY <2>2 DEF IsStatement, Fits, Direct
  <2> QED BY <2>1, <2>2, <2>4, <2>5
<1>2. CASE sc[l] # Null /\ <<k, i>> = <<sc[l], 0>>
  <2>1. k = sc[l] /\ i = 0
    BY <1>2
  <2>2. Depth[sc[l]] = l
    BY <1>2 DEF LevelsOK
  <2> QED BY <2>1, <2>2
<1> QED BY <1>1, <1>2 DEF InLevel

\* What a call needs is deeper, or an argument that has been placed with it.
LEMMA NeedsDeeper ==
  ASSUME case \in Cases, NEW pc, NEW sc, NEW c, LevelsOK(pc, sc, c), LevelTypes(pc, sc),
         NEW op \in Calling, NEW m \in CallIds(case), NEW i, NEW t \in Needs(op, m, i), Placed(pc, sc, t)
  PROVE  \/ Deeper(pc, sc, Depth[m], t)
         \/ /\ op = "spawn" /\ Depth[m] \in 1 .. Len(pc)
            /\ \E j \in 1 .. Len(pc[Depth[m]]) :
                 pc[Depth[m]][j].do = "arg" /\ t \in MakesStatement(pc[Depth[m]][j])
<1>1. PICK l \in 1 .. Len(pc) : InLevel(pc, sc, l, t)
  BY DEF Placed
<1>2. Depth[m] \in Nat /\ Len(pc) \in Nat
  BY DepthFacts DEF LevelTypes
<1>3. CASE \E k \in Inner(m) : t = <<k, 0>>
  <2>1. PICK k \in Inner(m) : t = <<k, 0>>
    BY <1>3
  <2>2. k \in CallIds(case) /\ Depth[k] = Depth[m] + 1
    <3>1. k \in CallIds(case)
      BY DEF Inner
    <3> QED BY <3>1, InnerFacts
  <2>3. Depth[k] = l
    <3>1. InLevel(pc, sc, l, <<k, 0>>)
      BY <1>1, <2>1, Zenon
    <3> QED BY <3>1, PlacedAt
  <2>4. l \in Depth[m] + 1 .. Len(pc)
    BY <1>2, <2>2, <2>3
  <2> QED BY <1>1, <2>4 DEF Deeper
<1>4. CASE op = "spawn" /\ \E j \in 1 .. Slots : t = <<m, j>>
  <2>1. PICK j \in 1 .. Slots : t = <<m, j>>
    BY <1>4
  <2>2. j # 0
    BY CaseFacts
  <2>3. /\ Depth[m] = l
        /\ \E h \in 1 .. Len(pc[l]) : pc[l][h].do = "arg" /\ t \in MakesStatement(pc[l][h])
    <3>1. InLevel(pc, sc, l, <<m, j>>)
      BY <1>1, <2>1, Zenon
    <3>2. /\ Depth[m] = l
          /\ \E h \in 1 .. Len(pc[l]) : pc[l][h].do = "arg" /\ <<m, j>> \in MakesStatement(pc[l][h])
      BY <3>1, <2>2, PlacedAt
    <3> QED BY <3>2, <2>1, Zenon
  <2> QED BY <1>4, <2>3
<1>5. \A j, k : k \in Outermost(m, j) => k \in Inner(m)
  <2>1. ASSUME NEW j, NEW k \in Outermost(m, j) PROVE k \in Inner(m)
    <3>1. k \in CallIds(case)
      BY OutermostIds
    <3> QED BY <3>1, InnerFacts
  <2> QED BY <2>1
<1>6. (\E j : \E k \in Outermost(m, j) : t = <<k, 0>>) \/ (op = "spawn" /\ \E j \in 1 .. Slots : t = <<m, j>>)
  <2>1. CASE op = "arg"
    BY <2>1, NeedsFacts
  <2>2. CASE op = "spawn"
    BY <2>2, NeedsFacts
  <2>3. CASE op = "seq"
    BY <2>3, NeedsFacts
  <2> QED BY <2>1, <2>2, <2>3 DEF Calling
<1> QED BY <1>3, <1>4, <1>5, <1>6


\* A statement that can be placed at level d.
Placeable(st, d, pc, sc, c) ==
  /\ IsStatement(st) /\ st.do \in {"arg", "spawn"} /\ Depth[st.n] = d
  /\ Side[st.n] = 1 <=> Past(c, Len(c) + 1)
  /\ \A t \in NeedsStatement(st) :
       \/ InCode(c, t) \/ Deeper(pc, sc, d, t)
       \/ \E h \in 1 .. Len(pc[d]) : pc[d][h].do = "arg" /\ t \in MakesStatement(pc[d][h])

\* What a step that places st leaves of the levels pc.
PlacedIn(qc, pc, sc, c, st) ==
  /\ LevelTypes(qc, sc) /\ LevelsOK(qc, sc, c) /\ Len(qc) = Len(pc)
  /\ \A t : Placed(pc, sc, t) => Placed(qc, sc, t)
  /\ \A t \in MakesStatement(st) : Placed(qc, sc, t)

LEMMA PlaceParallel ==
  ASSUME NEW pc, NEW sc, NEW c, LevelTypes(pc, sc), LevelsOK(pc, sc, c), NEW d \in 1 .. Len(pc),
         NEW st, Placeable(st, d, pc, sc, c)
  PROVE  PlacedIn([pc EXCEPT ![d] = Append(@, st)], pc, sc, c, st)
<1> SUFFICES ASSUME IsStatement(st), st.do \in {"arg", "spawn"}, Depth[st.n] = d,
         Side[st.n] = 1 <=> Past(c, Len(c) + 1),
         \A t \in NeedsStatement(st) :
           \/ InCode(c, t) \/ Deeper(pc, sc, d, t)
           \/ \E h \in 1 .. Len(pc[d]) : pc[d][h].do = "arg" /\ t \in MakesStatement(pc[d][h])
    PROVE PlacedIn([pc EXCEPT ![d] = Append(@, st)], pc, sc, c, st)
  BY DEF Placeable
<1> DEFINE n == Len(pc)
           new == Append(pc[d], st)
           qc == [pc EXCEPT ![d] = new]
           a == Len(pc[d])
<1>1. pc \in Seq(Seq(StatementSet)) /\ sc \in Seq({Null} \cup CallIds(case)) /\ Len(sc) = n /\ n \in Nat
  BY DEF LevelTypes
<1>2. pc[d] \in Seq(StatementSet) /\ a \in Nat
  BY <1>1
<1>3. st \in StatementSet
  BY DEF IsStatement
<1>4. /\ new \in Seq(StatementSet) /\ Len(new) = a + 1 /\ new[a + 1] = st
      /\ \A j \in 1 .. a : new[j] = pc[d][j]
  <2>1. PICK u \in Seq(StatementSet) : u = pc[d]
    BY <1>2
  <2>2. /\ Append(u, st) \in Seq(StatementSet) /\ Len(Append(u, st)) = Len(u) + 1
        /\ Append(u, st)[Len(u) + 1] = st
        /\ \A j \in 1 .. Len(u) : Append(u, st)[j] = u[j]
    BY <1>3
  <2> QED BY <2>1, <2>2, Zenon
<1> HIDE DEF new
<1>5. qc \in Seq(Seq(StatementSet)) /\ Len(qc) = n /\ qc[d] = new /\ \A l \in 1 .. n : l # d => qc[l] = pc[l]
  BY <1>1, <1>4
<1> HIDE DEF qc, a, n
<1>6. ASSUME NEW l \in 1 .. n, NEW t, InLevel(pc, sc, l, t) PROVE InLevel(qc, sc, l, t)
  <2>1. CASE l # d
    BY <2>1, <1>5, <1>6 DEF InLevel
  <2>2. CASE l = d
    <3>1. CASE \E j \in 1 .. a : t \in MakesStatement(pc[l][j])
      <4>1. PICK j \in 1 .. a : t \in MakesStatement(pc[l][j])
        BY <3>1
      <4>2. new[j] = pc[l][j] /\ j \in 1 .. a + 1
        BY <2>2, <1>2, <1>4
      <4> QED BY <2>2, <4>1, <4>2, <1>4, <1>5 DEF InLevel
    <3>2. CASE sc[l] # Null /\ t = <<sc[l], 0>>
      BY <3>2 DEF InLevel
    <3> QED BY <2>2, <3>1, <3>2, <1>6 DEF InLevel, a
  <2> QED BY <2>1, <2>2
<1>7. \A t : Placed(pc, sc, t) => Placed(qc, sc, t)
  BY <1>5, <1>6 DEF Placed, n
<1>8. ASSUME NEW l \in 1 .. n, NEW t, Deeper(pc, sc, l, t) PROVE Deeper(qc, sc, l, t)
  <2>1. PICK e \in l + 1 .. n : InLevel(pc, sc, e, t)
    BY <1>8 DEF Deeper, n
  <2>2. e \in 1 .. n
    BY <1>1
  <2> QED BY <2>1, <2>2, <1>5, <1>6 DEF Deeper
<1>9. ASSUME NEW t \in MakesStatement(st) PROVE Placed(qc, sc, t)
  <2>1. a + 1 \in 1 .. a + 1 /\ d \in 1 .. n
    BY <1>2 DEF n
  <2>2. InLevel(qc, sc, d, t)
    BY <2>1, <1>4, <1>5 DEF InLevel
  <2> QED BY <2>1, <2>2, <1>5 DEF Placed
<1> DEFINE Fine(l, j) ==
             /\ IsStatement(qc[l][j]) /\ qc[l][j].do \in {"arg", "spawn"}
             /\ Depth[qc[l][j].n] = l
             /\ Side[qc[l][j].n] = 1 <=> Past(c, Len(c) + 1)
             /\ \A t \in NeedsStatement(qc[l][j]) :
                  \/ InCode(c, t) \/ Deeper(qc, sc, l, t)
                  \/ \E h \in 1 .. j - 1 : qc[l][h].do = "arg" /\ t \in MakesStatement(qc[l][h])
<1>10. ASSUME NEW l \in 1 .. n, l # d, NEW j \in 1 .. Len(qc[l]) PROVE Fine(l, j)
  <2>1. qc[l] = pc[l]
    BY <1>5, <1>10
  <2> QED BY <2>1, <1>8, <1>10 DEF LevelsOK, n
<1>11. ASSUME NEW j \in 1 .. a PROVE Fine(d, j)
  <2>1. d \in 1 .. n
    BY DEF n
  <2>2. qc[d][j] = pc[d][j] /\ \A h \in 1 .. j - 1 : qc[d][h] = pc[d][h]
    <3>1. \A h \in 1 .. j - 1 : h \in 1 .. a
      BY <1>2
    <3> QED BY <3>1, <1>4, <1>5
  <2>3. \A t : Deeper(pc, sc, d, t) => Deeper(qc, sc, d, t)
    BY <2>1, <1>8
  <2>4. /\ IsStatement(pc[d][j]) /\ pc[d][j].do \in {"arg", "spawn"}
        /\ Depth[pc[d][j].n] = d
        /\ Side[pc[d][j].n] = 1 <=> Past(c, Len(c) + 1)
        /\ \A t \in NeedsStatement(pc[d][j]) :
             \/ InCode(c, t) \/ Deeper(pc, sc, d, t)
             \/ \E h \in 1 .. j - 1 : pc[d][h].do = "arg" /\ t \in MakesStatement(pc[d][h])
    BY DEF LevelsOK, a
  <2>5. ASSUME NEW t \in NeedsStatement(qc[d][j])
        PROVE  \/ InCode(c, t) \/ Deeper(qc, sc, d, t)
               \/ \E h \in 1 .. j - 1 : qc[d][h].do = "arg" /\ t \in MakesStatement(qc[d][h])
    <3>1. CASE \E h \in 1 .. j - 1 : pc[d][h].do = "arg" /\ t \in MakesStatement(pc[d][h])
      BY <3>1, <2>2
    <3>2. t \in NeedsStatement(pc[d][j])
      BY <2>2
    <3> QED BY <3>1, <3>2, <2>3, <2>4
  <2> QED BY <2>2, <2>4, <2>5
<1>12. Fine(d, a + 1)
  <2>1. qc[d][a + 1] = st /\ (a + 1) - 1 = a
    BY <1>2, <1>4, <1>5
  <2>2. \A h \in 1 .. a : qc[d][h] = pc[d][h]
    BY <1>4, <1>5
  <2>3. \A t : Deeper(pc, sc, d, t) => Deeper(qc, sc, d, t)
    BY <1>8 DEF n
  <2>4. ASSUME NEW t \in NeedsStatement(st)
        PROVE  \/ InCode(c, t) \/ Deeper(qc, sc, d, t)
               \/ \E h \in 1 .. (a + 1) - 1 : qc[d][h].do = "arg" /\ t \in MakesStatement(qc[d][h])
    <3>1. CASE \E h \in 1 .. a : pc[d][h].do = "arg" /\ t \in MakesStatement(pc[d][h])
      BY <3>1, <2>1, <2>2
    <3> QED BY <3>1, <2>3 DEF a
  <2> QED BY <2>1, <2>4
<1>13. \A l \in 1 .. n : \A j \in 1 .. Len(qc[l]) : Fine(l, j)
  <2>1. \A j \in 1 .. Len(qc[d]) : j \in 1 .. a \/ j = a + 1
    BY <1>2, <1>4, <1>5
  <2> HIDE DEF Fine
  <2> QED BY <2>1, <1>10, <1>11, <1>12
<1>14. ASSUME NEW l \in 1 .. n, sc[l] # Null
       PROVE  /\ Depth[sc[l]] = l
              /\ Side[sc[l]] = 1 <=> Past(c, Len(c) + 1)
              /\ \A t \in Needs("seq", sc[l], 0) : InCode(c, t) \/ Deeper(qc, sc, l, t)
  BY <1>8, <1>14 DEF LevelsOK, n
<1>15. LevelsOK(qc, sc, c)
  BY <1>5, <1>13, <1>14 DEF LevelsOK
<1>16. LevelTypes(qc, sc)
  BY <1>1, <1>5 DEF LevelTypes
<1>17. PlacedIn(qc, pc, sc, c, st)
  BY <1>5, <1>7, <1>9, <1>15, <1>16 DEF PlacedIn, n
<1> QED BY <1>17 DEF qc, new

\* The call m is placed as the one of level d that the task makes itself.
LEMMA PlaceOwn ==
  ASSUME NEW pc, NEW sc, NEW c, LevelTypes(pc, sc), LevelsOK(pc, sc, c), NEW d \in 1 .. Len(pc),
         sc[d] = Null, NEW m \in CallIds(case), m # Null, Depth[m] = d,
         Side[m] = 1 <=> Past(c, Len(c) + 1),
         \A t \in Needs("seq", m, 0) : InCode(c, t) \/ Deeper(pc, sc, d, t)
  PROVE  LET tc == [sc EXCEPT ![d] = m] IN
         /\ LevelTypes(pc, tc) /\ LevelsOK(pc, tc, c) /\ Len(tc) = Len(sc)
         /\ \A t : Placed(pc, sc, t) => Placed(pc, tc, t)
         /\ Placed(pc, tc, <<m, 0>>)
<1> DEFINE n == Len(pc)
           tc == [sc EXCEPT ![d] = m]
<1>1. pc \in Seq(Seq(StatementSet)) /\ sc \in Seq({Null} \cup CallIds(case)) /\ Len(sc) = n /\ n \in Nat
  BY DEF LevelTypes
<1>2. /\ tc \in Seq({Null} \cup CallIds(case)) /\ Len(tc) = n /\ tc[d] = m
      /\ \A l \in 1 .. n : l # d => tc[l] = sc[l]
  BY <1>1
<1> HIDE DEF n, tc
<1>3. ASSUME NEW l \in 1 .. n, NEW t, InLevel(pc, sc, l, t) PROVE InLevel(pc, tc, l, t)
  <2>1. CASE l = d
    <3>1. sc[l] = Null
      BY <2>1
    <3> QED BY <3>1, <1>3 DEF InLevel
  <2>2. CASE l # d
    BY <2>2, <1>2, <1>3 DEF InLevel
  <2> QED BY <2>1, <2>2
<1>4. \A t : Placed(pc, sc, t) => Placed(pc, tc, t)
  BY <1>3 DEF Placed, n
<1>5. ASSUME NEW l \in 1 .. n, NEW t, Deeper(pc, sc, l, t) PROVE Deeper(pc, tc, l, t)
  <2>1. PICK e \in l + 1 .. n : InLevel(pc, sc, e, t)
    BY <1>5 DEF Deeper, n
  <2>2. e \in 1 .. n
    BY <1>1
  <2> QED BY <2>1, <2>2, <1>3 DEF Deeper, n
<1>6. d \in 1 .. n
  BY DEF n
<1>7. Placed(pc, tc, <<m, 0>>)
  <2>1. InLevel(pc, tc, d, <<m, 0>>)
    BY <1>2 DEF InLevel
  <2> QED BY <2>1 DEF Placed
<1>8. LevelsOK(pc, tc, c)
  <2>1. ASSUME NEW l \in 1 .. n, NEW j \in 1 .. Len(pc[l])
        PROVE  /\ IsStatement(pc[l][j]) /\ pc[l][j].do \in {"arg", "spawn"}
               /\ Depth[pc[l][j].n] = l
               /\ Side[pc[l][j].n] = 1 <=> Past(c, Len(c) + 1)
               /\ \A t \in NeedsStatement(pc[l][j]) :
                    \/ InCode(c, t) \/ Deeper(pc, tc, l, t)
                    \/ \E h \in 1 .. j - 1 : pc[l][h].do = "arg" /\ t \in MakesStatement(pc[l][h])
    BY <1>5 DEF LevelsOK, n
  <2>2. ASSUME NEW l \in 1 .. n, tc[l] # Null
        PROVE  /\ Depth[tc[l]] = l
               /\ Side[tc[l]] = 1 <=> Past(c, Len(c) + 1)
               /\ \A t \in Needs("seq", tc[l], 0) : InCode(c, t) \/ Deeper(pc, tc, l, t)
    <3>1. CASE l = d
      <4>1. tc[l] = m
        BY <3>1, <1>2
      <4> QED BY <3>1, <4>1, <1>5
    <3>2. CASE l # d
      <4>1. tc[l] = sc[l]
        BY <3>2, <1>2
      <4> QED BY <4>1, <2>2, <1>5 DEF LevelsOK, n
    <3> QED BY <3>1, <3>2
  <2> QED BY <2>1, <2>2 DEF LevelsOK, n
<1>9. LevelTypes(pc, tc)
  BY <1>1, <1>2 DEF LevelTypes, n
<1> QED BY <1>1, <1>2, <1>4, <1>7, <1>8, <1>9 DEF tc


-----------------------------------------------------------------------------
(* Writing code *)

\* The code r is c and n more statements.
Continues(r, c, n) ==
  /\ Len(c) \in Nat /\ n \in Nat /\ Len(r) = Len(c) + n
  /\ \A k \in 1 .. Len(c) : r[k] = c[k]

LEMMA PrefixFacts ==
  ASSUME NEW r, NEW c, NEW n, Continues(r, c, n)
  PROVE  /\ \A k \in 1 .. Len(c) + 1 : Past(r, k) <=> Past(c, k)
         /\ \A k \in 1 .. Len(c) + 1 : \A t : Available(c, k, t) => Available(r, k, t)
         /\ \A t : InCode(c, t) => InCode(r, t)
<1>1. PICK a \in Nat : a = Len(c)
  BY DEF Continues
<1>2. n \in Nat /\ Len(r) = a + n /\ \A k \in 1 .. a : r[k] = c[k]
  BY <1>1, Zenon DEF Continues
<1>3. ASSUME NEW k \in 1 .. a + 1
      PROVE  \A s \in 1 .. k - 1 : s \in 1 .. a /\ r[s] = c[s]
  <2>1. \A s \in 1 .. k - 1 : s \in 1 .. a
    OBVIOUS
  <2> QED BY <2>1, <1>2
<1>4. ASSUME NEW k \in 1 .. a + 1 PROVE Past(r, k) <=> Past(c, k)
  BY <1>3 DEF Past
<1>5. ASSUME NEW k \in 1 .. a + 1, NEW t, Available(c, k, t) PROVE Available(r, k, t)
  <2>1. PICK s \in 1 .. k - 1 : t \in MakesStatement(c[s]) /\ (c[s].do = "spawn" => YieldIn(c, s + 1, k - 1))
    BY <1>5 DEF Available
  <2>2. r[s] = c[s]
    BY <1>3
  <2>3. YieldIn(c, s + 1, k - 1) => YieldIn(r, s + 1, k - 1)
    <3>1. \A y \in s + 1 .. k - 1 : y \in 1 .. k - 1
      OBVIOUS
    <3> QED BY <3>1, <1>3 DEF YieldIn
  <2> QED BY <2>1, <2>2, <2>3 DEF Available
<1>6. ASSUME NEW t, InCode(c, t) PROVE InCode(r, t)
  <2>1. PICK k \in 1 .. a : t \in MakesStatement(c[k])
    BY <1>1, <1>6 DEF InCode
  <2>2. k \in 1 .. a + n
    BY <1>2
  <2> QED BY <2>1, <2>2, <1>2 DEF InCode
<1> QED BY <1>1, <1>4, <1>5, <1>6, Zenon

\* At the end of the code all that it makes is available.
LEMMA InCodeAvailable ==
  ASSUME NEW c, CodeOK(c), NEW t, InCode(c, t)
  PROVE  Available(c, Len(c) + 1, t)
<1>1. PICK k \in 1 .. Len(c) : t \in MakesStatement(c[k])
  BY DEF InCode
<1>2. Len(c) \in Nat
  BY DEF CodeOK
<1>3. c[k].do = "spawn" => YieldIn(c, k + 1, Len(c))
  BY DEF CodeOK, YieldIn
<1>4. (Len(c) + 1) - 1 = Len(c)
  BY <1>2
<1> QED BY <1>1, <1>3, <1>4 DEF Available

\* What may be written: statements f none of which is a guard unless it is
\* the only one.
WritableAt(f, c) ==
  /\ f \in Seq(StatementSet)
  /\ \A q \in 1 .. Len(f) :
       /\ IsStatement(f[q])
       /\ f[q].do \in Calling \cup {"yield"} \/ Len(f) = 1
       /\ \A t \in NeedsStatement(f[q]) :
            \/ InCode(c, t)
            \/ \E h \in 1 .. q - 1 :
                 t \in MakesStatement(f[h]) /\ (f[h].do = "spawn" => YieldIn(f, h + 1, q - 1))
       /\ f[q].do = "spawn" =>
            \E y \in q + 1 .. Len(f) : f[y].do = "yield" /\ \A z \in q + 1 .. y : f[z].do \notin Direct
       /\ f[q].do \in Calling => (Side[f[q].n] = 1 <=> Past(c, Len(c) + 1))
       /\ f[q].do \in {"assign", "goto", "exit"} => Past(c, Len(c) + 1)
       /\ f[q].do = "guard" => ~Past(c, Len(c) + 1)

LEMMA WritingKeeps ==
  ASSUME NEW c, CodeOK(c), NEW f, WritableAt(f, c)
  PROVE  /\ CodeOK(c \o f) /\ Continues(c \o f, c, Len(f))
         /\ \A q \in 1 .. Len(f) : (c \o f)[Len(c) + q] = f[q]
         /\ \A q \in 1 .. Len(f) : \A t \in MakesStatement(f[q]) : InCode(c \o f, t)
<1> DEFINE r == c \o f
           m == Len(r)
<1>1. c \in Seq(StatementSet) /\ f \in Seq(StatementSet)
  BY DEF CodeOK, WritableAt
<1>2. PICK a \in Nat, n \in Nat : a = Len(c) /\ n = Len(f)
  BY <1>1
<1>3. /\ r \in Seq(StatementSet) /\ m = a + n
      /\ \A q \in 1 .. a : r[q] = c[q]
      /\ \A q \in 1 .. n : r[a + q] = f[q]
  <2>1. /\ r \in Seq(StatementSet)
        /\ Len(c) \in Nat /\ Len(f) \in Nat /\ m = Len(c) + Len(f)
        /\ \A q \in 1 .. Len(c) : r[q] = c[q]
        /\ \A q \in 1 .. Len(f) : r[Len(c) + q] = f[q]
    BY <1>1, ConcatFacts
  <2> QED BY <2>1, <1>2, Zenon
<1> HIDE DEF r
<1>4. Continues(r, c, Len(f))
  BY <1>2, <1>3 DEF Continues
<1>5. /\ \A k \in 1 .. a + 1 : Past(r, k) <=> Past(c, k)
      /\ \A k \in 1 .. a + 1 : \A t : Available(c, k, t) => Available(r, k, t)
      /\ \A t : InCode(c, t) => InCode(r, t)
  <2>1. /\ \A k \in 1 .. Len(c) + 1 : Past(r, k) <=> Past(c, k)
        /\ \A k \in 1 .. Len(c) + 1 : \A t : Available(c, k, t) => Available(r, k, t)
        /\ \A t : InCode(c, t) => InCode(r, t)
    BY <1>4, PrefixFacts
  <2> QED BY <2>1, <1>2, Zenon
<1> HIDE DEF m
<1>6. \A k \in 1 .. m : k \in 1 .. a \/ (k - a \in 1 .. n /\ k = a + (k - a))
  BY <1>3
<1>7. \A q \in 1 .. n :
        /\ IsStatement(f[q])
        /\ f[q].do \in Calling \cup {"yield"} \/ n = 1
        /\ \A t \in NeedsStatement(f[q]) :
             \/ InCode(c, t)
             \/ \E h \in 1 .. q - 1 :
                  t \in MakesStatement(f[h]) /\ (f[h].do = "spawn" => YieldIn(f, h + 1, q - 1))
        /\ f[q].do = "spawn" =>
             \E y \in q + 1 .. n : f[y].do = "yield" /\ \A z \in q + 1 .. y : f[z].do \notin Direct
        /\ f[q].do \in Calling => (Side[f[q].n] = 1 <=> Past(c, a + 1))
        /\ f[q].do \in {"assign", "goto", "exit"} => Past(c, a + 1)
        /\ f[q].do = "guard" => ~Past(c, a + 1)
  BY <1>2, Zenon DEF WritableAt
<1>8. ASSUME NEW q \in 1 .. n, NEW h \in 1 .. q - 1, YieldIn(f, h + 1, q - 1)
      PROVE  YieldIn(r, a + h + 1, a + q - 1)
  <2>1. PICK y \in h + 1 .. q - 1 : f[y].do = "yield"
    BY <1>8 DEF YieldIn
  <2>2. y \in 1 .. n /\ a + y \in a + h + 1 .. a + q - 1
    OBVIOUS
  <2> QED BY <2>1, <2>2, <1>3 DEF YieldIn
<1>9. ASSUME NEW k \in 1 .. m, NEW t \in NeedsStatement(r[k]) PROVE Available(r, k, t)
  <2>1. CASE k \in 1 .. a
    <3>1. r[k] = c[k] /\ k \in 1 .. Len(c) /\ k \in 1 .. a + 1
      BY <2>1, <1>2, <1>3
    <3>2. Available(c, k, t)
      BY <3>1, <1>9 DEF CodeOK
    <3> QED BY <3>1, <3>2, <1>5
  <2>2. CASE k - a \in 1 .. n /\ k = a + (k - a)
    <3>1. PICK q \in 1 .. n : k = a + q
      BY <2>2
    <3>2. t \in NeedsStatement(f[q])
      BY <3>1, <1>3, <1>9
    <3>3. CASE InCode(c, t)
      <4>1. Available(c, a + 1, t)
        BY <3>3, <1>2, InCodeAvailable
      <4>2. PICK s \in 1 .. (a + 1) - 1 : t \in MakesStatement(c[s])
                                          /\ (c[s].do = "spawn" => YieldIn(c, s + 1, (a + 1) - 1))
        BY <4>1 DEF Available
      <4>3. s \in 1 .. a /\ s \in 1 .. k - 1 /\ (a + 1) - 1 = a
        BY <3>1
      <4>4. r[s] = c[s]
        BY <4>3, <1>3
      <4>5. YieldIn(c, s + 1, a) => YieldIn(r, s + 1, k - 1)
        <5>1. \A y \in s + 1 .. a : y \in 1 .. a /\ y \in s + 1 .. k - 1
          BY <3>1, <4>3
        <5> QED BY <5>1, <1>3 DEF YieldIn
      <4> QED BY <4>2, <4>3, <4>4, <4>5 DEF Available
    <3>4. CASE \E h \in 1 .. q - 1 :
                  t \in MakesStatement(f[h]) /\ (f[h].do = "spawn" => YieldIn(f, h + 1, q - 1))
      <4>1. PICK h \in 1 .. q - 1 :
                  t \in MakesStatement(f[h]) /\ (f[h].do = "spawn" => YieldIn(f, h + 1, q - 1))
        BY <3>4
      <4>2. a + h \in 1 .. k - 1 /\ h \in 1 .. n /\ a + q - 1 = k - 1 /\ (a + h) + 1 = a + h + 1
        BY <3>1
      <4>3. r[a + h] = f[h]
        BY <4>2, <1>3
      <4>4. f[h].do = "spawn" => YieldIn(r, (a + h) + 1, k - 1)
        BY <4>1, <4>2, <1>8
      <4> QED BY <4>1, <4>2, <4>3, <4>4 DEF Available
    <3> QED BY <3>2, <3>3, <3>4, <1>7
  <2> QED BY <1>6, <2>1, <2>2
<1>10. ASSUME NEW k \in 1 .. m, r[k].do = "spawn"
       PROVE  \E y \in k + 1 .. m : r[y].do = "yield" /\ \A z \in k + 1 .. y : r[z].do \notin Direct
  <2>1. CASE k \in 1 .. a
    <3>1. k \in 1 .. Len(c) /\ c[k].do = "spawn"
      BY <2>1, <1>2, <1>3, <1>10
    <3>2. PICK y \in k + 1 .. Len(c) : c[y].do = "yield" /\ \A z \in k + 1 .. y : c[z].do \notin Direct
      BY <3>1 DEF CodeOK
    <3>3. y \in 1 .. a /\ y \in k + 1 .. m /\ \A z \in k + 1 .. y : z \in 1 .. a
      BY <1>2, <1>3, <2>1
    <3>4. r[y] = c[y] /\ \A z \in k + 1 .. y : r[z] = c[z]
      BY <3>3, <1>3
    <3> QED BY <3>2, <3>3, <3>4
  <2>2. CASE k - a \in 1 .. n /\ k = a + (k - a)
    <3>1. PICK q \in 1 .. n : k = a + q
      BY <2>2
    <3>2. f[q].do = "spawn"
      BY <3>1, <1>3, <1>10
    <3>3. PICK y \in q + 1 .. n : f[y].do = "yield" /\ \A z \in q + 1 .. y : f[z].do \notin Direct
      BY <3>2, <1>7
    <3>4. y \in 1 .. n /\ a + y \in k + 1 .. m
      BY <3>1, <1>3
    <3>5. r[a + y] = f[y]
      BY <3>4, <1>3
    <3>6. ASSUME NEW z \in k + 1 .. a + y PROVE r[z].do \notin Direct
      <4>1. z - a \in q + 1 .. y /\ z - a \in 1 .. n /\ z = a + (z - a)
        BY <3>1
      <4>2. r[z] = f[z - a]
        BY <4>1, <1>3
      <4> QED BY <4>1, <4>2, <3>3
    <3> QED BY <3>3, <3>4, <3>5, <3>6
  <2> QED BY <1>6, <2>1, <2>2
<1>11. ASSUME NEW q \in 1 .. n PROVE Past(r, a + q) <=> Past(c, a + 1)
  <2>1. CASE q = 1
    <3>1. a + 1 \in 1 .. a + 1
      OBVIOUS
    <3> QED BY <2>1, <3>1, <1>5
  <2>2. CASE q # 1
    <3>1. n # 1
      BY <2>2
    <3>2. \A h \in 1 .. n : f[h].do # "guard"
      BY <3>1, <1>7 DEF Calling
    <3>3. Past(r, a + 1) => Past(r, a + q)
      <4>1. \A s \in 1 .. (a + 1) - 1 : s \in 1 .. (a + q) - 1
        OBVIOUS
      <4> QED BY <4>1 DEF Past
    <3>4. ASSUME NEW s \in 1 .. (a + q) - 1, r[s].do = "guard" PROVE Past(r, a + 1)
      <4>1. CASE s \in 1 .. a
        <5>1. s \in 1 .. (a + 1) - 1
          BY <4>1
        <5> QED BY <5>1, <3>4 DEF Past
      <4>2. CASE s \notin 1 .. a
        <5>1. s - a \in 1 .. n /\ s = a + (s - a)
          BY <4>2
        <5>2. r[s] = f[s - a]
          BY <5>1, <1>3
        <5> QED BY <5>1, <5>2, <3>2, <3>4
      <4> QED BY <4>1, <4>2
    <3>5. Past(r, a + q) => Past(r, a + 1)
      BY <3>4 DEF Past
    <3>6. a + 1 \in 1 .. a + 1
      OBVIOUS
    <3> QED BY <3>3, <3>5, <3>6, <1>5
  <2> QED BY <2>1, <2>2
<1>12. ASSUME NEW k \in 1 .. m
       PROVE  /\ IsStatement(r[k])
              /\ r[k].do \in Calling => (Side[r[k].n] = 1 <=> Past(r, k))
              /\ r[k].do \in {"assign", "goto", "exit"} => Past(r, k)
              /\ r[k].do = "guard" => ~Past(r, k)
  <2>1. CASE k \in 1 .. a
    <3>1. r[k] = c[k] /\ k \in 1 .. Len(c) /\ k \in 1 .. a + 1
      BY <2>1, <1>2, <1>3
    <3>2. Past(r, k) <=> Past(c, k)
      BY <3>1, <1>5
    <3> QED BY <3>1, <3>2 DEF CodeOK
  <2>2. CASE k - a \in 1 .. n /\ k = a + (k - a)
    <3>1. PICK q \in 1 .. n : k = a + q
      BY <2>2
    <3>2. r[k] = f[q]
      BY <3>1, <1>3
    <3>3. Past(r, k) <=> Past(c, a + 1)
      BY <3>1, <1>11
    <3> QED BY <3>2, <3>3, <1>7
  <2> QED BY <1>6, <2>1, <2>2
<1>13. CodeOK(r)
  BY <1>3, <1>9, <1>10, <1>12 DEF CodeOK, m
<1>14. ASSUME NEW q \in 1 .. n, NEW t \in MakesStatement(f[q]) PROVE InCode(r, t)
  <2>1. a + q \in 1 .. m /\ r[a + q] = f[q]
    BY <1>3
  <2> QED BY <2>1 DEF InCode, m
<1> QED BY <1>2, <1>3, <1>4, <1>13, <1>14, Zenon DEF r


-----------------------------------------------------------------------------
(* outputParallel *)

\* The code y of level l.
LevelCodeOK(l, y) ==
  /\ y \in Seq(StatementSet)
  /\ \A j \in 1 .. Len(y) :
       /\ IsStatement(y[j]) /\ y[j].do \in Calling \cup {"yield"}
       /\ y[j].do \in Calling => (Side[y[j].n] = 1 <=> Past(code, Len(code) + 1))
       /\ \A t \in NeedsStatement(y[j]) :
            \/ InCode(code, t) \/ Deeper(ParallelCalls, SequentialCall, l, t)
            \/ \E h \in 1 .. j - 1 : y[h].do = "arg" /\ t \in MakesStatement(y[h])
       /\ y[j].do = "spawn" => j < Len(y) /\ y[Len(y)].do = "yield"
  /\ \A t : InLevel(ParallelCalls, SequentialCall, l, t) =>
       \E j \in 1 .. Len(y) : t \in MakesStatement(y[j])

LEMMA LevelCodeFacts ==
  ASSUME case \in Cases, LevelTypes(ParallelCalls, SequentialCall),
         LevelsOK(ParallelCalls, SequentialCall, code), NEW l \in 1 .. Len(ParallelCalls)
  PROVE  LevelCodeOK(l, LevelCode(l))
<1> DEFINE m == SequentialCall[l]
           p == ParallelCalls[l]
           seq == Statement("seq", m, 0, UNION {Outermost(m, i) : i \in 0 .. Slots})
           yield == Statement("yield", Top, 0, {})
           own == IF m = Null THEN <<>> ELSE <<seq>>
           end == IF p = <<>> THEN <<>> ELSE <<yield>>
           y == p \o own \o end
           a == Len(p)
           b == IF m = Null THEN 0 ELSE 1
           e == IF p = <<>> THEN 0 ELSE 1
<1>1. LevelCode(l) = y
  BY DEF LevelCode
<1>2. p \in Seq(StatementSet) /\ m \in {Null} \cup CallIds(case) /\ a \in Nat
  BY DEF LevelTypes
<1>3. yield \in StatementSet /\ yield.do = "yield" /\ IsStatement(yield) /\ NeedsStatement(yield) = {}
  <2>1. yield \in StatementSet /\ yield.do = "yield" /\ yield.n = Top /\ yield.i = 0 /\ yield.reads = {}
    BY DEF Statement, StatementSet, Dos, Top
  <2>2. Reads("yield", Top, 0) = {}
    BY DEF Reads
  <2>3. Needs("yield", Top, 0) = {}
    BY NeedsFacts
  <2> QED BY <2>1, <2>2, <2>3 DEF IsStatement, NeedsStatement
<1>4. ASSUME m # Null
      PROVE  /\ seq \in StatementSet /\ seq.do = "seq" /\ seq.n = m /\ IsStatement(seq)
             /\ NeedsStatement(seq) = Needs("seq", m, 0) /\ MakesStatement(seq) = {<<m, 0>>}
             /\ Side[m] = 1 <=> Past(code, Len(code) + 1)
             /\ \A t \in Needs("seq", m, 0) :
                  InCode(code, t) \/ Deeper(ParallelCalls, SequentialCall, l, t)
  <2> DEFINE R == UNION {Outermost(m, i) : i \in 0 .. Slots}
  <2>1. m \in CallIds(case) /\ m \in Nat
    BY <1>2, <1>4, CaseFacts
  <2>2. R \in SUBSET Nat
    <3>1. ASSUME NEW k \in R PROVE k \in Nat
      <4>1. PICK i \in 0 .. Slots : k \in Outermost(m, i)
        OBVIOUS
      <4>2. k \in CallIds(case)
        BY <4>1, OutermostIds
      <4> QED BY <4>2, CaseFacts
    <3> HIDE DEF R
    <3> QED BY <3>1
  <2>3. R = Reads("seq", m, 0)
    BY DEF Reads
  <2>4. seq = Statement("seq", m, 0, R)
    OBVIOUS
  <2> HIDE DEF R, seq, m
  <2>5. seq \in StatementSet /\ seq.do = "seq" /\ seq.n = m /\ seq.i = 0 /\ seq.reads = R
    BY <2>1, <2>2, <2>4 DEF Statement, StatementSet, Dos, Calling
  <2>6. Depth[m] = l /\ (Side[m] = 1 <=> Past(code, Len(code) + 1))
        /\ \A t \in Needs("seq", m, 0) : InCode(code, t) \/ Deeper(ParallelCalls, SequentialCall, l, t)
    BY <1>4 DEF LevelsOK, m
  <2>7. Fits("seq", m, 0)
    <3>1. l \in Nat /\ l >= 1
      BY DEF LevelTypes
    <3> QED BY <2>1, <2>6, <3>1 DEF Fits
  <2>8. IsStatement(seq)
    BY <2>3, <2>5, <2>7 DEF IsStatement
  <2>9. NeedsStatement(seq) = Needs("seq", m, 0)
    BY <2>5 DEF NeedsStatement
  <2>10. MakesStatement(seq) = {<<m, 0>>}
    BY <2>5, MakesFacts DEF MakesStatement
  <2> QED BY <2>5, <2>6, <2>8, <2>9, <2>10
<1> HIDE DEF seq, yield
<1>5. own \in Seq(StatementSet) /\ Len(own) = b /\ (m # Null => own[1] = seq)
  <2>1. CASE m = Null
    BY <2>1
  <2>2. CASE m # Null
    <3>1. own = <<seq>> /\ b = 1
      BY <2>2
    <3>2. <<seq>> \in Seq(StatementSet) /\ Len(<<seq>>) = 1 /\ <<seq>>[1] = seq
      BY <2>2, <1>4
    <3> QED BY <3>1, <3>2
  <2> QED BY <2>1, <2>2
<1>6. end \in Seq(StatementSet) /\ Len(end) = e /\ (p # <<>> => end[1] = yield)
  <2>1. CASE p = <<>>
    BY <2>1
  <2>2. CASE p # <<>>
    <3>1. end = <<yield>> /\ e = 1
      BY <2>2
    <3>2. <<yield>> \in Seq(StatementSet) /\ Len(<<yield>>) = 1 /\ <<yield>>[1] = yield
      BY <1>3
    <3> QED BY <3>1, <3>2
  <2> QED BY <2>1, <2>2
<1>7. b \in {0, 1} /\ e \in {0, 1} /\ (m # Null <=> b = 1) /\ (p # <<>> <=> e = 1) /\ (e = 0 => a = 0)
  BY <1>2
<1> HIDE DEF own, end, b, e
<1>8. /\ y \in Seq(StatementSet) /\ Len(y) = a + b + e
      /\ \A j \in 1 .. a : y[j] = p[j]
      /\ b = 1 => y[a + 1] = own[1]
      /\ e = 1 => y[a + b + 1] = end[1]
  <2>1. PICK u \in Seq(StatementSet), v \in Seq(StatementSet), w \in Seq(StatementSet), x \in Seq(StatementSet) :
          u = p /\ v = own /\ w = end /\ x = u \o v
    <3>1. p \o own \in Seq(StatementSet)
      <4>1. \A g, h \in Seq(StatementSet) : g \o h \in Seq(StatementSet)
        OBVIOUS
      <4> QED BY <4>1, <1>2, <1>5
    <3> QED BY <3>1, <1>2, <1>5, <1>6
  <2>2. /\ Len(x) = Len(u) + Len(v)
        /\ \A q \in 1 .. Len(u) : x[q] = u[q]
        /\ \A q \in 1 .. Len(v) : x[Len(u) + q] = v[q]
    BY <2>1, ConcatFacts
  <2>3. /\ x \o w \in Seq(StatementSet) /\ Len(x \o w) = Len(x) + Len(w)
        /\ \A q \in 1 .. Len(x) : (x \o w)[q] = x[q]
        /\ \A q \in 1 .. Len(w) : (x \o w)[Len(x) + q] = w[q]
    BY ConcatFacts
  <2>4. y = x \o w /\ Len(u) = a /\ Len(v) = b /\ Len(w) = e /\ Len(x) = a + b
    BY <2>1, <2>2, <1>5, <1>6, Zenon
  <2>5. Len(y) = a + b + e
    BY <2>3, <2>4, Zenon
  <2>6. \A j \in 1 .. a : y[j] = p[j]
    <3>1. \A j \in 1 .. a : j \in 1 .. a + b
      BY <1>2, <1>7
    <3>2. \A j \in 1 .. a : x[j] = p[j]
      BY <2>1, <2>2, <2>4, Zenon
    <3> QED BY <3>1, <3>2, <2>3, <2>4, Zenon
  <2>7. b = 1 => y[a + 1] = own[1]
    <3>1. b = 1 => a + 1 \in 1 .. a + b /\ 1 \in 1 .. b
      BY <1>2
    <3>2. b = 1 => x[a + 1] = own[1]
      BY <3>1, <2>1, <2>2, <2>4, Zenon
    <3> QED BY <3>1, <3>2, <2>3, <2>4, Zenon
  <2>8. e = 1 => y[a + b + 1] = end[1]
    <3>1. e = 1 => 1 \in 1 .. e
      OBVIOUS
    <3> QED BY <3>1, <2>1, <2>3, <2>4, Zenon
  <2> QED BY <2>3, <2>4, <2>5, <2>6, <2>7, <2>8, Zenon
<1> HIDE DEF y, a
<1>9. \A j \in 1 .. a + b + e :
        j \in 1 .. a \/ (b = 1 /\ j = a + 1) \/ (e = 1 /\ j = a + b + 1)
  BY <1>2, <1>7
<1>10. ASSUME NEW j \in 1 .. a
       PROVE  /\ IsStatement(p[j]) /\ p[j].do \in {"arg", "spawn"}
              /\ Side[p[j].n] = 1 <=> Past(code, Len(code) + 1)
              /\ \A t \in NeedsStatement(p[j]) :
                   \/ InCode(code, t) \/ Deeper(ParallelCalls, SequentialCall, l, t)
                   \/ \E h \in 1 .. j - 1 : p[h].do = "arg" /\ t \in MakesStatement(p[h])
  BY DEF LevelsOK, a
<1>11. ASSUME NEW j \in 1 .. a + b + e
       PROVE  /\ IsStatement(y[j]) /\ y[j].do \in Calling \cup {"yield"}
              /\ y[j].do \in Calling => (Side[y[j].n] = 1 <=> Past(code, Len(code) + 1))
              /\ \A t \in NeedsStatement(y[j]) :
                   \/ InCode(code, t) \/ Deeper(ParallelCalls, SequentialCall, l, t)
                   \/ \E h \in 1 .. j - 1 : y[h].do = "arg" /\ t \in MakesStatement(y[h])
              /\ y[j].do = "spawn" => j < a + b + e /\ y[a + b + e].do = "yield"
  <2>1. CASE j \in 1 .. a
    <3>1. y[j] = p[j] /\ \A h \in 1 .. j - 1 : y[h] = p[h]
      BY <2>1, <1>2, <1>8
    <3>2. e = 1 /\ j < a + b + e /\ a + b + e = a + b + 1
      BY <2>1, <1>2, <1>7
    <3>3. y[a + b + e] = yield
      BY <3>2, <1>6, <1>7, <1>8
    <3>4. ASSUME NEW t \in NeedsStatement(y[j])
          PROVE  \/ InCode(code, t) \/ Deeper(ParallelCalls, SequentialCall, l, t)
                 \/ \E h \in 1 .. j - 1 : y[h].do = "arg" /\ t \in MakesStatement(y[h])
      BY <2>1, <3>1, <1>10
    <3>5. y[j].do \in Calling \cup {"yield"}
      BY <2>1, <3>1, <1>10 DEF Calling
    <3> QED BY <2>1, <3>1, <3>2, <3>3, <3>4, <3>5, <1>3, <1>10
  <2>2. CASE b = 1 /\ j = a + 1
    <3>1. y[j] = seq
      BY <2>2, <1>5, <1>7, <1>8
    <3> QED BY <2>2, <3>1, <1>4, <1>7 DEF Calling
  <2>3. CASE e = 1 /\ j = a + b + 1
    <3>1. y[j] = yield
      BY <2>3, <1>6, <1>7, <1>8
    <3> QED BY <3>1, <1>3 DEF Calling
  <2> QED BY <1>9, <2>1, <2>2, <2>3
<1>12. ASSUME NEW t, InLevel(ParallelCalls, SequentialCall, l, t)
       PROVE  \E j \in 1 .. a + b + e : t \in MakesStatement(y[j])
  <2>1. CASE \E j \in 1 .. a : t \in MakesStatement(p[j])
    <3>1. PICK j \in 1 .. a : t \in MakesStatement(p[j])
      BY <2>1
    <3>2. j \in 1 .. a + b + e
      BY <1>2, <1>7
    <3> QED BY <3>1, <3>2, <1>8
  <2>2. CASE m # Null /\ t = <<m, 0>>
    <3>1. a + 1 \in 1 .. a + b + e /\ b = 1
      BY <2>2, <1>2, <1>7
    <3>2. y[a + 1] = seq /\ MakesStatement(seq) = {<<m, 0>>}
      BY <2>2, <3>1, <1>4, <1>5, <1>8
    <3> QED BY <2>2, <3>1, <3>2
  <2> QED BY <2>1, <2>2, <1>12 DEF InLevel, a
<1>13. LevelCodeOK(l, y)
  BY <1>8, <1>11, <1>12 DEF LevelCodeOK
<1> QED BY <1>1, <1>13


\* The levels are written deepest first, so that each has what it needs.
LEMMA OutputWritable ==
  ASSUME case \in Cases, LevelTypes(ParallelCalls, SequentialCall),
         LevelsOK(ParallelCalls, SequentialCall, code),
         NEW f, f = FlattenSeq(Reverse([l \in DOMAIN ParallelCalls |-> LevelCode(l)]))
  PROVE  /\ WritableAt(f, code)
         /\ \A q \in 1 .. Len(f) : f[q].do \in Calling \cup {"yield"}
         /\ \A t : Placed(ParallelCalls, SequentialCall, t) => \E q \in 1 .. Len(f) : t \in MakesStatement(f[q])
<1> DEFINE n == Len(ParallelCalls)
           lc == [l \in DOMAIN ParallelCalls |-> LevelCode(l)]
           ss == Reverse(lc)
<1>1. n \in Nat /\ DOMAIN ParallelCalls = 1 .. n
  BY DEF LevelTypes
<1>2. lc = [l \in 1 .. n |-> LevelCode(l)]
  BY <1>1
<1> HIDE DEF lc
<1>3. \A l \in 1 .. n : lc[l] = LevelCode(l) /\ LevelCodeOK(l, lc[l])
  BY <1>2, LevelCodeFacts
<1>4. lc \in Seq(Seq(StatementSet)) /\ Len(lc) = n
  <2>1. \A l \in 1 .. n : lc[l] \in Seq(StatementSet)
    BY <1>3 DEF LevelCodeOK
  <2>2. lc \in [1 .. n -> Seq(StatementSet)]
    BY <2>1, <1>2
  <2> HIDE DEF n
  <2> QED BY <2>2, <1>1, <1>2
<1> HIDE DEF n
<1>5. ss \in Seq(Seq(StatementSet)) /\ Len(ss) = n /\ \A i \in 1 .. n : ss[i] = lc[n - i + 1]
  <2>1. ss = [i \in 1 .. n |-> lc[(n - i) + 1]]
    BY <1>4 DEF Reverse
  <2> HIDE DEF ss
  <2>2. \A i \in 1 .. n : n - i + 1 \in 1 .. n
    BY <1>1
  <2>3. \A i \in 1 .. n : lc[n - i + 1] \in Seq(StatementSet)
    BY <2>2, <1>4
  <2>4. ss \in [1 .. n -> Seq(StatementSet)]
    BY <2>1, <2>3
  <2> QED BY <2>1, <2>4, <1>1
<1>6. f = FlattenSeq(ss)
  BY DEF lc
<1> HIDE DEF ss
<1>7. f \in Seq(StatementSet)
  BY <1>5, <1>6, FlattenLayout
<1>8. PICK off : Layout(ss, f, off)
  BY <1>5, <1>6, FlattenLayout
<1>9. /\ \A i \in 1 .. n : \A j \in 1 .. Len(ss[i]) :
           off[i - 1] + j \in 1 .. Len(f) /\ f[off[i - 1] + j] = ss[i][j]
      /\ \A q \in 1 .. Len(f) : \E i \in 1 .. n : \E j \in 1 .. Len(ss[i]) :
           q = off[i - 1] + j /\ f[q] = ss[i][j]
      /\ \A i, k \in 1 .. n : i < k =>
           \A j \in 1 .. Len(ss[i]), m \in 1 .. Len(ss[k]) : off[i - 1] + j < off[k - 1] + m
  <2>1. Places(ss, f, off)
    BY <1>5, <1>7, <1>8, LayoutPlaces
  <2>2. Len(ss) = n
    BY <1>5
  <2>3. InOrder(ss, off)
    BY <1>5, <1>8, LayoutOrder
  <2> QED BY <2>1, <2>2, <2>3, SMT DEF InOrder, Places
<1> DEFINE at == [l \in 1 .. n |-> off[(n - l + 1) - 1]]
           y == [l \in 1 .. n |-> ss[n - l + 1]]
           c == Len(f)
\* Level l is the code from at[l] + 1.
<1>10. /\ \A l \in 1 .. n : y[l] = lc[l] /\ at[l] \in Nat
       /\ \A l \in 1 .. n : \A j \in 1 .. Len(y[l]) :
            at[l] + j \in 1 .. c /\ f[at[l] + j] = y[l][j]
       /\ \A q \in 1 .. c : \E l \in 1 .. n : \E j \in 1 .. Len(y[l]) :
            q = at[l] + j /\ f[q] = y[l][j]
       /\ \A l, d \in 1 .. n : l < d =>
            \A j \in 1 .. Len(y[d]), m \in 1 .. Len(y[l]) : at[d] + j < at[l] + m
  <2>1. \A l \in 1 .. n : n - l + 1 \in 1 .. n /\ n - (n - l + 1) + 1 = l /\ (n - l + 1) - 1 \in 0 .. n
    BY <1>1
  <2>2. ASSUME NEW l \in 1 .. n
        PROVE  /\ at[l] = off[(n - l + 1) - 1] /\ y[l] = ss[n - l + 1] /\ y[l] = lc[l] /\ at[l] \in Nat
    <3>1. at[l] = off[(n - l + 1) - 1] /\ y[l] = ss[n - l + 1]
      OBVIOUS
    <3>2. ss[n - l + 1] = lc[n - (n - l + 1) + 1]
      BY <2>1, <1>5
    <3>3. off[(n - l + 1) - 1] \in Nat
      BY <2>1, <1>5, <1>8 DEF Layout
    <3> HIDE DEF at, y
    <3> QED BY <2>1, <3>1, <3>2, <3>3
  <2> HIDE DEF at, y, c
  <2>3. ASSUME NEW l \in 1 .. n, NEW j \in 1 .. Len(y[l])
        PROVE  at[l] + j \in 1 .. c /\ f[at[l] + j] = y[l][j]
    <3>1. PICK i \in 1 .. n : i = n - l + 1
      BY <2>1
    <3>2. at[l] = off[i - 1] /\ y[l] = ss[i]
      BY <3>1, <2>2, Zenon
    <3>3. \A m \in 1 .. Len(ss[i]) : off[i - 1] + m \in 1 .. Len(f) /\ f[off[i - 1] + m] = ss[i][m]
      BY <1>9
    <3> QED BY <3>2, <3>3, Zenon DEF c
  <2>4. ASSUME NEW q \in 1 .. c
        PROVE  \E l \in 1 .. n : \E j \in 1 .. Len(y[l]) : q = at[l] + j /\ f[q] = y[l][j]
    <3>1. PICK i \in 1 .. n : \E j \in 1 .. Len(ss[i]) : q = off[i - 1] + j /\ f[q] = ss[i][j]
      BY <1>9 DEF c
    <3>2. n - i + 1 \in 1 .. n /\ n - (n - i + 1) + 1 = i
      BY <2>1
    <3>3. at[n - i + 1] = off[i - 1] /\ y[n - i + 1] = ss[i]
      BY <3>2, <2>2, Zenon
    <3> QED BY <3>1, <3>2, <3>3, Zenon
  <2>5. ASSUME NEW l \in 1 .. n, NEW d \in 1 .. n, l < d,
               NEW j \in 1 .. Len(y[d]), NEW m \in 1 .. Len(y[l])
        PROVE  at[d] + j < at[l] + m
    <3>1. n - d + 1 < n - l + 1
      BY <2>5, <1>1
    <3> QED BY <3>1, <2>1, <2>2, <1>9, Zenon
  <2> QED BY <2>2, <2>3, <2>4, <2>5
<1> HIDE DEF at, y, c
<1>11. \A l \in 1 .. n : LevelCodeOK(l, y[l])
  BY <1>3, <1>10
<1>12. ASSUME NEW q \in 1 .. c
       PROVE  /\ IsStatement(f[q])
              /\ f[q].do \in Calling \cup {"yield"}
              /\ \A t \in NeedsStatement(f[q]) :
                   \/ InCode(code, t)
                   \/ \E h \in 1 .. q - 1 :
                        t \in MakesStatement(f[h]) /\ (f[h].do = "spawn" => YieldIn(f, h + 1, q - 1))
              /\ f[q].do = "spawn" =>
                   \E x \in q + 1 .. c : f[x].do = "yield" /\ \A z \in q + 1 .. x : f[z].do \notin Direct
              /\ f[q].do \in Calling => (Side[f[q].n] = 1 <=> Past(code, Len(code) + 1))
  <2>1. PICK l \in 1 .. n : \E j \in 1 .. Len(y[l]) : q = at[l] + j /\ f[q] = y[l][j]
    BY <1>10
  <2>2. PICK j \in 1 .. Len(y[l]) : q = at[l] + j /\ f[q] = y[l][j]
    BY <2>1
  <2>3. LevelCodeOK(l, y[l]) /\ at[l] \in Nat /\ Len(y[l]) \in Nat
    <3>1. LevelCodeOK(l, y[l]) /\ at[l] \in Nat
      BY <1>10, <1>11
    <3> QED BY <3>1 DEF LevelCodeOK
  <2>4. /\ IsStatement(y[l][j]) /\ y[l][j].do \in Calling \cup {"yield"}
        /\ y[l][j].do \in Calling => (Side[y[l][j].n] = 1 <=> Past(code, Len(code) + 1))
        /\ \A t \in NeedsStatement(y[l][j]) :
             \/ InCode(code, t) \/ Deeper(ParallelCalls, SequentialCall, l, t)
             \/ \E h \in 1 .. j - 1 : y[l][h].do = "arg" /\ t \in MakesStatement(y[l][h])
        /\ y[l][j].do = "spawn" => j < Len(y[l]) /\ y[l][Len(y[l])].do = "yield"
    BY <2>3 DEF LevelCodeOK
  <2>5. ASSUME NEW t \in NeedsStatement(f[q])
        PROVE  \/ InCode(code, t)
               \/ \E h \in 1 .. q - 1 :
                    t \in MakesStatement(f[h]) /\ (f[h].do = "spawn" => YieldIn(f, h + 1, q - 1))
    <3>1. CASE Deeper(ParallelCalls, SequentialCall, l, t)
      <4>1. PICK d \in l + 1 .. n : InLevel(ParallelCalls, SequentialCall, d, t)
        BY <3>1 DEF Deeper, n
      <4>2. d \in 1 .. n /\ l < d
        BY <1>1
      <4>3. LevelCodeOK(d, y[d]) /\ at[d] \in Nat
        BY <4>2, <1>10, <1>11
      <4>4. PICK h \in 1 .. Len(y[d]) : t \in MakesStatement(y[d][h])
        BY <4>1, <4>3 DEF LevelCodeOK
      <4>5. at[d] + h \in 1 .. c /\ f[at[d] + h] = y[d][h] /\ at[d] + h < q
        BY <4>2, <2>2, <1>10
      <4>6. at[d] + h \in 1 .. q - 1
        BY <4>5, <2>2, <2>3
      <4>7. ASSUME f[at[d] + h].do = "spawn" PROVE YieldIn(f, at[d] + h + 1, q - 1)
        <5>1. h < Len(y[d]) /\ y[d][Len(y[d])].do = "yield" /\ Len(y[d]) \in Nat
          BY <4>3, <4>4, <4>5, <4>7 DEF LevelCodeOK
        <5>2. Len(y[d]) \in 1 .. Len(y[d])
          BY <5>1
        <5>3. at[d] + Len(y[d]) \in 1 .. c /\ f[at[d] + Len(y[d])] = y[d][Len(y[d])] /\ at[d] + Len(y[d]) < q
          BY <5>2, <4>2, <2>2, <1>10
        <5>4. at[d] + Len(y[d]) \in at[d] + h + 1 .. q - 1
          <6>1. PICK g \in Nat, b \in Nat : g = Len(y[d]) /\ b = at[d]
            BY <5>1, <4>3
          <6>2. h < g /\ b + g < q /\ h \in 1 .. g
            BY <6>1, <5>1, <5>3, Zenon
          <6>3. b + g \in b + h + 1 .. q - 1
            BY <6>2
          <6> QED BY <6>1, <6>3, Zenon
        <5> QED BY <5>1, <5>3, <5>4 DEF YieldIn
      <4>8. t \in MakesStatement(f[at[d] + h])
        BY <4>4, <4>5
      <4> QED BY <4>6, <4>7, <4>8
    <3>2. CASE \E h \in 1 .. j - 1 : y[l][h].do = "arg" /\ t \in MakesStatement(y[l][h])
      <4>1. PICK h \in 1 .. j - 1 : y[l][h].do = "arg" /\ t \in MakesStatement(y[l][h])
        BY <3>2
      <4>2. h \in 1 .. Len(y[l]) /\ at[l] + h \in 1 .. q - 1
        BY <2>2, <2>3
      <4>3. f[at[l] + h] = y[l][h]
        BY <4>2, <1>10
      <4> QED BY <4>1, <4>2, <4>3
    <3>3. t \in NeedsStatement(y[l][j])
      BY <2>2
    <3> QED BY <3>1, <3>2, <3>3, <2>4
  <2>6. ASSUME f[q].do = "spawn"
        PROVE  \E x \in q + 1 .. c : f[x].do = "yield" /\ \A z \in q + 1 .. x : f[z].do \notin Direct
    <3>1. j < Len(y[l]) /\ y[l][Len(y[l])].do = "yield" /\ Len(y[l]) \in 1 .. Len(y[l])
      BY <2>2, <2>3, <2>4, <2>6
    <3>2. at[l] + Len(y[l]) \in 1 .. c /\ f[at[l] + Len(y[l])] = y[l][Len(y[l])]
      BY <3>1, <1>10
    <3>3. at[l] + Len(y[l]) \in q + 1 .. c
      BY <3>1, <3>2, <2>2, <2>3
    <3>4. ASSUME NEW z \in q + 1 .. at[l] + Len(y[l]) PROVE f[z].do \notin Direct
      <4>1. PICK h \in 1 .. Len(y[l]) : z = at[l] + h
        <5>1. z - at[l] \in 1 .. Len(y[l]) /\ z = at[l] + (z - at[l])
          BY <2>2, <2>3
        <5> QED BY <5>1
      <4>2. f[z] = y[l][h]
        BY <4>1, <1>10
      <4>3. y[l][h].do \in Calling \cup {"yield"}
        BY <2>3 DEF LevelCodeOK
      <4> QED BY <4>2, <4>3 DEF Calling, Direct
    <3> QED BY <3>1, <3>2, <3>3, <3>4
  <2> QED BY <2>2, <2>4, <2>5, <2>6
<1>13. ASSUME NEW q \in 1 .. c PROVE f[q].do \notin Direct
  BY <1>12 DEF Calling, Direct
<1>14. WritableAt(f, code)
  <2>1. \A q \in 1 .. c : f[q].do \notin {"assign", "goto", "exit"} /\ f[q].do # "guard"
    BY <1>13 DEF Direct
  <2> QED BY <2>1, <1>7, <1>12 DEF WritableAt, c
<1>15. ASSUME NEW t, Placed(ParallelCalls, SequentialCall, t)
       PROVE  \E q \in 1 .. c : t \in MakesStatement(f[q])
  <2>1. PICK l \in 1 .. n : InLevel(ParallelCalls, SequentialCall, l, t)
    BY <1>15 DEF Placed, n
  <2>2. PICK j \in 1 .. Len(y[l]) : t \in MakesStatement(y[l][j])
    BY <2>1, <1>11 DEF LevelCodeOK
  <2> QED BY <2>2, <1>10
<1> QED BY <1>12, <1>14, <1>15 DEF c


-----------------------------------------------------------------------------
(* The case does not change *)

LEMMA StableTree ==
  ASSUME case' = case
  PROVE  Depth' = Depth /\ Side' = Side
BY DEF Depth, Side, TailRec, CallIds

LEMMA StableNeeds ==
  ASSUME case' = case
  PROVE  /\ \A x : NeedsItem(x)' = NeedsItem(x)
         /\ \A x : NeedsStatement(x)' = NeedsStatement(x)
         /\ \A op, m, i : Needs(op, m, i)' = Needs(op, m, i)
         /\ \A op, m, i : Reads(op, m, i)' = Reads(op, m, i)
         /\ \A m : Inner(m)' = Inner(m)
         /\ \A m, i : Outermost(m, i)' = Outermost(m, i)
BY DEF NeedsItem, NeedsStatement, Needs, Reads, Inner, Outermost, CallIds

LEMMA StableItems ==
  ASSUME case' = case
  PROVE  /\ \A s : TraversalOK(s)' <=> TraversalOK(s)
         /\ \A x : Enters(x)' = Enters(x)
<1>1. Depth' = Depth /\ Side' = Side
  BY StableTree
<1>2. \A op, m, i : Fits(op, m, i)' <=> Fits(op, m, i)
  BY <1>1 DEF Fits, TailRec, TailHead, CallIds
<1>3. \A x : Enters(x)' = Enters(x) /\ Leaves(x)' = Leaves(x)
  BY <1>1 DEF Enters, Leaves
<1> QED BY <1>1, <1>2, <1>3 DEF TraversalOK

LEMMA StablePast ==
  ASSUME case' = case
  PROVE  \A c, k : Past(c, k)' <=> Past(c, k)
BY DEF Past

LEMMA StableCode ==
  ASSUME case' = case
  PROVE  /\ \A c : CodeOK(c)' <=> CodeOK(c)
         /\ \A x : IsStatement(x)' <=> IsStatement(x)
<1>1. Depth' = Depth /\ Side' = Side
  BY StableTree
<1>2. \A op, m, i : Fits(op, m, i)' <=> Fits(op, m, i)
  BY <1>1 DEF Fits, TailRec, TailHead, CallIds
<1>3. \A x : NeedsStatement(x)' = NeedsStatement(x)
  BY StableNeeds
<1>4. \A op, m, i : Reads(op, m, i)' = Reads(op, m, i)
  BY StableNeeds
<1>5. \A x : IsStatement(x)' <=> IsStatement(x)
  BY <1>2, <1>4 DEF IsStatement
<1>6. \A c, k : Past(c, k)' <=> Past(c, k)
  BY StablePast
<1> QED BY <1>1, <1>3, <1>5, <1>6 DEF CodeOK

LEMMA StableLevels ==
  ASSUME case' = case
  PROVE  /\ \A pc, sc : LevelTypes(pc, sc)' <=> LevelTypes(pc, sc)
         /\ \A pc, sc, c : LevelsOK(pc, sc, c)' <=> LevelsOK(pc, sc, c)
         /\ \A s, c, pc, sc : Covered(s, c, pc, sc)' <=> Covered(s, c, pc, sc)
<1>1. Depth' = Depth /\ Side' = Side
  BY StableTree
<1>2. \A x : IsStatement(x)' <=> IsStatement(x)
  BY StableCode
<1>3. \A c, k : Past(c, k)' <=> Past(c, k)
  BY StablePast
<1>4. \A x : NeedsStatement(x)' = NeedsStatement(x)
  BY StableNeeds
<1>5. \A op, m, i : Needs(op, m, i)' = Needs(op, m, i)
  BY StableNeeds
<1>6. \A x : NeedsItem(x)' = NeedsItem(x)
  BY StableNeeds
<1>7. \A pc, sc : LevelTypes(pc, sc)' <=> LevelTypes(pc, sc)
  BY DEF LevelTypes, CallIds
<1>8. \A pc, sc, c : LevelsOK(pc, sc, c)' <=> LevelsOK(pc, sc, c)
  BY <1>1, <1>2, <1>3, <1>4, <1>5 DEF LevelsOK
<1>9. \A s, c, pc, sc : Covered(s, c, pc, sc)' <=> Covered(s, c, pc, sc)
  BY <1>6 DEF Covered
<1> QED BY <1>7, <1>8, <1>9

-----------------------------------------------------------------------------
(* The steps that generate the code *)

LEMMA Generates ==
  ASSUME PlanInv, phase = "generate"
  PROVE  /\ PlanTypes /\ GenerateInv /\ NotRun
         /\ case \in Cases /\ LevelTypes(ParallelCalls, SequentialCall) /\ CallDepth \in Nat
         /\ Len(ParallelCalls) \in Nat /\ Len(SequentialCall) = Len(ParallelCalls)
         /\ TraversalOK(todo) /\ todo \in Seq(ItemSet)
         /\ CodeOK(code) /\ LevelsOK(ParallelCalls, SequentialCall, code)
<1>1. PlanTypes /\ GenerateInv /\ NotRun
  BY DEF PlanInv
<1>2. case \in Cases /\ LevelTypes(ParallelCalls, SequentialCall) /\ CallDepth \in Nat
  BY <1>1 DEF PlanTypes
<1>3. Len(ParallelCalls) \in Nat /\ Len(SequentialCall) = Len(ParallelCalls)
  BY <1>2 DEF LevelTypes
<1>4. TraversalOK(todo) /\ CodeOK(code) /\ LevelsOK(ParallelCalls, SequentialCall, code)
  BY <1>1 DEF GenerateInv
<1>5. todo \in Seq(ItemSet)
  BY <1>4 DEF TraversalOK
<1> QED BY <1>1, <1>2, <1>3, <1>4, <1>5

\* The item that is done.
LEMMA Current ==
  ASSUME PlanInv, phase = "generate", NEW op, Doing(op)
  PROVE  /\ todo # <<>> /\ Head(todo) = todo[1] /\ todo[1].op = op /\ Node = todo[1].n
         /\ todo[1] \in ItemSet /\ 1 \in 1 .. Len(todo)
         /\ op = "output" \/ Fits(op, Node, todo[1].i)
         /\ IsTail(Rest, todo, ItemSet)
<1>1. todo # <<>> /\ Head(todo).op = op /\ todo \in Seq(ItemSet) /\ TraversalOK(todo)
  BY Generates DEF Doing
<1>2. Head(todo) = todo[1] /\ IsTail(Rest, todo, ItemSet)
  BY <1>1, TailIndex DEF Rest
<1>3. 1 \in 1 .. Len(todo) /\ todo[1] \in ItemSet
  BY <1>1
<1>4. todo[1].op = "output" \/ Fits(todo[1].op, todo[1].n, todo[1].i)
  BY <1>1, <1>3 DEF TraversalOK
<1> QED BY <1>1, <1>2, <1>3, <1>4 DEF Node

LEMMA GenCallKeeps ==
  ASSUME PlanInv, GenCall
  PROVE  PlanInv'
<1>1. /\ phase = "generate" /\ phase' = "generate" /\ Doing("call") /\ InBounds /\ OpenLevel
      /\ CallDepth' = CallDepth + 1 /\ code' = code /\ case' = case
      /\ UNCHANGED <<optVars, runVars>>
  BY DEF GenCall, Generating
<1>2. /\ PlanTypes /\ GenerateInv /\ NotRun
      /\ case \in Cases /\ LevelTypes(ParallelCalls, SequentialCall) /\ CallDepth \in Nat
      /\ Len(ParallelCalls) \in Nat /\ Len(SequentialCall) = Len(ParallelCalls)
      /\ TraversalOK(todo) /\ todo \in Seq(ItemSet)
      /\ CodeOK(code) /\ LevelsOK(ParallelCalls, SequentialCall, code)
  BY <1>1, Generates
<1>3. /\ todo # <<>> /\ todo[1].op = "call" /\ Node = todo[1].n /\ Fits("call", Node, todo[1].i)
      /\ 1 \in 1 .. Len(todo)
  BY <1>1, Current
<1>4. Node \in CallIds(case) /\ Depth[Node] \in Nat /\ Depth[Node] >= 1
  BY <1>2, <1>3, DepthFacts DEF Fits, Direct
<1>5. CallDepth = Depth[Node] - 1 /\ CallDepth <= Len(ParallelCalls)
  <2>1. ~(ParallelCalls = <<>> /\ CallDepth > 0)
    BY <1>1, <1>2 DEF InBounds
  <2>2. CallDepth = Enters(todo[1]) /\ CallDepth <= Len(ParallelCalls)
    BY <2>1, <1>2, <1>3 DEF GenerateInv, Aligned
  <2>3. Enters(todo[1]) = Depth[Node] - 1
    BY <1>3 DEF Enters, Calling
  <2> QED BY <2>2, <2>3
<1>6. Covered(todo, code, ParallelCalls, SequentialCall)
  BY <1>2 DEF GenerateInv
<1>7. \E op \in {"spawn", "seq"}, x \in Seq(ItemSet) :
        BlockOK(x, Node, op) /\ todo' = x \o Tail(todo)
  <2> DEFINE a == ArgStatements(Node)
             v == Visits(Kids(case, Node, 0))
             w == ArgVisits(Node)
             p == <<Item("spawn", Node, 0)>>
             q == <<Item("seq", Node, 0)>>
  <2>1. a \in Seq(ItemSet) /\ v \in Seq(ItemSet) /\ w \in Seq(ItemSet)
    BY <1>2, <1>4, ArgStatementsFacts, VisitsFacts, ArgVisitsFacts
  <2>2. p \in Seq(ItemSet) /\ q \in Seq(ItemSet) /\ Tail(todo) \in Seq(ItemSet)
    <3>1. Node \in Nat
      BY <1>2, <1>4, CaseFacts
    <3>2. Item("spawn", Node, 0) \in ItemSet /\ Item("seq", Node, 0) \in ItemSet
      BY <3>1, ItemFacts DEF Ops
    <3>3. Tail(todo) \in Seq(ItemSet)
      BY <1>2, <1>3
    <3> QED BY <3>2, <3>3
  <2>3. CASE DoParallel[Node]
    <3>1. todo' = a \o v \o p \o Tail(todo)
      BY <2>3 DEF GenCall, Rest
    <3>2. BlockOK(a \o v \o p, Node, "spawn")
      BY <1>2, <1>4, ParallelBlock
    <3>3. a \o v \o p \in Seq(ItemSet)
      BY <3>2 DEF BlockOK
    <3> HIDE DEF a, v, p
    <3> QED BY <3>1, <3>2, <3>3
  <2>4. CASE ~DoParallel[Node]
    <3>1. todo' = v \o w \o q \o Tail(todo)
      BY <2>4 DEF GenCall, Rest
    <3>2. BlockOK(v \o w \o q, Node, "seq")
      BY <1>2, <1>4, SequentialBlock
    <3>3. v \o w \o q \in Seq(ItemSet)
      BY <3>2 DEF BlockOK
    <3> HIDE DEF v, w, q
    <3> QED BY <3>1, <3>2, <3>3
  <2> QED BY <2>3, <2>4
<1>8. PICK op \in {"spawn", "seq"}, x \in Seq(ItemSet) :
        BlockOK(x, Node, op) /\ todo' = x \o Tail(todo)
  BY <1>7
<1>9. Spliced(todo', x, todo, ItemSet)
  <2>1. Spliced(x \o Tail(todo), x, todo, ItemSet)
    BY <1>2, <1>3, SpliceFacts
  <2> QED BY <2>1, <1>8
<1>10. /\ TraversalOK(todo') /\ Covered(todo', code, ParallelCalls, SequentialCall)
       /\ todo' # <<>> /\ Enters(todo'[1]) = Depth[Node] /\ todo'[1].op \notin Direct
       /\ GuardIn(todo', 1) <=> GuardIn(todo, 1)
  <2>1. BlockOK(x, todo[1].n, op)
    BY <1>3, <1>8
  <2> QED BY <1>2, <1>3, <1>6, <1>9, <2>1, BlockKeeps
<1>11. /\ LevelTypes(ParallelCalls', SequentialCall') /\ LevelsOK(ParallelCalls', SequentialCall', code)
       /\ \A t : Placed(ParallelCalls, SequentialCall, t) => Placed(ParallelCalls', SequentialCall', t)
       /\ CallDepth + 1 <= Len(ParallelCalls')
  <2>1. CASE Len(ParallelCalls) = CallDepth
    <3>1. ParallelCalls' = Append(ParallelCalls, <<>>) /\ SequentialCall' = Append(SequentialCall, Null)
      BY <2>1, <1>1 DEF OpenLevel
    <3>2. /\ LevelTypes(Append(ParallelCalls, <<>>), Append(SequentialCall, Null))
          /\ LevelsOK(Append(ParallelCalls, <<>>), Append(SequentialCall, Null), code)
          /\ Len(Append(ParallelCalls, <<>>)) = Len(ParallelCalls) + 1
          /\ \A t : Placed(ParallelCalls, SequentialCall, t) =>
               Placed(Append(ParallelCalls, <<>>), Append(SequentialCall, Null), t)
      BY <1>2, OpenKeeps
    <3>3. Len(ParallelCalls') = CallDepth + 1
      BY <3>1, <3>2, <2>1, Zenon
    <3>4. CallDepth + 1 <= Len(ParallelCalls')
      BY <3>3, <1>2
    <3> QED BY <3>1, <3>2, <3>4, Zenon
  <2>2. CASE Len(ParallelCalls) # CallDepth
    <3>1. ParallelCalls' = ParallelCalls /\ SequentialCall' = SequentialCall
      BY <2>2, <1>1 DEF OpenLevel
    <3> QED BY <3>1, <2>2, <1>2, <1>5
  <2> QED BY <2>1, <2>2
<1>12. Covered(todo', code', ParallelCalls', SequentialCall')
  BY <1>1, <1>10, <1>11, CoveredMonotone
<1>13. GenerateInv'
  <2>1. TraversalOK(todo)' /\ Covered(todo, code, ParallelCalls, SequentialCall)'
    BY <1>1, <1>10, <1>12, StableItems, StableLevels
  <2>2. Aligned'
    <3>1. Enters(todo[1])' = Enters(todo'[1])
      BY <1>1, StableItems
    <3>2. CallDepth' = Enters(todo[1])' /\ CallDepth' <= Len(ParallelCalls')
      BY <3>1, <1>1, <1>2, <1>4, <1>5, <1>10, <1>11
    <3> QED BY <3>2 DEF Aligned
  <2>3. (GuardIn(todo, 1) <=> ~Past(code, Len(code) + 1))'
    <3>1. GuardIn(todo, 1) <=> ~Past(code, Len(code) + 1)
      BY <1>2 DEF GenerateInv
    <3>2. Past(code, Len(code) + 1)' <=> Past(code, Len(code) + 1)
      BY <1>1, StablePast
    <3> QED BY <3>1, <3>2, <1>10
  <2>4. LevelsOK(ParallelCalls, SequentialCall, code)' /\ CodeOK(code)'
    BY <1>1, <1>2, <1>11, StableLevels, StableCode
  <2> QED BY <2>1, <2>2, <2>3, <2>4, <1>10 DEF GenerateInv, Direct
<1>14. PlanTypes'
  <2>1. LevelTypes(ParallelCalls, SequentialCall)'
    BY <1>1, <1>11, StableLevels
  <2>2. CallDepth' \in Nat
    BY <1>1, <1>2
  <2> QED BY <2>1, <2>2, <1>1, <1>2 DEF PlanTypes, optVars, runVars, Phases
<1>15. NotRun'
  BY <1>1, <1>2 DEF NotRun, runVars
<1> QED BY <1>1, <1>13, <1>14, <1>15 DEF PlanInv, BoundsFollowStart


\* A call whose turn it is to be placed.
LEMMA CallingFacts ==
  ASSUME PlanInv, phase = "generate", NEW op \in Calling, Doing(op)
  PROVE  /\ Node \in CallIds(case) /\ CallDepth = Depth[Node] /\ CallDepth \in 1 .. Len(ParallelCalls)
         /\ Fits(op, Node, todo[1].i)
         /\ Side[Node] = 1 <=> Past(code, Len(code) + 1)
         /\ GuardIn(Rest, 1) <=> GuardIn(todo, 1)
         /\ TraversalOK(Rest) /\ Rest # <<>> /\ Rest[1].op \notin Direct /\ Enters(Rest[1]) = Leaves(todo[1])
         /\ \A t \in Needs(op, Node, todo[1].i) :
              \/ InCode(code, t) \/ Deeper(ParallelCalls, SequentialCall, CallDepth, t)
              \/ /\ op = "spawn"
                 /\ \E h \in 1 .. Len(ParallelCalls[CallDepth]) :
                      /\ ParallelCalls[CallDepth][h].do = "arg"
                      /\ t \in MakesStatement(ParallelCalls[CallDepth][h])
<1>1. /\ PlanTypes /\ GenerateInv /\ NotRun
      /\ case \in Cases /\ LevelTypes(ParallelCalls, SequentialCall) /\ CallDepth \in Nat
      /\ Len(ParallelCalls) \in Nat
      /\ TraversalOK(todo) /\ LevelsOK(ParallelCalls, SequentialCall, code)
  BY Generates
<1>2. /\ todo # <<>> /\ todo[1].op = op /\ Node = todo[1].n /\ 1 \in 1 .. Len(todo)
      /\ op = "output" \/ Fits(op, Node, todo[1].i)
      /\ IsTail(Rest, todo, ItemSet)
  BY Current
<1>3. op \in {"arg", "spawn", "seq"} /\ op \notin Direct /\ op # "output"
  BY DEF Calling, Direct
<1>4. Node \in CallIds(case) /\ Depth[Node] \in Nat /\ Depth[Node] >= 1 /\ Fits(op, Node, todo[1].i)
  <2>1. Fits(op, Node, todo[1].i)
    BY <1>2, <1>3
  <2>2. Node \in CallIds(case) /\ Depth[Node] >= 1
    BY <2>1, <1>3 DEF Fits
  <2> QED BY <2>1, <2>2, <1>1, DepthFacts
<1>5. CallDepth = Depth[Node] /\ CallDepth \in 1 .. Len(ParallelCalls)
  <2>1. todo[1].op \in Calling
    BY <1>2
  <2>2. CallDepth = Enters(todo[1]) /\ CallDepth <= Len(ParallelCalls)
    BY <2>1, <1>1, <1>2 DEF GenerateInv, Aligned
  <2>3. Enters(todo[1]) = Depth[Node]
    BY <1>2, <1>3 DEF Enters, Calling
  <2> QED BY <2>2, <2>3, <1>1, <1>4
<1>6. /\ TraversalOK(Rest)
      /\ Rest # <<>> => Enters(Rest[1]) = Leaves(todo[1])
      /\ Rest # <<>> /\ Rest[1].op \in Direct => todo[1].op \in {"output", "guard", "assign"}
      /\ Rest = <<>> => todo[1].op \in {"exit", "goto"}
      /\ GuardIn(todo, 1) <=> (todo[1].op = "guard" \/ GuardIn(Rest, 1))
      /\ todo[1].op \in Calling => (Side[todo[1].n] = 0 <=> GuardIn(Rest, 1))
  BY <1>1, <1>2, TailKeeps
<1>7. Rest # <<>> /\ Rest[1].op \notin Direct /\ (GuardIn(todo, 1) <=> GuardIn(Rest, 1))
  BY <1>2, <1>3, <1>6
<1>8. Side[Node] = 1 <=> Past(code, Len(code) + 1)
  <2>1. Side[Node] = 0 <=> GuardIn(todo, 1)
    BY <1>2, <1>6, <1>7
  <2>2. GuardIn(todo, 1) <=> ~Past(code, Len(code) + 1)
    BY <1>1 DEF GenerateInv
  <2>3. Side[Node] = 0 \/ Side[Node] = 1
    BY <1>1, <1>4, SideFacts
  <2>4. 0 # 1
    OBVIOUS
  <2> QED BY <2>1, <2>2, <2>3, <2>4, Zenon
<1>9. ASSUME NEW t \in Needs(op, Node, todo[1].i)
      PROVE  \/ InCode(code, t) \/ Deeper(ParallelCalls, SequentialCall, CallDepth, t)
             \/ /\ op = "spawn"
                /\ \E h \in 1 .. Len(ParallelCalls[CallDepth]) :
                     /\ ParallelCalls[CallDepth][h].do = "arg"
                     /\ t \in MakesStatement(ParallelCalls[CallDepth][h])
  <2>1. t \in NeedsItem(todo[1])
    BY <1>2, <1>9 DEF NeedsItem
  <2>2. InCode(code, t) \/ Placed(ParallelCalls, SequentialCall, t) \/ \E q \in 1 .. 1 - 1 : t \in MakesItem(todo[q])
    BY <2>1, <1>1, <1>2 DEF GenerateInv, Covered
  <2>3. InCode(code, t) \/ Placed(ParallelCalls, SequentialCall, t)
    BY <2>2
  <2> QED BY <2>3, <1>1, <1>4, <1>5, NeedsDeeper
<1> QED BY <1>4, <1>5, <1>6, <1>7, <1>8, <1>9

\* A call has been placed.
LEMMA CallingKeeps ==
  ASSUME PlanInv, phase = "generate", Generating, phase' = phase, NEW op \in Calling, Doing(op),
         todo' = Rest, code' = code, CallDepth' = Leaves(todo[1]),
         LevelTypes(ParallelCalls', SequentialCall'), LevelsOK(ParallelCalls', SequentialCall', code),
         Len(ParallelCalls') = Len(ParallelCalls),
         \A t : Placed(ParallelCalls, SequentialCall, t) => Placed(ParallelCalls', SequentialCall', t),
         \A t \in MakesItem(todo[1]) : Placed(ParallelCalls', SequentialCall', t)
  PROVE  PlanInv'
<1>1. case' = case /\ UNCHANGED <<optVars, runVars>> /\ phase' = "generate"
  BY DEF Generating
<1>2. /\ PlanTypes /\ GenerateInv /\ NotRun
      /\ case \in Cases /\ CallDepth \in Nat
      /\ Len(ParallelCalls) \in Nat
      /\ TraversalOK(todo)
      /\ CodeOK(code)
  BY Generates
<1>3. /\ Node \in CallIds(case) /\ CallDepth = Depth[Node] /\ CallDepth \in 1 .. Len(ParallelCalls)
      /\ GuardIn(Rest, 1) <=> GuardIn(todo, 1)
      /\ TraversalOK(Rest) /\ Rest # <<>> /\ Rest[1].op \notin Direct /\ Enters(Rest[1]) = Leaves(todo[1])
  BY CallingFacts
<1>4. todo # <<>> /\ todo[1].op = op /\ Node = todo[1].n
  BY Current
<1>5. CallDepth' \in Nat /\ CallDepth' <= CallDepth
  <2>1. Leaves(todo[1]) = Depth[Node] \/ Leaves(todo[1]) = Depth[Node] - 1
    BY <1>4 DEF Leaves, Calling
  <2>2. CallDepth - 1 \in Nat /\ CallDepth - 1 <= CallDepth
    BY <1>2, <1>3
  <2>3. CallDepth' = CallDepth \/ CallDepth' = CallDepth - 1
    BY <2>1, <1>3, Zenon
  <2> QED BY <2>2, <2>3, <1>2
<1>6. Covered(todo', code, ParallelCalls', SequentialCall')
  <2>1. Covered(todo, code, ParallelCalls, SequentialCall)
    BY <1>2 DEF GenerateInv
  <2>2. \A t : InCode(code, t) \/ Placed(ParallelCalls, SequentialCall, t) \/ t \in MakesItem(todo[1])
                 => InCode(code, t) \/ Placed(ParallelCalls', SequentialCall', t)
    OBVIOUS
  <2>3. Covered(Tail(todo), code, ParallelCalls', SequentialCall')
    BY <1>2, <1>4, <2>1, <2>2, TailCovered
  <2> QED BY <2>3 DEF Rest
<1>7. GenerateInv'
  <2>1. TraversalOK(todo)' /\ Covered(todo, code, ParallelCalls, SequentialCall)'
    BY <1>1, <1>3, <1>6, StableItems, StableLevels
  <2>2. Aligned'
    <3>1. Enters(todo[1])' = Enters(todo'[1])
      BY <1>1, StableItems
    <3>2. CallDepth' = Enters(todo[1])'
      BY <3>1, <1>3
    <3>3. CallDepth' <= Len(ParallelCalls')
      BY <1>2, <1>3, <1>5
    <3> QED BY <3>2, <3>3 DEF Aligned
  <2>3. (GuardIn(todo, 1) <=> ~Past(code, Len(code) + 1))'
    <3>1. GuardIn(todo, 1) <=> ~Past(code, Len(code) + 1)
      BY <1>2 DEF GenerateInv
    <3>2. Past(code, Len(code) + 1)' <=> Past(code, Len(code) + 1)
      BY <1>1, StablePast
    <3> QED BY <3>1, <3>2, <1>3
  <2>4. LevelsOK(ParallelCalls, SequentialCall, code)' /\ CodeOK(code)'
    BY <1>1, <1>2, StableLevels, StableCode
  <2> QED BY <2>1, <2>2, <2>3, <2>4, <1>3 DEF GenerateInv
<1>8. PlanTypes'
  <2>1. LevelTypes(ParallelCalls, SequentialCall)'
    BY <1>1, StableLevels
  <2> QED BY <2>1, <1>1, <1>2, <1>5 DEF PlanTypes, optVars, runVars, Phases
<1>9. NotRun'
  BY <1>1, <1>2 DEF NotRun, runVars
<1> QED BY <1>1, <1>7, <1>8, <1>9 DEF PlanInv, BoundsFollowStart

LEMMA GenArgKeeps ==
  ASSUME PlanInv, GenArg \/ GenSpawn
  PROVE  PlanInv'
<1> DEFINE op == IF GenArg THEN "arg" ELSE "spawn"
           i == todo[1].i
           st == Statement(op, Node, i, Outermost(Node, i))
           d == CallDepth
<1>1. /\ phase = "generate" /\ phase' = phase /\ Generating /\ Doing(op) /\ op \in Calling
      /\ todo' = Rest /\ code' = code /\ SequentialCall' = SequentialCall
      /\ CallDepth' = IF op = "arg" THEN CallDepth ELSE CallDepth - 1
  BY DEF GenArg, GenSpawn, Generating, Calling
<1>2. op \in {"arg", "spawn"}
  OBVIOUS
<1>3. GenArg => op = "arg"
  OBVIOUS
<1>4. ~GenArg => GenSpawn /\ op = "spawn"
  OBVIOUS
<1> HIDE DEF op
<1>5. /\ case \in Cases /\ LevelTypes(ParallelCalls, SequentialCall)
      /\ LevelsOK(ParallelCalls, SequentialCall, code)
  BY <1>1, Generates
<1>6. /\ todo # <<>> /\ Head(todo) = todo[1] /\ todo[1].op = op /\ Node = todo[1].n /\ todo[1] \in ItemSet
  BY <1>1, Current
<1>7. /\ Node \in CallIds(case) /\ CallDepth = Depth[Node] /\ CallDepth \in 1 .. Len(ParallelCalls)
      /\ Fits(op, Node, todo[1].i)
      /\ Side[Node] = 1 <=> Past(code, Len(code) + 1)
      /\ \A t \in Needs(op, Node, todo[1].i) :
              \/ InCode(code, t) \/ Deeper(ParallelCalls, SequentialCall, CallDepth, t)
              \/ /\ op = "spawn"
                 /\ \E h \in 1 .. Len(ParallelCalls[CallDepth]) :
                      /\ ParallelCalls[CallDepth][h].do = "arg"
                      /\ t \in MakesStatement(ParallelCalls[CallDepth][h])
  BY <1>1, CallingFacts
<1>8. op = "spawn" => i = 0
  BY <1>7 DEF Fits, Direct
<1>9. ParallelCalls' = [ParallelCalls EXCEPT ![d] = Append(@, st)]
  <2>1. CASE GenArg
    BY <2>1, <1>3, <1>6 DEF GenArg, AddParallel
  <2>2. CASE ~GenArg
    <3>1. i = 0
      BY <2>2, <1>4, <1>8
    <3>2. GenSpawn
      BY <2>2
    <3>3. AddParallel(CallDepth, Statement("spawn", Node, 0, Outermost(Node, 0)))
      BY <3>2 DEF GenSpawn
    <3> QED BY <2>2, <3>1, <3>3, <1>4 DEF AddParallel
  <2> QED BY <2>1, <2>2
<1>10. /\ IsStatement(st) /\ st.do = op /\ st.n = Node /\ st.i = i
       /\ MakesStatement(st) = {<<Node, i>>} /\ NeedsStatement(st) = Needs(op, Node, i)
  <2> DEFINE R == Outermost(Node, i)
  <2>1. Node \in Nat /\ i \in Nat
    BY <1>5, <1>6, <1>7, CaseFacts DEF ItemSet
  <2>2. R \in SUBSET Nat
    <3>1. ASSUME NEW k \in R PROVE k \in Nat
      <4>1. k \in CallIds(case)
        BY <1>5, OutermostIds
      <4> QED BY <4>1, <1>5, CaseFacts
    <3> HIDE DEF R
    <3> QED BY <3>1
  <2>3. R = Reads(op, Node, i)
    BY <1>2, <1>8 DEF Reads
  <2>4. st = Statement(op, Node, i, R)
    OBVIOUS
  <2> HIDE DEF R, st, i
  <2>5. st \in StatementSet /\ st.do = op /\ st.n = Node /\ st.i = i /\ st.reads = R
    BY <2>1, <2>2, <2>4, <1>2 DEF Statement, StatementSet, Dos, Calling
  <2>6. IsStatement(st)
    <3>1. op # "call"
      BY <1>2
    <3> QED BY <2>3, <2>5, <3>1, <1>7 DEF IsStatement, i
  <2>7. MakesStatement(st) = {<<Node, i>>}
    <3>1. op \in {"call", "spawn", "seq", "arg"}
      BY <1>2
    <3> QED BY <3>1, <2>5, MakesFacts DEF MakesStatement
  <2>8. NeedsStatement(st) = Needs(op, Node, i)
    BY <2>5 DEF NeedsStatement
  <2> QED BY <2>5, <2>6, <2>7, <2>8
<1> HIDE DEF st
<1>11. /\ LevelTypes(ParallelCalls', SequentialCall) /\ LevelsOK(ParallelCalls', SequentialCall, code)
       /\ Len(ParallelCalls') = Len(ParallelCalls)
       /\ \A t : Placed(ParallelCalls, SequentialCall, t) => Placed(ParallelCalls', SequentialCall, t)
       /\ \A t \in MakesStatement(st) : Placed(ParallelCalls', SequentialCall, t)
  <2>1. \A t \in NeedsStatement(st) :
          \/ InCode(code, t) \/ Deeper(ParallelCalls, SequentialCall, d, t)
          \/ \E h \in 1 .. Len(ParallelCalls[d]) :
               ParallelCalls[d][h].do = "arg" /\ t \in MakesStatement(ParallelCalls[d][h])
    BY <1>7, <1>10
  <2>2. /\ d \in 1 .. Len(ParallelCalls) /\ IsStatement(st) /\ st.do \in {"arg", "spawn"}
        /\ Depth[st.n] = d /\ (Side[st.n] = 1 <=> Past(code, Len(code) + 1))
    BY <1>2, <1>7, <1>10
  <2>5. Placeable(st, d, ParallelCalls, SequentialCall, code)
    BY <2>1, <2>2 DEF Placeable
  <2> DEFINE qc == [ParallelCalls EXCEPT ![d] = Append(@, st)]
  <2>3. qc = ParallelCalls'
    BY <1>9
  <2> HIDE DEF d
  <2>4. PlacedIn(qc, ParallelCalls, SequentialCall, code, st)
    BY <2>5, <2>2, <1>5, PlaceParallel
  <2> HIDE DEF qc
  <2> QED BY <2>3, <2>4 DEF PlacedIn
<1>12. MakesItem(todo[1]) = {<<Node, i>>}
  <2>1. op \in {"call", "spawn", "seq", "arg"}
    BY <1>2
  <2> QED BY <2>1, <1>6, MakesFacts DEF MakesItem
<1>13. CallDepth' = Leaves(todo[1])
  <2>1. CASE op = "arg"
    BY <2>1, <1>1, <1>6, <1>7 DEF Leaves
  <2>2. CASE op = "spawn"
    BY <2>2, <1>1, <1>6, <1>7 DEF Leaves
  <2> QED BY <1>2, <2>1, <2>2
<1> QED BY <1>1, <1>10, <1>11, <1>12, <1>13, CallingKeeps

LEMMA GenSeqKeeps ==
  ASSUME PlanInv, GenSeq
  PROVE  PlanInv'
<1> DEFINE d == CallDepth
<1>1. /\ phase = "generate" /\ phase' = phase /\ Generating /\ Doing("seq") /\ "seq" \in Calling
      /\ todo' = Rest /\ code' = code /\ ParallelCalls' = ParallelCalls
      /\ SequentialCall[d] = Null /\ SequentialCall' = [SequentialCall EXCEPT ![d] = Node]
      /\ CallDepth' = CallDepth - 1
  BY DEF GenSeq, Generating, Calling
<1>2. /\ case \in Cases /\ LevelTypes(ParallelCalls, SequentialCall)
      /\ LevelsOK(ParallelCalls, SequentialCall, code)
  BY <1>1, Generates
<1>3. /\ todo # <<>> /\ todo[1].op = "seq" /\ Node = todo[1].n
  BY <1>1, Current
<1>4. /\ Node \in CallIds(case) /\ CallDepth = Depth[Node] /\ CallDepth \in 1 .. Len(ParallelCalls)
      /\ Fits("seq", Node, todo[1].i)
      /\ Side[Node] = 1 <=> Past(code, Len(code) + 1)
      /\ \A t \in Needs("seq", Node, todo[1].i) :
              \/ InCode(code, t) \/ Deeper(ParallelCalls, SequentialCall, CallDepth, t)
              \/ /\ "seq" = "spawn"
                 /\ \E h \in 1 .. Len(ParallelCalls[CallDepth]) :
                      /\ ParallelCalls[CallDepth][h].do = "arg"
                      /\ t \in MakesStatement(ParallelCalls[CallDepth][h])
  BY <1>1, CallingFacts
<1>5. todo[1].i = 0
  BY <1>4 DEF Fits, Direct
<1>6. \A t \in Needs("seq", Node, 0) :
        InCode(code, t) \/ Deeper(ParallelCalls, SequentialCall, CallDepth, t)
  BY <1>4, <1>5
<1>7. Node # Null
  BY <1>2, <1>4, CaseFacts DEF Null
<1>8. /\ LevelTypes(ParallelCalls, SequentialCall') /\ LevelsOK(ParallelCalls, SequentialCall', code)
      /\ \A t : Placed(ParallelCalls, SequentialCall, t) => Placed(ParallelCalls, SequentialCall', t)
      /\ Placed(ParallelCalls, SequentialCall', <<Node, 0>>)
  BY <1>1, <1>2, <1>4, <1>6, <1>7, PlaceOwn
<1>9. MakesItem(todo[1]) = {<<Node, 0>>}
  BY <1>3, <1>5, MakesFacts DEF MakesItem
<1>10. CallDepth' = Leaves(todo[1])
  BY <1>1, <1>3, <1>4 DEF Leaves
<1> QED BY <1>1, <1>8, <1>9, <1>10, CallingKeeps


-----------------------------------------------------------------------------
(* Steps that write code *)

LEMMA WritingPast ==
  ASSUME NEW c, NEW f, NEW r, Continues(r, c, Len(f)),
         \A q \in 1 .. Len(f) : r[Len(c) + q] = f[q]
  PROVE  Past(r, Len(r) + 1) <=> Past(c, Len(c) + 1) \/ \E q \in 1 .. Len(f) : f[q].do = "guard"
<1>1. PICK a \in Nat, b \in Nat : a = Len(c) /\ b = Len(f) /\ Len(r) = a + b
  BY DEF Continues
<1>2. \A k \in 1 .. a : r[k] = c[k]
  BY <1>1 DEF Continues
<1>3. \A q \in 1 .. b : r[a + q] = f[q]
  BY <1>1
<1>4. (\E k \in 1 .. a + b : r[k].do = "guard") <=>
        (\E k \in 1 .. a : c[k].do = "guard") \/ \E q \in 1 .. b : f[q].do = "guard"
  <2>1. ASSUME NEW k \in 1 .. a + b, r[k].do = "guard"
        PROVE  (\E j \in 1 .. a : c[j].do = "guard") \/ \E q \in 1 .. b : f[q].do = "guard"
    <3>1. CASE k \in 1 .. a
      BY <3>1, <2>1, <1>2
    <3>2. CASE k \notin 1 .. a
      <4>1. k - a \in 1 .. b /\ a + (k - a) = k
        BY <3>2
      <4>2. r[a + (k - a)] = f[k - a]
        BY <4>1, <1>3
      <4>3. f[k - a].do = "guard"
        BY <4>1, <4>2, <2>1
      <4> QED BY <4>1, <4>3
    <3> QED BY <3>1, <3>2
  <2>2. ASSUME NEW k \in 1 .. a, c[k].do = "guard" PROVE \E j \in 1 .. a + b : r[j].do = "guard"
    <3>1. k \in 1 .. a + b
      OBVIOUS
    <3> QED BY <3>1, <2>2, <1>2
  <2>3. ASSUME NEW q \in 1 .. b, f[q].do = "guard" PROVE \E j \in 1 .. a + b : r[j].do = "guard"
    <3>1. a + q \in 1 .. a + b
      OBVIOUS
    <3> QED BY <3>1, <2>3, <1>3
  <2> QED BY <2>1, <2>2, <2>3
<1>5. (a + b + 1) - 1 = a + b /\ (a + 1) - 1 = a
  OBVIOUS
<1>6. Past(r, a + b + 1) <=> Past(c, a + 1) \/ \E q \in 1 .. b : f[q].do = "guard"
  BY <1>4, <1>5 DEF Past
<1> QED BY <1>1, <1>6

\* An item that is done by writing the block f, which takes the levels with it.
Writes(f, x) ==
  /\ WritableAt(f, code)
  /\ \A t : Placed(ParallelCalls, SequentialCall, t) => \E q \in 1 .. Len(f) : t \in MakesStatement(f[q])
  /\ (\E q \in 1 .. Len(f) : f[q].do = "guard") <=> x.op = "guard"
  /\ x.op \in {"exit", "goto"} => Len(f) = 1 /\ f[1].do = x.op

LEMMA WriteKeeps ==
  ASSUME PlanInv, phase = "generate", Generating, phase' = phase,
         NEW op \in Direct \cup {"output"}, Doing(op), NEW f, Writes(f, todo[1]),
         code' = code \o f, todo' = Rest, ParallelCalls' = <<>>, SequentialCall' = <<>>,
         CallDepth' = CallDepth
  PROVE  PlanInv'
<1> DEFINE n == Len(code) + 1
<1>1. case' = case /\ UNCHANGED <<optVars, runVars>> /\ phase' = "generate"
  BY DEF Generating
<1>2. /\ PlanTypes /\ GenerateInv /\ NotRun
      /\ case \in Cases /\ CallDepth \in Nat
      /\ TraversalOK(todo)
      /\ CodeOK(code)
  BY Generates
<1>3. todo # <<>> /\ todo[1].op = op /\ IsTail(Rest, todo, ItemSet)
  BY Current
<1>4. /\ TraversalOK(Rest)
      /\ Rest # <<>> => Enters(Rest[1]) = Leaves(todo[1])
      /\ Rest = <<>> => todo[1].op \in {"exit", "goto"}
      /\ GuardIn(todo, 1) <=> (todo[1].op = "guard" \/ GuardIn(Rest, 1))
      /\ todo[1].op \in Direct => ~GuardIn(Rest, 1)
  BY <1>2, <1>3, TailKeeps
<1>5. /\ CodeOK(code \o f) /\ Continues(code \o f, code, Len(f))
      /\ \A q \in 1 .. Len(f) : (code \o f)[Len(code) + q] = f[q]
      /\ \A q \in 1 .. Len(f) : \A t \in MakesStatement(f[q]) : InCode(code \o f, t)
  BY <1>2, WritingKeeps DEF Writes
<1>6. /\ CodeOK(code') /\ Continues(code', code, Len(f))
      /\ \A q \in 1 .. Len(f) : code'[Len(code) + q] = f[q]
      /\ \A q \in 1 .. Len(f) : \A t \in MakesStatement(f[q]) : InCode(code', t)
  BY <1>5
<1>7. \A t : InCode(code, t) => InCode(code', t)
  BY <1>6, PrefixFacts
<1>8. Covered(todo', code', <<>>, <<>>)
  <2>1. MakesItem(todo[1]) = {}
    BY <1>3, MakesFacts DEF MakesItem
  <2>2. \A t : InCode(code, t) \/ Placed(ParallelCalls, SequentialCall, t) \/ t \in MakesItem(todo[1])
                 => InCode(code', t) \/ Placed(<<>>, <<>>, t)
    BY <1>6, <1>7, <2>1 DEF Writes
  <2>3. Covered(todo, code, ParallelCalls, SequentialCall)
    BY <1>2 DEF GenerateInv
  <2>4. Covered(Tail(todo), code', <<>>, <<>>)
    BY <1>2, <1>3, <2>2, <2>3, TailCovered
  <2> QED BY <2>4 DEF Rest
<1>9. Aligned'
  <2>1. Enters(todo[1]) = 0 /\ Leaves(todo[1]) = 0
    BY <1>3 DEF Enters, Leaves, Calling, Direct
  <2>2. CASE todo # <<>> => CallDepth = Enters(todo[1]) /\ CallDepth <= Len(ParallelCalls)
    <3>1. CallDepth' = 0 /\ Len(ParallelCalls') = 0
      BY <2>1, <2>2, <1>3
    <3>2. Enters(todo[1])' = Enters(todo'[1])
      BY <1>1, StableItems
    <3> QED BY <3>1, <3>2, <2>1, <1>4 DEF Aligned
  <2>3. CASE /\ ParallelCalls = <<>> /\ CallDepth > 0 /\ CallDepth \in StartDepths
             /\ \A p \in 1 .. Len(todo) : todo[p].op \notin Calling
    <3>1. ASSUME NEW p \in 1 .. Len(todo') PROVE todo'[p].op \notin Calling
      <4>1. p + 1 \in 1 .. Len(todo) /\ p \in 1 .. Len(todo) - 1
        BY <1>3 DEF IsTail
      <4>2. todo'[p] = todo[p + 1]
        BY <4>1, <1>3 DEF IsTail
      <4> QED BY <4>1, <4>2, <2>3
    <3> QED BY <3>1, <2>3 DEF Aligned, Calling
  <2> QED BY <2>2, <2>3, <1>2 DEF GenerateInv, Aligned
<1>10. Past(code', Len(code') + 1) <=> Past(code, n) \/ todo[1].op = "guard"
  <2>1. \A r : Continues(r, code, Len(f)) /\ (\A q \in 1 .. Len(f) : r[Len(code) + q] = f[q]) =>
          (Past(r, Len(r) + 1) <=> Past(code, Len(code) + 1) \/ \E q \in 1 .. Len(f) : f[q].do = "guard")
    BY WritingPast
  <2>2. Past(code', Len(code') + 1) <=> Past(code, Len(code) + 1) \/ \E q \in 1 .. Len(f) : f[q].do = "guard"
    BY <2>1, <1>6
  <2> QED BY <2>2 DEF Writes
<1>11. GuardIn(todo', 1) <=> ~Past(code', Len(code') + 1)
  <2>1. GuardIn(todo, 1) <=> ~Past(code, n)
    BY <1>2 DEF GenerateInv
  <2>2. "guard" \in Direct
    BY DEF Direct
  <2> QED BY <2>1, <2>2, <1>4, <1>10
<1>12. todo' = <<>> => code' # <<>> /\ code'[Len(code')].do \in {"exit", "goto"}
  <2>1. SUFFICES ASSUME todo' = <<>> PROVE code' # <<>> /\ code'[Len(code')].do \in {"exit", "goto"}
    OBVIOUS
  <2>2. Len(f) = 1 /\ f[1].do \in {"exit", "goto"}
    BY <2>1, <1>4 DEF Writes
  <2>3. Len(code') = Len(code) + 1 /\ Len(code) \in Nat
    BY <2>2, <1>6 DEF Continues
  <2>4. code'[Len(code) + 1] = f[1]
    <3>1. 1 \in 1 .. Len(f)
      BY <2>2
    <3> QED BY <3>1, <1>6
  <2>5. code' # <<>>
    BY <2>3
  <2> QED BY <2>2, <2>3, <2>4, <2>5
<1>13. GenerateInv'
  <2>1. TraversalOK(todo)' /\ Covered(todo, code, ParallelCalls, SequentialCall)'
    BY <1>1, <1>4, <1>8, StableItems, StableLevels
  <2>2. (GuardIn(todo, 1) <=> ~Past(code, Len(code) + 1))'
    <3>1. Past(code, Len(code) + 1)' <=> Past(code', Len(code') + 1)
      BY <1>1, StablePast
    <3> QED BY <3>1, <1>11
  <2>3. CodeOK(code)'
    BY <1>1, <1>6, StableCode
  <2>4. LevelsOK(ParallelCalls, SequentialCall, code)'
    BY DEF LevelsOK
  <2> QED BY <2>1, <2>2, <2>3, <2>4, <1>9, <1>12 DEF GenerateInv
<1>14. PlanTypes'
  <2>1. LevelTypes(ParallelCalls, SequentialCall)'
    BY DEF LevelTypes
  <2>2. code' \in Seq(StatementSet)
    BY <1>6 DEF CodeOK
  <2>3. next' = 1 /\ 1 \in 1 .. Len(code') + 1
    BY <1>1, <1>2, <2>2 DEF NotRun, runVars
  <2> QED BY <2>1, <2>2, <2>3, <1>1, <1>2 DEF PlanTypes, optVars, runVars, Phases
<1>15. NotRun'
  BY <1>1, <1>2 DEF NotRun, runVars
<1> QED BY <1>1, <1>13, <1>14, <1>15 DEF PlanInv, BoundsFollowStart

LEMMA GenOutputKeeps ==
  ASSUME PlanInv, GenOutput
  PROVE  PlanInv'
<1> DEFINE f == FlattenSeq(Reverse([l \in DOMAIN ParallelCalls |-> LevelCode(l)]))
<1>1. /\ phase = "generate" /\ phase' = phase /\ Generating /\ Doing("output")
      /\ code' = code \o f /\ todo' = Rest /\ ParallelCalls' = <<>> /\ SequentialCall' = <<>>
      /\ CallDepth' = CallDepth
  BY DEF GenOutput, Generating
<1>2. /\ case \in Cases /\ LevelTypes(ParallelCalls, SequentialCall)
      /\ LevelsOK(ParallelCalls, SequentialCall, code)
  BY <1>1, Generates
<1>3. /\ WritableAt(f, code)
      /\ \A q \in 1 .. Len(f) : f[q].do \in Calling \cup {"yield"}
      /\ \A t : Placed(ParallelCalls, SequentialCall, t) => \E q \in 1 .. Len(f) : t \in MakesStatement(f[q])
  BY <1>2, OutputWritable
<1> HIDE DEF f
<1>4. todo[1].op = "output"
  BY <1>1, Current
<1>5. \A q \in 1 .. Len(f) : f[q].do # "guard"
  BY <1>3 DEF Calling
<1>6. Writes(f, todo[1])
  BY <1>3, <1>4, <1>5 DEF Writes
<1> QED BY <1>1, <1>6, WriteKeeps

LEMMA GenStatementKeeps ==
  ASSUME PlanInv, GenStatement
  PROVE  PlanInv'
<1>1. PICK op \in Direct :
        /\ Doing(op)
        /\ code' = Append(code, Statement(op, Node, Head(todo).i,
                                          IF op = "goto" THEN {} ELSE Outermost(Node, Head(todo).i)))
  BY DEF GenStatement, Direct
<1>2. /\ phase = "generate" /\ phase' = phase /\ Generating /\ todo' = Rest
      /\ ParallelCalls' = ParallelCalls /\ SequentialCall' = SequentialCall /\ CallDepth' = CallDepth
  BY DEF GenStatement, Generating
<1>3. /\ GenerateInv /\ case \in Cases /\ LevelTypes(ParallelCalls, SequentialCall)
      /\ TraversalOK(todo) /\ CodeOK(code)
  BY <1>2, Generates
<1>4. /\ todo # <<>> /\ Head(todo) = todo[1] /\ todo[1].op = op /\ Node = todo[1].n
      /\ todo[1] \in ItemSet /\ 1 \in 1 .. Len(todo)
      /\ op = "output" \/ Fits(op, Node, todo[1].i)
      /\ IsTail(Rest, todo, ItemSet)
  BY <1>1, <1>2, Current
<1>5. ParallelCalls = <<>> /\ SequentialCall = <<>>
  <2>1. ParallelCalls = <<>>
    BY <1>3, <1>4 DEF GenerateInv
  <2>2. SequentialCall \in Seq({Null} \cup CallIds(case)) /\ Len(SequentialCall) = 0
    BY <2>1, <1>3 DEF LevelTypes
  <2> QED BY <2>1, <2>2
<1> DEFINE i == todo[1].i
           R == IF op = "goto" THEN {} ELSE Outermost(Node, i)
           st == Statement(op, Node, i, R)
<1>6. code' = Append(code, st)
  BY <1>1, <1>4
<1>7. op \in {"guard", "assign", "goto", "exit"}
  BY DEF Direct
<1>8. Fits(op, Node, i)
  BY <1>4, <1>7
<1>9. R = Reads(op, Node, i)
  BY <1>7 DEF Reads
<1>10. R \in SUBSET Nat
  <2>1. ASSUME NEW k \in R PROVE k \in Nat
    <3>1. k \in CallIds(case)
      BY <1>3, OutermostIds
    <3> QED BY <3>1, <1>3, CaseFacts
  <2> HIDE DEF R
  <2> QED BY <2>1
<1>11. Node \in Nat /\ i \in Nat
  BY <1>4 DEF ItemSet
<1> HIDE DEF i, R
<1>12. /\ st \in StatementSet /\ st.do = op /\ st.n = Node /\ st.i = i /\ st.reads = R
  BY <1>10, <1>11 DEF Statement, StatementSet, Dos
<1> HIDE DEF st
<1>13. IsStatement(st)
  <2>1. op # "call"
    BY <1>7
  <2> QED BY <2>1, <1>8, <1>9, <1>12 DEF IsStatement
<1>14. MakesStatement(st) = {} /\ NeedsStatement(st) = Needs(op, Node, i)
  BY <1>12, MakesFacts DEF MakesStatement, NeedsStatement
<1>15. \A t \in NeedsStatement(st) : InCode(code, t)
  <2>1. ASSUME NEW t \in NeedsItem(todo[1])
        PROVE  InCode(code, t)
    <3>1. InCode(code, t) \/ Placed(ParallelCalls, SequentialCall, t) \/ \E q \in 1 .. 1 - 1 : t \in MakesItem(todo[q])
      BY <1>3, <1>4 DEF GenerateInv, Covered
    <3>2. ~Placed(ParallelCalls, SequentialCall, t)
      BY <1>5 DEF Placed
    <3> QED BY <3>1, <3>2
  <2>2. NeedsItem(todo[1]) = Needs(op, Node, i)
    BY <1>4 DEF NeedsItem, i
  <2> QED BY <2>1, <2>2, <1>14
<1>16. Past(code, Len(code) + 1) <=> op # "guard"
  <2>1. GuardIn(todo, 1) <=> ~Past(code, Len(code) + 1)
    BY <1>3 DEF GenerateInv
  <2>2. GuardIn(todo, 1) <=> (todo[1].op = "guard" \/ GuardIn(Rest, 1))
    BY <1>3, <1>4, TailKeeps
  <2>3. ~GuardIn(Rest, 1)
    BY <1>3, <1>4, TailKeeps
  <2> QED BY <2>1, <2>2, <2>3, <1>4
<1> DEFINE f == <<st>>
<1>17. f \in Seq(StatementSet) /\ Len(f) = 1 /\ f[1] = st
  BY <1>12
<1>18. code' = code \o f
  <2>1. PICK c \in Seq(StatementSet) : c = code
    BY <1>3 DEF CodeOK
  <2>2. Append(c, st) = c \o <<st>>
    BY <1>12
  <2> QED BY <2>1, <2>2, <1>6, Zenon
<1> HIDE DEF f
<1>19. WritableAt(f, code)
  <2>1. ASSUME NEW q \in 1 .. Len(f)
        PROVE  f[q] = st
    BY <1>17
  <2>2. st.do \notin Calling /\ st.do # "spawn"
    BY <1>7, <1>12 DEF Calling
  <2> QED BY <2>1, <2>2, <1>12, <1>13, <1>15, <1>16, <1>17 DEF WritableAt
<1>20. Writes(f, todo[1])
  <2>1. \A t : ~Placed(ParallelCalls, SequentialCall, t)
    BY <1>5 DEF Placed
  <2>2. (\E q \in 1 .. Len(f) : f[q].do = "guard") <=> op = "guard"
    BY <1>12, <1>17
  <2> QED BY <2>1, <2>2, <1>4, <1>12, <1>17, <1>19 DEF Writes
<1> QED BY <1>1, <1>2, <1>5, <1>18, <1>20, WriteKeeps

LEMMA GivesUpKeeps ==
  ASSUME PlanInv, GenSeqFails \/ GenUndefined
  PROVE  PlanInv'
<1>1. phase = "generate" /\ phase' \in {"failed", "undefined"} /\ UNCHANGED <<case, todo, optVars, genVars, runVars>>
  BY DEF GenSeqFails, GenUndefined, Generating
<1>2. PlanTypes /\ NotRun /\ GenerateInv
  BY <1>1 DEF PlanInv
<1>3. PlanTypes'
  BY <1>1, <1>2, StableLevels DEF PlanTypes, optVars, genVars, runVars, Phases
<1>4. NotRun'
  BY <1>1, <1>2 DEF NotRun, runVars
<1>5. BoundsFollowStart'
  <2>1. CASE GenSeqFails
    BY <2>1 DEF GenSeqFails, BoundsFollowStart
  <2>2. CASE GenUndefined
    <3>1. ~(CallDepth <= Len(ParallelCalls)) /\ Doing("call")
      BY <2>2 DEF GenUndefined, InBounds
    <3>2. ParallelCalls = <<>> /\ CallDepth > 0 /\ CallDepth \in StartDepths
      BY <3>1, <1>2 DEF GenerateInv, Aligned, Doing
    <3> QED BY <3>2, <1>1, <1>2 DEF BoundsFollowStart, genVars, PlanTypes
  <2> QED BY <2>1, <2>2
<1> QED BY <1>1, <1>3, <1>4, <1>5 DEF PlanInv, BoundsFollowStart

LEMMA StartGeneratingKeeps ==
  ASSUME PlanInv, StartGenerating
  PROVE  PlanInv'
<1> DEFINE v == Visits(Kids(case, Top, 0))
           w == Visits(Kids(case, Top, 1))
           a == IF Kids(case, Top, 0) = <<>> THEN <<>>
                ELSE v \o <<Item("output", Top, 0), Item("guard", Top, 0)>>
           b == IF TailRec(case) THEN TailVisits(TailHead)
                ELSE w \o <<Item("output", Top, 0), Item("exit", Top, 1)>>
<1>1. /\ phase = "optimize" /\ phase' = "generate" /\ todo' = a \o b
      /\ UNCHANGED <<case, optVars, genVars, runVars>>
  BY DEF StartGenerating, TailHead
<1>2. /\ PlanTypes /\ NotRun /\ ParallelCalls = <<>> /\ code = <<>> /\ case \in Cases
      /\ CallDepth \in StartDepths
  BY <1>1 DEF PlanInv, PlanTypes
<1>3. SequentialCall = <<>>
  <2>1. SequentialCall \in Seq({Null} \cup CallIds(case)) /\ Len(SequentialCall) = 0
    BY <1>2 DEF PlanTypes, LevelTypes
  <2> QED BY <2>1
<1>4. a \in Seq(ItemSet) /\ (a = <<>> \/ Piece(a, 0))
  <2>1. CASE Kids(case, Top, 0) = <<>>
    BY <2>1
  <2>2. CASE Kids(case, Top, 0) # <<>>
    <3>1. Piece(v \o <<Item("output", Top, 0), Item("guard", Top, 0)>>, 0)
      BY <2>2, <1>2, ExpressionPiece
    <3>2. a = v \o <<Item("output", Top, 0), Item("guard", Top, 0)>>
      BY <2>2
    <3> HIDE DEF a
    <3>3. Piece(a, 0)
      BY <3>1, <3>2
    <3> QED BY <3>3 DEF Piece
  <2> QED BY <2>1, <2>2
<1>5. Piece(b, 1) /\ b \in Seq(ItemSet)
  <2>1. CASE TailRec(case)
    <3>1. Piece(TailVisits(TailHead), 1)
      BY <2>1, <1>2, TailPiece
    <3>2. b = TailVisits(TailHead)
      BY <2>1
    <3> HIDE DEF b
    <3>3. Piece(b, 1)
      BY <3>1, <3>2
    <3> QED BY <3>3 DEF Piece
  <2>2. CASE ~TailRec(case)
    <3> DEFINE x == w \o <<Item("output", Top, 0), Item("exit", Top, 1)>>
               op == "exit"
               i == 1
    <3>4. /\ i \in {0, 1} /\ op = IF i = 0 THEN "guard" ELSE "exit"
          /\ IF i = 0 THEN Kids(case, Top, 0) # <<>> ELSE ~TailRec(case)
          /\ x = Visits(Kids(case, Top, i)) \o <<Item("output", Top, 0), Item(op, Top, i)>>
      BY <2>2
    <3>5. Piece(x, i)
      <4> HIDE DEF x, op, i
      <4> QED BY <3>4, <1>2, ExpressionPiece
    <3>1. Piece(w \o <<Item("output", Top, 0), Item("exit", Top, 1)>>, 1)
      BY <3>5
    <3>2. b = w \o <<Item("output", Top, 0), Item("exit", Top, 1)>>
      BY <2>2
    <3> HIDE DEF b
    <3>3. Piece(b, 1)
      BY <3>1, <3>2
    <3> QED BY <3>3 DEF Piece
  <2> QED BY <2>1, <2>2
<1>6. a # <<>> <=> Kids(case, Top, 0) # <<>>
  <2>1. CASE Kids(case, Top, 0) = <<>>
    BY <2>1
  <2>2. CASE Kids(case, Top, 0) # <<>>
    <3>1. Piece(v \o <<Item("output", Top, 0), Item("guard", Top, 0)>>, 0)
      BY <2>2, <1>2, ExpressionPiece
    <3>2. Len(v \o <<Item("output", Top, 0), Item("guard", Top, 0)>>) >= 1
      BY <3>1 DEF Piece
    <3>3. Len(a) >= 1
      BY <2>2, <3>2, Zenon
    <3> HIDE DEF a
    <3>4. a # <<>>
      BY <3>3
    <3> QED BY <2>2, <3>4
  <2> QED BY <2>1, <2>2
<1> HIDE DEF a, b
<1>7. /\ TraversalOK(a \o b) /\ Covered(a \o b, <<>>, <<>>, <<>>)
      /\ a \o b # <<>> /\ Enters((a \o b)[1]) = 0
      /\ GuardIn(a \o b, 1) <=> a # <<>>
      /\ \A p \in 1 .. Len(a \o b) : (a \o b)[p].op \notin Calling
  BY <1>2, <1>4, <1>5, StartTraversal
<1>8. /\ TraversalOK(todo') /\ Covered(todo', <<>>, <<>>, <<>>)
      /\ todo' # <<>> /\ Enters(todo'[1]) = 0
      /\ GuardIn(todo', 1) <=> a # <<>>
      /\ \A p \in 1 .. Len(todo') : todo'[p].op \notin Calling
  BY <1>1, <1>7
<1>9. code' = <<>> /\ ParallelCalls' = <<>> /\ SequentialCall' = <<>> /\ CallDepth' = CallDepth /\ case' = case
  BY <1>1, <1>2, <1>3 DEF genVars
<1>10. GenerateInv'
  <2>1. TraversalOK(todo)' /\ Covered(todo, code, ParallelCalls, SequentialCall)'
    BY <1>8, <1>9, StableItems, StableLevels
  <2>2. Aligned'
    <3>1. CASE CallDepth = 0
      <4>1. Enters(todo[1])' = Enters(todo'[1])
        BY <1>9, StableItems
      <4>2. CallDepth' = Enters(todo[1])' /\ CallDepth' <= Len(ParallelCalls')
        BY <4>1, <3>1, <1>8, <1>9
      <4> QED BY <4>2 DEF Aligned
    <3>2. CASE CallDepth # 0
      <4>1. CallDepth' > 0
        BY <3>2, <1>2, <1>9 DEF PlanTypes
      <4>2. CallDepth' \in StartDepths
        BY <1>2, <1>9
      <4> QED BY <4>1, <4>2, <1>8, <1>9 DEF Aligned, Calling
    <3> QED BY <3>1, <3>2
  <2>3. (GuardIn(todo, 1) <=> ~Past(code, Len(code) + 1))'
    <3>1. Past(<<>>, 1) <=> Kids(case, Top, 0) = <<>>
      BY DEF Past
    <3>2. Past(<<>>, 1)' <=> Past(<<>>, 1)
      BY <1>9, StablePast
    <3>3. Len(code') + 1 = 1
      BY <1>9
    <3>4. Past(code, Len(code) + 1)' <=> Past(<<>>, 1)'
      BY <1>9, <3>3
    <3> QED BY <3>1, <3>2, <3>4, <1>6, <1>8
  <2>4. LevelsOK(ParallelCalls, SequentialCall, code)'
    BY <1>9 DEF LevelsOK
  <2>5. CodeOK(code)'
    BY <1>9 DEF CodeOK
  <2> QED BY <2>1, <2>2, <2>3, <2>4, <2>5, <1>8, <1>9 DEF GenerateInv
<1>11. PlanTypes'
  <2>1. LevelTypes(ParallelCalls, SequentialCall)'
    BY <1>9 DEF LevelTypes
  <2> QED BY <2>1, <1>1, <1>2, <1>9 DEF PlanTypes, optVars, runVars, Phases
<1>12. NotRun'
  BY <1>1, <1>2 DEF NotRun, runVars
<1> QED BY <1>1, <1>10, <1>11, <1>12 DEF PlanInv, BoundsFollowStart


-----------------------------------------------------------------------------
(* Steps of the optimizer *)

LEMMA OptConcat ==
  ASSUME NEW s, NEW t, OptItems(s), OptItems(t)
  PROVE  OptItems(s \o t)
<1>1. s \in Seq(ItemSet) /\ t \in Seq(ItemSet)
  BY DEF OptItems
<1>2. PICK u : u = s \o t
  OBVIOUS
<1>3. PICK a \in Nat, b \in Nat : a = Len(s) /\ b = Len(t)
  BY <1>1
<1>4. /\ u \in Seq(ItemSet) /\ Len(u) = a + b
      /\ \A q \in 1 .. a : u[q] = s[q]
      /\ \A q \in 1 .. b : u[a + q] = t[q]
  BY <1>1, <1>2, <1>3, ConcatFacts
<1>5. ASSUME NEW p \in 1 .. a + b PROVE OptItem(u[p])
  <2>1. CASE p \in 1 .. a
    BY <2>1, <1>3, <1>4 DEF OptItems
  <2>2. CASE p \notin 1 .. a
    <3>1. p - a \in 1 .. b /\ a + (p - a) = p
      BY <2>2
    <3>2. u[a + (p - a)] = t[p - a]
      BY <3>1, <1>4
    <3>3. OptItem(t[p - a])
      BY <3>1, <1>3 DEF OptItems
    <3> QED BY <3>1, <3>2, <3>3
  <2> QED BY <2>1, <2>2
<1>6. OptItems(u)
  BY <1>4, <1>5 DEF OptItems
<1> QED BY <1>2, <1>6

LEMMA OptSingle ==
  ASSUME case \in Cases, NEW op \in Ops, NEW n \in Nat, NEW i \in Nat,
         op \in {"call", "open", "close"} => n \in CallIds(case)
  PROVE  OptItems(<<Item(op, n, i)>>)
<1>1. Item(op, n, i) \in ItemSet /\ Item(op, n, i).op = op /\ Item(op, n, i).n = n
  BY ItemFacts
<1>2. OptItem(Item(op, n, i))
  BY <1>1 DEF OptItem
<1>3. PICK x \in ItemSet : x = Item(op, n, i) /\ OptItem(x)
  BY <1>1, <1>2
<1>4. OptItems(<<x>>)
  BY <1>3 DEF OptItems
<1> QED BY <1>3, <1>4

LEMMA OptCalls ==
  ASSUME case \in Cases, NEW k \in CallIds(case)
  PROVE  OptItem(Item("call", k, 0))
<1>1. k \in Nat
  BY CaseFacts
<1>2. Item("call", k, 0) \in ItemSet /\ Item("call", k, 0).n = k
  BY <1>1, ItemFacts DEF Ops
<1> QED BY <1>2 DEF OptItem

LEMMA OptVisitsOK ==
  ASSUME case \in Cases, NEW m, NEW i
  PROVE  OptItems(Visits(Kids(case, m, i))) /\ OptItems(ArgVisits(m))
<1>1. ASSUME NEW p \in 1 .. Len(Visits(Kids(case, m, i))) PROVE OptItem(Visits(Kids(case, m, i))[p])
  <2>1. PICK k \in Outermost(m, i) : Visits(Kids(case, m, i))[p] = Item("call", k, 0)
    BY VisitsFacts
  <2>2. k \in CallIds(case)
    BY OutermostIds
  <2> QED BY <2>1, <2>2, OptCalls
<1>2. ASSUME NEW p \in 1 .. Len(ArgVisits(m)) PROVE OptItem(ArgVisits(m)[p])
  <2>1. PICK j \in 1 .. Slots : \E k \in Outermost(m, j) : ArgVisits(m)[p] = Item("call", k, 0)
    BY ArgVisitsFacts
  <2>2. PICK k \in Outermost(m, j) : ArgVisits(m)[p] = Item("call", k, 0)
    BY <2>1
  <2>3. k \in CallIds(case)
    BY OutermostIds
  <2> QED BY <2>2, <2>3, OptCalls
<1>3. Visits(Kids(case, m, i)) \in Seq(ItemSet) /\ ArgVisits(m) \in Seq(ItemSet)
  BY VisitsFacts, ArgVisitsFacts
<1> QED BY <1>1, <1>2, <1>3 DEF OptItems

\* The levels of the optimizer.
LEMMA ReplaceFacts ==
  ASSUME NEW S, NEW s \in Seq(S), NEW i, NEW e, i \in 1 .. Len(s) => e \in S
  PROVE  [s EXCEPT ![i] = e] \in Seq(S) /\ Len([s EXCEPT ![i] = e]) = Len(s)
<1> DEFINE n == Len(s)
           t == [s EXCEPT ![i] = e]
<1>1. n \in Nat /\ s \in [1 .. n -> S]
  OBVIOUS
<1>2. t \in [1 .. n -> S]
  BY <1>1
<1> HIDE DEF t, n
<1>3. t \in Seq(S)
  BY <1>1, <1>2
<1>4. Len(t) = n
  BY <1>1, <1>2, <1>3
<1> QED BY <1>3, <1>4 DEF t, n

LEMMA GrowFacts ==
  ASSUME NEW S, NEW s \in Seq(S), NEW e \in S
  PROVE  Append(s, e) \in Seq(S) /\ Len(Append(s, e)) = Len(s) + 1
OBVIOUS

LEMMA OptimizingKeeps ==
  ASSUME PlanInv, Optimizing, phase' = phase, OptItems(todo'),
         DoParallel' \in [CallIds(case) -> BOOLEAN],
         Calls' \in Seq(Nat),
         LastRecCall' \in Seq({Null} \cup CallIds(case)), Len(LastRecCall') = Len(Calls'),
         LastOtherCall' \in Seq({Null} \cup CallIds(case)), Len(LastOtherCall') = Len(Calls'),
         OptDepth' \in Int, OptDepth' <= Len(Calls')
  PROVE  PlanInv'
<1>1. phase = "optimize" /\ phase' = "optimize" /\ UNCHANGED <<case, genVars, runVars>>
  BY DEF Optimizing
<1>2. PlanTypes /\ NotRun /\ ParallelCalls = <<>> /\ code = <<>> /\ CallDepth \in StartDepths
  BY <1>1 DEF PlanInv
<1>3. OptItems(todo)'
  BY <1>1 DEF OptItems, OptItem, CallIds
<1>4. PlanTypes'
  <2>1. LevelTypes(ParallelCalls, SequentialCall)'
    BY <1>1, <1>2, StableLevels DEF PlanTypes, genVars
  <2>2. CallIds(case)' = CallIds(case)
    BY <1>1 DEF CallIds
  <2> QED BY <2>1, <2>2, <1>1, <1>2 DEF PlanTypes, genVars, runVars, Phases
<1>5. NotRun'
  BY <1>1, <1>2 DEF NotRun, runVars
<1>6. ParallelCalls' = <<>> /\ code' = <<>> /\ CallDepth' \in StartDepths
  BY <1>1, <1>2 DEF genVars
<1> QED BY <1>1, <1>3, <1>4, <1>5, <1>6 DEF PlanInv, BoundsFollowStart

\* What the optimizer has when it does an item.
LEMMA Optimizes ==
  ASSUME PlanInv, Optimizing, NEW op, Doing(op)
  PROVE  /\ case \in Cases /\ OptItems(todo) /\ OptItems(Rest) /\ Node \in Nat
         /\ op \in {"call", "open", "close"} => Node \in CallIds(case)
         /\ DoParallel \in [CallIds(case) -> BOOLEAN]
         /\ Calls \in Seq(Nat)
         /\ LastRecCall \in Seq({Null} \cup CallIds(case)) /\ Len(LastRecCall) = Len(Calls)
         /\ LastOtherCall \in Seq({Null} \cup CallIds(case)) /\ Len(LastOtherCall) = Len(Calls)
         /\ OptDepth \in Int /\ OptDepth <= Len(Calls)
<1>1. phase = "optimize" /\ todo # <<>> /\ Head(todo).op = op
  BY DEF Optimizing, Doing
<1>2. PlanTypes /\ OptItems(todo)
  BY <1>1 DEF PlanInv
<1>3. IsTail(Tail(todo), todo, ItemSet) /\ Head(todo) = todo[1]
  BY <1>1, <1>2, TailIndex DEF OptItems
<1>4. 1 \in 1 .. Len(todo)
  BY <1>3 DEF IsTail
<1>5. OptItem(todo[1])
  BY <1>2, <1>4 DEF OptItems
<1>6. Node \in Nat /\ (op \in {"call", "open", "close"} => Node \in CallIds(case))
  BY <1>1, <1>3, <1>5 DEF OptItem, ItemSet, Node
<1>7. OptItems(Rest)
  <2>1. ASSUME NEW p \in 1 .. Len(Rest) PROVE OptItem(Rest[p])
    <3>1. p \in 1 .. Len(todo) - 1 /\ p + 1 \in 1 .. Len(todo)
      BY <1>3 DEF IsTail, Rest
    <3>2. Rest[p] = todo[p + 1]
      BY <3>1, <1>3 DEF IsTail, Rest
    <3> QED BY <3>1, <3>2, <1>2 DEF OptItems
  <2> QED BY <2>1, <1>3 DEF OptItems, IsTail, Rest
<1> QED BY <1>2, <1>6, <1>7 DEF PlanTypes

LEMMA OptimizeKeeps ==
  ASSUME PlanInv, Optimize
  PROVE  PlanInv'
<1>1. CASE OptBegin
  <2>1. Optimizing /\ Doing("begin") /\ phase' = phase
    BY <1>1 DEF OptBegin
  <2>2. /\ case \in Cases /\ OptItems(Rest)
        /\ DoParallel \in [CallIds(case) -> BOOLEAN]
        /\ Calls \in Seq(Nat)
        /\ LastRecCall \in Seq({Null} \cup CallIds(case)) /\ Len(LastRecCall) = Len(Calls)
        /\ LastOtherCall \in Seq({Null} \cup CallIds(case)) /\ Len(LastOtherCall) = Len(Calls)
        /\ OptDepth \in Int /\ OptDepth <= Len(Calls)
    BY <2>1, Optimizes
  <2>3. /\ Calls' \in Seq(Nat) /\ Len(Calls') = Len(Calls) + 1
        /\ LastRecCall' \in Seq({Null} \cup CallIds(case)) /\ Len(LastRecCall') = Len(LastRecCall) + 1
        /\ LastOtherCall' \in Seq({Null} \cup CallIds(case)) /\ Len(LastOtherCall') = Len(LastOtherCall) + 1
    BY <1>1, <2>2, GrowFacts DEF OptBegin
  <2>4. OptDepth' = OptDepth /\ DoParallel' = DoParallel /\ todo' = Rest
    BY <1>1 DEF OptBegin
  <2>5. OptDepth' \in Int /\ OptDepth' <= Len(Calls') /\ Len(LastRecCall') = Len(Calls') /\ Len(LastOtherCall') = Len(Calls')
    BY <2>2, <2>3, <2>4
  <2> QED BY <2>1, <2>2, <2>3, <2>4, <2>5, OptimizingKeeps
<1>2. CASE OptCall
  <2>1. Optimizing /\ Doing("call") /\ phase' = phase /\ UNCHANGED optVars
    BY <1>2 DEF OptCall
  <2>2. /\ case \in Cases /\ OptItems(Rest) /\ Node \in Nat /\ Node \in CallIds(case)
        /\ DoParallel \in [CallIds(case) -> BOOLEAN]
        /\ Calls \in Seq(Nat)
        /\ LastRecCall \in Seq({Null} \cup CallIds(case)) /\ Len(LastRecCall) = Len(Calls)
        /\ LastOtherCall \in Seq({Null} \cup CallIds(case)) /\ Len(LastOtherCall) = Len(Calls)
        /\ OptDepth \in Int /\ OptDepth <= Len(Calls)
    BY <2>1, Optimizes
  <2> DEFINE v == Visits(Kids(case, Node, 0))
             w == ArgVisits(Node)
             o == <<Item("open", Node, 0)>>
             c == <<Item("close", Node, 0)>>
             n == Node
             r == Rest
  <2>3. OptItems(v) /\ OptItems(w) /\ OptItems(o) /\ OptItems(c) /\ OptItems(r)
    BY <2>2, OptVisitsOK, OptSingle DEF Ops
  <2>4. todo' = v \o o \o w \o v \o c \o r
    BY <1>2 DEF OptCall
  <2>5. OptItems(v \o o \o w \o v \o c \o r)
    <3> HIDE DEF v, w, o, c, r
    <3>1. OptItems(v \o o)
      BY <2>3, OptConcat
    <3>2. OptItems(v \o o \o w)
      BY <2>3, <3>1, OptConcat
    <3>3. OptItems(v \o o \o w \o v)
      BY <2>3, <3>2, OptConcat
    <3>4. OptItems(v \o o \o w \o v \o c)
      BY <2>3, <3>3, OptConcat
    <3> QED BY <2>3, <3>4, OptConcat
  <2>6. OptItems(todo')
    BY <2>4, <2>5
  <2> QED BY <2>1, <2>2, <2>6, OptimizingKeeps DEF optVars
<1>3. CASE OptOpen
  <2>1. Optimizing /\ Doing("open") /\ phase' = phase
    BY <1>3 DEF OptOpen
  <2>2. /\ case \in Cases /\ OptItems(Rest)
        /\ DoParallel \in [CallIds(case) -> BOOLEAN]
        /\ Calls \in Seq(Nat)
        /\ LastRecCall \in Seq({Null} \cup CallIds(case)) /\ Len(LastRecCall) = Len(Calls)
        /\ LastOtherCall \in Seq({Null} \cup CallIds(case)) /\ Len(LastOtherCall) = Len(Calls)
        /\ OptDepth \in Int /\ OptDepth <= Len(Calls)
    BY <2>1, Optimizes
  <2>3. OptDepth' = OptDepth + 1 /\ DoParallel' = DoParallel /\ todo' = Rest
    BY <1>3 DEF OptOpen
  <2>4. CASE Len(LastOtherCall) = OptDepth
    <3>1. /\ Calls' \in Seq(Nat) /\ Len(Calls') = Len(Calls) + 1
          /\ LastRecCall' \in Seq({Null} \cup CallIds(case)) /\ Len(LastRecCall') = Len(LastRecCall) + 1
          /\ LastOtherCall' \in Seq({Null} \cup CallIds(case)) /\ Len(LastOtherCall') = Len(LastOtherCall) + 1
      <4>1. /\ Calls' = Append(Calls, 0) /\ LastRecCall' = Append(LastRecCall, Null)
            /\ LastOtherCall' = Append(LastOtherCall, Null)
        BY <1>3, <2>4 DEF OptOpen
      <4>2. Null \in {Null} \cup CallIds(case) /\ 0 \in Nat
        OBVIOUS
      <4> QED BY <4>1, <4>2, <2>2, GrowFacts
    <3>2. OptDepth' \in Int /\ OptDepth' <= Len(Calls') /\ Len(LastRecCall') = Len(Calls') /\ Len(LastOtherCall') = Len(Calls')
      BY <2>2, <2>3, <3>1
    <3> QED BY <2>1, <2>2, <2>3, <3>1, <3>2, OptimizingKeeps
  <2>5. CASE Len(LastOtherCall) # OptDepth
    <3>1. Calls' = Calls /\ LastRecCall' = LastRecCall /\ LastOtherCall' = LastOtherCall
      BY <1>3, <2>5 DEF OptOpen
    <3>2. OptDepth' \in Int /\ OptDepth' <= Len(Calls')
      BY <2>2, <2>3, <2>5, <3>1
    <3> QED BY <2>1, <2>2, <2>3, <3>1, <3>2, OptimizingKeeps
  <2> QED BY <2>4, <2>5
<1>4. CASE OptClose
  <2>1. Optimizing /\ Doing("close") /\ phase' = phase
    BY <1>4 DEF OptClose
  <2>2. /\ case \in Cases /\ OptItems(Rest) /\ Node \in CallIds(case)
        /\ DoParallel \in [CallIds(case) -> BOOLEAN]
        /\ Calls \in Seq(Nat)
        /\ LastRecCall \in Seq({Null} \cup CallIds(case)) /\ Len(LastRecCall) = Len(Calls)
        /\ LastOtherCall \in Seq({Null} \cup CallIds(case)) /\ Len(LastOtherCall) = Len(Calls)
        /\ OptDepth \in Int /\ OptDepth <= Len(Calls)
    BY <2>1, Optimizes
  <2>3. OptDepth' = OptDepth - 1 /\ DoParallel' = DoParallel /\ todo' = Rest
    BY <1>4 DEF OptClose
  <2>4. Calls' \in Seq(Nat) /\ Len(Calls') = Len(Calls)
    <3>1. Calls' = [Calls EXCEPT ![OptDepth] = Calls[OptDepth] + 1]
      BY <1>4 DEF OptClose
    <3>2. OptDepth \in 1 .. Len(Calls) => Calls[OptDepth] + 1 \in Nat
      BY <2>2
    <3> QED BY <3>1, <3>2, <2>2, ReplaceFacts
  <2>5. LastRecCall' \in Seq({Null} \cup CallIds(case)) /\ Len(LastRecCall') = Len(LastRecCall)
    <3>1. LastRecCall' = LastRecCall \/ LastRecCall' = [LastRecCall EXCEPT ![OptDepth] = Node]
      BY <1>4 DEF OptClose
    <3>2. Node \in {Null} \cup CallIds(case)
      BY <2>2
    <3>3. /\ [LastRecCall EXCEPT ![OptDepth] = Node] \in Seq({Null} \cup CallIds(case))
          /\ Len([LastRecCall EXCEPT ![OptDepth] = Node]) = Len(LastRecCall)
      <4>1. LastRecCall \in Seq({Null} \cup CallIds(case))
        BY <2>2
      <4> QED BY <3>2, <4>1, ReplaceFacts
    <3> QED BY <3>1, <3>3, <2>2, Zenon
  <2>6. LastOtherCall' \in Seq({Null} \cup CallIds(case)) /\ Len(LastOtherCall') = Len(LastOtherCall)
    <3>1. LastOtherCall' = LastOtherCall \/ LastOtherCall' = [LastOtherCall EXCEPT ![OptDepth] = Node]
      BY <1>4 DEF OptClose
    <3>2. Node \in {Null} \cup CallIds(case)
      BY <2>2
    <3>3. /\ [LastOtherCall EXCEPT ![OptDepth] = Node] \in Seq({Null} \cup CallIds(case))
          /\ Len([LastOtherCall EXCEPT ![OptDepth] = Node]) = Len(LastOtherCall)
      <4>1. LastOtherCall \in Seq({Null} \cup CallIds(case))
        BY <2>2
      <4> QED BY <3>2, <4>1, ReplaceFacts
    <3> QED BY <3>1, <3>3, <2>2, Zenon
  <2>7. OptDepth' \in Int /\ OptDepth' <= Len(Calls') /\ Len(LastRecCall') = Len(Calls') /\ Len(LastOtherCall') = Len(Calls')
    BY <2>2, <2>3, <2>4, <2>5, <2>6
  <2> QED BY <2>1, <2>2, <2>3, <2>4, <2>5, <2>6, <2>7, OptimizingKeeps
<1>5. CASE Determine
  <2>1. Optimizing /\ Doing("determine") /\ phase' = phase
    BY <1>5 DEF Determine
  <2>2. case \in Cases /\ OptItems(Rest)
    BY <2>1, Optimizes
  <2>3. /\ DoParallel' \in [CallIds(case) -> BOOLEAN]
        /\ Calls' = <<>> /\ LastRecCall' = <<>> /\ LastOtherCall' = <<>> /\ OptDepth' = 0 /\ todo' = Rest
    BY <1>5, Optimizes, <2>1 DEF Determine
  <2>4. /\ Calls' \in Seq(Nat) /\ LastRecCall' \in Seq({Null} \cup CallIds(case))
        /\ LastOtherCall' \in Seq({Null} \cup CallIds(case))
        /\ OptDepth' \in Int /\ OptDepth' <= Len(Calls') /\ Len(LastRecCall') = Len(Calls') /\ Len(LastOtherCall') = Len(Calls')
    BY <2>3
  <2> QED BY <2>1, <2>2, <2>3, <2>4, OptimizingKeeps
<1> QED BY <1>1, <1>2, <1>3, <1>4, <1>5 DEF Optimize

LEMMA PlanInvInit ==
  ASSUME Init
  PROVE  PlanInv
<1>1. case \in Cases /\ phase = "optimize" /\ CallDepth \in Nat /\ CallDepth \in StartDepths
  BY CasesAssumption DEF Init
<1> DEFINE b(i) == <<Item("begin", Top, i)>>
           d(i) == <<Item("determine", Top, i)>>
           v(i) == Visits(Kids(case, Top, i))
<1>2. ASSUME NEW i \in {0, 1} PROVE OptItems(OptVisits(case, i))
  <2>1. OptItems(b(i)) /\ OptItems(d(i)) /\ OptItems(v(i))
    BY <1>1, OptSingle, OptVisitsOK DEF Ops, Top
  <2>2. OptVisits(case, i) = b(i) \o v(i) \o d(i)
    BY DEF OptVisits
  <2> HIDE DEF b, d, v
  <2>3. OptItems(b(i) \o v(i))
    BY <2>1, OptConcat
  <2>4. OptItems(b(i) \o v(i) \o d(i))
    BY <2>1, <2>3, OptConcat
  <2> QED BY <2>2, <2>4
<1>3. OptItems(todo)
  <2>1. OptItems(<<>>)
    BY DEF OptItems
  <2>2. CASE Kids(case, Top, 0) = <<>>
    <3>1. todo = <<>> \o OptVisits(case, 1)
      BY <2>2 DEF Init
    <3> QED BY <3>1, <2>1, <1>2, OptConcat
  <2>3. CASE Kids(case, Top, 0) # <<>>
    <3>1. todo = OptVisits(case, 0) \o OptVisits(case, 1)
      BY <2>3 DEF Init
    <3> QED BY <3>1, <1>2, OptConcat
  <2> QED BY <2>2, <2>3
<1>4. LevelTypes(ParallelCalls, SequentialCall)
  BY DEF LevelTypes, Init
<1>5. PlanTypes
  BY <1>1, <1>4 DEF PlanTypes, Init, Phases
<1>6. NotRun
  BY DEF NotRun, Init
<1>7. ParallelCalls = <<>> /\ code = <<>>
  BY DEF Init
<1> QED BY <1>1, <1>3, <1>5, <1>6, <1>7 DEF PlanInv, BoundsFollowStart


-----------------------------------------------------------------------------
(* Steps of the task *)

LEMMA StableProgress ==
  ASSUME case' = case, code' = code
  PROVE  \A n, r, p, f : Progress(n, r, p, f)' <=> Progress(n, r, p, f)
<1>1. /\ CallIds(case)' = CallIds(case)
      /\ \A m : Inner(m)' = Inner(m)
      /\ \A m, i : Outermost(m, i)' = Outermost(m, i)
  BY StableNeeds DEF CallIds
<1>2. \A a, b : YieldIn(code, a, b)' <=> YieldIn(code, a, b)
  BY DEF YieldIn
<1> QED BY <1>1, <1>2 DEF Progress

LEMMA StartRunningKeeps ==
  ASSUME PlanInv, StartRunning
  PROVE  PlanInv'
<1>1. /\ phase = "generate" /\ todo = <<>> /\ phase' = "run"
      /\ UNCHANGED <<case, todo, optVars, genVars, runVars>>
  BY DEF StartRunning
<1>2. PlanTypes /\ NotRun /\ GenerateInv
  BY <1>1 DEF PlanInv
<1>3. PlanTypes'
  BY <1>1, <1>2, StableLevels DEF PlanTypes, optVars, genVars, runVars, Phases
<1>4. code # <<>> /\ code[Len(code)].do \in {"exit", "goto"} /\ CodeOK(code)
  BY <1>1, <1>2 DEF GenerateInv
<1>5. case' = case /\ code' = code /\ next' = 1 /\ ready' = {} /\ pending' = {} /\ filled' = {}
  BY <1>1, <1>2 DEF NotRun, runVars, genVars
<1>6. Progress(0, {}, {}, {})
  BY DEF Progress
<1>7. Progress(next - 1, ready, pending, filled)'
  <2>1. next' - 1 = 0
    BY <1>5
  <2>2. Progress(next' - 1, ready', pending', filled')
    BY <1>5, <1>6, <2>1
  <2> QED BY <1>5, <2>2, StableProgress
<1>8. next' <= Len(code')
  <2>1. Len(code) \in Nat /\ Len(code) # 0
    BY <1>2, <1>4 DEF PlanTypes
  <2> QED BY <2>1, <1>5
<1>9. CodeOK(code)'
  BY <1>4, <1>5, StableCode
<1>10. RunInv'
  BY <1>4, <1>5, <1>7, <1>8, <1>9 DEF RunInv
<1> QED BY <1>1, <1>3, <1>10 DEF PlanInv, BoundsFollowStart

\* What a task has when it is at a statement.
LEMMA Runs ==
  ASSUME PlanInv, phase = "run"
  PROVE  /\ case \in Cases /\ CodeOK(code) /\ Progress(next - 1, ready, pending, filled)
         /\ next \in Nat /\ next >= 1 /\ Len(code) \in Nat /\ next \in 1 .. Len(code)
         /\ IsStatement(code[next])
         /\ code[next].do \notin {"exit", "goto"} => next + 1 <= Len(code)
         /\ code[next].do \in {"spawn", "seq", "arg"} => code[next].n \in CallIds(case)
         /\ code[next].do \in {"spawn", "seq"} => code[next].i = 0
         /\ code[next].do = "arg" => code[next].i \in 1 .. Slots
<1>1. PlanTypes /\ RunInv
  BY DEF PlanInv
<1>2. /\ CodeOK(code) /\ Progress(next - 1, ready, pending, filled) /\ next <= Len(code)
      /\ code[Len(code)].do \in {"exit", "goto"}
  BY <1>1 DEF RunInv
<1>3. case \in Cases /\ next \in 1 .. Len(code) + 1 /\ Len(code) \in Nat
  BY <1>1 DEF PlanTypes
<1>4. next \in 1 .. Len(code) /\ next \in Nat /\ next >= 1
  BY <1>2, <1>3
<1>5. IsStatement(code[next])
  BY <1>2, <1>4 DEF CodeOK
<1>6. code[next].do \notin {"exit", "goto"} => next + 1 <= Len(code)
  <2>1. code[next].do \notin {"exit", "goto"} => next # Len(code)
    BY <1>2
  <2> QED BY <2>1, <1>3, <1>4
<1>7. code[next].do \in {"spawn", "seq", "arg"} => Fits(code[next].do, code[next].n, code[next].i)
  BY <1>5 DEF IsStatement
<1> QED BY <1>2, <1>3, <1>4, <1>5, <1>6, <1>7 DEF Fits, Direct

\* What the code makes available, the task has.
LEMMA HasNeeds ==
  ASSUME PlanInv, phase = "run"
  PROVE  /\ \A k : <<k, 0>> \in NeedsStatement(code[next]) => k \in ready
         /\ \A m : \A j \in 1 .. Slots : <<m, j>> \in NeedsStatement(code[next]) => <<m, j>> \in filled
<1>1. /\ case \in Cases /\ CodeOK(code) /\ Progress(next - 1, ready, pending, filled)
      /\ next \in Nat /\ next >= 1 /\ Len(code) \in Nat /\ next \in 1 .. Len(code)
  BY Runs
<1>2. ASSUME NEW m, NEW j, <<m, j>> \in NeedsStatement(code[next])
      PROVE  \E s \in 1 .. next - 1 :
               /\ IsStatement(code[s]) /\ code[s].do \in {"spawn", "seq", "arg"}
               /\ code[s].n = m /\ code[s].i = j
               /\ code[s].do = "spawn" => YieldIn(code, s + 1, next - 1)
  <2>1. Available(code, next, <<m, j>>)
    BY <1>1, <1>2 DEF CodeOK
  <2>2. PICK s \in 1 .. next - 1 :
          /\ <<m, j>> \in MakesStatement(code[s])
          /\ code[s].do = "spawn" => YieldIn(code, s + 1, next - 1)
    BY <2>1 DEF Available
  <2>3. s \in 1 .. Len(code)
    BY <1>1
  <2>4. IsStatement(code[s])
    BY <1>1, <2>3 DEF CodeOK
  <2>5. code[s].do # "call"
    BY <2>4 DEF IsStatement
  <2>6. code[s].do \in {"spawn", "seq", "arg"} /\ code[s].n = m /\ code[s].i = j
    BY <2>2, <2>5 DEF MakesStatement, Makes
  <2> QED BY <2>2, <2>4, <2>6
<1>3. ASSUME NEW k, <<k, 0>> \in NeedsStatement(code[next]) PROVE k \in ready
  <2>1. PICK s \in 1 .. next - 1 :
               /\ IsStatement(code[s]) /\ code[s].do \in {"spawn", "seq", "arg"}
               /\ code[s].n = k /\ code[s].i = 0
               /\ code[s].do = "spawn" => YieldIn(code, s + 1, next - 1)
    BY <1>2, <1>3
  <2>2. code[s].do # "arg"
    <3>1. 0 \notin 1 .. Slots
      BY <1>1, CaseFacts
    <3> QED BY <2>1, <3>1 DEF IsStatement, Fits, Direct
  <2> QED BY <2>1, <2>2, <1>1 DEF Progress
<1>4. ASSUME NEW m, NEW j \in 1 .. Slots, <<m, j>> \in NeedsStatement(code[next])
      PROVE  <<m, j>> \in filled
  <2>1. PICK s \in 1 .. next - 1 :
               /\ IsStatement(code[s]) /\ code[s].do \in {"spawn", "seq", "arg"}
               /\ code[s].n = m /\ code[s].i = j
    BY <1>2, <1>4
  <2>2. j # 0
    BY <1>1, CaseFacts
  <2>3. code[s].do = "arg"
    BY <2>1, <2>2 DEF IsStatement, Fits, Direct
  <2> QED BY <2>1, <2>3, <1>1 DEF Progress
<1> QED BY <1>3, <1>4

\* A taskyield among the first n + 1 statements.
LEMMA YieldStep ==
  ASSUME NEW c, NEW n \in Nat, NEW s \in 1 .. n
  PROVE  YieldIn(c, s + 1, n + 1) <=> YieldIn(c, s + 1, n) \/ c[n + 1].do = "yield"
<1>1. s + 1 .. n + 1 = (s + 1 .. n) \cup {n + 1}
  OBVIOUS
<1> QED BY <1>1 DEF YieldIn

\* The first n statements, and the next one.
LEMMA ProgressStep ==
  ASSUME NEW n \in Nat, NEW r, NEW p, NEW f, Progress(n, r, p, f), NEW q, NEW u, NEW g,
         r \subseteq q, f \subseteq g,
         code[n + 1].do = "seq" => code[n + 1].n \in q,
         code[n + 1].do = "arg" => <<code[n + 1].n, code[n + 1].i>> \in g,
         code[n + 1].do = "spawn" => code[n + 1].n \in u,
         IF code[n + 1].do = "yield" THEN p \subseteq q /\ u = {} ELSE p \subseteq u,
         \A m \in u : m \in p \/ (code[n + 1].do = "spawn" /\ code[n + 1].n = m /\ Inner(m) \subseteq q),
         \A m \in CallIds(case), i \in 1 .. Slots : <<m, i>> \in g =>
           <<m, i>> \in f \/ Outermost(m, i) \subseteq q
  PROVE  Progress(n + 1, q, u, g)
<1>1. ASSUME NEW s \in 1 .. n + 1 PROVE s \in 1 .. n \/ s = n + 1
  OBVIOUS
<1>2. ~YieldIn(code, (n + 1) + 1, n + 1)
  BY DEF YieldIn
<1>3. ASSUME NEW s \in 1 .. n + 1
      PROVE  /\ code[s].do = "seq" => code[s].n \in q
             /\ code[s].do = "arg" => <<code[s].n, code[s].i>> \in g
             /\ code[s].do = "spawn" => IF YieldIn(code, s + 1, n + 1) THEN code[s].n \in q ELSE code[s].n \in u
  <2>1. CASE s = n + 1
    BY <2>1, <1>2
  <2>2. CASE s \in 1 .. n
    <3>1. YieldIn(code, s + 1, n + 1) <=> YieldIn(code, s + 1, n) \/ code[n + 1].do = "yield"
      BY <2>2, YieldStep
    <3> QED BY <2>2, <3>1 DEF Progress
  <2> QED BY <1>1, <2>1, <2>2
<1>4. ASSUME NEW m \in u
      PROVE  /\ Inner(m) \subseteq q
             /\ \E s \in 1 .. n + 1 : code[s].do = "spawn" /\ code[s].n = m /\ ~YieldIn(code, s + 1, n + 1)
  <2>1. CASE code[n + 1].do = "spawn" /\ code[n + 1].n = m /\ Inner(m) \subseteq q
    <3>1. n + 1 \in 1 .. n + 1
      OBVIOUS
    <3> QED BY <2>1, <3>1, <1>2
  <2>2. CASE m \in p
    <3>1. Inner(m) \subseteq r
      BY <2>2 DEF Progress
    <3>2. PICK s \in 1 .. n : code[s].do = "spawn" /\ code[s].n = m /\ ~YieldIn(code, s + 1, n)
      BY <2>2 DEF Progress
    <3>3. code[n + 1].do # "yield"
      BY <1>4
    <3>4. ~YieldIn(code, s + 1, n + 1)
      BY <3>2, <3>3, YieldStep
    <3>5. s \in 1 .. n + 1
      OBVIOUS
    <3> QED BY <3>1, <3>2, <3>4, <3>5
  <2> QED BY <2>1, <2>2
<1>5. ASSUME NEW m \in CallIds(case), NEW i \in 1 .. Slots, <<m, i>> \in g
      PROVE  Outermost(m, i) \subseteq q
  <2>1. <<m, i>> \in f => Outermost(m, i) \subseteq r
    BY DEF Progress
  <2> QED BY <2>1, <1>5
<1> QED BY <1>3, <1>4, <1>5 DEF Progress


LEMMA RunKeeps ==
  ASSUME PlanInv, Running, phase' = phase, code[next].do \notin {"exit", "goto"}, next' = next + 1,
         ready' \subseteq CallIds(case), pending' \subseteq CallIds(case),
         Progress(next, ready', pending', filled')
  PROVE  PlanInv'
<1>1. phase = "run" /\ phase' = "run" /\ UNCHANGED <<case, todo, optVars, genVars>>
  BY DEF Running
<1>2. case' = case /\ code' = code
  BY <1>1 DEF genVars
<1>3. PlanTypes /\ RunInv
  BY <1>1 DEF PlanInv
<1>4. next \in Nat /\ next + 1 <= Len(code) /\ Len(code) \in Nat
  BY <1>1, Runs
<1>5. PlanTypes'
  <2>1. LevelTypes(ParallelCalls, SequentialCall)'
    BY <1>1, <1>3, StableLevels DEF PlanTypes, genVars
  <2>2. CallIds(case)' = CallIds(case)
    BY <1>1 DEF CallIds
  <2>3. next' \in 1 .. Len(code') + 1
    BY <1>2, <1>4
  <2> QED BY <2>1, <2>2, <2>3, <1>1, <1>3 DEF PlanTypes, genVars, optVars, Phases
<1>6. RunInv'
  <2>1. next' - 1 = next
    BY <1>4
  <2>2. Progress(next' - 1, ready', pending', filled')
    BY <2>1
  <2>3. Progress(next - 1, ready, pending, filled)'
    BY <1>2, <2>2, StableProgress
  <2>4. CodeOK(code)'
    BY <1>2, <1>3, StableCode DEF RunInv
  <2>5. next' <= Len(code')
    BY <1>2, <1>4
  <2> QED BY <2>3, <2>4, <2>5, <1>2, <1>3 DEF RunInv
<1> QED BY <1>1, <1>5, <1>6 DEF PlanInv, BoundsFollowStart

\* A step that ends the run of the case.
LEMMA EndKeeps ==
  ASSUME PlanInv, phase = "run", phase' \in {"done", "other case"},
         UNCHANGED <<case, optVars, genVars, runVars>>
  PROVE  PlanInv'
<1>1. PlanTypes
  BY DEF PlanInv
<1>2. PlanTypes'
  BY <1>1, StableLevels DEF PlanTypes, genVars, optVars, runVars, Phases, CallIds
<1> QED BY <1>2 DEF PlanInv, BoundsFollowStart

LEMMA TaskKeeps ==
  ASSUME PlanInv, RunArg \/ RunSpawn \/ RunSeq \/ RunYield \/ RunGuard \/ RunAssign \/ RunEnd
  PROVE  PlanInv'
<1> DEFINE x == code[next]
<1>1. phase = "run" /\ Running /\ PlanTypes /\ UNCHANGED <<case, optVars, genVars>>
  BY DEF RunArg, RunSpawn, RunSeq, RunYield, RunGuard, RunAssign, RunEnd, Running, PlanInv
<1>2. /\ case \in Cases /\ CodeOK(code) /\ Progress(next - 1, ready, pending, filled)
      /\ next \in Nat /\ next >= 1
      /\ IsStatement(x)
      /\ x.do \in {"spawn", "seq", "arg"} => x.n \in CallIds(case)
      /\ x.do \in {"spawn", "seq"} => x.i = 0
      /\ x.do = "arg" => x.i \in 1 .. Slots
  BY <1>1, Runs
<1>3. /\ \A k : <<k, 0>> \in NeedsStatement(x) => k \in ready
      /\ \A m : \A j \in 1 .. Slots : <<m, j>> \in NeedsStatement(x) => <<m, j>> \in filled
  BY <1>1, HasNeeds
<1>4. ready \subseteq CallIds(case) /\ pending \subseteq CallIds(case)
  BY <1>1 DEF PlanTypes
<1>5. next - 1 \in Nat /\ (next - 1) + 1 = next
  BY <1>2
<1>6. NeedsStatement(x) = Needs(x.do, x.n, x.i)
  BY DEF NeedsStatement
<1> HIDE DEF x
<1>7. \A r, p, f, q, u, g :
        (/\ Progress(next - 1, r, p, f)
         /\ r \subseteq q /\ f \subseteq g
         /\ x.do = "seq" => x.n \in q
         /\ x.do = "arg" => <<x.n, x.i>> \in g
         /\ x.do = "spawn" => x.n \in u
         /\ IF x.do = "yield" THEN p \subseteq q /\ u = {} ELSE p \subseteq u
         /\ \A m \in u : m \in p \/ (x.do = "spawn" /\ x.n = m /\ Inner(m) \subseteq q)
         /\ \A m \in CallIds(case), i \in 1 .. Slots : <<m, i>> \in g =>
              <<m, i>> \in f \/ Outermost(m, i) \subseteq q)
        => Progress(next, q, u, g)
  <2>1. PICK n \in Nat : n = next - 1 /\ n + 1 = next
    BY <1>5
  <2>2. x = code[n + 1]
    BY <2>1 DEF x
  <2>3. \A r, p, f, q, u, g :
        (/\ Progress(n, r, p, f)
         /\ r \subseteq q /\ f \subseteq g
         /\ x.do = "seq" => x.n \in q
         /\ x.do = "arg" => <<x.n, x.i>> \in g
         /\ x.do = "spawn" => x.n \in u
         /\ IF x.do = "yield" THEN p \subseteq q /\ u = {} ELSE p \subseteq u
         /\ \A m \in u : m \in p \/ (x.do = "spawn" /\ x.n = m /\ Inner(m) \subseteq q)
         /\ \A m \in CallIds(case), i \in 1 .. Slots : <<m, i>> \in g =>
              <<m, i>> \in f \/ Outermost(m, i) \subseteq q)
        => Progress(n + 1, q, u, g)
    BY <2>2, ProgressStep
  <2> QED BY <2>1, <2>3
<1>8. CASE RunArg
  <2>1. x.do = "arg" /\ phase' = phase /\ next' = next + 1 /\ ready' = ready /\ pending' = pending
    BY <1>8 DEF RunArg, Is, x
  <2>2. filled' = filled \cup {<<x.n, x.i>>}
    BY <1>8 DEF RunArg, x
  <2>3. Outermost(x.n, x.i) \subseteq ready
    <3>1. NeedsStatement(x) = {<<k, 0>> : k \in Outermost(x.n, x.i)}
      BY <2>1, <1>6, NeedsFacts
    <3> QED BY <3>1, <1>3
  <2>4. Progress(next, ready', pending', filled')
    <3>1. ASSUME NEW m, NEW i, <<m, i>> \in filled' PROVE <<m, i>> \in filled \/ Outermost(m, i) \subseteq ready
      BY <2>2, <2>3, <3>1
    <3> QED BY <3>1, <2>1, <2>2, <1>2, <1>7
  <2>5. code[next].do \notin {"exit", "goto"}
    BY <2>1 DEF x
  <2> QED BY <2>1, <2>4, <2>5, <1>1, <1>4, RunKeeps
<1>9. CASE RunSpawn
  <2>1. x.do = "spawn" /\ phase' = phase /\ next' = next + 1 /\ ready' = ready /\ filled' = filled
    BY <1>9 DEF RunSpawn, Is, x
  <2>2. pending' = pending \cup {x.n}
    BY <1>9 DEF RunSpawn, x
  <2>3. Inner(x.n) \subseteq ready
    <3>1. SUFFICES ASSUME NEW k \in Inner(x.n) PROVE k \in ready
      OBVIOUS
    <3>2. x.n \in CallIds(case) /\ k \in CallIds(case)
      BY <2>1, <1>2 DEF Inner
    <3>3. PICK i \in 0 .. Slots : k \in Outermost(x.n, i)
      BY <3>2, <1>2, InnerFacts
    <3>4. CASE i = 0
      <4>1. <<k, 0>> \in NeedsStatement(x)
        BY <3>3, <3>4, <2>1, <1>6, NeedsFacts
      <4> QED BY <4>1, <1>3
    <3>5. CASE i # 0
      <4>1. i \in 1 .. Slots
        BY <3>5, <1>2, CaseFacts
      <4>2. <<x.n, i>> \in NeedsStatement(x)
        BY <4>1, <2>1, <1>6, NeedsFacts
      <4>3. <<x.n, i>> \in filled
        BY <4>1, <4>2, <1>3
      <4>4. Outermost(x.n, i) \subseteq ready
        BY <4>1, <4>3, <3>2, <1>2 DEF Progress
      <4> QED BY <4>4, <3>3
    <3> QED BY <3>4, <3>5
  <2>4. Progress(next, ready', pending', filled')
    <3>1. \A m \in pending' : m \in pending \/ (x.do = "spawn" /\ x.n = m /\ Inner(m) \subseteq ready)
      BY <2>1, <2>2, <2>3
    <3> QED BY <3>1, <2>1, <2>2, <1>2, <1>7
  <2>5. code[next].do \notin {"exit", "goto"}
    BY <2>1 DEF x
  <2>6. pending' \subseteq CallIds(case)
    BY <2>1, <2>2, <1>2, <1>4
  <2> QED BY <2>1, <2>4, <2>5, <2>6, <1>1, <1>4, RunKeeps
<1>10. CASE RunSeq
  <2>1. x.do = "seq" /\ phase' = phase /\ next' = next + 1 /\ pending' = pending /\ filled' = filled
    BY <1>10 DEF RunSeq, Is, x
  <2>2. ready' = ready \cup {x.n}
    BY <1>10 DEF RunSeq, x
  <2>3. Progress(next, ready', pending', filled')
    BY <2>1, <2>2, <1>2, <1>7
  <2>4. code[next].do \notin {"exit", "goto"}
    BY <2>1 DEF x
  <2>5. ready' \subseteq CallIds(case)
    BY <2>1, <2>2, <1>2, <1>4
  <2> QED BY <2>1, <2>3, <2>4, <2>5, <1>1, <1>4, RunKeeps
<1>11. CASE RunYield
  <2>1. /\ x.do = "yield" /\ phase' = phase /\ next' = next + 1 /\ filled' = filled
        /\ ready' = ready \cup pending /\ pending' = {}
    BY <1>11 DEF RunYield, Is, x
  <2>2. Progress(next, ready', pending', filled')
    BY <2>1, <1>2, <1>7
  <2>3. code[next].do \notin {"exit", "goto"}
    BY <2>1 DEF x
  <2> QED BY <2>1, <2>2, <2>3, <1>1, <1>4, RunKeeps
<1>12. CASE RunGuard \/ RunAssign
  <2>1. CASE phase' = "other case" /\ UNCHANGED next
    BY <2>1, <1>1, <1>12, EndKeeps DEF RunGuard, RunAssign, runVars
  <2>2. CASE ~(phase' = "other case" /\ UNCHANGED next)
    <3>1. /\ x.do \in {"guard", "assign"} /\ phase' = phase /\ next' = next + 1
          /\ filled' = filled /\ ready' = ready /\ pending' = pending
      BY <2>2, <1>12 DEF RunGuard, RunAssign, Is, x
    <3>2. Progress(next, ready', pending', filled')
      BY <3>1, <1>2, <1>7
    <3>3. code[next].do \notin {"exit", "goto"}
      BY <3>1 DEF x
    <3> QED BY <3>1, <3>2, <3>3, <1>1, <1>4, RunKeeps
  <2> QED BY <2>1, <2>2
<1>13. CASE RunEnd
  BY <1>1, <1>13, EndKeeps DEF RunEnd
<1> QED BY <1>8, <1>9, <1>10, <1>11, <1>12, <1>13

LEMMA PlanInvNext ==
  ASSUME PlanInv, [Next]_vars
  PROVE  PlanInv'
<1>1. CASE Optimize
  BY <1>1, OptimizeKeeps
<1>2. CASE Generate
  BY <1>2, StartGeneratingKeeps, GivesUpKeeps, GenCallKeeps, GenArgKeeps, GenSeqKeeps, GenOutputKeeps,
     GenStatementKeeps DEF Generate
<1>3. CASE Run
  BY <1>3, StartRunningKeeps, TaskKeeps DEF Run
<1>4. CASE UNCHANGED vars
  <2>1. /\ case' = case /\ phase' = phase /\ todo' = todo /\ code' = code
        /\ UNCHANGED <<optVars, genVars, runVars>>
    BY <1>4 DEF vars, genVars
  <2>2. PlanTypes => PlanTypes'
    BY <2>1, StableLevels DEF PlanTypes, optVars, genVars, runVars, CallIds
  <2>3. OptItems(todo) => OptItems(todo)'
    BY <2>1 DEF OptItems, OptItem, CallIds
  <2>4. GenerateInv => GenerateInv'
    <3>1. Aligned => Aligned'
      <4>1. Enters(todo[1])' = Enters(todo[1])
        BY <2>1, StableItems
      <4> QED BY <4>1, <2>1 DEF Aligned, genVars, Calling
    <3>2. /\ (TraversalOK(todo) => TraversalOK(todo)') /\ (CodeOK(code) => CodeOK(code)')
          /\ Past(code, Len(code) + 1)' <=> Past(code, Len(code) + 1)
      BY <2>1, StableItems, StableCode, StablePast
    <3>3. /\ LevelsOK(ParallelCalls, SequentialCall, code) => LevelsOK(ParallelCalls, SequentialCall, code)'
          /\ Covered(todo, code, ParallelCalls, SequentialCall)
               => Covered(todo, code, ParallelCalls, SequentialCall)'
      BY <2>1, StableLevels DEF genVars
    <3>4. GuardIn(todo, 1)' <=> GuardIn(todo, 1)
      BY <2>1
    <3> QED BY <3>1, <3>2, <3>3, <3>4, <2>1 DEF GenerateInv, genVars, Direct
  <2>5. RunInv => RunInv'
    <3>1. Progress(next - 1, ready, pending, filled) => Progress(next - 1, ready, pending, filled)'
      BY <2>1, StableProgress DEF runVars
    <3>2. CodeOK(code) => CodeOK(code)'
      BY <2>1, StableCode
    <3> QED BY <3>1, <3>2, <2>1 DEF RunInv, runVars
  <2>6. NotRun => NotRun'
    BY <2>1 DEF NotRun, runVars
  <2>7. BoundsFollowStart => BoundsFollowStart'
    BY <2>1 DEF BoundsFollowStart, genVars
  <2> QED BY <2>1, <2>2, <2>3, <2>4, <2>5, <2>6, <2>7 DEF PlanInv, genVars
<1> QED BY <1>1, <1>2, <1>3, <1>4 DEF Next, Stopped

-----------------------------------------------------------------------------
(* Theorems *)

\* The plan is made, and then run, as PlanInv says.
THEOREM PlanInvariance == Spec => []PlanInv
BY PlanInvInit, PlanInvNext, PTL DEF Spec

LEMMA InvTypeOK ==
  ASSUME PlanInv
  PROVE  TypeOK
<1>1. PlanTypes
  BY DEF PlanInv
<1>2. Elements(LastRecCall) \cup Elements(LastOtherCall) \subseteq {Null} \cup CallIds(case)
  BY <1>1 DEF PlanTypes, Elements
<1>3. Len(SequentialCall) = Len(ParallelCalls) /\ Elements(SequentialCall) \subseteq {Null} \cup CallIds(case)
  BY <1>1 DEF PlanTypes, LevelTypes, Elements
<1> QED BY <1>1, <1>2, <1>3 DEF PlanTypes, TypeOK

\* The tables of the optimizer and of the generator have a place for each
\* level they are indexed with, and hold calls of the case.
THEOREM Typing == Spec => []TypeOK
BY PlanInvariance, InvTypeOK, PTL

LEMMA InvResultsBeforeUse ==
  ASSUME PlanInv
  PROVE  ResultsBeforeUse
<1>1. SUFFICES ASSUME phase = "run"
      PROVE  /\ code[next].reads \subseteq ready
             /\ Is("spawn") => \A i \in 1 .. Slots : <<code[next].n, i>> \in filled
  BY DEF ResultsBeforeUse
<1> DEFINE x == code[next]
<1>2. IsStatement(x)
  BY <1>1, Runs
<1>3. /\ \A k : <<k, 0>> \in NeedsStatement(x) => k \in ready
      /\ \A m : \A j \in 1 .. Slots : <<m, j>> \in NeedsStatement(x) => <<m, j>> \in filled
  BY <1>1, HasNeeds
<1> HIDE DEF x
<1>4. NeedsStatement(x) = Needs(x.do, x.n, x.i) /\ x.reads = Reads(x.do, x.n, x.i)
  BY <1>2 DEF NeedsStatement, IsStatement
<1>5. ASSUME NEW k \in x.reads PROVE k \in ready
  <2>1. x.do # "goto"
    BY <1>4, <1>5 DEF Reads
  <2>2. <<k, 0>> \in NeedsStatement(x)
    BY <2>1, <1>4, <1>5 DEF Needs
  <2> QED BY <2>2, <1>3
<1>6. ASSUME x.do = "spawn", NEW i \in 1 .. Slots PROVE <<x.n, i>> \in filled
  <2>1. <<x.n, i>> \in NeedsStatement(x)
    BY <1>4, <1>6, NeedsFacts
  <2> QED BY <2>1, <1>3
<1> QED BY <1>5, <1>6 DEF Is, x

\* Every result that the code of CParCodeGen reads has been computed, and a
\* task is started with its arguments written, whatever case is compiled.
THEOREM ResultsAreThere == Spec => []ResultsBeforeUse
BY PlanInvariance, InvResultsBeforeUse, PTL

LEMMA InvNothingPendingAtExit ==
  ASSUME PlanInv
  PROVE  NothingPendingAtExit
<1>1. SUFFICES ASSUME phase = "run", Is("exit") \/ Is("goto"), NEW m \in pending PROVE FALSE
  BY DEF NothingPendingAtExit
<1>2. /\ CodeOK(code) /\ Progress(next - 1, ready, pending, filled)
      /\ next \in Nat /\ next >= 1 /\ Len(code) \in Nat /\ next \in 1 .. Len(code)
  BY <1>1, Runs
<1>3. PICK s \in 1 .. next - 1 : code[s].do = "spawn" /\ ~YieldIn(code, s + 1, next - 1)
  BY <1>1, <1>2 DEF Progress
<1>4. s \in 1 .. Len(code)
  BY <1>2
<1>5. PICK y \in s + 1 .. Len(code) : code[y].do = "yield" /\ \A z \in s + 1 .. y : code[z].do \notin Direct
  BY <1>2, <1>3, <1>4 DEF CodeOK
<1>6. y \notin s + 1 .. next - 1
  BY <1>3, <1>5 DEF YieldIn
<1>7. next \in s + 1 .. y
  BY <1>2, <1>5, <1>6
<1>8. code[next].do \notin Direct
  BY <1>5, <1>7
<1> QED BY <1>1, <1>8 DEF Is, Direct

\* The task has waited for all its sub tasks when it exits or starts over.
THEOREM NothingPending == Spec => []NothingPendingAtExit
BY PlanInvariance, InvNothingPendingAtExit, PTL


LEMMA InvBoundsFollowStart ==
  ASSUME PlanInv
  PROVE  BoundsFollowStart
BY DEF PlanInv

\* The index that the uninitialized CallDepth becomes is out of bounds only
\* before the first level is made, and only if CallDepth did not start at 0.
THEOREM BoundsFollow == Spec => []BoundsFollowStart
BY PlanInvariance, InvBoundsFollowStart, PTL

-----------------------------------------------------------------------------
(* The code of a case does what the case means.  Running it is evaluation  *)
(* by value: a call made stands for a call evaluated with its arguments,   *)
(* and taskyield for nothing.  What the invariant does not say is that all *)
(* calls of a side have been made when it ends, and none of the other side *)
(* before.                                                                 *)

\* CallByValue speaks of the same case.
LEMMA AbstractCase ==
  ASSUME case \in Cases
  PROVE  /\ CBV!Calls = CallIds(case)
         /\ \A m : CBV!Inner(m) = Inner(m)
         /\ \A m, i : CBV!Outermost(m, i) = Outermost(m, i)
         /\ CBV!TailCall <=> TailRec(case)
<1>1. CBV!Calls = CallIds(case)
  BY DEF CBV!Calls, CallIds
<1>2. \A m : CBV!Inner(m) = Inner(m)
  BY <1>1 DEF CBV!Inner, Inner
<1>3. ASSUME NEW m, NEW i PROVE CBV!Outermost(m, i) = Outermost(m, i)
  <2>1. Outermost(m, i) = {k \in CallIds(case) : case.at[k] = [in |-> m, slot |-> i]}
    BY KidsFacts
  <2> QED BY <2>1, <1>1 DEF CBV!Outermost
<1>4. CBV!TailCall <=> TailRec(case)
  <2>1. CBV!TailCall <=> case.bare /\ \E m \in Outermost(Top, 1) : case.rec[m]
    BY <1>3 DEF CBV!TailCall, Top
  <2>2. CASE case.bare
    <3>1. Len(Kids(case, Top, 1)) = 1
      BY <2>2, CaseFacts
    <3>2. PICK s \in Seq(CallIds(case)) : s = Kids(case, Top, 1) /\ Len(s) = 1
      BY <3>1, KidsFacts
    <3>3. Head(s) = s[1] /\ DOMAIN s = {1}
      BY <3>2
    <3>4. Outermost(Top, 1) = {Head(s)}
      BY <3>2, <3>3 DEF Outermost, Elements
    <3> QED BY <2>1, <2>2, <3>1, <3>2, <3>4 DEF TailRec
  <2>3. CASE ~case.bare
    BY <2>1, <2>3 DEF TailRec
  <2> QED BY <2>2, <2>3
<1> QED BY <1>1, <1>2, <1>3, <1>4

\* Below holds, with a call, the calls in it.
LEMMA BelowFacts ==
  ASSUME case \in Cases
  PROVE  /\ DOMAIN CBV!Below = CallIds(case)
         /\ \A m \in CallIds(case) :
              CBV!Below[m] = Inner(m) \cup UNION {CBV!Below[k] : k \in Inner(m)}
<1> DEFINE C == CallIds(case)
           Def(f, m) == Inner(m) \cup UNION {f[k] : k \in Inner(m)}
           below[m \in C] == Def(below, m)
           Closed(X) == \A j \in X : Inner(j) \subseteq X
           B(m) == {k \in C : \A X \in SUBSET C : Inner(m) \subseteq X /\ Closed(X) => k \in X}
           g == [m \in C |-> B(m)]
<1>1. \A m : Inner(m) \subseteq C
  BY DEF Inner
<1>2. ASSUME NEW m \in C PROVE B(m) \subseteq C /\ Inner(m) \subseteq B(m) /\ Closed(B(m))
  <2>1. B(m) \subseteq C
    OBVIOUS
  <2>2. Inner(m) \subseteq B(m)
    BY <1>1
  <2>3. ASSUME NEW j \in B(m), NEW k \in Inner(j) PROVE k \in B(m)
    <3>1. k \in C
      BY <1>1
    <3>2. ASSUME NEW X \in SUBSET C, Inner(m) \subseteq X, Closed(X) PROVE k \in X
      BY <2>3, <3>2
    <3> QED BY <3>1, <3>2
  <2> QED BY <2>1, <2>2, <2>3
<1>3. ASSUME NEW m \in C, NEW X \in SUBSET C, Inner(m) \subseteq X, Closed(X) PROVE B(m) \subseteq X
  BY <1>3
<1> HIDE DEF B
<1>4. ASSUME NEW m \in C PROVE B(m) = Def(g, m)
  <2>1. \A k \in Inner(m) : g[k] = B(k)
    BY <1>1
  <2>2. Def(g, m) = Inner(m) \cup UNION {B(k) : k \in Inner(m)}
    BY <2>1
  <2> DEFINE R == Inner(m) \cup UNION {B(k) : k \in Inner(m)}
  <2>3. R \subseteq B(m)
    <3>1. ASSUME NEW k \in Inner(m) PROVE B(k) \subseteq B(m)
      <4>1. k \in C /\ k \in B(m) /\ B(m) \in SUBSET C
        BY <1>1, <1>2
      <4>2. Inner(k) \subseteq B(m) /\ Closed(B(m))
        BY <4>1, <1>2
      <4> QED BY <4>1, <4>2, <1>3
    <3> QED BY <3>1, <1>2
  <2>4. B(m) \subseteq R
    <3>1. R \in SUBSET C
      BY <1>1, <1>2
    <3>2. Inner(m) \subseteq R
      OBVIOUS
    <3>3. ASSUME NEW j \in R, NEW k \in Inner(j) PROVE k \in R
      <4>1. CASE j \in Inner(m)
        BY <4>1, <1>1, <1>2
      <4>2. CASE j \notin Inner(m)
        <5>1. PICK h \in Inner(m) : j \in B(h)
          BY <4>2
        <5>2. k \in B(h)
          BY <5>1, <1>1, <1>2
        <5> QED BY <5>1, <5>2
      <4> QED BY <4>1, <4>2
    <3> HIDE DEF R
    <3> QED BY <3>1, <3>2, <3>3, <1>3
  <2> QED BY <2>2, <2>3, <2>4
<1>5. g = [m \in C |-> Def(g, m)]
  <2> HIDE DEF Def
  <2> QED BY <1>4
<1>6. below = [m \in C |-> Def(below, m)]
  <2> HIDE DEF Def, g
  <2> QED BY <1>5
<1>7. CBV!Below = below
  <2>1. CBV!Calls = C /\ \A m : CBV!Inner(m) = Inner(m)
    BY AbstractCase
  <2> QED BY <2>1 DEF CBV!Below
<1> HIDE DEF below
<1> QED BY <1>6, <1>7

LEMMA BelowClosed ==
  ASSUME case \in Cases, NEW m \in CallIds(case), NEW j \in CBV!Below[m]
  PROVE  j \in CallIds(case) /\ Inner(j) \subseteq CBV!Below[m]
<1> DEFINE l == Len(case.at)
           Fine(h) == \A i \in CBV!Below[h] : i \in CallIds(case) /\ Inner(i) \subseteq CBV!Below[h]
           T == {d \in Nat : \A h \in CallIds(case) : l - h = d => Fine(h)}
<1>1. l \in Nat /\ CallIds(case) = 1 .. l
  BY CaseFacts
<1>2. \A h \in CallIds(case) : CBV!Below[h] = Inner(h) \cup UNION {CBV!Below[k] : k \in Inner(h)}
  BY BelowFacts
<1>3. \A h \in CallIds(case) : \A k \in Inner(h) : k \in CallIds(case) /\ h < k
  BY CaseFacts DEF Inner
<1> HIDE DEF l
<1>4. ASSUME NEW d \in Nat, \A e \in Nat : e < d => e \in T PROVE d \in T
  <2>1. SUFFICES ASSUME NEW h \in CallIds(case), l - h = d, NEW i \in CBV!Below[h]
        PROVE i \in CallIds(case) /\ Inner(i) \subseteq CBV!Below[h]
    OBVIOUS
  <2>2. \A k \in Inner(h) : CBV!Below[k] \subseteq CBV!Below[h]
    BY <1>2
  <2>3. CASE i \in Inner(h)
    <3>1. i \in CallIds(case)
      BY <2>3, <1>3
    <3>2. Inner(i) \subseteq CBV!Below[i]
      BY <3>1, <1>2
    <3> QED BY <3>1, <3>2, <2>2, <2>3
  <2>4. CASE i \notin Inner(h)
    <3>1. PICK k \in Inner(h) : i \in CBV!Below[k]
      BY <2>1, <2>4, <1>2
    <3>2. k \in CallIds(case) /\ h < k
      BY <1>3
    <3>3. l - k \in Nat /\ l - k < d
      BY <3>2, <2>1, <1>1
    <3>4. Fine(k)
      BY <3>2, <3>3, <1>4
    <3> QED BY <3>1, <3>4, <2>2
  <2> QED BY <2>3, <2>4
<1>5. \A d \in Nat : d \in T
  <2> HIDE DEF T
  <2> QED BY <1>4, StrongInduction
<1>6. l - m \in Nat
  BY <1>1
<1>7. Fine(m)
  BY <1>5, <1>6
<1> QED BY <1>7

-----------------------------------------------------------------------------
(* What is evaluated belongs to the stage *)

\* What a stage needs: the when expression 0, the result 1.
NeededAt(side) ==
  CASE side = 0 -> Outermost(Top, 0)
    [] side = 1 /\ ~TailRec(case) -> Outermost(Top, 1)
    [] OTHER -> Inner(TailHead)

LEMMA WithinStage ==
  ASSUME case \in Cases, NEW k \in CallIds(case), Depth[k] >= 1
  PROVE  k \in NeededAt(Side[k]) \cup UNION {CBV!Below[m] : m \in NeededAt(Side[k])}
<1> DEFINE W(s) == NeededAt(s) \cup UNION {CBV!Below[m] : m \in NeededAt(s)}
           T == {n \in Nat : n \in CallIds(case) /\ Depth[n] >= 1 => n \in W(Side[n])}
<1>1. ASSUME NEW n \in Nat, \A j \in Nat : j < n => j \in T PROVE n \in T
  <2>1. SUFFICES ASSUME n \in CallIds(case), Depth[n] >= 1 PROVE n \in W(Side[n])
    OBVIOUS
  <2>2. /\ Depth[n] = IF case.at[n].in = Top
                        THEN IF TailRec(case) /\ case.at[n].slot = 1 THEN 0 ELSE 1
                        ELSE Depth[case.at[n].in] + 1
        /\ Side[n] = IF case.at[n].in = Top THEN case.at[n].slot ELSE Side[case.at[n].in]
    BY <2>1, DepthFacts, SideFacts
  <2>3. CASE case.at[n].in = Top
    <3>1. case.at[n] \in [in : Nat, slot : Nat] /\ case.at[n].slot \in {0, 1}
      BY <2>1, <2>3, CaseFacts
    <3>2. case.at[n] = [in |-> Top, slot |-> case.at[n].slot]
      BY <3>1, <2>3
    <3>3. n \in Outermost(Top, case.at[n].slot)
      <4>1. Outermost(Top, case.at[n].slot)
              = {j \in CallIds(case) : case.at[j] = [in |-> Top, slot |-> case.at[n].slot]}
        BY KidsFacts
      <4> QED BY <4>1, <3>2, <2>1
    <3>4. Side[n] = case.at[n].slot /\ ~(TailRec(case) /\ case.at[n].slot = 1)
      BY <2>1, <2>2, <2>3
    <3>5. n \in NeededAt(Side[n])
      BY <3>1, <3>3, <3>4 DEF NeededAt
    <3> QED BY <3>5
  <2>4. CASE case.at[n].in # Top
    <3> DEFINE p == case.at[n].in
    <3>1. p \in CallIds(case) /\ p \in Nat /\ p < n
      BY <2>1, <2>4, CaseFacts
    <3>2. Side[n] = Side[p] /\ n \in Inner(p) /\ Depth[p] \in Nat /\ Side[p] \in {0, 1}
      BY <2>1, <2>2, <2>4, <3>1, DepthFacts, SideFacts DEF Inner
    <3> HIDE DEF p
    <3>3. CASE Depth[p] >= 1
      <4>1. p \in W(Side[n])
        BY <3>1, <3>2, <3>3, <1>1
      <4>2. CASE p \in NeededAt(Side[n])
        <5>1. n \in CBV!Below[p]
          BY <3>1, <3>2, BelowFacts
        <5> QED BY <5>1, <4>2
      <4>3. CASE p \notin NeededAt(Side[n])
        <5>1. PICK m \in NeededAt(Side[n]) : p \in CBV!Below[m]
          BY <4>1, <4>3
        <5>2. m \in CallIds(case)
          BY OutermostIds DEF NeededAt, Inner
        <5>3. n \in CBV!Below[m]
          BY <5>1, <5>2, <3>2, BelowClosed
        <5> QED BY <5>1, <5>3
      <4> QED BY <4>2, <4>3
    <3>4. CASE ~(Depth[p] >= 1)
      <4>1. Depth[p] = 0
        BY <3>2, <3>4
      <4>2. /\ Depth[p] = IF case.at[p].in = Top
                            THEN IF TailRec(case) /\ case.at[p].slot = 1 THEN 0 ELSE 1
                            ELSE Depth[case.at[p].in] + 1
            /\ Side[p] = IF case.at[p].in = Top THEN case.at[p].slot ELSE Side[case.at[p].in]
        BY <3>1, DepthFacts, SideFacts
      <4>3. case.at[p].in = Top /\ TailRec(case) /\ case.at[p].slot = 1 /\ Side[p] = 1
        <5>1. case.at[p].in # Top => Depth[case.at[p].in] \in Nat
          BY <3>1, CaseFacts, DepthFacts
        <5> QED BY <4>1, <4>2, <5>1
      <4>4. p \in Outermost(Top, 1)
        <5>1. case.at[p] = [in |-> Top, slot |-> 1]
          BY <3>1, <4>3, CaseFacts
        <5>2. Outermost(Top, 1) = {j \in CallIds(case) : case.at[j] = [in |-> Top, slot |-> 1]}
          BY KidsFacts
        <5> QED BY <5>1, <5>2, <3>1
      <4>5. p = TailHead
        BY <4>3, <4>4, TailFacts
      <4>6. n \in NeededAt(Side[n])
        BY <4>3, <4>5, <3>2 DEF NeededAt
      <4> QED BY <4>6
    <3> QED BY <3>3, <3>4
  <2> QED BY <2>3, <2>4
<1>2. \A n \in Nat : n \in T
  <2> HIDE DEF T
  <2> QED BY <1>1, StrongInduction
<1>3. k \in Nat
  BY CaseFacts
<1> QED BY <1>2, <1>3

\* The side of the case that the task is in.
At == IF Past(code, next) THEN 1 ELSE 0

LEMMA StageFacts ==
  ASSUME case \in Cases
  PROVE  /\ Stage = CASE phase = "done" -> "done" [] phase = "other case" -> "refused"
                      [] OTHER -> IF Past(code, next) THEN "result" ELSE "guard"
         /\ phase \notin {"done", "other case"} => CBV!Needed = NeededAt(At)
<1>1. Past(code, next) <=> Kids(case, Top, 0) = <<>> \/ GuardPassed
  BY DEF Past, GuardPassed
<1>2. Stage = CASE phase = "done" -> "done" [] phase = "other case" -> "refused"
                [] OTHER -> IF Past(code, next) THEN "result" ELSE "guard"
  BY <1>1 DEF Stage
<1>3. ASSUME phase \notin {"done", "other case"} PROVE CBV!Needed = NeededAt(At)
  <2>1. Stage = IF At = 1 THEN "result" ELSE "guard"
    <3>1. phase # "done" /\ phase # "other case"
      BY <1>3
    <3>2. Stage = IF Past(code, next) THEN "result" ELSE "guard"
      BY <3>1, <1>2
    <3>3. CASE Past(code, next)
      <4>1. At = 1
        BY <3>3 DEF At
      <4> QED BY <4>1, <3>2, <3>3
    <3>4. CASE ~Past(code, next)
      <4>1. At = 0
        BY <3>4 DEF At
      <4> QED BY <4>1, <3>2, <3>4
    <3> QED BY <3>3, <3>4
  <2>2. /\ CBV!Outermost(0, 0) = Outermost(Top, 0) /\ CBV!Outermost(0, 1) = Outermost(Top, 1)
        /\ \A m : CBV!Inner(m) = Inner(m)
        /\ CBV!TailCall <=> TailRec(case)
    BY AbstractCase DEF Top
  <2>3. CASE TailRec(case) /\ At = 1
    <3>1. UNION {CBV!Inner(m) : m \in CBV!Outermost(0, 1)} = Inner(TailHead)
      BY <2>2, <2>3, TailFacts
    <3>2. CBV!Needed = UNION {CBV!Inner(m) : m \in CBV!Outermost(0, 1)}
      BY <2>1, <2>2, <2>3 DEF CBV!Needed
    <3> QED BY <3>1, <3>2, <2>3 DEF NeededAt
  <2>4. CASE ~(TailRec(case) /\ At = 1)
    <3>1. CBV!Needed = IF At = 1 THEN Outermost(Top, 1) ELSE Outermost(Top, 0)
      BY <2>1, <2>2, <2>4 DEF CBV!Needed
    <3>2. At \in {0, 1}
      BY DEF At
    <3> QED BY <3>1, <3>2, <2>4 DEF NeededAt
  <2> QED BY <2>3, <2>4
<1> QED BY <1>2, <1>3


-----------------------------------------------------------------------------
(* Every step of the plan is a step of CallByValue, or none *)

LEMMA StableStage ==
  ASSUME case' = case, phase' = phase, \A k \in 1 .. next' - 1 : code'[k].do = "guard" => GuardPassed,
         GuardPassed => GuardPassed'
  PROVE  Stage' = Stage
<1>1. GuardPassed' <=> GuardPassed
  BY DEF GuardPassed
<1>2. Kids(case, Top, 0)' = Kids(case, Top, 0)
  BY DEF Kids
<1> QED BY <1>1, <1>2 DEF Stage

LEMMA NothingBefore ==
  ASSUME NEW n, n = 1
  PROVE  \A k : k \notin 1 .. n - 1
OBVIOUS

\* Before the run nothing is evaluated.
LEMMA BeforeRun ==
  ASSUME PlanInv, case' = case, phase \notin {"run", "done", "other case"}, phase' \notin {"done", "other case"},
         next' = next, ready' = ready
  PROVE  UNCHANGED CBV!vars
<1>1. NotRun
  BY DEF PlanInv, PlanTypes, Phases
<1>2. ~GuardPassed /\ ~GuardPassed'
  <2>1. next = 1 /\ next' = 1
    BY <1>1 DEF NotRun
  <2>2. (\A k : k \notin 1 .. next - 1) /\ (\A k : k \notin 1 .. next' - 1)
    BY <2>1, NothingBefore, Zenon
  <2> QED BY <2>2, Zenon DEF GuardPassed
<1>3. Kids(case, Top, 0)' = Kids(case, Top, 0)
  BY DEF Kids
<1>4. Stage' = Stage
  BY <1>2, <1>3 DEF Stage
<1> QED BY <1>1, <1>4 DEF CBV!vars

\* A statement that evaluates nothing, and is not the guard.
LEMMA PassingStep ==
  ASSUME PlanInv, Running, phase' = phase, next' = next + 1, code[next].do # "guard"
  PROVE  case' = case /\ Stage' = Stage
<1>1. /\ phase = "run" /\ case' = case /\ code' = code /\ next \in Nat /\ next >= 1
  BY Runs DEF Running, genVars
<1>2. next' - 1 = next
  BY <1>1
<1>3. \A k \in 1 .. next : k \in 1 .. next - 1 \/ k = next
  BY <1>1
<1>4. \A k \in 1 .. next' - 1 : code'[k].do = "guard" => GuardPassed
  BY <1>1, <1>2, <1>3 DEF GuardPassed
<1>5. GuardPassed => GuardPassed'
  <2>1. \A k \in 1 .. next - 1 : k \in 1 .. next' - 1
    BY <1>1, <1>2
  <2> QED BY <2>1, <1>1 DEF GuardPassed
<1> QED BY <1>1, <1>4, <1>5, StableStage

\* The calls S are evaluated, in the stage they belong to.
LEMMA EvaluateStep ==
  ASSUME PlanInv, phase = "run", NEW S, ready' = ready \cup S, case' = case, Stage' = Stage,
         \A k \in S : k \in CallIds(case) /\ Depth[k] >= 1 /\ Side[k] = At /\ Inner(k) \subseteq ready
  PROVE  CBV!Evaluate \/ UNCHANGED CBV!vars
<1> DEFINE N == S \ ready
<1>1. CASE N = {}
  <2>1. ready' = ready
    BY <1>1
  <2> QED BY <2>1 DEF CBV!vars
<1>2. CASE N # {}
  <2>1. case \in Cases /\ CBV!Needed = NeededAt(At)
    BY Runs, StageFacts
  <2>2. ASSUME NEW k \in N
        PROVE  k \in (CBV!Needed \cup UNION {CBV!Below[m] : m \in CBV!Needed}) \ ready
    <3>1. k \in NeededAt(At) \cup UNION {CBV!Below[m] : m \in NeededAt(At)}
      BY <2>1, WithinStage
    <3> QED BY <3>1, <2>1
  <2>3. \A k \in N : CBV!Inner(k) \subseteq ready
    BY <2>1, AbstractCase
  <2>4. ready' = ready \cup N
    OBVIOUS
  <2> HIDE DEF N
  <2>5. N \in SUBSET ((CBV!Needed \cup UNION {CBV!Below[m] : m \in CBV!Needed}) \ ready)
    BY <2>2
  <2>6. CBV!Evaluate
    BY <1>2, <2>3, <2>4, <2>5 DEF CBV!Evaluate
  <2> QED BY <2>6
<1> QED BY <1>1, <1>2

LEMMA SeqStep ==
  ASSUME PlanInv, RunSeq
  PROVE  CBV!Evaluate \/ UNCHANGED CBV!vars
<1> DEFINE m == code[next].n
<1>1. /\ phase = "run" /\ Running /\ phase' = phase /\ next' = next + 1 /\ code[next].do = "seq"
      /\ ready' = ready \cup {m}
  BY DEF RunSeq, Running, Is
<1>2. /\ case \in Cases /\ CodeOK(code) /\ next \in 1 .. Len(code) /\ IsStatement(code[next])
      /\ m \in CallIds(case) /\ code[next].i = 0
  BY <1>1, Runs
<1>3. case' = case /\ Stage' = Stage
  BY <1>1, PassingStep
<1>4. Depth[m] >= 1
  BY <1>1, <1>2 DEF IsStatement, Fits, Direct
<1>5. Side[m] = At
  <2>1. Side[m] = 1 <=> Past(code, next)
    BY <1>1, <1>2 DEF CodeOK, Calling
  <2>2. Side[m] \in {0, 1}
    BY <1>2, SideFacts
  <2> QED BY <2>1, <2>2 DEF At
<1>6. Inner(m) \subseteq ready
  <2>1. SUFFICES ASSUME NEW k \in Inner(m) PROVE k \in ready
    OBVIOUS
  <2>2. k \in CallIds(case)
    BY DEF Inner
  <2>3. PICK i \in 0 .. Slots : k \in Outermost(m, i)
    BY <2>2, <1>2, InnerFacts
  <2>4. NeedsStatement(code[next]) = {<<j, 0>> : j \in UNION {Outermost(m, h) : h \in 0 .. Slots}}
    BY <1>1, NeedsFacts DEF NeedsStatement
  <2>5. <<k, 0>> \in NeedsStatement(code[next])
    BY <2>3, <2>4
  <2> QED BY <2>5, <1>1, HasNeeds
<1> HIDE DEF m
<1>7. PICK S : S = {m}
  OBVIOUS
<1>8. /\ ready' = ready \cup S
      /\ \A k \in S : k \in CallIds(case) /\ Depth[k] >= 1 /\ Side[k] = At /\ Inner(k) \subseteq ready
  BY <1>1, <1>2, <1>4, <1>5, <1>6, <1>7
<1> QED BY <1>1, <1>3, <1>8, EvaluateStep

LEMMA YieldStepIs ==
  ASSUME PlanInv, RunYield
  PROVE  CBV!Evaluate \/ UNCHANGED CBV!vars
<1>1. /\ phase = "run" /\ Running /\ phase' = phase /\ next' = next + 1 /\ code[next].do = "yield"
      /\ ready' = ready \cup pending
  BY DEF RunYield, Running, Is
<1>2. /\ case \in Cases /\ CodeOK(code) /\ Progress(next - 1, ready, pending, filled)
      /\ next \in Nat /\ next >= 1 /\ Len(code) \in Nat /\ next \in 1 .. Len(code)
  BY <1>1, Runs
<1>3. case' = case /\ Stage' = Stage
  BY <1>1, PassingStep
<1>4. ASSUME NEW m \in pending
      PROVE  m \in CallIds(case) /\ Depth[m] >= 1 /\ Side[m] = At /\ Inner(m) \subseteq ready
  <2>1. Inner(m) \subseteq ready
    BY <1>2 DEF Progress
  <2>2. PICK s \in 1 .. next - 1 :
          code[s].do = "spawn" /\ code[s].n = m /\ ~YieldIn(code, s + 1, next - 1)
    BY <1>2 DEF Progress
  <2>3. s \in 1 .. Len(code) /\ s \in Nat
    BY <1>2
  <2>4. m \in CallIds(case) /\ Depth[m] >= 1
    <3>1. IsStatement(code[s])
      BY <1>2, <2>3 DEF CodeOK
    <3> QED BY <3>1, <2>2 DEF IsStatement, Fits, Direct
  <2>5. PICK y \in s + 1 .. Len(code) : code[y].do = "yield" /\ \A z \in s + 1 .. y : code[z].do \notin Direct
    BY <1>2, <2>2, <2>3 DEF CodeOK
  <2>6. y \notin s + 1 .. next - 1
    BY <2>2, <2>5 DEF YieldIn
  <2>7. \A z \in s + 1 .. next - 1 : z \in s + 1 .. y
    BY <1>2, <2>3, <2>5, <2>6
  <2>8. code[s].do # "guard" /\ \A z \in s + 1 .. next - 1 : code[z].do # "guard"
    BY <2>2, <2>5, <2>7 DEF Direct
  <2>9. Past(code, next) <=> Past(code, s)
    <3>1. \A z \in 1 .. next - 1 : z \in 1 .. s - 1 \/ z = s \/ z \in s + 1 .. next - 1
      BY <2>3
    <3>2. \A z \in 1 .. s - 1 : z \in 1 .. next - 1
      BY <1>2, <2>2
    <3> QED BY <3>1, <3>2, <2>8 DEF Past
  <2>10. Side[m] = 1 <=> Past(code, s)
    BY <1>2, <2>2, <2>3 DEF CodeOK, Calling
  <2>11. Side[m] \in {0, 1}
    BY <2>4, <1>2, SideFacts
  <2>12. Side[m] = At
    BY <2>9, <2>10, <2>11 DEF At
  <2> QED BY <2>1, <2>4, <2>12
<1> QED BY <1>1, <1>3, <1>4, EvaluateStep

LEMMA GuardStep ==
  ASSUME PlanInv, RunGuard
  PROVE  CBV!Guard
<1>1. /\ phase = "run" /\ Running /\ code[next].do = "guard" /\ ready' = ready /\ case' = case /\ code' = code
      /\ \/ phase' = phase /\ next' = next + 1
         \/ phase' = "other case"
  BY DEF RunGuard, Running, Is, genVars
<1>2. /\ case \in Cases /\ CodeOK(code) /\ next \in Nat /\ next \in 1 .. Len(code) /\ IsStatement(code[next])
      /\ next >= 1
  BY <1>1, Runs
<1>3. ~Past(code, next)
  BY <1>1, <1>2 DEF CodeOK
<1>4. At = 0 /\ Stage = "guard" /\ CBV!Needed = Outermost(Top, 0)
  <2>1. At = 0
    BY <1>3 DEF At
  <2>2. CBV!Needed = NeededAt(At)
    BY <1>1, <1>2, StageFacts
  <2>3. Stage = "guard"
    BY <1>1, <1>2, <1>3, StageFacts
  <2> QED BY <2>1, <2>2, <2>3 DEF NeededAt
<1>5. Outermost(Top, 0) \subseteq ready
  <2>1. Fits("guard", code[next].n, code[next].i)
    BY <1>1, <1>2 DEF IsStatement
  <2>2. code[next].n = Top /\ code[next].i = 0
    BY <2>1 DEF Fits
  <2>3. NeedsStatement(code[next]) = {<<k, 0>> : k \in Outermost(Top, 0)}
    <3>1. NeedsStatement(code[next]) = Needs("guard", Top, 0)
      BY <1>1, <2>2 DEF NeedsStatement
    <3> QED BY <3>1, NeedsFacts
  <2> QED BY <2>3, <1>1, HasNeeds
<1>6. Stage' \in {"result", "refused"}
  <2>1. CASE phase' = phase /\ next' = next + 1
    <3>1. next \in 1 .. next' - 1
      BY <2>1, <1>2
    <3>2. GuardPassed'
      BY <3>1, <1>1 DEF GuardPassed
    <3> QED BY <3>2, <2>1, <1>1 DEF Stage
  <2>2. CASE phase' = "other case"
    BY <2>2 DEF Stage
  <2> QED BY <2>1, <2>2, <1>1
<1> QED BY <1>1, <1>4, <1>5, <1>6 DEF CBV!Guard

LEMMA EndStep ==
  ASSUME PlanInv, RunEnd
  PROVE  CBV!Finish
<1>1. /\ phase = "run" /\ Running /\ code[next].do \in {"exit", "goto"} /\ ready' = ready /\ case' = case
      /\ phase' = "done"
  BY DEF RunEnd, Running, Is, runVars
<1>2. /\ case \in Cases /\ CodeOK(code) /\ next \in 1 .. Len(code) /\ IsStatement(code[next])
  BY <1>1, Runs
<1>3. Past(code, next)
  BY <1>1, <1>2 DEF CodeOK
<1>4. At = 1 /\ Stage = "result" /\ CBV!Needed = NeededAt(1)
  <2>1. At = 1
    BY <1>3 DEF At
  <2>2. CBV!Needed = NeededAt(At)
    BY <1>1, <1>2, StageFacts
  <2>3. Stage = "result"
    BY <1>1, <1>2, <1>3, StageFacts
  <2> QED BY <2>1, <2>2, <2>3
<1>5. Fits(code[next].do, code[next].n, code[next].i)
  BY <1>1, <1>2 DEF IsStatement
<1>6. NeededAt(1) \subseteq ready
  <2>1. CASE code[next].do = "exit"
    <3>1. ~TailRec(case) /\ code[next].n = Top /\ code[next].i = 1
      BY <2>1, <1>5 DEF Fits
    <3>2. NeedsStatement(code[next]) = {<<k, 0>> : k \in Outermost(Top, 1)}
      BY <2>1, <3>1, NeedsFacts DEF NeedsStatement
    <3>3. NeededAt(1) = Outermost(Top, 1)
      BY <3>1 DEF NeededAt
    <3> QED BY <3>2, <3>3, <1>1, HasNeeds
  <2>2. CASE code[next].do = "goto"
    <3>1. TailRec(case) /\ code[next].n = TailHead
      BY <2>2, <1>5 DEF Fits
    <3>2. NeedsStatement(code[next]) = {<<k, 0>> : k \in Inner(TailHead)}
      BY <2>2, <3>1, NeedsFacts DEF NeedsStatement
    <3>3. NeededAt(1) = Inner(TailHead)
      BY <3>1 DEF NeededAt
    <3> QED BY <3>2, <3>3, <1>1, HasNeeds
  <2> QED BY <2>1, <2>2, <1>1
<1>7. Stage' = "done"
  BY <1>1 DEF Stage
<1> QED BY <1>1, <1>4, <1>6, <1>7 DEF CBV!Finish

LEMMA StepImplements ==
  ASSUME PlanInv, [Next]_vars
  PROVE  CBV!Next \/ UNCHANGED CBV!vars
<1>1. CASE Optimize
  <2>1. phase = "optimize" /\ phase' = phase /\ case' = case /\ next' = next /\ ready' = ready
    BY <1>1 DEF Optimize, OptBegin, OptCall, OptOpen, OptClose, Determine, Optimizing, runVars
  <2> QED BY <2>1, BeforeRun
<1>2. CASE Generate
  <2>1. CASE StartGenerating
    <3>1. phase = "optimize" /\ phase' = "generate" /\ case' = case /\ next' = next /\ ready' = ready
      BY <2>1 DEF StartGenerating, runVars
    <3> QED BY <3>1, BeforeRun
  <2>2. CASE ~StartGenerating
    <3>1. /\ phase = "generate" /\ phase' \in {"generate", "failed", "undefined"}
          /\ case' = case /\ next' = next /\ ready' = ready
      BY <1>2, <2>2 DEF Generate, GenUndefined, GenCall, GenArg, GenSpawn, GenSeqFails, GenSeq, GenOutput,
         GenStatement, Generating, runVars
    <3> QED BY <3>1, BeforeRun
  <2> QED BY <2>1, <2>2
<1>3. CASE StartRunning
  <2>1. phase = "generate" /\ phase' = "run" /\ case' = case /\ next' = next /\ ready' = ready
    BY <1>3 DEF StartRunning, runVars
  <2> QED BY <2>1, BeforeRun
<1>4. CASE RunArg \/ RunSpawn \/ RunAssign
  <2>1. Running /\ phase' = phase /\ next' = next + 1 /\ code[next].do # "guard" /\ ready' = ready
    BY <1>4 DEF RunArg, RunSpawn, RunAssign, Is
  <2> QED BY <2>1, PassingStep DEF CBV!vars
<1>5. CASE RunSeq \/ RunYield \/ RunGuard \/ RunEnd
  BY <1>5, SeqStep, YieldStepIs, GuardStep, EndStep DEF CBV!Next
<1>6. CASE UNCHANGED vars
  <2>1. case' = case /\ phase' = phase /\ next' = next /\ ready' = ready /\ code' = code
    BY <1>6 DEF vars, genVars, runVars
  <2>2. Stage' = Stage
    BY <2>1, StableStage DEF GuardPassed
  <2> QED BY <2>1, <2>2 DEF CBV!vars
<1> QED BY <1>1, <1>2, <1>3, <1>4, <1>5, <1>6 DEF Next, Run, Stopped

LEMMA InitImplements ==
  ASSUME Init
  PROVE  CBV!Init
<1>1. case \in Cases /\ phase = "optimize" /\ next = 1 /\ ready = {}
  BY DEF Init
<1>2. ~GuardPassed
  BY <1>1 DEF GuardPassed
<1>3. Kids(case, Top, 0) = <<>> <=> Outermost(Top, 0) = {}
  <2>1. PICK s \in Seq(CallIds(case)) : s = Kids(case, Top, 0)
    BY <1>1, KidsFacts
  <2>2. s = <<>> <=> Elements(s) = {}
    <3>1. s # <<>> => 1 \in DOMAIN s
      BY <2>1
    <3>2. s = <<>> => DOMAIN s = {}
      OBVIOUS
    <3> QED BY <3>1, <3>2 DEF Elements
  <2> QED BY <2>1, <2>2 DEF Outermost
<1>4. CBV!Outermost(0, 0) = Outermost(Top, 0)
  BY <1>1, AbstractCase DEF Top
<1>5. Stage = IF CBV!Outermost(0, 0) = {} THEN "result" ELSE "guard"
  BY <1>1, <1>2, <1>3, <1>4 DEF Stage
<1> QED BY <1>1, <1>5 DEF CBV!Init

\* The tasks and the calls the task makes itself evaluate the case as its
\* calls are nested, whatever case is compiled and whatever runs as a task.
THEOREM PlanImplementsCallByValue == Spec => ImplementsCallByValue
<1>1. Init => CBV!Init
  BY InitImplements
<1>2. PlanInv /\ [Next]_vars => [CBV!Next]_(CBV!vars)
  BY StepImplements
<1> QED BY <1>1, <1>2, PlanInvariance, PTL DEF Spec, ImplementsCallByValue, CBV!Spec

=============================================================================
