---------------------------- MODULE PlanOwnCalls ----------------------------
(***************************************************************************)
(* Which calls the optimizer leaves to the task itself, for every case     *)
(* whose callees are names: of the calls of a level exactly one, and then  *)
(* the code generator has a place for each of them.                        *)
(*                                                                         *)
(* Both passes visit every call once.  While one is under way the calls    *)
(* are divided into those whose visit is still to come (C), those that     *)
(* are being visited (F), those hidden in calls to come (H) and those that *)
(* are done (D).  The optimizer has counted those that are done at the     *)
(* level they are at (Counted), so at the end of a side it has counted     *)
(* that side, and keeps one call of a level (Decided).  The generator      *)
(* meets a call at the same level and once; so when it meets one of the    *)
(* task's own, the place of its level is free.                             *)
(***************************************************************************)
EXTENDS ParallelPlanProofs, FiniteSetTheorems

\* The level that call k is counted at.
Nesting(k) == Depth[k] + (IF TailRec(case) /\ Side[k] = 1 THEN 1 ELSE 0)

OnSide(x) == {k \in CallIds(case) : Side[k] = x}
Members(x, l) == {k \in OnSide(x) : Nesting(k) = l}

\* What OneOwnCallPerLevel says of a level, if par are the parallel calls.
Decided(par, level) ==
  LET own == {m \in level : ~par[m]}
      others == {m \in level : ~case.rec[m]}
  IN CASE Cardinality(level) > 1 -> Cardinality(own) = 1 /\ (others # {} => own \subseteq others)
       [] Cardinality(level) <= 1 -> own = level \ others

-----------------------------------------------------------------------------
(* Traversals *)

Finishing == {"close", "spawn", "seq"}
Carrying == {"call"} \cup Finishing

\* The items of s are the calls C to come, and the ends of the calls F, each
\* once.
Once(s, C, F) ==
  /\ s \in Seq(ItemSet)
  /\ \A p \in 1 .. Len(s) :
       (s[p].op = "call" => s[p].n \in C) /\ (s[p].op \in Finishing => s[p].n \in F)
  /\ \A k \in C : \E p \in 1 .. Len(s) : s[p].op = "call" /\ s[p].n = k
  /\ \A k \in F : \E p \in 1 .. Len(s) : s[p].op \in Finishing /\ s[p].n = k
  /\ \A p, q \in 1 .. Len(s) :
       s[p].op \in Carrying /\ s[q].op \in Carrying /\ s[p].n = s[q].n => p = q

\* The calls of a part of the case while it is visited.
Tree(all, C, F, H, D) ==
  /\ C \cup F \cup H \cup D = all
  /\ C \cap F = {} /\ C \cap H = {} /\ C \cap D = {} /\ F \cap H = {} /\ F \cap D = {} /\ H \cap D = {}
  /\ \A k \in all : k \in H <=> case.at[k].in \in H \cup C

\* OptDepth before and after an item.
OptEnters(x) ==
  CASE x.op \in {"call", "open"} -> Nesting(x.n) - 1
    [] x.op = "close" -> Nesting(x.n)
    [] OTHER -> 0
OptLeaves(x) ==
  CASE x.op \in {"call", "close"} -> Nesting(x.n) - 1
    [] x.op = "open" -> Nesting(x.n)
    [] OTHER -> 0

\* The items of s lead from level a to level b.
Levelled(s, a, b) ==
  /\ s = <<>> => a = b
  /\ s # <<>> => OptEnters(s[1]) = a /\ OptLeaves(s[Len(s)]) = b
  /\ \A p \in 1 .. Len(s) - 1 : OptLeaves(s[p]) = OptEnters(s[p + 1])

-----------------------------------------------------------------------------
(* The invariant *)

\* The levels, c calls with a last recursive one r and another one o, hold the
\* calls done.
DoneAt(D, l) == {k \in D : Nesting(k) = l}
Counted(D, c, r, o) ==
  /\ \A k \in D : Nesting(k) \in 1 .. Len(c)
  /\ \A l \in 1 .. Len(c) :
       /\ c[l] = Cardinality(DoneAt(D, l))
       /\ r[l] = Null => \A k \in DoneAt(D, l) : ~case.rec[k]
       /\ r[l] # Null => r[l] \in DoneAt(D, l) /\ case.rec[r[l]]
       /\ o[l] = Null => \A k \in DoneAt(D, l) : case.rec[k]
       /\ o[l] # Null => o[l] \in DoneAt(D, l) /\ ~case.rec[o[l]]

\* What is left of the traversal after side x has been visited.
After(x) == IF x = 0 THEN OptVisits(case, 1) ELSE <<>>
AtEnd(x) == <<Item("determine", Top, x)>> \o After(x)

\* The optimizer is about to visit side x, or is visiting it: t is left, d is
\* OptDepth, and c, r, o are the levels.
Starting(x) ==
  /\ todo = OptVisits(case, x) \o After(x)
  /\ Calls = <<>> /\ LastRecCall = <<>> /\ LastOtherCall = <<>> /\ OptDepth = 0
Works(x, t, d, c, r, o) ==
  \E w \in Seq(ItemSet), C, F, H, D \in SUBSET CallIds(case) :
    /\ t = w \o AtEnd(x)
    /\ \A p \in 1 .. Len(w) : w[p].op \in {"call", "open", "close"}
    /\ Once(w, C, F) /\ Tree(OnSide(x), C, F, H, D)
    /\ Levelled(w, d, 0)
    /\ Counted(D, c, r, o)

DecidedSide(par, x) == \A l \in Nat : Decided(par, Members(x, l))
AllDecided(par) == DecidedSide(par, 0) /\ DecidedSide(par, 1)
Before(par, x) ==
  /\ x = 1 => DecidedSide(par, 0)
  /\ \A k \in CallIds(case) : Side[k] >= x => par[k]

OptOwn ==
  \/ \E x \in {0, 1} :
       /\ Starting(x) \/ Works(x, todo, OptDepth, Calls, LastRecCall, LastOtherCall)
       /\ Before(DoParallel, x)
  \/ todo = <<>> /\ AllDecided(DoParallel)

\* The places of the own calls sc hold calls that are done.
GenWorks(t, sc, par) ==
  /\ \E C, F, H, D \in SUBSET CallIds(case) :
       /\ Once(t, C, F) /\ Tree(CallIds(case), C, F, H, D)
       /\ \A l \in 1 .. Len(sc) : sc[l] # Null => sc[l] \in D
  /\ \A p \in 1 .. Len(t) : t[p].op = "seq" => ~par[t[p].n]
  /\ \A l \in 1 .. Len(sc) : sc[l] # Null => ~par[sc[l]]

OwnInv ==
  /\ PlanInv
  /\ NamedCallees(case) =>
       /\ phase = "optimize" => OptOwn
       /\ phase \in {"generate", "run"} => AllDecided(DoParallel)
       /\ phase = "generate" => GenWorks(todo, SequentialCall, DoParallel)
       /\ phase # "failed"

-----------------------------------------------------------------------------
(* Sequences that hold items once *)

LEMMA OnceEmpty == Once(<<>>, {}, {})
BY DEF Once

LEMMA OnceConcat ==
  ASSUME NEW s, NEW t, NEW C, NEW F, NEW B, NEW E, Once(s, C, F), Once(t, B, E),
         (C \cup F) \cap (B \cup E) = {}
  PROVE  Once(s \o t, C \cup B, F \cup E)
<1>1. s \in Seq(ItemSet) /\ t \in Seq(ItemSet)
  BY DEF Once
<1>2. PICK u : u = s \o t
  OBVIOUS
<1>3. PICK a \in Nat, b \in Nat : a = Len(s) /\ b = Len(t)
  BY <1>1
<1>4. /\ u \in Seq(ItemSet) /\ Len(u) = a + b
      /\ \A q \in 1 .. a : u[q] = s[q]
      /\ \A q \in 1 .. b : u[a + q] = t[q]
  BY <1>1, <1>2, <1>3, ConcatFacts
<1>5. \A p \in 1 .. a + b :
        \/ p \in 1 .. a /\ u[p] = s[p]
        \/ \E q \in 1 .. b : p = a + q /\ u[p] = t[q]
  <2>1. ASSUME NEW p \in 1 .. a + b, p \notin 1 .. a
        PROVE  \E q \in 1 .. b : p = a + q /\ u[p] = t[q]
    <3>1. p - a \in 1 .. b /\ p = a + (p - a)
      BY <2>1
    <3>2. u[a + (p - a)] = t[p - a]
      BY <3>1, <1>4
    <3> QED BY <3>1, <3>2
  <2> QED BY <2>1, <1>4
<1>6. /\ \A p \in 1 .. a : (s[p].op = "call" => s[p].n \in C) /\ (s[p].op \in Finishing => s[p].n \in F)
      /\ \A k \in C : \E p \in 1 .. a : s[p].op = "call" /\ s[p].n = k
      /\ \A k \in F : \E p \in 1 .. a : s[p].op \in Finishing /\ s[p].n = k
      /\ \A p, q \in 1 .. a :
           s[p].op \in Carrying /\ s[q].op \in Carrying /\ s[p].n = s[q].n => p = q
  BY <1>3 DEF Once
<1>7. /\ \A p \in 1 .. b : (t[p].op = "call" => t[p].n \in B) /\ (t[p].op \in Finishing => t[p].n \in E)
      /\ \A k \in B : \E p \in 1 .. b : t[p].op = "call" /\ t[p].n = k
      /\ \A k \in E : \E p \in 1 .. b : t[p].op \in Finishing /\ t[p].n = k
      /\ \A p, q \in 1 .. b :
           t[p].op \in Carrying /\ t[q].op \in Carrying /\ t[p].n = t[q].n => p = q
  BY <1>3 DEF Once
<1>8. ASSUME NEW p \in 1 .. a + b
      PROVE  (u[p].op = "call" => u[p].n \in C \cup B) /\ (u[p].op \in Finishing => u[p].n \in F \cup E)
  <2>1. CASE p \in 1 .. a /\ u[p] = s[p]
    BY <2>1, <1>6
  <2>2. CASE \E q \in 1 .. b : p = a + q /\ u[p] = t[q]
    BY <2>2, <1>7
  <2> QED BY <2>1, <2>2, <1>5
<1>9. ASSUME NEW k, NEW T, (\E p \in 1 .. a : s[p].op \in T /\ s[p].n = k) \/ (\E p \in 1 .. b : t[p].op \in T /\ t[p].n = k)
      PROVE  \E p \in 1 .. a + b : u[p].op \in T /\ u[p].n = k
  <2>1. CASE \E p \in 1 .. a : s[p].op \in T /\ s[p].n = k
    <3>1. PICK p \in 1 .. a : s[p].op \in T /\ s[p].n = k
      BY <2>1
    <3>2. p \in 1 .. a + b /\ u[p] = s[p]
      BY <1>4
    <3> QED BY <3>1, <3>2
  <2>2. CASE \E p \in 1 .. b : t[p].op \in T /\ t[p].n = k
    <3>1. PICK p \in 1 .. b : t[p].op \in T /\ t[p].n = k
      BY <2>2
    <3>2. a + p \in 1 .. a + b /\ u[a + p] = t[p]
      BY <1>4
    <3> QED BY <3>1, <3>2
  <2> QED BY <1>9, <2>1, <2>2
<1>10. \A k \in C \cup B : \E p \in 1 .. a + b : u[p].op = "call" /\ u[p].n = k
  <2>1. ASSUME NEW k \in C \cup B PROVE \E p \in 1 .. a + b : u[p].op \in {"call"} /\ u[p].n = k
    <3>1. (\E p \in 1 .. a : s[p].op \in {"call"} /\ s[p].n = k) \/ (\E p \in 1 .. b : t[p].op \in {"call"} /\ t[p].n = k)
      BY <1>6, <1>7
    <3> QED BY <3>1, <1>9
  <2> QED BY <2>1
<1>11. \A k \in F \cup E : \E p \in 1 .. a + b : u[p].op \in Finishing /\ u[p].n = k
  BY <1>6, <1>7, <1>9
<1>12. ASSUME NEW p \in 1 .. a + b, NEW q \in 1 .. a + b,
              u[p].op \in Carrying, u[q].op \in Carrying, u[p].n = u[q].n
       PROVE  p = q
  <2>1. /\ p \in 1 .. a /\ u[p] = s[p] => u[p].n \in C \cup F
        /\ q \in 1 .. a /\ u[q] = s[q] => u[q].n \in C \cup F
    BY <1>6, <1>12 DEF Carrying
  <2>2. /\ (\E j \in 1 .. b : p = a + j /\ u[p] = t[j]) => u[p].n \in B \cup E
        /\ (\E j \in 1 .. b : q = a + j /\ u[q] = t[j]) => u[q].n \in B \cup E
    BY <1>7, <1>12 DEF Carrying
  <2>3. CASE p \in 1 .. a /\ u[p] = s[p] /\ q \in 1 .. a /\ u[q] = s[q]
    BY <2>3, <1>6, <1>12
  <2>4. CASE (\E j \in 1 .. b : p = a + j /\ u[p] = t[j]) /\ (\E j \in 1 .. b : q = a + j /\ u[q] = t[j])
    <3>1. PICK i \in 1 .. b : p = a + i /\ u[p] = t[i]
      BY <2>4
    <3>2. PICK j \in 1 .. b : q = a + j /\ u[q] = t[j]
      BY <2>4
    <3>3. i = j
      BY <3>1, <3>2, <1>7, <1>12
    <3> QED BY <3>1, <3>2, <3>3
  <2> QED BY <2>1, <2>2, <2>3, <2>4, <1>5, <1>12
<1>13. Once(u, C \cup B, F \cup E)
  BY <1>4, <1>8, <1>10, <1>11, <1>12 DEF Once
<1> QED BY <1>2, <1>13

\* An item that neither visits a call nor ends one.
LEMMA OnceOther ==
  ASSUME NEW x \in ItemSet, x.op \notin Carrying
  PROVE  Once(<<x>>, {}, {})
<1>1. <<x>> \in Seq(ItemSet) /\ Len(<<x>>) = 1 /\ <<x>>[1] = x
  OBVIOUS
<1> QED BY <1>1 DEF Once, Carrying

\* The end of a call.
LEMMA OnceEnd ==
  ASSUME NEW x \in ItemSet, x.op \in Finishing
  PROVE  Once(<<x>>, {}, {x.n})
<1>1. <<x>> \in Seq(ItemSet) /\ Len(<<x>>) = 1 /\ <<x>>[1] = x
  OBVIOUS
<1>2. x.op # "call"
  BY DEF Finishing
<1> QED BY <1>1, <1>2 DEF Once

\* What is left after the first item.
OnceRest(r, s, C, F) ==
  /\ s[1].op = "call" => s[1].n \in C /\ s[1].n \notin F /\ Once(r, C \ {s[1].n}, F)
  /\ s[1].op \in Finishing => s[1].n \in F /\ s[1].n \notin C /\ Once(r, C, F \ {s[1].n})
  /\ s[1].op \notin Carrying => Once(r, C, F)

LEMMA OnceTail ==
  ASSUME NEW s, NEW C, NEW F, Once(s, C, F), s # <<>>
  PROVE  OnceRest(Tail(s), s, C, F)
<1>1. s \in Seq(ItemSet)
  BY DEF Once
<1>2. PICK r : r = Tail(s)
  OBVIOUS
<1>3. PICK n \in Nat : n = Len(s)
  BY <1>1
<1>4. /\ r \in Seq(ItemSet) /\ n >= 1 /\ Len(r) = n - 1
      /\ \A p \in 1 .. n - 1 : r[p] = s[p + 1]
  <2>1. IsTail(Tail(s), s, ItemSet)
    BY <1>1, TailIndex
  <2> QED BY <2>1, <1>2, <1>3 DEF IsTail
<1>5. /\ \A p \in 1 .. n : (s[p].op = "call" => s[p].n \in C) /\ (s[p].op \in Finishing => s[p].n \in F)
      /\ \A k \in C : \E p \in 1 .. n : s[p].op = "call" /\ s[p].n = k
      /\ \A k \in F : \E p \in 1 .. n : s[p].op \in Finishing /\ s[p].n = k
      /\ \A p, q \in 1 .. n :
           s[p].op \in Carrying /\ s[q].op \in Carrying /\ s[p].n = s[q].n => p = q
  BY <1>3 DEF Once
<1>6. 1 \in 1 .. n /\ \A p \in 1 .. n - 1 : p + 1 \in 1 .. n /\ p + 1 # 1
  BY <1>4
<1>7. \A p \in 2 .. n : p - 1 \in 1 .. n - 1 /\ r[p - 1] = s[p]
  <2>1. ASSUME NEW p \in 2 .. n PROVE p - 1 \in 1 .. n - 1 /\ r[p - 1] = s[p]
    <3>1. p - 1 \in 1 .. n - 1 /\ (p - 1) + 1 = p
      OBVIOUS
    <3>2. r[p - 1] = s[(p - 1) + 1]
      BY <3>1, <1>4
    <3> QED BY <3>1, <3>2
  <2> QED BY <2>1
<1>8. \A p \in 1 .. n - 1 : (r[p].op = "call" => r[p].n \in C) /\ (r[p].op \in Finishing => r[p].n \in F)
  BY <1>4, <1>5, <1>6
<1>9. ASSUME NEW p \in 1 .. n - 1, NEW q \in 1 .. n - 1,
             r[p].op \in Carrying, r[q].op \in Carrying, r[p].n = r[q].n
      PROVE  p = q
  <2>1. r[p] = s[p + 1] /\ r[q] = s[q + 1] /\ p + 1 \in 1 .. n /\ q + 1 \in 1 .. n
    BY <1>4, <1>6
  <2>2. p + 1 = q + 1
    BY <2>1, <1>5, <1>9
  <2> QED BY <2>2
<1>10. ASSUME s[1].op \in Carrying, NEW p \in 1 .. n - 1, r[p].op \in Carrying
       PROVE  r[p].n # s[1].n
  <2>1. r[p] = s[p + 1] /\ p + 1 \in 1 .. n /\ p + 1 # 1
    BY <1>4, <1>6
  <2> QED BY <2>1, <1>5, <1>6, <1>10
<1>11. ASSUME NEW k, NEW T, \E p \in 1 .. n : s[p].op \in T /\ s[p].n = k,
              ~(s[1].op \in T /\ s[1].n = k)
       PROVE  \E p \in 1 .. n - 1 : r[p].op \in T /\ r[p].n = k
  <2>1. PICK p \in 1 .. n : s[p].op \in T /\ s[p].n = k
    BY <1>11
  <2>2. p # 1
    BY <2>1, <1>11
  <2>3. p \in 2 .. n
    BY <2>2
  <2> QED BY <2>1, <2>3, <1>7
<1>12. \A k \in C : s[1].op # "call" \/ s[1].n # k => \E p \in 1 .. n - 1 : r[p].op = "call" /\ r[p].n = k
  <2>1. ASSUME NEW k \in C, s[1].op # "call" \/ s[1].n # k
        PROVE  \E p \in 1 .. n - 1 : r[p].op \in {"call"} /\ r[p].n = k
    <3>1. \E p \in 1 .. n : s[p].op \in {"call"} /\ s[p].n = k
      BY <1>5
    <3>2. ~(s[1].op \in {"call"} /\ s[1].n = k)
      BY <2>1
    <3> QED BY <3>1, <3>2, <1>11
  <2> QED BY <2>1
<1>13. \A k \in F : s[1].op \notin Finishing \/ s[1].n # k => \E p \in 1 .. n - 1 : r[p].op \in Finishing /\ r[p].n = k
  BY <1>5, <1>11
<1>14. CASE s[1].op = "call"
  <2>1. s[1].op \in Carrying /\ s[1].op \notin Finishing
    BY <1>14 DEF Carrying, Finishing
  <2>2. s[1].n \in C
    BY <1>5, <1>6, <1>14
  <2>3. s[1].n \notin F
    <3>1. SUFFICES ASSUME s[1].n \in F PROVE FALSE
      OBVIOUS
    <3>2. PICK p \in 1 .. n : s[p].op \in Finishing /\ s[p].n = s[1].n
      BY <3>1, <1>5
    <3>3. p = 1
      BY <3>2, <2>1, <1>5, <1>6 DEF Carrying
    <3> QED BY <3>2, <3>3, <2>1
  <2>4. Once(r, C \ {s[1].n}, F)
    <3>1. \A p \in 1 .. n - 1 : (r[p].op = "call" => r[p].n \in C \ {s[1].n}) /\ (r[p].op \in Finishing => r[p].n \in F)
      BY <2>1, <1>8, <1>10 DEF Carrying
    <3>2. \A k \in C \ {s[1].n} : \E p \in 1 .. n - 1 : r[p].op = "call" /\ r[p].n = k
      BY <1>12
    <3>3. \A k \in F : \E p \in 1 .. n - 1 : r[p].op \in Finishing /\ r[p].n = k
      BY <2>1, <1>13
    <3> QED BY <3>1, <3>2, <3>3, <1>4, <1>9 DEF Once
  <2> QED BY <2>1, <2>2, <2>3, <2>4, <1>2, <1>14 DEF OnceRest
<1>15. CASE s[1].op \in Finishing
  <2>1. s[1].op \in Carrying /\ s[1].op # "call"
    BY <1>15 DEF Carrying, Finishing
  <2>2. s[1].n \in F
    BY <1>5, <1>6, <1>15
  <2>3. s[1].n \notin C
    <3>1. SUFFICES ASSUME s[1].n \in C PROVE FALSE
      OBVIOUS
    <3>2. PICK p \in 1 .. n : s[p].op = "call" /\ s[p].n = s[1].n
      BY <3>1, <1>5
    <3>3. p = 1
      BY <3>2, <2>1, <1>5, <1>6 DEF Carrying
    <3> QED BY <3>2, <3>3, <2>1
  <2>4. Once(r, C, F \ {s[1].n})
    <3>1. \A p \in 1 .. n - 1 : (r[p].op = "call" => r[p].n \in C) /\ (r[p].op \in Finishing => r[p].n \in F \ {s[1].n})
      BY <2>1, <1>8, <1>10 DEF Carrying
    <3>2. \A k \in C : \E p \in 1 .. n - 1 : r[p].op = "call" /\ r[p].n = k
      BY <2>1, <1>12
    <3>3. \A k \in F \ {s[1].n} : \E p \in 1 .. n - 1 : r[p].op \in Finishing /\ r[p].n = k
      BY <1>13
    <3> QED BY <3>1, <3>2, <3>3, <1>4, <1>9 DEF Once
  <2> QED BY <2>1, <2>2, <2>3, <2>4, <1>2, <1>15 DEF OnceRest
<1>16. CASE s[1].op \notin Carrying
  <2>1. s[1].op # "call" /\ s[1].op \notin Finishing
    BY <1>16 DEF Carrying
  <2>2. Once(r, C, F)
    BY <2>1, <1>4, <1>8, <1>9, <1>12, <1>13 DEF Once
  <2> QED BY <2>1, <2>2, <1>2, <1>16 DEF OnceRest
<1> QED BY <1>14, <1>15, <1>16 DEF Carrying

\* The calls of a slot are visited once each.
LEMMA OnceVisits ==
  ASSUME case \in Cases, NEW m, NEW i
  PROVE  Once(Visits(Kids(case, m, i)), Outermost(m, i), {})
<1> DEFINE s == Kids(case, m, i)
           v == Visits(s)
<1>1. s \in Seq(CallIds(case)) /\ Outermost(m, i) = Elements(s)
  BY KidsFacts DEF Outermost
<1>2. v \in Seq(ItemSet)
  BY VisitsFacts
<1>3. \A a, b \in DOMAIN s : a < b => s[a] < s[b]
  BY KidsFacts
<1>4. v = [p \in DOMAIN s |-> Item("call", s[p], 0)]
  BY DEF Visits
<1> HIDE DEF s, v
<1>5. PICK n \in Nat : n = Len(s)
  BY <1>1
<1>6. DOMAIN s = 1 .. n /\ \A p \in 1 .. n : s[p] \in Nat
  <2>1. DOMAIN s = 1 .. n /\ \A p \in 1 .. n : s[p] \in CallIds(case)
    BY <1>1, <1>5
  <2> QED BY <2>1, CaseFacts
<1>7. Len(v) = n
  BY <1>2, <1>4, <1>6
<1>8. \A p \in 1 .. n : v[p].op = "call" /\ v[p].n = s[p]
  BY <1>4, <1>6 DEF Item
<1>9. ASSUME NEW p \in 1 .. n, NEW q \in 1 .. n, s[p] = s[q] PROVE p = q
  <2>1. ~(s[p] < s[q]) /\ ~(s[q] < s[p])
    BY <1>6, <1>9
  <2>2. ~(p < q) /\ ~(q < p)
    BY <2>1, <1>3, <1>6
  <2> QED BY <2>2
<1>10. \A p \in 1 .. n : s[p] \in Elements(s)
  BY <1>6 DEF Elements
<1>11. \A k \in Elements(s) : \E p \in 1 .. n : s[p] = k
  BY <1>6 DEF Elements
<1>12. Once(v, Elements(s), {})
  BY <1>2, <1>7, <1>8, <1>9, <1>10, <1>11 DEF Once, Finishing
<1> QED BY <1>1, <1>12 DEF v, s

\* Sequences one after the other, each with calls of its own.
LEMMA OnceFlatten ==
  ASSUME NEW ss \in Seq(Seq(ItemSet)), NEW T,
         \A i \in 1 .. Len(ss) : Once(ss[i], T[i], {}),
         \A i, j \in 1 .. Len(ss) : i # j => T[i] \cap T[j] = {}
  PROVE  Once(FlattenSeq(ss), UNION {T[i] : i \in 1 .. Len(ss)}, {})
<1>1. PICK n \in Nat : n = Len(ss)
  OBVIOUS
<1> DEFINE U(k) == UNION {T[i] : i \in 1 .. k}
           J == Joined(ss, n)
           G == {k \in Nat : k <= n => Once(J[k], U(k), {})}
<1>2. J[0] = <<>> /\ \A i \in 1 .. n : J[i] = J[i - 1] \o ss[i]
  BY JoinedDef
<1>3. FlattenSeq(ss) = J[n]
  BY <1>1, FlattenIsJoined
<1> HIDE DEF J
<1>4. 0 \in G
  <2>1. U(0) = {}
    OBVIOUS
  <2> HIDE DEF U
  <2> QED BY <2>1, <1>2, OnceEmpty
<1>5. ASSUME NEW k \in Nat, k \in G PROVE k + 1 \in G
  <2>1. SUFFICES ASSUME k + 1 <= n PROVE Once(J[k + 1], U(k + 1), {})
    OBVIOUS
  <2>2. k + 1 \in 1 .. n /\ k <= n /\ (k + 1) - 1 = k
    BY <2>1
  <2>3. Once(J[k], U(k), {})
    BY <1>5, <2>2
  <2>4. J[k + 1] = J[k] \o ss[k + 1]
    <3>1. J[k + 1] = J[(k + 1) - 1] \o ss[k + 1]
      BY <2>2, <1>2
    <3> QED BY <3>1, <2>2
  <2>5. Once(ss[k + 1], T[k + 1], {})
    BY <2>2, <1>1
  <2>6. U(k) \cap T[k + 1] = {}
    <3>1. ASSUME NEW i \in 1 .. k PROVE T[i] \cap T[k + 1] = {}
      <4>1. i \in 1 .. Len(ss) /\ k + 1 \in 1 .. Len(ss) /\ i # k + 1
        BY <2>2, <1>1
      <4> QED BY <4>1
    <3> QED BY <3>1
  <2>7. U(k + 1) = U(k) \cup T[k + 1]
    <3>1. 1 .. k + 1 = (1 .. k) \cup {k + 1}
      OBVIOUS
    <3> QED BY <3>1
  <2> HIDE DEF U
  <2>8. Once(J[k] \o ss[k + 1], U(k) \cup T[k + 1], {} \cup {})
    <3>1. (U(k) \cup {}) \cap (T[k + 1] \cup {}) = {}
      BY <2>6
    <3> QED BY <2>3, <2>5, <3>1, OnceConcat
  <2> QED BY <2>4, <2>7, <2>8
<1>6. n \in G
  <2> HIDE DEF G
  <2> QED BY <1>4, <1>5, SimpleInduction
<1>7. Once(J[n], U(n), {})
  <2> HIDE DEF U
  <2> QED BY <1>6
<1> QED BY <1>1, <1>3, <1>7

LEMMA SlotsDisjoint ==
  ASSUME case \in Cases, NEW m, NEW i, NEW j, i # j
  PROVE  Outermost(m, i) \cap Outermost(m, j) = {}
<1>1. /\ Outermost(m, i) = {k \in CallIds(case) : case.at[k] = [in |-> m, slot |-> i]}
      /\ Outermost(m, j) = {k \in CallIds(case) : case.at[k] = [in |-> m, slot |-> j]}
  BY KidsFacts
<1>2. [in |-> m, slot |-> i].slot = i /\ [in |-> m, slot |-> j].slot = j
  OBVIOUS
<1> QED BY <1>1, <1>2

LEMMA ArgumentsAreInner ==
  ASSUME case \in Cases, NEW m \in CallIds(case), Kids(case, m, 0) = <<>>
  PROVE  Inner(m) = UNION {Outermost(m, i) : i \in 1 .. Slots}
<1>1. Outermost(m, 0) = {}
  BY DEF Outermost, Elements
<1>2. Slots \in Nat
  BY CaseFacts
<1>3. ASSUME NEW k \in Inner(m) PROVE k \in UNION {Outermost(m, i) : i \in 1 .. Slots}
  <2>1. k \in CallIds(case)
    BY DEF Inner
  <2>2. PICK i \in 0 .. Slots : k \in Outermost(m, i)
    BY <2>1, InnerFacts
  <2>3. i \in 1 .. Slots
    BY <2>2, <1>1, <1>2
  <2> QED BY <2>2, <2>3
<1>4. ASSUME NEW i \in 1 .. Slots, NEW k \in Outermost(m, i) PROVE k \in Inner(m)
  <2>1. k \in CallIds(case)
    BY OutermostIds
  <2> QED BY <2>1, InnerFacts
<1> QED BY <1>3, <1>4

\* The visits of the arguments, alone and with what follows each.
LEMMA OnceArgVisits ==
  ASSUME case \in Cases, NEW m \in CallIds(case), Kids(case, m, 0) = <<>>
  PROVE  Once(ArgVisits(m), Inner(m), {})
<1> DEFINE ss == [i \in 1 .. Slots |-> Visits(Kids(case, m, i))]
           T == [i \in 1 .. Slots |-> Outermost(m, i)]
<1>1. Slots \in Nat
  BY CaseFacts
<1>2. \A i \in 1 .. Slots : ss[i] \in Seq(ItemSet) /\ Once(ss[i], T[i], {})
  BY OnceVisits, VisitsFacts
<1>3. ss \in [1 .. Slots -> Seq(ItemSet)]
  BY <1>2
<1>4. \A i, j \in 1 .. Slots : i # j => T[i] \cap T[j] = {}
  BY SlotsDisjoint
<1>5. ArgVisits(m) = FlattenSeq(ss)
  BY DEF ArgVisits
<1>6. \A i \in 1 .. Slots : T[i] = Outermost(m, i)
  OBVIOUS
<1> HIDE DEF ss, T
<1>7. ss \in Seq(Seq(ItemSet)) /\ Len(ss) = Slots
  BY <1>1, <1>3
<1>8. Once(FlattenSeq(ss), UNION {T[i] : i \in 1 .. Slots}, {})
  BY <1>2, <1>4, <1>7, OnceFlatten
<1>9. UNION {T[i] : i \in 1 .. Slots} = Inner(m)
  BY <1>6, ArgumentsAreInner
<1> QED BY <1>5, <1>8, <1>9

LEMMA OnceArgStatements ==
  ASSUME case \in Cases, NEW m \in CallIds(case), Kids(case, m, 0) = <<>>
  PROVE  Once(ArgStatements(m), Inner(m), {})
<1> DEFINE ss == [i \in 1 .. Slots |-> Append(Visits(Kids(case, m, i)), Item("arg", m, i))]
           T == [i \in 1 .. Slots |-> Outermost(m, i)]
<1>1. Slots \in Nat /\ m \in Nat
  BY CaseFacts
<1>2. ASSUME NEW i \in 1 .. Slots
      PROVE  /\ Append(Visits(Kids(case, m, i)), Item("arg", m, i)) \in Seq(ItemSet)
             /\ Once(Append(Visits(Kids(case, m, i)), Item("arg", m, i)), Outermost(m, i), {})
  <2>1. PICK v \in Seq(ItemSet) : v = Visits(Kids(case, m, i))
    BY VisitsFacts
  <2>2. PICK x \in ItemSet : x = Item("arg", m, i) /\ x.op = "arg"
    <3>1. Item("arg", m, i) \in ItemSet /\ Item("arg", m, i).op = "arg"
      BY <1>1, ItemFacts DEF Ops
    <3> QED BY <3>1
  <2>3. Append(v, x) = v \o <<x>> /\ Append(v, x) \in Seq(ItemSet)
    OBVIOUS
  <2>4. Once(v, Outermost(m, i), {})
    BY <2>1, OnceVisits
  <2>5. Once(<<x>>, {}, {})
    BY <2>2, OnceOther DEF Carrying, Finishing
  <2>6. Once(v \o <<x>>, Outermost(m, i) \cup {}, {} \cup {})
    BY <2>4, <2>5, OnceConcat
  <2> QED BY <2>1, <2>2, <2>3, <2>6
<1>3. \A i \in 1 .. Slots : ss[i] \in Seq(ItemSet) /\ Once(ss[i], T[i], {})
  BY <1>2
<1>4. ss \in [1 .. Slots -> Seq(ItemSet)]
  BY <1>3
<1>5. \A i, j \in 1 .. Slots : i # j => T[i] \cap T[j] = {}
  BY SlotsDisjoint
<1>6. ArgStatements(m) = FlattenSeq(ss)
  BY DEF ArgStatements
<1>7. \A i \in 1 .. Slots : T[i] = Outermost(m, i)
  OBVIOUS
<1> HIDE DEF ss, T
<1>8. ss \in Seq(Seq(ItemSet)) /\ Len(ss) = Slots
  BY <1>1, <1>4
<1>9. Once(FlattenSeq(ss), UNION {T[i] : i \in 1 .. Slots}, {})
  BY <1>3, <1>5, <1>8, OnceFlatten
<1>10. UNION {T[i] : i \in 1 .. Slots} = Inner(m)
  BY <1>7, ArgumentsAreInner
<1> QED BY <1>6, <1>9, <1>10

LEMMA PairConcat ==
  ASSUME NEW S, NEW x \in S, NEW y \in S
  PROVE  <<x, y>> = <<x>> \o <<y>>
<1>1. PICK a \in Seq(S), b \in Seq(S) : a = <<x>> /\ b = <<y>> /\ Len(a) = 1 /\ Len(b) = 1 /\ a[1] = x /\ b[1] = y
  <2>1. <<x>> \in Seq(S) /\ Len(<<x>>) = 1 /\ <<x>>[1] = x
    OBVIOUS
  <2>2. <<y>> \in Seq(S) /\ Len(<<y>>) = 1 /\ <<y>>[1] = y
    OBVIOUS
  <2> QED BY <2>1, <2>2
<1>2. PICK u : u = a \o b
  OBVIOUS
<1>3. u \in Seq(S) /\ Len(u) = 2 /\ u[1] = x /\ u[2] = y
  <2>1. /\ u \in Seq(S) /\ Len(u) = Len(a) + Len(b)
        /\ \A q \in 1 .. Len(a) : u[q] = a[q]
        /\ \A q \in 1 .. Len(b) : u[Len(a) + q] = b[q]
    BY <1>1, <1>2, ConcatFacts
  <2>2. u[1 + 1] = b[1] /\ u[1] = a[1]
    <3>1. 1 \in 1 .. Len(a) /\ 1 \in 1 .. Len(b)
      BY <1>1
    <3> QED BY <3>1, <2>1, <1>1
  <2>3. Len(u) = 2 /\ 1 + 1 = 2
    BY <2>1, <1>1
  <2> QED BY <2>1, <2>2, <2>3, <1>1
<1>4. u = [i \in 1 .. 2 |-> IF i = 1 THEN x ELSE y]
  <2>1. u = [i \in 1 .. 2 |-> u[i]]
    BY <1>3
  <2> QED BY <2>1, <1>3
<1>5. <<x, y>> = [i \in 1 .. 2 |-> IF i = 1 THEN x ELSE y]
  OBVIOUS
<1>6. u = <<x, y>>
  BY <1>4, <1>5
<1> QED BY <1>1, <1>2, <1>6

LEMMA OnceTailVisits ==
  ASSUME case \in Cases, NEW m \in CallIds(case), Kids(case, m, 0) = <<>>
  PROVE  Once(TailVisits(m), Inner(m), {})
<1> DEFINE o == Item("output", m, 0)
           a(i) == Item("assign", m, i)
           ss == [i \in 1 .. Slots |-> Visits(Kids(case, m, i)) \o <<o, a(i)>>]
           T == [i \in 1 .. Slots |-> Outermost(m, i)]
           g == <<Item("goto", m, 0)>>
<1>1. Slots \in Nat /\ m \in Nat
  BY CaseFacts
<1>2. ASSUME NEW i \in 1 .. Slots
      PROVE  /\ Visits(Kids(case, m, i)) \o <<o, a(i)>> \in Seq(ItemSet)
             /\ Once(Visits(Kids(case, m, i)) \o <<o, a(i)>>, Outermost(m, i), {})
  <2>1. PICK v \in Seq(ItemSet) : v = Visits(Kids(case, m, i))
    BY VisitsFacts
  <2>2. PICK x \in ItemSet, y \in ItemSet : x = o /\ y = a(i) /\ x.op = "output" /\ y.op = "assign"
    <3>1. o \in ItemSet /\ o.op = "output"
      BY <1>1, ItemFacts DEF Ops
    <3>2. a(i) \in ItemSet /\ a(i).op = "assign"
      BY <1>1, ItemFacts DEF Ops, Direct
    <3> QED BY <3>1, <3>2
  <2>3. <<x, y>> = <<x>> \o <<y>> /\ v \o <<x, y>> \in Seq(ItemSet)
    <3>1. <<x, y>> = <<x>> \o <<y>>
      BY PairConcat
    <3>2. <<x, y>> \in Seq(ItemSet)
      OBVIOUS
    <3>3. v \o <<x, y>> \in Seq(ItemSet)
      BY <3>2, ConcatFacts
    <3> QED BY <3>1, <3>3
  <2>4. Once(v, Outermost(m, i), {})
    BY <2>1, OnceVisits
  <2>5. Once(<<x>>, {}, {}) /\ Once(<<y>>, {}, {})
    BY <2>2, OnceOther DEF Carrying, Finishing
  <2>6. Once(<<x>> \o <<y>>, {} \cup {}, {} \cup {})
    BY <2>5, OnceConcat
  <2>7. Once(v \o (<<x>> \o <<y>>), Outermost(m, i) \cup ({} \cup {}), {} \cup ({} \cup {}))
    BY <2>4, <2>6, OnceConcat
  <2> QED BY <2>1, <2>2, <2>3, <2>7
<1>3. \A i \in 1 .. Slots : ss[i] \in Seq(ItemSet) /\ Once(ss[i], T[i], {})
  BY <1>2
<1>4. ss \in [1 .. Slots -> Seq(ItemSet)]
  BY <1>3
<1>5. \A i, j \in 1 .. Slots : i # j => T[i] \cap T[j] = {}
  BY SlotsDisjoint
<1>6. TailVisits(m) = FlattenSeq(ss) \o g
  BY DEF TailVisits
<1>7. \A i \in 1 .. Slots : T[i] = Outermost(m, i)
  OBVIOUS
<1>8. Once(g, {}, {})
  <2>1. Item("goto", m, 0) \in ItemSet /\ Item("goto", m, 0).op = "goto"
    BY <1>1, ItemFacts DEF Ops, Direct
  <2> QED BY <2>1, OnceOther DEF Carrying, Finishing
<1> HIDE DEF ss, T, g
<1>9. ss \in Seq(Seq(ItemSet)) /\ Len(ss) = Slots
  BY <1>1, <1>4
<1>10. Once(FlattenSeq(ss), UNION {T[i] : i \in 1 .. Slots}, {})
  BY <1>3, <1>5, <1>9, OnceFlatten
<1>11. UNION {T[i] : i \in 1 .. Slots} = Inner(m)
  BY <1>7, ArgumentsAreInner
<1>12. Once(FlattenSeq(ss) \o g, Inner(m) \cup {}, {} \cup {})
  BY <1>8, <1>10, <1>11, OnceConcat
<1> QED BY <1>6, <1>12

-----------------------------------------------------------------------------
(* The calls of a traversal *)

\* The call m is visited: its parts are to come and then its end.
LEMMA TreeVisit ==
  ASSUME case \in Cases, NEW all \in SUBSET CallIds(case), NEW C, NEW F, NEW H, NEW D,
         Tree(all, C, F, H, D), NEW m \in C, Inner(m) \subseteq all
  PROVE  /\ Tree(all, (C \ {m}) \cup Inner(m), F \cup {m}, H \ Inner(m), D)
         /\ Inner(m) \subseteq H /\ m \notin Inner(m)
<1>1. m \in CallIds(case) /\ m \in all
  BY DEF Tree
<1>2. \A k \in Inner(m) : case.at[k].in = m
  BY DEF Inner
<1>3. \A k \in all : case.at[k].in = m => k \in Inner(m)
  BY DEF Inner
<1>4. Inner(m) \subseteq H
  BY <1>2 DEF Tree
<1>5. m \notin H /\ m \notin F /\ m \notin D
  BY DEF Tree
<1>6. \A k \in all : k \in H \ Inner(m) <=> case.at[k].in \in (H \ Inner(m)) \cup ((C \ {m}) \cup Inner(m))
  BY <1>2, <1>3, <1>4, <1>5 DEF Tree
<1>7. Tree(all, (C \ {m}) \cup Inner(m), F \cup {m}, H \ Inner(m), D)
  BY <1>1, <1>4, <1>5, <1>6 DEF Tree
<1> QED BY <1>4, <1>5, <1>7

LEMMA TreeEnd ==
  ASSUME NEW all, NEW C, NEW F, NEW H, NEW D, Tree(all, C, F, H, D), NEW m \in F
  PROVE  Tree(all, C, F \ {m}, H, D \cup {m})
BY DEF Tree

\* Nothing is hidden in nothing.
LEMMA TreeDone ==
  ASSUME case \in Cases, NEW all \in SUBSET CallIds(case), NEW D, NEW H, Tree(all, {}, {}, H, D)
  PROVE  D = all
<1> DEFINE G == {k \in Nat : k \notin H}
<1>1. ASSUME NEW k \in Nat, \A j \in Nat : j < k => j \in G PROVE k \in G
  <2>1. SUFFICES ASSUME k \in H PROVE FALSE
    OBVIOUS
  <2>2. k \in all /\ case.at[k].in \in H
    BY <2>1 DEF Tree
  <2>3. case.at[k].in \in Nat /\ case.at[k].in < k
    BY <2>2, CaseFacts
  <2> QED BY <1>1, <2>2, <2>3
<1>2. \A k \in Nat : k \in G
  <2> HIDE DEF G
  <2> QED BY <1>1, StrongInduction
<1>3. H \subseteq CallIds(case)
  BY DEF Tree
<1>4. H \subseteq Nat
  BY <1>3, CaseFacts
<1>5. H = {}
  BY <1>2, <1>4
<1> QED BY <1>5 DEF Tree

-----------------------------------------------------------------------------
(* The levels *)

LEMMA NestingFacts ==
  ASSUME case \in Cases, NEW k \in CallIds(case)
  PROVE  /\ Nesting(k) \in Nat /\ Nesting(k) >= 1
         /\ case.at[k].in = Top => Nesting(k) = 1
         /\ case.at[k].in # Top => Nesting(k) = Nesting(case.at[k].in) + 1 /\ Nesting(k) >= 2
<1>1. /\ Depth \in [CallIds(case) -> Nat] /\ Side \in [CallIds(case) -> {0, 1}]
      /\ \A h \in CallIds(case) :
           /\ Depth[h] = IF case.at[h].in = Top
                           THEN IF TailRec(case) /\ case.at[h].slot = 1 THEN 0 ELSE 1
                           ELSE Depth[case.at[h].in] + 1
           /\ Side[h] = IF case.at[h].in = Top THEN case.at[h].slot ELSE Side[case.at[h].in]
  BY DepthFacts, SideFacts
<1>2. \A h \in CallIds(case) : Nesting(h) \in Nat
  BY <1>1 DEF Nesting
<1>3. \A h \in CallIds(case) : case.at[h].in = Top => Nesting(h) = 1
  BY <1>1 DEF Nesting
<1>4. \A h \in CallIds(case) : case.at[h].in # Top =>
        case.at[h].in \in CallIds(case) /\ Nesting(h) = Nesting(case.at[h].in) + 1
  <2>1. ASSUME NEW h \in CallIds(case), case.at[h].in # Top
        PROVE  case.at[h].in \in CallIds(case) /\ Nesting(h) = Nesting(case.at[h].in) + 1
    <3>1. PICK g \in CallIds(case) : g = case.at[h].in
      BY <2>1, CaseFacts
    <3>2. Depth[h] = Depth[g] + 1 /\ Side[h] = Side[g] /\ Depth[g] \in Nat
      BY <2>1, <3>1, <1>1
    <3> QED BY <3>1, <3>2 DEF Nesting
  <2> QED BY <2>1
<1> DEFINE G == {h \in Nat : h \in CallIds(case) => Nesting(h) >= 1}
<1>5. ASSUME NEW h \in Nat PROVE h \in G
  <2>1. SUFFICES ASSUME h \in CallIds(case) PROVE Nesting(h) >= 1
    OBVIOUS
  <2>2. CASE case.at[h].in = Top
    BY <2>1, <2>2, <1>3
  <2>3. CASE case.at[h].in # Top
    <3>1. PICK g \in CallIds(case) : Nesting(h) = Nesting(g) + 1
      BY <2>1, <2>3, <1>4
    <3>2. Nesting(g) \in Nat
      BY <1>2
    <3> HIDE DEF G
    <3> QED BY <3>1, <3>2
  <2> QED BY <2>2, <2>3
<1>6. \A h \in CallIds(case) : Nesting(h) >= 1
  BY <1>5, CaseFacts
<1>7. case.at[k].in # Top => Nesting(k) = Nesting(case.at[k].in) + 1 /\ Nesting(k) >= 2
  <2>1. SUFFICES ASSUME case.at[k].in # Top
                 PROVE  Nesting(k) = Nesting(case.at[k].in) + 1 /\ Nesting(k) >= 2
    OBVIOUS
  <2>2. PICK g \in CallIds(case) : g = case.at[k].in /\ Nesting(k) = Nesting(g) + 1
    BY <2>1, <1>4
  <2>3. Nesting(g) \in Nat /\ Nesting(g) >= 1
    BY <1>2, <1>6
  <2> QED BY <2>2, <2>3
<1> QED BY <1>2, <1>3, <1>6, <1>7

\* The levels of OneOwnCallPerLevel are these.
LEMMA LevelsAre ==
  ASSUME case \in Cases, NEW x \in {0, 1}
  PROVE  \A i \in Nat : AtLevel(case, x)[i] = Members(x, i + 1)
<1> DEFINE A == Elements(Kids(case, Top, x))
           Def(v, i) == UNION {Elements(Kids(case, m, j)) : m \in v, j \in 0 .. Slots}
           level[i \in Nat] == IF i = 0 THEN A ELSE Def(level[i - 1], i)
<1>1. NatInductiveDefHypothesis(level, A, Def)
  BY DEF NatInductiveDefHypothesis
<1>2. NatInductiveDefConclusion(level, A, Def)
  <2> HIDE DEF level, A, Def
  <2> QED BY <1>1, NatInductiveDef
<1>3. AtLevel(case, x) = level
  BY DEF AtLevel
<1> HIDE DEF level
<1>4. \A i \in Nat : level[i] = IF i = 0 THEN A ELSE Def(level[i - 1], i)
  <2> HIDE DEF A, Def
  <2>1. level = [i \in Nat |-> IF i = 0 THEN A ELSE Def(level[i - 1], i)]
    BY <1>2 DEF NatInductiveDefConclusion
  <2> QED BY <2>1
<1>5. \A m, j : Elements(Kids(case, m, j)) = {k \in CallIds(case) : case.at[k] = [in |-> m, slot |-> j]}
  BY KidsFacts DEF Outermost
<1>6. \A k \in CallIds(case) :
        /\ case.at[k] = [in |-> case.at[k].in, slot |-> case.at[k].slot]
        /\ case.at[k].in # Top => case.at[k].in \in CallIds(case) /\ case.at[k].slot \in 0 .. Slots
        /\ case.at[k].in = Top => case.at[k].slot \in {0, 1}
  <2>1. ASSUME NEW k \in CallIds(case)
        PROVE  case.at[k] = [in |-> case.at[k].in, slot |-> case.at[k].slot]
    <3>1. case.at[k] \in [in : Nat, slot : Nat]
      BY CaseFacts
    <3> QED BY <3>1
  <2> QED BY <2>1, CaseFacts
<1> DEFINE G == {i \in Nat : level[i] = Members(x, i + 1)}
<1>7. 0 \in G
  <2>1. level[0] = {k \in CallIds(case) : case.at[k] = [in |-> Top, slot |-> x]}
    <3>1. level[0] = A
      <4> HIDE DEF A, Def
      <4> QED BY <1>4
    <3> QED BY <3>1, <1>5
  <2>2. ASSUME NEW k \in CallIds(case)
        PROVE  case.at[k] = [in |-> Top, slot |-> x] <=> Side[k] = x /\ Nesting(k) = 1
    <3>1. case.at[k] = [in |-> Top, slot |-> x] <=> case.at[k].in = Top /\ case.at[k].slot = x
      BY <1>6
    <3>2. case.at[k].in = Top <=> Nesting(k) = 1
      BY NestingFacts
    <3>3. case.at[k].in = Top => Side[k] = case.at[k].slot
      BY SideFacts
    <3> QED BY <3>1, <3>2, <3>3
  <2>3. level[0] = Members(x, 0 + 1)
    BY <2>1, <2>2 DEF Members, OnSide
  <2> QED BY <2>3
<1>8. ASSUME NEW i \in Nat, i \in G PROVE i + 1 \in G
  <2>1. level[i] = Members(x, i + 1) /\ i + 1 \in Nat /\ i + 1 # 0 /\ (i + 1) - 1 = i
    BY <1>8
  <2>2. level[i + 1] = UNION {Elements(Kids(case, m, j)) : m \in Members(x, i + 1), j \in 0 .. Slots}
    <3>1. level[i + 1] = Def(level[i], i + 1)
      <4> HIDE DEF A, Def
      <4>1. level[i + 1] = Def(level[(i + 1) - 1], i + 1)
        BY <1>4, <2>1
      <4> QED BY <4>1, <2>1
    <3> QED BY <3>1, <2>1
  <2>3. ASSUME NEW k \in level[i + 1] PROVE k \in Members(x, (i + 1) + 1)
    <3>1. PICK m \in Members(x, i + 1), j \in 0 .. Slots : k \in Elements(Kids(case, m, j))
      BY <2>2
    <3>2. k \in CallIds(case) /\ case.at[k] = [in |-> m, slot |-> j]
      BY <3>1, <1>5
    <3>3. m \in CallIds(case) /\ Side[m] = x /\ Nesting(m) = i + 1
      BY DEF Members, OnSide
    <3>4. case.at[k].in = m /\ m # Top
      BY <3>2, <3>3, CaseFacts DEF Top
    <3>5. Side[k] = x /\ Nesting(k) = (i + 1) + 1
      BY <3>2, <3>3, <3>4, SideFacts, NestingFacts
    <3> QED BY <3>2, <3>5 DEF Members, OnSide
  <2>4. ASSUME NEW k \in Members(x, (i + 1) + 1) PROVE k \in level[i + 1]
    <3>1. k \in CallIds(case) /\ Side[k] = x /\ Nesting(k) = (i + 1) + 1
      BY DEF Members, OnSide
    <3>2. case.at[k].in # Top
      BY <3>1, NestingFacts
    <3>3. PICK m \in CallIds(case) : m = case.at[k].in
      BY <3>1, <3>2, <1>6
    <3>4. Side[m] = x /\ Nesting(m) = i + 1
      <4>1. Side[k] = Side[m] /\ Nesting(k) = Nesting(m) + 1
        BY <3>1, <3>2, <3>3, SideFacts, NestingFacts
      <4>2. Nesting(m) \in Nat
        BY NestingFacts
      <4> QED BY <4>1, <4>2, <3>1
    <3>5. m \in Members(x, i + 1)
      BY <3>4 DEF Members, OnSide
    <3>6. k \in Elements(Kids(case, m, case.at[k].slot)) /\ case.at[k].slot \in 0 .. Slots
      BY <3>1, <3>2, <3>3, <1>5, <1>6
    <3> QED BY <3>5, <3>6, <2>2
  <2>5. level[i + 1] = Members(x, (i + 1) + 1)
    BY <2>3, <2>4
  <2> QED BY <2>1, <2>5
<1>9. \A i \in Nat : i \in G
  <2> HIDE DEF G
  <2> QED BY <1>7, <1>8, SimpleInduction
<1> QED BY <1>3, <1>9

LEMMA FiniteCalls ==
  ASSUME case \in Cases, NEW S, S \subseteq CallIds(case)
  PROVE  IsFiniteSet(S) /\ Cardinality(S) \in Nat
<1>1. CallIds(case) = 1 .. Len(case.at) /\ Len(case.at) \in Nat
  BY CaseFacts
<1>2. IsFiniteSet(CallIds(case))
  BY <1>1, FS_Interval
<1>3. IsFiniteSet(S)
  BY <1>2, FS_Subset
<1> QED BY <1>3, FS_CardinalityType

\* A set with two members has more than one.
LEMMA TwoOrMore ==
  ASSUME NEW S, IsFiniteSet(S), NEW a \in S, NEW b \in S, a # b
  PROVE  Cardinality(S) > 1
<1>1. IsFiniteSet({a}) /\ Cardinality({a}) = 1
  BY FS_Singleton
<1>2. Cardinality(S) \in Nat /\ Cardinality({a}) <= Cardinality(S)
  BY <1>1, FS_Subset, FS_CardinalityType
<1>3. {a} # S
  OBVIOUS
<1>4. Cardinality({a}) # Cardinality(S)
  BY <1>3, FS_Subset
<1> QED BY <1>1, <1>2, <1>4

\* What a level holds.
LevelIs(S, n, last, other) ==
  /\ n = Cardinality(S)
  /\ last = Null => \A k \in S : ~case.rec[k]
  /\ last # Null => last \in S /\ case.rec[last]
  /\ other = Null => \A k \in S : case.rec[k]
  /\ other # Null => other \in S /\ ~case.rec[other]

LEMMA CountedLevel ==
  ASSUME NEW D, NEW c, NEW r, NEW o
  PROVE  Counted(D, c, r, o) <=>
           /\ \A k \in D : Nesting(k) \in 1 .. Len(c)
           /\ \A l \in 1 .. Len(c) : LevelIs(DoneAt(D, l), c[l], r[l], o[l])
BY DEF Counted, LevelIs

LevelSeqs(c, r, o) ==
  /\ c \in Seq(Nat)
  /\ r \in Seq({Null} \cup CallIds(case)) /\ Len(r) = Len(c)
  /\ o \in Seq({Null} \cup CallIds(case)) /\ Len(o) = Len(c)

\* t is s with e after it, or in place of what is at l.
Grown(t, s, e) == Len(t) = Len(s) + 1 /\ t[Len(s) + 1] = e /\ \A l \in 1 .. Len(s) : t[l] = s[l]
Replaced(t, s, l, e) == Len(t) = Len(s) /\ t[l] = e /\ \A h \in 1 .. Len(s) : h # l => t[h] = s[h]

LEMMA AppendFacts ==
  ASSUME NEW S, NEW s \in Seq(S), NEW e \in S
  PROVE  Grown(Append(s, e), s, e)
BY DEF Grown

LEMMA ExceptFacts ==
  ASSUME NEW S, NEW s \in Seq(S), NEW l \in 1 .. Len(s), NEW e \in S
  PROVE  Replaced([s EXCEPT ![l] = e], s, l, e)
<1> DEFINE t == [s EXCEPT ![l] = e]
<1>1. DOMAIN s = 1 .. Len(s)
  OBVIOUS
<1>2. t[l] = e /\ \A h \in 1 .. Len(s) : h # l => t[h] = s[h]
  BY <1>1
<1>3. Len(t) = Len(s)
  BY ReplaceFacts
<1> QED BY <1>2, <1>3 DEF Replaced

\* A level more.
LEMMA CountedGrow ==
  ASSUME NEW D, NEW c, NEW r, NEW o, Counted(D, c, r, o), LevelSeqs(c, r, o)
  PROVE  Counted(D, Append(c, 0), Append(r, Null), Append(o, Null))
<1>1. c \in Seq(Nat) /\ r \in Seq({Null} \cup CallIds(case)) /\ o \in Seq({Null} \cup CallIds(case))
  BY DEF LevelSeqs
<1>2. PICK n \in Nat : n = Len(c) /\ n = Len(r) /\ n = Len(o)
  BY <1>1 DEF LevelSeqs
<1> DEFINE cc == Append(c, 0)
           rr == Append(r, Null)
           oo == Append(o, Null)
<1>3. Len(cc) = n + 1 /\ cc[n + 1] = 0 /\ \A l \in 1 .. n : cc[l] = c[l]
  <2>1. Grown(cc, c, 0)
    BY <1>1, 0 \in Nat, AppendFacts
  <2> QED BY <2>1, <1>2 DEF Grown
<1>4. rr[n + 1] = Null /\ \A l \in 1 .. n : rr[l] = r[l]
  <2>1. Grown(rr, r, Null)
    BY <1>1, Null \in {Null} \cup CallIds(case), AppendFacts
  <2> QED BY <2>1, <1>2 DEF Grown
<1>5. oo[n + 1] = Null /\ \A l \in 1 .. n : oo[l] = o[l]
  <2>1. Grown(oo, o, Null)
    BY <1>1, Null \in {Null} \cup CallIds(case), AppendFacts
  <2> QED BY <2>1, <1>2 DEF Grown
<1> HIDE DEF cc, rr, oo
<1>6. \A k \in D : Nesting(k) \in 1 .. n
  BY <1>2 DEF Counted
<1>7. DoneAt(D, n + 1) = {}
  BY <1>6 DEF DoneAt
<1>8. LevelIs(DoneAt(D, n + 1), cc[n + 1], rr[n + 1], oo[n + 1])
  BY <1>3, <1>4, <1>5, <1>7, FS_EmptySet DEF LevelIs
<1>9. ASSUME NEW l \in 1 .. n PROVE LevelIs(DoneAt(D, l), cc[l], rr[l], oo[l])
  BY <1>2, <1>3, <1>4, <1>5, CountedLevel
<1>10. \A l \in 1 .. n + 1 : l \in 1 .. n \/ l = n + 1
  OBVIOUS
<1>11. Counted(D, cc, rr, oo)
  <2>1. \A k \in D : Nesting(k) \in 1 .. n + 1
    BY <1>6
  <2>2. \A l \in 1 .. n + 1 : LevelIs(DoneAt(D, l), cc[l], rr[l], oo[l])
    BY <1>8, <1>9, <1>10
  <2> QED BY <2>1, <2>2, <1>3, CountedLevel
<1> QED BY <1>11 DEF cc, rr, oo

\* A call is done.
LEMMA CountedEnd ==
  ASSUME case \in Cases, NEW D \in SUBSET CallIds(case), NEW c, NEW r, NEW o,
         Counted(D, c, r, o), LevelSeqs(c, r, o),
         NEW m \in CallIds(case), m \notin D, NEW l, l = Nesting(m), l \in 1 .. Len(c)
  PROVE  Counted(D \cup {m}, [c EXCEPT ![l] = @ + 1],
                 IF case.rec[m] THEN [r EXCEPT ![l] = m] ELSE r,
                 IF case.rec[m] THEN o ELSE [o EXCEPT ![l] = m])
<1>1. c \in Seq(Nat) /\ r \in Seq({Null} \cup CallIds(case)) /\ o \in Seq({Null} \cup CallIds(case))
  BY DEF LevelSeqs
<1>2. PICK n \in Nat : n = Len(c) /\ n = Len(r) /\ n = Len(o)
  BY <1>1 DEF LevelSeqs
<1> DEFINE cc == [c EXCEPT ![l] = @ + 1]
           rr == IF case.rec[m] THEN [r EXCEPT ![l] = m] ELSE r
           oo == IF case.rec[m] THEN o ELSE [o EXCEPT ![l] = m]
           E == D \cup {m}
<1>3. Len(cc) = n /\ cc[l] = c[l] + 1 /\ \A h \in 1 .. n : h # l => cc[h] = c[h]
  <2>1. c[l] \in Nat /\ c[l] + 1 \in Nat
    BY <1>1
  <2>2. Replaced([c EXCEPT ![l] = c[l] + 1], c, l, c[l] + 1)
    BY <1>1, <2>1, ExceptFacts
  <2> QED BY <2>2, <1>2 DEF Replaced
<1>4. rr[l] = (IF case.rec[m] THEN m ELSE r[l]) /\ \A h \in 1 .. n : h # l => rr[h] = r[h]
  <2>1. Replaced([r EXCEPT ![l] = m], r, l, m)
    <3>1. m \in {Null} \cup CallIds(case) /\ l \in 1 .. Len(r)
      BY <1>2
    <3> QED BY <3>1, <1>1, ExceptFacts
  <2> QED BY <2>1, <1>2 DEF Replaced
<1>5. oo[l] = (IF case.rec[m] THEN o[l] ELSE m) /\ \A h \in 1 .. n : h # l => oo[h] = o[h]
  <2>1. Replaced([o EXCEPT ![l] = m], o, l, m)
    <3>1. m \in {Null} \cup CallIds(case) /\ l \in 1 .. Len(o)
      BY <1>2
    <3> QED BY <3>1, <1>1, ExceptFacts
  <2> QED BY <2>1, <1>2 DEF Replaced
<1> HIDE DEF cc, rr, oo
<1>6. \A h \in 1 .. n : LevelIs(DoneAt(D, h), c[h], r[h], o[h])
  BY <1>2, CountedLevel
<1>7. DoneAt(E, l) = DoneAt(D, l) \cup {m} /\ \A h \in 1 .. n : h # l => DoneAt(E, h) = DoneAt(D, h)
  BY DEF DoneAt
<1>8. m \notin DoneAt(D, l) /\ IsFiniteSet(DoneAt(D, l))
  <2>1. DoneAt(D, l) \subseteq D
    BY DEF DoneAt
  <2> QED BY <2>1, FiniteCalls
<1>9. Cardinality(DoneAt(E, l)) = Cardinality(DoneAt(D, l)) + 1
  BY <1>7, <1>8, FS_AddElement
<1>10. m # Null
  BY CaseFacts DEF Null
<1>11. LevelIs(DoneAt(E, l), cc[l], rr[l], oo[l])
  <2>1. LevelIs(DoneAt(D, l), c[l], r[l], o[l])
    BY <1>2, <1>6
  <2>2. cc[l] = Cardinality(DoneAt(E, l))
    BY <2>1, <1>3, <1>9 DEF LevelIs
  <2> QED BY <2>1, <2>2, <1>4, <1>5, <1>7, <1>10 DEF LevelIs
<1>12. ASSUME NEW h \in 1 .. n PROVE LevelIs(DoneAt(E, h), cc[h], rr[h], oo[h])
  <2>1. CASE h = l
    BY <2>1, <1>11
  <2>2. CASE h # l
    BY <2>2, <1>3, <1>4, <1>5, <1>6, <1>7
  <2> QED BY <2>1, <2>2
<1>13. \A k \in E : Nesting(k) \in 1 .. n
  BY <1>2 DEF Counted
<1>14. Counted(E, cc, rr, oo)
  BY <1>3, <1>12, <1>13, CountedLevel
<1> QED BY <1>14 DEF cc, rr, oo

\* The call of a level that is kept.
LEMMA KeptIs ==
  ASSUME case \in Cases, NEW x, Counted(OnSide(x), Calls, LastRecCall, LastOtherCall),
         NEW l \in 1 .. Len(Calls)
  PROVE  /\ Cardinality(Members(x, l)) > 1 =>
              \E e \in Members(x, l) :
                 Kept(l) = {e} /\ ((\E k \in Members(x, l) : ~case.rec[k]) => ~case.rec[e])
         /\ Cardinality(Members(x, l)) <= 1 => Kept(l) = {k \in Members(x, l) : case.rec[k]}
<1> DEFINE S == Members(x, l)
<1>1. S \subseteq CallIds(case) /\ S = DoneAt(OnSide(x), l)
  BY DEF Members, OnSide, DoneAt
<1>2. LevelIs(S, Calls[l], LastRecCall[l], LastOtherCall[l])
  BY <1>1, CountedLevel
<1>3. IsFiniteSet(S) /\ Cardinality(S) \in Nat
  BY <1>1, FiniteCalls
<1> HIDE DEF S
<1>4. ASSUME Cardinality(S) > 1
      PROVE  \E e \in S : Kept(l) = {e} /\ ((\E k \in S : ~case.rec[k]) => ~case.rec[e])
  <2>1. Calls[l] > 1 /\ Calls[l] # 1
    BY <1>2, <1>3, <1>4 DEF LevelIs
  <2>2. CASE LastOtherCall[l] # Null
    <3>1. Kept(l) = {LastOtherCall[l]}
      BY <2>1, <2>2 DEF Kept
    <3> QED BY <3>1, <2>2, <1>2 DEF LevelIs
  <2>3. CASE LastOtherCall[l] = Null
    <3>1. Kept(l) = {LastRecCall[l]}
      BY <2>1, <2>3 DEF Kept
    <3>2. S # {}
      <4>1. Cardinality({}) = 0
        BY FS_EmptySet
      <4>2. SUFFICES ASSUME S = {} PROVE FALSE
        OBVIOUS
      <4>3. Cardinality(S) = 0
        BY <4>1, <4>2
      <4> QED BY <1>4, <4>3
    <3>3. \A k \in S : case.rec[k]
      BY <2>3, <1>2 DEF LevelIs
    <3>4. LastRecCall[l] # Null
      BY <3>2, <3>3, <1>2 DEF LevelIs
    <3> QED BY <3>1, <3>3, <3>4, <1>2 DEF LevelIs
  <2> QED BY <2>2, <2>3
<1>5. ASSUME Cardinality(S) = 1 PROVE Kept(l) = {k \in S : case.rec[k]}
  <2>1. PICK e : S = {e}
    BY <1>3, <1>5, FS_Singleton
  <2>2. Calls[l] = 1 /\ ~(Calls[l] > 1)
    BY <1>2, <1>5 DEF LevelIs
  <2>3. CASE LastRecCall[l] # Null
    <3>1. Kept(l) = {LastRecCall[l]}
      BY <2>2, <2>3 DEF Kept
    <3> QED BY <3>1, <2>1, <2>3, <1>2 DEF LevelIs
  <2>4. CASE LastRecCall[l] = Null
    <3>1. Kept(l) = {}
      BY <2>2, <2>4 DEF Kept
    <3> QED BY <3>1, <2>4, <1>2 DEF LevelIs
  <2> QED BY <2>3, <2>4
<1>6. ASSUME Cardinality(S) = 0 PROVE Kept(l) = {k \in S : case.rec[k]}
  <2>1. S = {}
    BY <1>3, <1>6, FS_EmptySet
  <2>2. Calls[l] = 0
    BY <1>2, <1>6 DEF LevelIs
  <2>3. Kept(l) = {}
    BY <2>2 DEF Kept
  <2> QED BY <2>1, <2>3
<1> QED BY <1>3, <1>4, <1>5, <1>6 DEF S

\* What determingParallelism decides when it has counted a side.
LEMMA Determined ==
  ASSUME case \in Cases, NEW x, Counted(OnSide(x), Calls, LastRecCall, LastOtherCall),
         \A k \in OnSide(x) : DoParallel[k],
         NEW par, par = [m \in CallIds(case) |-> DoParallel[m] /\ \A l \in Levels : m \notin Kept(l)]
  PROVE  /\ \A l \in Nat : Decided(par, Members(x, l))
         /\ \A k \in CallIds(case) : k \notin OnSide(x) => (par[k] <=> DoParallel[k])
<1>1. Levels = 1 .. Len(Calls)
  BY DEF Levels
<1>2. \A l \in Levels : Kept(l) \subseteq Members(x, l)
  <2>1. ASSUME NEW l \in Levels PROVE Kept(l) \subseteq Members(x, l)
    <3>1. Members(x, l) \subseteq CallIds(case)
      BY DEF Members, OnSide
    <3>2. Cardinality(Members(x, l)) \in Nat
      BY <3>1, FiniteCalls
    <3>3. CASE Cardinality(Members(x, l)) > 1
      <4>1. PICK e \in Members(x, l) : Kept(l) = {e}
        BY <3>3, <1>1, KeptIs
      <4> QED BY <4>1
    <3>4. CASE Cardinality(Members(x, l)) <= 1
      <4>1. Kept(l) = {k \in Members(x, l) : case.rec[k]}
        BY <3>4, <1>1, KeptIs
      <4> QED BY <4>1
    <3> QED BY <3>2, <3>3, <3>4
  <2> QED BY <2>1
<1>3. \A l \in Nat : Members(x, l) \subseteq OnSide(x) /\ Members(x, l) \subseteq CallIds(case)
  BY DEF Members, OnSide
<1>4. \A l \in Levels : l \in Nat
  BY <1>1
<1>5. ASSUME NEW k \in CallIds(case), k \notin OnSide(x) PROVE par[k] <=> DoParallel[k]
  <2>1. \A l \in Levels : k \notin Kept(l)
    BY <1>2, <1>3, <1>4, <1>5
  <2> QED BY <2>1
<1>6. ASSUME NEW l \in Levels, NEW k \in Members(x, l) PROVE ~par[k] <=> k \in Kept(l)
  <2>1. k \in CallIds(case) /\ DoParallel[k]
    BY <1>3, <1>4
  <2>2. \A h \in Levels : k \in Kept(h) => h = l
    <3>1. \A h \in Levels : k \in Kept(h) => k \in Members(x, h)
      BY <1>2
    <3> QED BY <3>1 DEF Members
  <2>3. par[k] <=> \A h \in Levels : k \notin Kept(h)
    BY <2>1
  <2> QED BY <2>2, <2>3
<1>7. ASSUME NEW l \in Nat PROVE Decided(par, Members(x, l))
  <2> DEFINE S == Members(x, l)
             own == {m \in S : ~par[m]}
             others == {m \in S : ~case.rec[m]}
  <2>1. IsFiniteSet(S) /\ Cardinality(S) \in Nat
    BY <1>3, FiniteCalls
  <2>2. CASE l \in Levels
    <3>1. own = Kept(l)
      BY <2>2, <1>2, <1>6
    <3>2. CASE Cardinality(S) > 1
      <4>1. PICK e \in S : Kept(l) = {e} /\ ((\E k \in S : ~case.rec[k]) => ~case.rec[e])
        BY <3>2, <2>2, <1>1, KeptIs
      <4>2. Cardinality(own) = 1
        BY <3>1, <4>1, FS_Singleton
      <4>3. others # {} => own \subseteq others
        BY <3>1, <4>1
      <4>4. ~(Cardinality(S) <= 1)
        BY <2>1, <3>2
      <4> QED BY <3>2, <4>2, <4>3, <4>4 DEF Decided
    <3>3. CASE Cardinality(S) <= 1
      <4>1. Kept(l) = {k \in S : case.rec[k]}
        BY <3>3, <2>2, <1>1, KeptIs
      <4>2. own = S \ others
        BY <3>1, <4>1
      <4>3. ~(Cardinality(S) > 1)
        BY <2>1, <3>3
      <4> QED BY <3>3, <4>2, <4>3 DEF Decided
    <3> QED BY <2>1, <3>2, <3>3
  <2>3. CASE l \notin Levels
    <3>1. S = {}
      BY <2>3, <1>1 DEF Members, Counted
    <3>2. Cardinality(S) = 0 /\ own = S \ others
      BY <3>1, FS_EmptySet
    <3> QED BY <3>2 DEF Decided
  <2> QED BY <2>2, <2>3
<1> QED BY <1>5, <1>7


-----------------------------------------------------------------------------
(* Sequences and their levels *)

LEMMA Associative ==
  ASSUME NEW S, NEW s \in Seq(S), NEW t \in Seq(S), NEW u \in Seq(S)
  PROVE  (s \o t) \o u = s \o (t \o u)
BY ConcatAssociative

LEMMA EmptyConcat ==
  ASSUME NEW S, NEW s \in Seq(S)
  PROVE  <<>> \o s = s /\ s \o <<>> = s
OBVIOUS

\* The first item of a sequence that starts with w, and the rest of it.
LEMMA ConcatHeadTail ==
  ASSUME NEW S, NEW w \in Seq(S), w # <<>>, NEW r \in Seq(S)
  PROVE  /\ w \o r # <<>> /\ Head(w \o r) = w[1] /\ (w \o r)[1] = w[1]
         /\ Tail(w \o r) = Tail(w) \o r
<1>1. PICK a \in Nat, b \in Nat : a = Len(w) /\ b = Len(r) /\ a >= 1
  OBVIOUS
<1>2. PICK u : u = w \o r
  OBVIOUS
<1>3. /\ u \in Seq(S) /\ Len(u) = a + b
      /\ \A q \in 1 .. a : u[q] = w[q]
      /\ \A q \in 1 .. b : u[a + q] = r[q]
  BY <1>1, <1>2, ConcatFacts
<1>4. u # <<>> /\ Head(u) = u[1] /\ u[1] = w[1]
  BY <1>1, <1>3
<1>5. PICK v : v = Tail(w)
  OBVIOUS
<1>6. v \in Seq(S) /\ Len(v) = a - 1 /\ \A q \in 1 .. a - 1 : v[q] = w[q + 1]
  <2>1. IsTail(Tail(w), w, S)
    BY TailIndex
  <2> QED BY <2>1, <1>1, <1>5 DEF IsTail
<1>7. PICK x : x = Tail(u)
  OBVIOUS
<1>8. x \in Seq(S) /\ Len(x) = a + b - 1 /\ \A q \in 1 .. a + b - 1 : x[q] = u[q + 1]
  <2>1. IsTail(Tail(u), u, S)
    BY <1>3, <1>4, TailIndex
  <2> QED BY <2>1, <1>3, <1>7 DEF IsTail
<1>9. PICK y : y = v \o r
  OBVIOUS
<1>10. PICK e \in Nat : e = a - 1
  BY <1>1
<1>11. /\ y \in Seq(S) /\ Len(y) = e + b
       /\ \A q \in 1 .. e : y[q] = v[q]
       /\ \A q \in 1 .. b : y[e + q] = r[q]
  <2>1. v \in Seq(S)
    BY <1>6
  <2>3. Len(v) = e
    BY <1>6, <1>10
  <2>2. /\ y \in Seq(S) /\ Len(y) = Len(v) + Len(r)
        /\ \A q \in 1 .. Len(v) : y[q] = v[q]
        /\ \A q \in 1 .. Len(r) : y[Len(v) + q] = r[q]
    BY <2>1, <1>9, ConcatFacts
  <2> QED BY <2>3, <2>2, <1>1
<1>12. ASSUME NEW q \in 1 .. e + b PROVE x[q] = y[q]
  <2>1. x[q] = u[q + 1]
    BY <1>8, <1>10
  <2>2. CASE q <= e
    <3>1. q \in 1 .. e /\ q \in 1 .. a - 1 /\ q + 1 \in 1 .. a
      BY <2>2, <1>10
    <3>2. u[q + 1] = w[q + 1] /\ y[q] = v[q] /\ v[q] = w[q + 1]
      BY <3>1, <1>3, <1>6, <1>11
    <3> QED BY <3>2, <2>1
  <2>3. CASE q > e
    <3>1. q - e \in 1 .. b /\ a + (q - e) = q + 1 /\ e + (q - e) = q
      BY <2>3, <1>10
    <3>2. u[a + (q - e)] = r[q - e] /\ y[e + (q - e)] = r[q - e]
      BY <3>1, <1>3, <1>11
    <3> QED BY <3>1, <3>2, <2>1
  <2> QED BY <2>2, <2>3
<1>13. Len(x) = Len(y)
  BY <1>8, <1>10, <1>11
<1>14. x = y
  <2>1. \A q \in 1 .. Len(x) : x[q] = y[q]
    BY <1>12, <1>11, <1>13
  <2> QED BY <2>1, <1>8, <1>11, <1>13, SeqEqual
<1> QED BY <1>2, <1>4, <1>5, <1>7, <1>9, <1>14

LEMMA LevelledSingle ==
  ASSUME NEW x \in ItemSet
  PROVE  Levelled(<<x>>, OptEnters(x), OptLeaves(x))
<1>1. PICK s : s = <<x>>
  OBVIOUS
<1>2. Len(s) = 1 /\ s[1] = x /\ s # <<>>
  BY <1>1
<1>3. \A p \in 1 .. Len(s) - 1 : FALSE
  BY <1>2
<1> QED BY <1>1, <1>2, <1>3 DEF Levelled

\* All items are at level a.
LEMMA LevelledUniform ==
  ASSUME NEW s \in Seq(ItemSet), NEW a, \A p \in 1 .. Len(s) : OptEnters(s[p]) = a /\ OptLeaves(s[p]) = a
  PROVE  Levelled(s, a, a)
<1>1. s # <<>> => 1 \in 1 .. Len(s) /\ Len(s) \in 1 .. Len(s)
  OBVIOUS
<1>2. \A p \in 1 .. Len(s) - 1 : p \in 1 .. Len(s) /\ p + 1 \in 1 .. Len(s)
  OBVIOUS
<1> QED BY <1>1, <1>2 DEF Levelled

LEMMA LevelledConcat ==
  ASSUME NEW s \in Seq(ItemSet), NEW t \in Seq(ItemSet), NEW a, NEW b, NEW c,
         Levelled(s, a, b), Levelled(t, b, c)
  PROVE  Levelled(s \o t, a, c)
<1>1. CASE s = <<>>
  BY <1>1, EmptyConcat DEF Levelled
<1>2. CASE t = <<>>
  BY <1>2, EmptyConcat DEF Levelled
<1>3. CASE s # <<>> /\ t # <<>>
  <2>1. PICK m \in Nat, n \in Nat : m = Len(s) /\ n = Len(t) /\ m >= 1 /\ n >= 1
    BY <1>3
  <2>2. PICK u : u = s \o t
    OBVIOUS
  <2>3. /\ u \in Seq(ItemSet) /\ Len(u) = m + n
        /\ \A q \in 1 .. m : u[q] = s[q]
        /\ \A q \in 1 .. n : u[m + q] = t[q]
    BY <2>1, <2>2, ConcatFacts
  <2>4. /\ OptEnters(s[1]) = a /\ OptLeaves(s[m]) = b /\ OptEnters(t[1]) = b /\ OptLeaves(t[n]) = c
        /\ \A p \in 1 .. m - 1 : OptLeaves(s[p]) = OptEnters(s[p + 1])
        /\ \A p \in 1 .. n - 1 : OptLeaves(t[p]) = OptEnters(t[p + 1])
    BY <1>3, <2>1 DEF Levelled
  <2>5. u # <<>> /\ u[1] = s[1] /\ u[m + n] = t[n] /\ u[m] = s[m] /\ u[m + 1] = t[1]
    BY <2>1, <2>3
  <2>6. ASSUME NEW p \in 1 .. m + n - 1 PROVE OptLeaves(u[p]) = OptEnters(u[p + 1])
    <3>1. CASE p < m
      <4>1. p \in 1 .. m - 1 /\ p \in 1 .. m /\ p + 1 \in 1 .. m
        BY <3>1
      <4>2. u[p] = s[p] /\ u[p + 1] = s[p + 1]
        BY <4>1, <2>3
      <4> QED BY <4>1, <4>2, <2>4
    <3>2. CASE p = m
      BY <3>2, <2>4, <2>5
    <3>3. CASE p > m
      <4>1. p - m \in 1 .. n - 1 /\ p - m \in 1 .. n /\ (p - m) + 1 \in 1 .. n /\ m + (p - m) = p
            /\ m + ((p - m) + 1) = p + 1
        BY <3>3
      <4>2. u[m + (p - m)] = t[p - m] /\ u[m + ((p - m) + 1)] = t[(p - m) + 1]
        BY <4>1, <2>3
      <4>3. u[p] = t[p - m] /\ u[p + 1] = t[(p - m) + 1]
        BY <4>1, <4>2
      <4> QED BY <4>1, <4>3, <2>4
    <3> QED BY <3>1, <3>2, <3>3
  <2>7. u # <<>> /\ OptEnters(u[1]) = a /\ OptLeaves(u[Len(u)]) = c
    BY <2>3, <2>4, <2>5
  <2>8. \A p \in 1 .. Len(u) - 1 : OptLeaves(u[p]) = OptEnters(u[p + 1])
    BY <2>3, <2>6
  <2>9. Levelled(u, a, c)
    BY <2>7, <2>8 DEF Levelled
  <2> QED BY <2>2, <2>9
<1> QED BY <1>1, <1>2, <1>3

LEMMA LevelledTail ==
  ASSUME NEW s \in Seq(ItemSet), s # <<>>, NEW a, NEW b, Levelled(s, a, b)
  PROVE  OptEnters(s[1]) = a /\ Levelled(Tail(s), OptLeaves(s[1]), b)
<1>1. PICK r : r = Tail(s)
  OBVIOUS
<1>2. PICK n \in Nat : n = Len(s) /\ n >= 1
  OBVIOUS
<1>3. r \in Seq(ItemSet) /\ Len(r) = n - 1 /\ \A p \in 1 .. n - 1 : r[p] = s[p + 1]
  <2>1. IsTail(Tail(s), s, ItemSet)
    BY TailIndex
  <2> QED BY <2>1, <1>1, <1>2 DEF IsTail
<1>4. /\ OptEnters(s[1]) = a /\ OptLeaves(s[n]) = b
      /\ \A p \in 1 .. n - 1 : OptLeaves(s[p]) = OptEnters(s[p + 1])
  BY <1>2 DEF Levelled
<1>5. CASE n = 1
  <2>1. r = <<>> /\ \A p \in 1 .. Len(r) - 1 : FALSE
    BY <1>5, <1>3
  <2> QED BY <2>1, <1>1, <1>4, <1>5 DEF Levelled
<1>6. CASE n > 1
  <2>1. r # <<>> /\ 1 \in 1 .. n - 1 /\ n - 1 \in 1 .. n - 1 /\ (n - 1) + 1 = n
    BY <1>6, <1>3
  <2>2. r[1] = s[1 + 1] /\ r[n - 1] = s[(n - 1) + 1]
    BY <2>1, <1>3
  <2>3. OptEnters(r[1]) = OptLeaves(s[1]) /\ OptLeaves(r[n - 1]) = b
    BY <2>1, <2>2, <1>4
  <2>4. ASSUME NEW p \in 1 .. (n - 1) - 1 PROVE OptLeaves(r[p]) = OptEnters(r[p + 1])
    <3>1. p \in 1 .. n - 1 /\ p + 1 \in 1 .. n - 1
      OBVIOUS
    <3>2. r[p] = s[p + 1] /\ r[p + 1] = s[(p + 1) + 1]
      BY <3>1, <1>3
    <3> QED BY <3>1, <3>2, <1>4
  <2> QED BY <2>1, <2>3, <2>4, <1>1, <1>3, <1>4 DEF Levelled
<1> QED BY <1>2, <1>5, <1>6


-----------------------------------------------------------------------------
(* The optimizer at work *)

LEMMA OptFacts ==
  ASSUME case \in Cases, NEW x \in Nat
  PROVE  OptVisits(case, x) \in Seq(ItemSet) /\ After(x) \in Seq(ItemSet) /\ AtEnd(x) \in Seq(ItemSet)
<1>1. ASSUME NEW j \in Nat PROVE OptVisits(case, j) \in Seq(ItemSet)
  <2>1. Item("begin", Top, j) \in ItemSet /\ Item("determine", Top, j) \in ItemSet
    BY ItemFacts DEF Ops, Direct, Top
  <2>2. Visits(Kids(case, Top, j)) \in Seq(ItemSet)
    BY VisitsFacts
  <2> QED BY <2>1, <2>2 DEF OptVisits
<1>2. Item("determine", Top, x) \in ItemSet
  BY ItemFacts DEF Ops, Direct, Top
<1>3. OptVisits(case, x) \in Seq(ItemSet) /\ OptVisits(case, 1) \in Seq(ItemSet)
  BY <1>1
<1>4. After(x) \in Seq(ItemSet)
  BY <1>3 DEF After
<1> QED BY <1>2, <1>3, <1>4 DEF AtEnd

\* What is at the end of a side comes last of all.
LEMMA AtEndFacts ==
  ASSUME case \in Cases, NEW x \in {0, 1}
  PROVE  /\ AtEnd(x) \in Seq(ItemSet) /\ AtEnd(x) # <<>>
         /\ AtEnd(x)[1] = Item("determine", Top, x) /\ Tail(AtEnd(x)) = After(x)
<1>1. After(x) \in Seq(ItemSet) /\ AtEnd(x) \in Seq(ItemSet)
  BY OptFacts
<1>2. Item("determine", Top, x) \in ItemSet
  BY ItemFacts DEF Ops, Direct, Top
<1>3. PICK w : w = <<Item("determine", Top, x)>>
  OBVIOUS
<1>4. w \in Seq(ItemSet) /\ w # <<>> /\ w[1] = Item("determine", Top, x) /\ Tail(w) = <<>>
  BY <1>2, <1>3
<1>5. AtEnd(x) # <<>> /\ AtEnd(x)[1] = w[1] /\ Tail(AtEnd(x)) = Tail(w) \o After(x)
  <2>1. AtEnd(x) = w \o After(x)
    BY <1>3 DEF AtEnd
  <2> QED BY <2>1, <1>1, <1>4, ConcatHeadTail
<1>6. <<>> \o After(x) = After(x)
  BY <1>1, EmptyConcat
<1> QED BY <1>1, <1>4, <1>5, <1>6

\* A side before it is visited.
LEMMA SideTree ==
  ASSUME case \in Cases, NEW x \in {0, 1}
  PROVE  /\ Tree(OnSide(x), Outermost(Top, x), {}, OnSide(x) \ Outermost(Top, x), {})
         /\ Outermost(Top, x) \subseteq OnSide(x)
<1> DEFINE C == Outermost(Top, x)
<1>1. C \subseteq OnSide(x)
  BY OutermostFacts DEF OnSide
<1>2. ASSUME NEW k \in CallIds(case)
      PROVE  k \in C <=> case.at[k].in = Top /\ case.at[k].slot = x
  <2>1. case.at[k] \in [in : Nat, slot : Nat]
    BY CaseFacts
  <2>2. k \in C <=> case.at[k] = [in |-> Top, slot |-> x]
    BY KidsFacts
  <2> QED BY <2>1, <2>2
<1>3. Top \notin OnSide(x)
  BY CaseFacts DEF OnSide, Top
<1>4. ASSUME NEW k \in OnSide(x)
      PROVE  k \in OnSide(x) \ C <=> case.at[k].in \in (OnSide(x) \ C) \cup C
  <2>1. k \in CallIds(case) /\ Side[k] = x
    BY DEF OnSide
  <2>2. CASE case.at[k].in = Top
    <3>1. case.at[k].slot = x
      BY <2>1, <2>2, SideFacts
    <3> QED BY <2>1, <2>2, <3>1, <1>1, <1>2, <1>3
  <2>3. CASE case.at[k].in # Top
    <3>1. case.at[k].in \in CallIds(case) /\ Side[case.at[k].in] = x
      BY <2>1, <2>3, SideFacts, CaseFacts
    <3> QED BY <2>1, <2>3, <3>1, <1>1, <1>2 DEF OnSide
  <2> QED BY <2>2, <2>3
<1>5. Tree(OnSide(x), C, {}, OnSide(x) \ C, {})
  <2> HIDE DEF C
  <2> QED BY <1>1, <1>4 DEF Tree
<1> QED BY <1>1, <1>5

\* A side without a call has nothing.
LEMMA SideEmpty ==
  ASSUME case \in Cases, NEW x \in {0, 1}, Kids(case, Top, x) = <<>>
  PROVE  OnSide(x) = {}
<1>1. Outermost(Top, x) = {}
  BY DEF Outermost, Elements
<1>2. Tree(OnSide(x), {}, {}, OnSide(x) \ {}, {})
  BY <1>1, SideTree
<1>3. OnSide(x) \in SUBSET CallIds(case)
  BY DEF OnSide
<1> QED BY <1>2, <1>3, TreeDone

LEMMA DecidedEmpty ==
  ASSUME NEW x, OnSide(x) = {}, NEW par
  PROVE  DecidedSide(par, x)
<1>1. ASSUME NEW l \in Nat PROVE Decided(par, Members(x, l))
  <2>1. Members(x, l) = {}
    BY DEF Members
  <2>2. Cardinality({}) = 0 /\ 0 <= 1 /\ ~(0 > 1)
    BY FS_EmptySet
  <2>3. Decided(par, {})
    BY <2>2 DEF Decided
  <2> QED BY <2>1, <2>3
<1> QED BY <1>1 DEF DecidedSide

\* The visits of calls at one level.
LEMMA LevelledVisits ==
  ASSUME NEW s \in Seq(ItemSet), NEW n \in Nat,
         \A p \in 1 .. Len(s) : \E k \in CallIds(case) : Nesting(k) = n + 1 /\ s[p] = Item("call", k, 0)
  PROVE  Levelled(s, n, n) /\ \A p \in 1 .. Len(s) : s[p].op = "call"
<1>1. ASSUME NEW p \in 1 .. Len(s)
      PROVE  OptEnters(s[p]) = n /\ OptLeaves(s[p]) = n /\ s[p].op = "call"
  <2>1. PICK k \in CallIds(case) : Nesting(k) = n + 1 /\ s[p] = Item("call", k, 0)
    OBVIOUS
  <2>2. s[p].op = "call" /\ s[p].n = k
    BY <2>1 DEF Item
  <2>3. OptEnters(s[p]) = Nesting(k) - 1 /\ OptLeaves(s[p]) = Nesting(k) - 1
    BY <2>2 DEF OptEnters, OptLeaves
  <2> QED BY <2>1, <2>2, <2>3
<1> QED BY <1>1, LevelledUniform


\* What is left while a side is visited starts with a call's part, or only
\* the end of the side is left.
LEMMA WorkHead ==
  ASSUME case \in Cases, NEW x \in {0, 1}, NEW w \in Seq(ItemSet), NEW t, t = w \o AtEnd(x),
         \A p \in 1 .. Len(w) : w[p].op \in {"call", "open", "close"}
  PROVE  /\ t # <<>>
         /\ w # <<>> => Head(t) = w[1] /\ w[1].op \in {"call", "open", "close"} /\ Tail(t) = Tail(w) \o AtEnd(x)
         /\ w = <<>> => Head(t).op = "determine" /\ Tail(t) = After(x)
<1>1. /\ AtEnd(x) \in Seq(ItemSet) /\ AtEnd(x) # <<>>
      /\ AtEnd(x)[1] = Item("determine", Top, x) /\ Tail(AtEnd(x)) = After(x)
  BY AtEndFacts
<1>2. CASE w # <<>>
  <2>1. 1 \in 1 .. Len(w)
    BY <1>2
  <2>2. t # <<>> /\ Head(t) = w[1] /\ Tail(t) = Tail(w) \o AtEnd(x)
    BY <1>1, <1>2, ConcatHeadTail
  <2> QED BY <1>2, <2>1, <2>2
<1>3. CASE w = <<>>
  <2>1. t = AtEnd(x)
    BY <1>1, <1>3, EmptyConcat
  <2>2. Head(AtEnd(x)) = AtEnd(x)[1]
    BY <1>1
  <2>3. Item("determine", Top, x).op = "determine"
    BY DEF Item
  <2> QED BY <1>1, <1>3, <2>1, <2>2, <2>3
<1> QED BY <1>2, <1>3

\* The outermost calls of a side are to come.
LEMMA WorkBegin ==
  ASSUME case \in Cases, NEW x \in {0, 1}, NEW t, t = OptVisits(case, x) \o After(x)
  PROVE  /\ t # <<>> /\ Head(t).op = "begin"
         /\ Works(x, Tail(t), 0, Append(<<>>, 0), Append(<<>>, Null), Append(<<>>, Null))
<1> DEFINE w == Visits(Kids(case, Top, x))
           C == Outermost(Top, x)
           H == OnSide(x) \ Outermost(Top, x)
<1>1. PICK b, d : b = Item("begin", Top, x) /\ d = Item("determine", Top, x)
  OBVIOUS
<1>2. b \in ItemSet /\ d \in ItemSet /\ b.op = "begin"
  BY <1>1, ItemFacts DEF Ops, Direct, Top
<1>3. w \in Seq(ItemSet) /\ After(x) \in Seq(ItemSet)
  BY VisitsFacts, OptFacts
<1>4. <<b>> \in Seq(ItemSet) /\ <<d>> \in Seq(ItemSet) /\ <<b>> # <<>> /\ <<b>>[1] = b /\ Tail(<<b>>) = <<>>
  BY <1>2
<1>5. AtEnd(x) = <<d>> \o After(x) /\ AtEnd(x) \in Seq(ItemSet)
  BY <1>1, AtEndFacts DEF AtEnd
<1>6. t = <<b>> \o (w \o AtEnd(x))
  <2> HIDE DEF w
  <2>1. t = ((<<b>> \o w) \o <<d>>) \o After(x)
    BY <1>1 DEF OptVisits, w
  <2>2. <<b>> \o w \in Seq(ItemSet)
    BY <1>3, <1>4
  <2>3. ((<<b>> \o w) \o <<d>>) \o After(x) = (<<b>> \o w) \o (<<d>> \o After(x))
    BY <2>2, <1>3, <1>4, Associative
  <2>4. (<<b>> \o w) \o AtEnd(x) = <<b>> \o (w \o AtEnd(x))
    BY <1>3, <1>4, <1>5, Associative
  <2> QED BY <2>1, <2>3, <2>4, <1>5
<1>7. t # <<>> /\ Head(t) = b /\ Tail(t) = w \o AtEnd(x)
  <2> HIDE DEF w
  <2>1. w \o AtEnd(x) \in Seq(ItemSet)
    BY <1>3, <1>5
  <2>2. t # <<>> /\ Head(t) = <<b>>[1] /\ Tail(t) = Tail(<<b>>) \o (w \o AtEnd(x))
    BY <2>1, <1>4, <1>6, ConcatHeadTail
  <2>3. <<>> \o (w \o AtEnd(x)) = w \o AtEnd(x)
    BY <2>1, EmptyConcat
  <2> QED BY <2>2, <2>3, <1>4
<1>8. Levelled(w, 0, 0) /\ \A p \in 1 .. Len(w) : w[p].op = "call"
  <2>1. \A p \in 1 .. Len(w) : \E k \in C : w[p] = Item("call", k, 0)
    BY VisitsFacts
  <2>2. \A k \in C : k \in CallIds(case) /\ Nesting(k) = 0 + 1
    <3>1. ASSUME NEW k \in C PROVE k \in CallIds(case) /\ Nesting(k) = 0 + 1
      <4>1. k \in CallIds(case) /\ case.at[k] = [in |-> Top, slot |-> x]
        BY KidsFacts
      <4>2. case.at[k].in = Top
        BY <4>1
      <4> QED BY <4>1, <4>2, NestingFacts
    <3> QED BY <3>1
  <2>3. \A p \in 1 .. Len(w) : \E k \in CallIds(case) : Nesting(k) = 0 + 1 /\ w[p] = Item("call", k, 0)
    <3> HIDE DEF w, C
    <3> QED BY <2>1, <2>2
  <2> HIDE DEF w
  <2> QED BY <2>3, <1>3, LevelledVisits
<1>9. Once(w, C, {})
  BY OnceVisits
<1>10. Tree(OnSide(x), C, {}, H, {}) /\ C \subseteq OnSide(x)
  BY SideTree
<1>11. Counted({}, Append(<<>>, 0), Append(<<>>, Null), Append(<<>>, Null))
  <2>1. Counted({}, <<>>, <<>>, <<>>)
    BY DEF Counted
  <2>2. LevelSeqs(<<>>, <<>>, <<>>)
    BY DEF LevelSeqs
  <2> QED BY <2>1, <2>2, CountedGrow
<1>12. C \in SUBSET CallIds(case) /\ H \in SUBSET CallIds(case) /\ {} \in SUBSET CallIds(case)
  BY <1>10 DEF OnSide
<1>13. Works(x, Tail(t), 0, Append(<<>>, 0), Append(<<>>, Null), Append(<<>>, Null))
  <2> HIDE DEF w, C, H
  <2>1. \A p \in 1 .. Len(w) : w[p].op \in {"call", "open", "close"}
    BY <1>8
  <2> QED BY <2>1, <1>3, <1>7, <1>8, <1>9, <1>10, <1>11, <1>12 DEF Works
<1> QED BY <1>2, <1>7, <1>13

\* The parts of a call are to come.
CallBlock(m) == (<<Item("open", m, 0)>> \o ArgVisits(m)) \o <<Item("close", m, 0)>>

LEMMA CallBlockFacts ==
  ASSUME case \in Cases, NEW m \in CallIds(case), Kids(case, m, 0) = <<>>
  PROVE  /\ CallBlock(m) \in Seq(ItemSet)
         /\ \A p \in 1 .. Len(CallBlock(m)) : CallBlock(m)[p].op \in {"call", "open", "close"}
         /\ Once(CallBlock(m), Inner(m), {m})
         /\ Levelled(CallBlock(m), Nesting(m) - 1, Nesting(m) - 1)
<1>1. PICK o, c : o = Item("open", m, 0) /\ c = Item("close", m, 0)
  OBVIOUS
<1>2. m \in Nat
  BY CaseFacts
<1>3. o \in ItemSet /\ c \in ItemSet /\ o.op = "open" /\ c.op = "close" /\ c.n = m /\ o.n = m
  BY <1>1, <1>2, ItemFacts DEF Ops, Direct
<1>4. PICK a : a = ArgVisits(m)
  OBVIOUS
<1>5. a \in Seq(ItemSet)
  BY <1>4, ArgVisitsFacts
<1>6. PICK n \in Nat : n = Nesting(m)
  BY NestingFacts
<1>7. Levelled(a, n, n) /\ \A p \in 1 .. Len(a) : a[p].op = "call"
  <2>1. ASSUME NEW p \in 1 .. Len(a)
        PROVE  \E k \in CallIds(case) : Nesting(k) = n + 1 /\ a[p] = Item("call", k, 0)
    <3>5. PICK i \in 1 .. Slots : \E k \in Outermost(m, i) : a[p] = Item("call", k, 0)
      BY <1>4, ArgVisitsFacts
    <3>1. PICK k \in Outermost(m, i) : a[p] = Item("call", k, 0)
      BY <3>5
    <3>2. k \in CallIds(case) /\ case.at[k] = [in |-> m, slot |-> i]
      BY KidsFacts
    <3>3. case.at[k].in = m /\ m # Top
      BY <3>2, CaseFacts DEF Top
    <3>4. Nesting(k) = n + 1
      BY <3>2, <3>3, <1>6, NestingFacts
    <3> QED BY <3>1, <3>2, <3>4
  <2> QED BY <2>1, <1>5, LevelledVisits
<1>8. <<o>> \in Seq(ItemSet) /\ <<c>> \in Seq(ItemSet) /\ <<o>> \o a \in Seq(ItemSet)
  BY <1>3, <1>5
<1>9. PICK f : f = <<o>> \o a
  OBVIOUS
<1>10. f \in Seq(ItemSet)
  BY <1>8, <1>9
<1>11. CallBlock(m) = f \o <<c>> /\ CallBlock(m) \in Seq(ItemSet)
  BY <1>1, <1>4, <1>8, <1>9, <1>10 DEF CallBlock
<1>12. Levelled(CallBlock(m), n - 1, n - 1)
  <2>1. OptEnters(o) = n - 1 /\ OptLeaves(o) = n /\ OptEnters(c) = n /\ OptLeaves(c) = n - 1
    BY <1>3, <1>6 DEF OptEnters, OptLeaves
  <2>2. Levelled(<<o>>, n - 1, n) /\ Levelled(<<c>>, n, n - 1)
    BY <2>1, <1>3, LevelledSingle
  <2>3. Levelled(f, n - 1, n)
    BY <2>2, <1>5, <1>7, <1>8, <1>9, LevelledConcat
  <2> QED BY <2>2, <2>3, <1>8, <1>10, <1>11, LevelledConcat
<1>13. Once(CallBlock(m), Inner(m), {m})
  <2>1. Once(<<o>>, {}, {})
    BY <1>3, OnceOther DEF Carrying, Finishing
  <2>2. Once(<<c>>, {}, {m})
    BY <1>3, OnceEnd DEF Finishing
  <2>3. Once(a, Inner(m), {})
    BY <1>4, OnceArgVisits
  <2>4. Once(f, Inner(m), {})
    <3>1. Once(f, {} \cup Inner(m), {} \cup {})
      BY <2>1, <2>3, <1>9, OnceConcat
    <3> QED BY <3>1
  <2>5. m \notin Inner(m)
    BY CaseFacts DEF Inner
  <2>6. Once(CallBlock(m), Inner(m) \cup {}, {} \cup {m})
    BY <2>2, <2>4, <2>5, <1>11, OnceConcat
  <2> QED BY <2>6
<1>14. ASSUME NEW p \in 1 .. Len(CallBlock(m)) PROVE CallBlock(m)[p].op \in {"call", "open", "close"}
  <2>1. PICK u : u = CallBlock(m)
    OBVIOUS
  <2>2. Len(<<o>>) = 1 /\ <<o>>[1] = o /\ Len(<<c>>) = 1 /\ <<c>>[1] = c
    OBVIOUS
  <2>3. Len(f) = 1 + Len(a) /\ f[1] = o /\ \A q \in 1 .. Len(a) : f[1 + q] = a[q]
    BY <2>2, <1>5, <1>8, <1>9, ConcatFacts
  <2>4. Len(u) = Len(f) + 1 /\ (\A q \in 1 .. Len(f) : u[q] = f[q]) /\ u[Len(f) + 1] = c
    BY <2>1, <2>2, <1>8, <1>10, <1>11, ConcatFacts
  <2>5. PICK h \in Nat : h = Len(a)
    BY <1>5
  <2>6. p \in 1 .. h + 2
    BY <2>1, <2>3, <2>4, <2>5
  <2>7. CASE p = 1
    BY <2>7, <2>1, <2>3, <2>4, <2>5, <1>3
  <2>8. CASE p \in 2 .. h + 1
    <3>1. p - 1 \in 1 .. h /\ 1 + (p - 1) = p /\ p \in 1 .. 1 + h
      BY <2>8
    <3>2. f[1 + (p - 1)] = a[p - 1] /\ u[p] = f[p]
      BY <3>1, <2>3, <2>4, <2>5
    <3> QED BY <3>1, <3>2, <2>1, <2>5, <1>7
  <2>9. CASE p = h + 2
    BY <2>9, <2>1, <2>3, <2>4, <2>5, <1>3
  <2> QED BY <2>6, <2>7, <2>8, <2>9
<1> QED BY <1>6, <1>11, <1>12, <1>13, <1>14


\* A call is visited.
LEMMA WorkCall ==
  ASSUME case \in Cases, NEW x \in {0, 1}, NEW t, NEW d, NEW c, NEW r, NEW o, Works(x, t, d, c, r, o),
         Head(t).op = "call", Kids(case, Head(t).n, 0) = <<>>, Head(t).n \in CallIds(case)
  PROVE  Works(x, CallBlock(Head(t).n) \o Tail(t), d, c, r, o)
<1>1. PICK w \in Seq(ItemSet), C, F, H, D \in SUBSET CallIds(case) :
        /\ t = w \o AtEnd(x)
        /\ \A p \in 1 .. Len(w) : w[p].op \in {"call", "open", "close"}
        /\ Once(w, C, F) /\ Tree(OnSide(x), C, F, H, D)
        /\ Levelled(w, d, 0)
        /\ Counted(D, c, r, o)
  BY DEF Works
<1>2. w # <<>> /\ Head(t) = w[1] /\ Tail(t) = Tail(w) \o AtEnd(x)
  BY <1>1, WorkHead
<1>3. PICK m \in CallIds(case) : m = w[1].n
  BY <1>2
<1>4. w[1].op = "call" /\ Kids(case, m, 0) = <<>>
  BY <1>2, <1>3
<1>5. PICK v : v = Tail(w)
  OBVIOUS
<1>6. v \in Seq(ItemSet) /\ \A p \in 1 .. Len(v) : v[p].op \in {"call", "open", "close"}
  <2>1. IsTail(v, w, ItemSet)
    BY <1>2, <1>5, TailIndex
  <2>2. \A p \in 1 .. Len(v) : p + 1 \in 1 .. Len(w) /\ v[p] = w[p + 1]
    BY <2>1 DEF IsTail
  <2> QED BY <2>1, <2>2, <1>1 DEF IsTail
<1>7. m \in C /\ m \notin F /\ Once(v, C \ {m}, F)
  <2>1. OnceRest(v, w, C, F)
    BY <1>1, <1>2, <1>5, OnceTail
  <2> QED BY <2>1, <1>3, <1>4 DEF OnceRest
<1>8. d = Nesting(m) - 1 /\ Levelled(v, d, 0)
  <2>1. OptEnters(w[1]) = d /\ Levelled(v, OptLeaves(w[1]), 0)
    BY <1>1, <1>2, <1>5, LevelledTail
  <2>2. OptEnters(w[1]) = Nesting(m) - 1 /\ OptLeaves(w[1]) = Nesting(m) - 1
    BY <1>3, <1>4 DEF OptEnters, OptLeaves
  <2> QED BY <2>1, <2>2
<1>9. PICK b : b = CallBlock(m)
  OBVIOUS
<1>10. /\ b \in Seq(ItemSet)
       /\ \A p \in 1 .. Len(b) : b[p].op \in {"call", "open", "close"}
       /\ Once(b, Inner(m), {m})
       /\ Levelled(b, d, d)
  BY <1>4, <1>8, <1>9, CallBlockFacts
<1>11. PICK u : u = b \o v
  OBVIOUS
<1>12. u \in Seq(ItemSet) /\ \A p \in 1 .. Len(u) : u[p].op \in {"call", "open", "close"}
  <2>1. /\ u \in Seq(ItemSet) /\ Len(u) = Len(b) + Len(v)
        /\ \A q \in 1 .. Len(b) : u[q] = b[q]
        /\ \A q \in 1 .. Len(v) : u[Len(b) + q] = v[q]
    BY <1>6, <1>10, <1>11, ConcatFacts
  <2>2. PICK n \in Nat, h \in Nat : n = Len(b) /\ h = Len(v)
    BY <1>6, <1>10
  <2>3. ASSUME NEW p \in 1 .. n + h PROVE u[p].op \in {"call", "open", "close"}
    <3>1. CASE p <= n
      BY <3>1, <2>1, <2>2, <1>10
    <3>2. CASE p > n
      <4>1. p - n \in 1 .. h /\ n + (p - n) = p
        BY <3>2
      <4>2. u[n + (p - n)] = v[p - n]
        BY <4>1, <2>1, <2>2
      <4> QED BY <4>1, <4>2, <2>2, <1>6
    <3> QED BY <3>1, <3>2
  <2> QED BY <2>1, <2>2, <2>3
<1>13. /\ Tree(OnSide(x), (C \ {m}) \cup Inner(m), F \cup {m}, H \ Inner(m), D)
       /\ Inner(m) \subseteq H
  <2>1. OnSide(x) \in SUBSET CallIds(case)
    BY DEF OnSide
  <2>2. m \in OnSide(x)
    BY <1>1, <1>7 DEF Tree
  <2>3. Inner(m) \subseteq OnSide(x)
    <3>1. ASSUME NEW k \in Inner(m) PROVE k \in OnSide(x)
      <4>1. k \in CallIds(case)
        BY DEF Inner
      <4>2. Side[k] = Side[m]
        BY <4>1, InnerFacts
      <4> QED BY <4>1, <4>2, <2>2 DEF OnSide
    <3> QED BY <3>1
  <2> QED BY <2>1, <2>3, <1>1, <1>7, TreeVisit
<1>14. Once(u, (C \ {m}) \cup Inner(m), F \cup {m})
  <2>1. (Inner(m) \cup {m}) \cap ((C \ {m}) \cup F) = {}
    BY <1>1, <1>7, <1>13 DEF Tree
  <2>2. Once(u, Inner(m) \cup (C \ {m}), {m} \cup F)
    BY <2>1, <1>7, <1>10, <1>11, OnceConcat
  <2>3. Inner(m) \cup (C \ {m}) = (C \ {m}) \cup Inner(m) /\ {m} \cup F = F \cup {m}
    OBVIOUS
  <2> QED BY <2>2, <2>3
<1>15. Levelled(u, d, 0)
  BY <1>6, <1>8, <1>10, <1>11, LevelledConcat
<1>16. CallBlock(Head(t).n) \o Tail(t) = u \o AtEnd(x)
  <2>1. AtEnd(x) \in Seq(ItemSet)
    BY AtEndFacts
  <2>2. (b \o v) \o AtEnd(x) = b \o (v \o AtEnd(x))
    BY <2>1, <1>6, <1>10, Associative
  <2> QED BY <2>2, <1>2, <1>3, <1>5, <1>9, <1>11
<1>17. /\ (C \ {m}) \cup Inner(m) \in SUBSET CallIds(case) /\ F \cup {m} \in SUBSET CallIds(case)
       /\ H \ Inner(m) \in SUBSET CallIds(case)
  BY DEF Inner
<1>18. PICK CC, FF, HH \in SUBSET CallIds(case) :
         CC = (C \ {m}) \cup Inner(m) /\ FF = F \cup {m} /\ HH = H \ Inner(m)
  BY <1>17
<1>19. Once(u, CC, FF) /\ Tree(OnSide(x), CC, FF, HH, D)
  BY <1>13, <1>14, <1>18
<1> QED BY <1>1, <1>12, <1>15, <1>16, <1>19 DEF Works

\* What is left after a call's part, if it is o.
LEMMA WorkOpen ==
  ASSUME case \in Cases, NEW x \in {0, 1}, NEW t, NEW d, NEW c, NEW r, NEW o, Works(x, t, d, c, r, o),
         Head(t).op = "open", Head(t).n \in CallIds(case), LevelSeqs(c, r, o)
  PROVE  /\ Works(x, Tail(t), d + 1, c, r, o)
         /\ Works(x, Tail(t), d + 1, Append(c, 0), Append(r, Null), Append(o, Null))
<1>1. PICK w \in Seq(ItemSet), C, F, H, D \in SUBSET CallIds(case) :
        /\ t = w \o AtEnd(x)
        /\ \A p \in 1 .. Len(w) : w[p].op \in {"call", "open", "close"}
        /\ Once(w, C, F) /\ Tree(OnSide(x), C, F, H, D)
        /\ Levelled(w, d, 0)
        /\ Counted(D, c, r, o)
  BY DEF Works
<1>2. w # <<>> /\ Head(t) = w[1] /\ Tail(t) = Tail(w) \o AtEnd(x)
  BY <1>1, WorkHead
<1>3. PICK m \in CallIds(case) : m = w[1].n
  BY <1>2
<1>4. w[1].op = "open"
  BY <1>2
<1>5. PICK v : v = Tail(w)
  OBVIOUS
<1>6. v \in Seq(ItemSet) /\ \A p \in 1 .. Len(v) : v[p].op \in {"call", "open", "close"}
  <2>1. IsTail(v, w, ItemSet)
    BY <1>2, <1>5, TailIndex
  <2>2. \A p \in 1 .. Len(v) : p + 1 \in 1 .. Len(w) /\ v[p] = w[p + 1]
    BY <2>1 DEF IsTail
  <2> QED BY <2>1, <2>2, <1>1 DEF IsTail
<1>7. Once(v, C, F)
  <2>1. OnceRest(v, w, C, F)
    BY <1>1, <1>2, <1>5, OnceTail
  <2>2. w[1].op \notin Carrying
    BY <1>4 DEF Carrying, Finishing
  <2> QED BY <2>1, <2>2 DEF OnceRest
<1>8. Levelled(v, d + 1, 0)
  <2>1. OptEnters(w[1]) = d /\ Levelled(v, OptLeaves(w[1]), 0)
    BY <1>1, <1>2, <1>5, LevelledTail
  <2>2. OptEnters(w[1]) = Nesting(m) - 1 /\ OptLeaves(w[1]) = Nesting(m)
    BY <1>3, <1>4 DEF OptEnters, OptLeaves
  <2>3. Nesting(m) \in Nat
    BY NestingFacts
  <2>4. Nesting(m) = d + 1
    BY <2>1, <2>2, <2>3
  <2> QED BY <2>1, <2>2, <2>4
<1>9. Counted(D, Append(c, 0), Append(r, Null), Append(o, Null))
  BY <1>1, CountedGrow
<1>10. Tail(t) = v \o AtEnd(x)
  BY <1>2, <1>5
<1> QED BY <1>1, <1>6, <1>7, <1>8, <1>9, <1>10 DEF Works

\* A call is done and entered at its level.
LEMMA WorkClose ==
  ASSUME case \in Cases, NEW x \in {0, 1}, NEW t, NEW d, NEW c, NEW r, NEW o, Works(x, t, d, c, r, o),
         Head(t).op = "close", Head(t).n \in CallIds(case), LevelSeqs(c, r, o), d <= Len(c)
  PROVE  LET m == Head(t).n IN
         /\ Works(x, Tail(t), d - 1, [c EXCEPT ![d] = @ + 1],
                  IF case.rec[m] THEN [r EXCEPT ![d] = m] ELSE r,
                  IF case.rec[m] THEN o ELSE [o EXCEPT ![d] = m])
<1>1. PICK w \in Seq(ItemSet), C, F, H, D \in SUBSET CallIds(case) :
        /\ t = w \o AtEnd(x)
        /\ \A p \in 1 .. Len(w) : w[p].op \in {"call", "open", "close"}
        /\ Once(w, C, F) /\ Tree(OnSide(x), C, F, H, D)
        /\ Levelled(w, d, 0)
        /\ Counted(D, c, r, o)
  BY DEF Works
<1>2. w # <<>> /\ Head(t) = w[1] /\ Tail(t) = Tail(w) \o AtEnd(x)
  BY <1>1, WorkHead
<1>3. PICK m \in CallIds(case) : m = w[1].n
  BY <1>2
<1>4. w[1].op = "close"
  BY <1>2
<1>5. PICK v : v = Tail(w)
  OBVIOUS
<1>6. v \in Seq(ItemSet) /\ \A p \in 1 .. Len(v) : v[p].op \in {"call", "open", "close"}
  <2>1. IsTail(v, w, ItemSet)
    BY <1>2, <1>5, TailIndex
  <2>2. \A p \in 1 .. Len(v) : p + 1 \in 1 .. Len(w) /\ v[p] = w[p + 1]
    BY <2>1 DEF IsTail
  <2> QED BY <2>1, <2>2, <1>1 DEF IsTail
<1>7. m \in F /\ Once(v, C, F \ {m})
  <2>1. OnceRest(v, w, C, F)
    BY <1>1, <1>2, <1>5, OnceTail
  <2>2. w[1].op \in Finishing
    BY <1>4 DEF Finishing
  <2> QED BY <2>1, <2>2, <1>3 DEF OnceRest
<1>8. d = Nesting(m) /\ Levelled(v, d - 1, 0)
  <2>1. OptEnters(w[1]) = d /\ Levelled(v, OptLeaves(w[1]), 0)
    BY <1>1, <1>2, <1>5, LevelledTail
  <2>2. OptEnters(w[1]) = Nesting(m) /\ OptLeaves(w[1]) = Nesting(m) - 1
    BY <1>3, <1>4 DEF OptEnters, OptLeaves
  <2> QED BY <2>1, <2>2
<1>9. d \in 1 .. Len(c)
  <2>1. Nesting(m) \in Nat /\ Nesting(m) >= 1
    BY NestingFacts
  <2>2. Len(c) \in Nat
    BY DEF LevelSeqs
  <2> QED BY <2>1, <2>2, <1>8
<1>10. m \notin D /\ Tree(OnSide(x), C, F \ {m}, H, D \cup {m})
  <2>1. Tree(OnSide(x), C, F \ {m}, H, D \cup {m})
    BY <1>1, <1>7, TreeEnd
  <2>2. m \notin D
    BY <1>1, <1>7 DEF Tree
  <2> QED BY <2>1, <2>2
<1>11. PICK cc, rr, oo :
         /\ cc = [c EXCEPT ![d] = @ + 1]
         /\ rr = IF case.rec[m] THEN [r EXCEPT ![d] = m] ELSE r
         /\ oo = IF case.rec[m] THEN o ELSE [o EXCEPT ![d] = m]
  OBVIOUS
<1>12. Counted(D \cup {m}, cc, rr, oo)
  BY <1>1, <1>8, <1>9, <1>10, <1>11, CountedEnd
<1>13. PICK FF, DD \in SUBSET CallIds(case) : FF = F \ {m} /\ DD = D \cup {m}
  OBVIOUS
<1>14. Once(v, C, FF) /\ Tree(OnSide(x), C, FF, H, DD) /\ Counted(DD, cc, rr, oo)
  BY <1>7, <1>10, <1>12, <1>13
<1>15. Tail(t) = v \o AtEnd(x)
  BY <1>2, <1>5
<1>16. Works(x, Tail(t), d - 1, cc, rr, oo)
  BY <1>6, <1>8, <1>14, <1>15 DEF Works
<1> QED BY <1>2, <1>3, <1>11, <1>16

\* A side has been visited: all of its calls are done.
LEMMA WorkEnd ==
  ASSUME case \in Cases, NEW x \in {0, 1}, NEW t, NEW d, NEW c, NEW r, NEW o, Works(x, t, d, c, r, o)
  PROVE  /\ t # <<>> /\ Head(t).op \in {"call", "open", "close", "determine"}
         /\ Head(t).op = "determine" => Tail(t) = After(x) /\ Counted(OnSide(x), c, r, o)
<1>1. PICK w \in Seq(ItemSet), C, F, H, D \in SUBSET CallIds(case) :
        /\ t = w \o AtEnd(x)
        /\ \A p \in 1 .. Len(w) : w[p].op \in {"call", "open", "close"}
        /\ Once(w, C, F) /\ Tree(OnSide(x), C, F, H, D)
        /\ Levelled(w, d, 0)
        /\ Counted(D, c, r, o)
  BY DEF Works
<1>2. /\ t # <<>>
      /\ w # <<>> => Head(t) = w[1] /\ w[1].op \in {"call", "open", "close"}
      /\ w = <<>> => Head(t).op = "determine" /\ Tail(t) = After(x)
  BY <1>1, WorkHead
<1>3. w = <<>> => Counted(OnSide(x), c, r, o)
  <2>1. SUFFICES ASSUME w = <<>> PROVE Counted(OnSide(x), c, r, o)
    OBVIOUS
  <2>2. C = {} /\ F = {}
    <3>1. Len(w) = 0
      BY <2>1
    <3>2. \A p \in 1 .. Len(w) : FALSE
      BY <3>1
    <3> QED BY <3>2, <1>1 DEF Once
  <2>3. OnSide(x) \in SUBSET CallIds(case)
    BY DEF OnSide
  <2>4. D = OnSide(x)
    BY <2>2, <2>3, <1>1, TreeDone
  <2> QED BY <2>4, <1>1
<1> QED BY <1>2, <1>3


-----------------------------------------------------------------------------
(* The case does not change *)

LEMMA StableOwn ==
  ASSUME case' = case
  PROVE  /\ \A x, t, d, c, r, o : Works(x, t, d, c, r, o)' <=> Works(x, t, d, c, r, o)
         /\ \A par, x : DecidedSide(par, x)' <=> DecidedSide(par, x)
         /\ \A par, x : Before(par, x)' <=> Before(par, x)
         /\ \A t, sc, par : GenWorks(t, sc, par)' <=> GenWorks(t, sc, par)
         /\ \A x : After(x)' = After(x)
<1>1. Depth' = Depth /\ Side' = Side /\ CallIds(case)' = CallIds(case)
  BY StableTree DEF CallIds
<1>2. \A k : Nesting(k)' = Nesting(k)
  BY <1>1 DEF Nesting, TailRec
<1>3. \A x : OnSide(x)' = OnSide(x)
  BY <1>1 DEF OnSide
<1>4. \A x, l : Members(x, l)' = Members(x, l)
  BY <1>2, <1>3 DEF Members
<1>5. \A par, level : Decided(par, level)' <=> Decided(par, level)
  BY DEF Decided
<1>6. \A par, x : DecidedSide(par, x)' <=> DecidedSide(par, x)
  BY <1>4, <1>5 DEF DecidedSide
<1>7. \A x : After(x)' = After(x) /\ AtEnd(x)' = AtEnd(x)
  BY DEF After, AtEnd, OptVisits
<1>8. \A all, C, F, H, D : Tree(all, C, F, H, D)' <=> Tree(all, C, F, H, D)
  BY DEF Tree
<1>9. \A x : OptEnters(x)' = OptEnters(x) /\ OptLeaves(x)' = OptLeaves(x)
  BY <1>2 DEF OptEnters, OptLeaves
<1>10. \A s, a, b : Levelled(s, a, b)' <=> Levelled(s, a, b)
  BY <1>9 DEF Levelled
<1>11. \A D, l : DoneAt(D, l)' = DoneAt(D, l)
  BY <1>2 DEF DoneAt
<1>12. \A D, c, r, o : Counted(D, c, r, o)' <=> Counted(D, c, r, o)
  BY <1>2, <1>11 DEF Counted
<1>13. \A x, t, d, c, r, o : Works(x, t, d, c, r, o)' <=> Works(x, t, d, c, r, o)
  <2> SUFFICES ASSUME NEW x, NEW t, NEW d, NEW c, NEW r, NEW o
               PROVE  Works(x, t, d, c, r, o)' <=> Works(x, t, d, c, r, o)
    OBVIOUS
  <2>1. Works(x, t, d, c, r, o)' <=>
          \E w \in Seq(ItemSet), C, F, H, D \in SUBSET CallIds(case) :
            /\ t = w \o AtEnd(x)
            /\ \A p \in 1 .. Len(w) : w[p].op \in {"call", "open", "close"}
            /\ Once(w, C, F) /\ Tree(OnSide(x), C, F, H, D)'
            /\ Levelled(w, d, 0)'
            /\ Counted(D, c, r, o)'
    BY <1>1, <1>3, <1>7, <1>8 DEF Works
  <2>2. \A C, F, H, D : Tree(OnSide(x), C, F, H, D)' <=> Tree(OnSide(x), C, F, H, D)
    BY <1>3 DEF Tree
  <2>3. \A w : Levelled(w, d, 0)' <=> Levelled(w, d, 0)
    BY <1>10
  <2>4. \A D : Counted(D, c, r, o)' <=> Counted(D, c, r, o)
    BY <1>12
  <2>5. Works(x, t, d, c, r, o)' <=>
          \E w \in Seq(ItemSet), C, F, H, D \in SUBSET CallIds(case) :
            /\ t = w \o AtEnd(x)
            /\ \A p \in 1 .. Len(w) : w[p].op \in {"call", "open", "close"}
            /\ Once(w, C, F) /\ Tree(OnSide(x), C, F, H, D)
            /\ Levelled(w, d, 0)
            /\ Counted(D, c, r, o)
    BY <2>1, <2>2, <2>3, <2>4
  <2> QED BY <2>5 DEF Works
<1>14. \A par, x : Before(par, x)' <=> Before(par, x)
  BY <1>1, <1>6 DEF Before
<1>15. \A t, sc, par : GenWorks(t, sc, par)' <=> GenWorks(t, sc, par)
  BY <1>1, <1>8 DEF GenWorks
<1> QED BY <1>6, <1>7, <1>13, <1>14, <1>15

\* What the next state is to be.
LEMMA OptOwnNext ==
  ASSUME case' = case, NEW x \in {0, 1},
         Works(x, todo', OptDepth', Calls', LastRecCall', LastOtherCall'), Before(DoParallel', x)
  PROVE  OptOwn'
<1>1. Works(x, todo, OptDepth, Calls, LastRecCall, LastOtherCall)'
  BY StableOwn
<1>2. Before(DoParallel, x)'
  BY StableOwn
<1> QED BY <1>1, <1>2 DEF OptOwn

\* The side that is visited.
LEMMA Visited ==
  ASSUME PlanInv, Optimizing, OptOwn, NEW op, Doing(op)
  PROVE  \E x \in {0, 1} :
           /\ Before(DoParallel, x)
           /\ \/ op = "begin" /\ Starting(x)
              \/ /\ op \in {"call", "open", "close", "determine"}
                 /\ Works(x, todo, OptDepth, Calls, LastRecCall, LastOtherCall)
<1>1. case \in Cases /\ todo # <<>> /\ Head(todo).op = op
  BY Optimizes DEF Doing
<1>2. PICK x \in {0, 1} :
        /\ Starting(x) \/ Works(x, todo, OptDepth, Calls, LastRecCall, LastOtherCall)
        /\ Before(DoParallel, x)
  BY <1>1 DEF OptOwn
<1>3. CASE Starting(x)
  <2>1. todo = OptVisits(case, x) \o After(x)
    BY <1>3 DEF Starting
  <2>2. Head(todo).op = "begin"
    BY <1>1, <2>1, WorkBegin
  <2> QED BY <1>1, <1>2, <1>3, <2>2
<1>4. CASE Works(x, todo, OptDepth, Calls, LastRecCall, LastOtherCall)
  <2>1. Head(todo).op \in {"call", "open", "close", "determine"}
    BY <1>1, <1>4, WorkEnd
  <2> QED BY <1>1, <1>2, <1>4, <2>1
<1> QED BY <1>2, <1>3, <1>4

LEMMA OptLevels ==
  ASSUME PlanInv
  PROVE  LevelSeqs(Calls, LastRecCall, LastOtherCall) /\ OptDepth \in Int /\ OptDepth <= Len(Calls)
BY DEF PlanInv, PlanTypes, LevelSeqs

LEMMA BeginOwn ==
  ASSUME PlanInv, NamedCallees(case), OptOwn, OptBegin
  PROVE  OptOwn'
<1>1. Optimizing /\ Doing("begin") /\ case' = case /\ case \in Cases
  BY Optimizes DEF OptBegin, Optimizing
<1>2. PICK x \in {0, 1} : Before(DoParallel, x) /\ Starting(x)
  BY <1>1, Visited
<1>3. /\ todo = OptVisits(case, x) \o After(x)
      /\ Calls = <<>> /\ LastRecCall = <<>> /\ LastOtherCall = <<>> /\ OptDepth = 0
  BY <1>2 DEF Starting
<1>4. /\ Calls' = Append(<<>>, 0) /\ LastRecCall' = Append(<<>>, Null) /\ LastOtherCall' = Append(<<>>, Null)
      /\ todo' = Tail(todo) /\ OptDepth' = 0 /\ DoParallel' = DoParallel
  BY <1>3 DEF OptBegin, Rest
<1>5. Works(x, Tail(todo), 0, Append(<<>>, 0), Append(<<>>, Null), Append(<<>>, Null))
  BY <1>1, <1>3, WorkBegin
<1>6. Works(x, todo', OptDepth', Calls', LastRecCall', LastOtherCall') /\ Before(DoParallel', x)
  BY <1>2, <1>4, <1>5
<1> QED BY <1>1, <1>6, OptOwnNext

LEMMA CallOwn ==
  ASSUME PlanInv, NamedCallees(case), OptOwn, OptCall
  PROVE  OptOwn'
<1>1. Optimizing /\ Doing("call") /\ case' = case
  BY DEF OptCall, Optimizing
<1>2. case \in Cases /\ Node \in CallIds(case) /\ OptItems(Rest)
  BY <1>1, Optimizes
<1>3. PICK x \in {0, 1} :
        Before(DoParallel, x) /\ Works(x, todo, OptDepth, Calls, LastRecCall, LastOtherCall)
  BY <1>1, Visited
<1>4. PICK m \in CallIds(case) : m = Node
  BY <1>2
<1>5. Kids(case, m, 0) = <<>>
  BY DEF NamedCallees
<1>6. m = Head(todo).n /\ Head(todo).op = "call"
  BY <1>1, <1>4 DEF Node, Doing
<1>7. Works(x, CallBlock(m) \o Tail(todo), OptDepth, Calls, LastRecCall, LastOtherCall)
  BY <1>2, <1>3, <1>5, <1>6, WorkCall
<1>8. todo' = CallBlock(m) \o Tail(todo)
  <2>1. PICK o, a, c, t : o = <<Item("open", m, 0)>> /\ a = ArgVisits(m) /\ c = <<Item("close", m, 0)>> /\ t = Tail(todo)
    OBVIOUS
  <2>2. Visits(<<>>) = <<>>
    BY DEF Visits
  <2>3. todo' = ((((<<>> \o o) \o a) \o <<>>) \o c) \o t
    BY <1>4, <1>5, <2>1, <2>2 DEF OptCall, Rest
  <2>4. m \in Nat
    BY <1>2, CaseFacts
  <2>5. o \in Seq(ItemSet) /\ a \in Seq(ItemSet) /\ c \in Seq(ItemSet)
    <3>1. Item("open", m, 0) \in ItemSet /\ Item("close", m, 0) \in ItemSet
      BY <2>4, ItemFacts DEF Ops
    <3>2. ArgVisits(m) \in Seq(ItemSet)
      BY <1>2, ArgVisitsFacts
    <3> QED BY <2>1, <3>1, <3>2
  <2>6. <<>> \o o = o /\ (o \o a) \o <<>> = o \o a
    BY <2>5, EmptyConcat
  <2>7. todo' = ((o \o a) \o c) \o t
    BY <2>3, <2>6
  <2> QED BY <2>1, <2>7 DEF CallBlock
<1>9. UNCHANGED <<DoParallel, Calls, LastRecCall, LastOtherCall, OptDepth>>
  BY DEF OptCall, optVars
<1>10. Works(x, todo', OptDepth', Calls', LastRecCall', LastOtherCall') /\ Before(DoParallel', x)
  BY <1>3, <1>7, <1>8, <1>9
<1> QED BY <1>1, <1>10, OptOwnNext

LEMMA OpenOwn ==
  ASSUME PlanInv, NamedCallees(case), OptOwn, OptOpen
  PROVE  OptOwn'
<1>1. Optimizing /\ Doing("open") /\ case' = case
  BY DEF OptOpen, Optimizing
<1>2. case \in Cases /\ Node \in CallIds(case)
  BY <1>1, Optimizes
<1>3. PICK x \in {0, 1} :
        Before(DoParallel, x) /\ Works(x, todo, OptDepth, Calls, LastRecCall, LastOtherCall)
  BY <1>1, Visited
<1>4. Head(todo).op = "open" /\ Head(todo).n \in CallIds(case)
  BY <1>1, <1>2 DEF Node, Doing
<1>5. /\ Works(x, Tail(todo), OptDepth + 1, Calls, LastRecCall, LastOtherCall)
      /\ Works(x, Tail(todo), OptDepth + 1, Append(Calls, 0), Append(LastRecCall, Null), Append(LastOtherCall, Null))
  BY <1>2, <1>3, <1>4, OptLevels, WorkOpen
<1>6. /\ todo' = Tail(todo) /\ OptDepth' = OptDepth + 1 /\ DoParallel' = DoParallel
      /\ \/ /\ Calls' = Append(Calls, 0) /\ LastRecCall' = Append(LastRecCall, Null)
            /\ LastOtherCall' = Append(LastOtherCall, Null)
         \/ Calls' = Calls /\ LastRecCall' = LastRecCall /\ LastOtherCall' = LastOtherCall
  BY DEF OptOpen, Rest
<1>7. Works(x, todo', OptDepth', Calls', LastRecCall', LastOtherCall') /\ Before(DoParallel', x)
  BY <1>3, <1>5, <1>6
<1> QED BY <1>1, <1>7, OptOwnNext

LEMMA CloseOwn ==
  ASSUME PlanInv, NamedCallees(case), OptOwn, OptClose
  PROVE  OptOwn'
<1>1. Optimizing /\ Doing("close") /\ case' = case
  BY DEF OptClose, Optimizing
<1>2. case \in Cases /\ Node \in CallIds(case)
  BY <1>1, Optimizes
<1>3. PICK x \in {0, 1} :
        Before(DoParallel, x) /\ Works(x, todo, OptDepth, Calls, LastRecCall, LastOtherCall)
  BY <1>1, Visited
<1>4. Head(todo).op = "close" /\ Head(todo).n \in CallIds(case)
  BY <1>1, <1>2 DEF Node, Doing
<1>5. PICK m : m = Head(todo).n
  OBVIOUS
<1>6. Works(x, Tail(todo), OptDepth - 1, [Calls EXCEPT ![OptDepth] = @ + 1],
            IF case.rec[m] THEN [LastRecCall EXCEPT ![OptDepth] = m] ELSE LastRecCall,
            IF case.rec[m] THEN LastOtherCall ELSE [LastOtherCall EXCEPT ![OptDepth] = m])
  BY <1>2, <1>3, <1>4, <1>5, OptLevels, WorkClose
<1>7. /\ todo' = Tail(todo) /\ OptDepth' = OptDepth - 1 /\ DoParallel' = DoParallel
      /\ Calls' = [Calls EXCEPT ![OptDepth] = @ + 1]
      /\ LastRecCall' = IF case.rec[m] THEN [LastRecCall EXCEPT ![OptDepth] = m] ELSE LastRecCall
      /\ LastOtherCall' = IF case.rec[m] THEN LastOtherCall ELSE [LastOtherCall EXCEPT ![OptDepth] = m]
  BY <1>5 DEF OptClose, Rest, Node
<1>8. Works(x, todo', OptDepth', Calls', LastRecCall', LastOtherCall') /\ Before(DoParallel', x)
  BY <1>3, <1>6, <1>7
<1> QED BY <1>1, <1>8, OptOwnNext

LEMMA DetermineOwn ==
  ASSUME PlanInv, NamedCallees(case), OptOwn, Determine
  PROVE  OptOwn'
<1>1. Optimizing /\ Doing("determine") /\ case' = case
  BY DEF Determine, Optimizing
<1>2. case \in Cases /\ Head(todo).op = "determine"
  BY <1>1, Optimizes DEF Doing
<1>3. PICK x \in {0, 1} :
        Before(DoParallel, x) /\ Works(x, todo, OptDepth, Calls, LastRecCall, LastOtherCall)
  BY <1>1, Visited
<1>4. Tail(todo) = After(x) /\ Counted(OnSide(x), Calls, LastRecCall, LastOtherCall)
  BY <1>2, <1>3, WorkEnd
<1>5. \A k \in OnSide(x) : DoParallel[k]
  <2>1. \A k \in CallIds(case) : Side[k] >= x => DoParallel[k]
    BY <1>3 DEF Before
  <2>2. \A k \in OnSide(x) : k \in CallIds(case) /\ Side[k] >= x
    BY DEF OnSide
  <2> QED BY <2>1, <2>2
<1>6. PICK par : par = [m \in CallIds(case) |-> DoParallel[m] /\ \A l \in Levels : m \notin Kept(l)]
  OBVIOUS
<1>7. /\ \A l \in Nat : Decided(par, Members(x, l))
      /\ \A k \in CallIds(case) : k \notin OnSide(x) => (par[k] <=> DoParallel[k])
  BY <1>2, <1>4, <1>5, <1>6, Determined
<1>8. /\ Calls' = <<>> /\ LastRecCall' = <<>> /\ LastOtherCall' = <<>> /\ OptDepth' = 0
      /\ todo' = After(x) /\ DoParallel' = par
  BY <1>4, <1>6 DEF Determine, Rest
<1>9. CASE x = 0
  <2>1. DecidedSide(par, 0)
    BY <1>7, <1>9 DEF DecidedSide
  <2>2. \A k \in CallIds(case) : Side[k] >= 1 => par[k]
    <3>1. ASSUME NEW k \in CallIds(case), Side[k] >= 1 PROVE par[k]
      <4>1. DoParallel[k]
        <5>1. Side[k] \in {0, 1}
          BY <1>2, SideFacts
        <5>2. Side[k] >= 0
          BY <5>1
        <5> QED BY <1>3, <1>9, <5>2 DEF Before
      <4>2. k \notin OnSide(x)
        BY <1>9, <3>1 DEF OnSide
      <4> QED BY <4>1, <4>2, <1>7
    <3> QED BY <3>1
  <2>3. Before(par, 1)
    BY <2>1, <2>2 DEF Before
  <2>4. Before(DoParallel, 1)'
    BY <2>3, <1>1, <1>8, StableOwn
  <2>5. OptVisits(case, 1) \o <<>> = OptVisits(case, 1)
    BY <1>2, OptFacts, EmptyConcat
  <2>6. todo' = OptVisits(case, 1) \o After(1)
    BY <2>5, <1>8, <1>9 DEF After
  <2>7. OptVisits(case, 1)' = OptVisits(case, 1) /\ After(1)' = After(1)
    BY <1>1, StableOwn DEF OptVisits
  <2>8. Starting(1)'
    BY <2>6, <2>7, <1>8 DEF Starting
  <2> QED BY <2>4, <2>8 DEF OptOwn
<1>10. CASE x = 1
  <2>1. DecidedSide(par, 1)
    BY <1>7, <1>10 DEF DecidedSide
  <2>2. ASSUME NEW l \in Nat PROVE Decided(par, Members(0, l))
    <3>1. Decided(DoParallel, Members(0, l))
      BY <1>3, <1>10 DEF Before, DecidedSide
    <3>2. \A k \in Members(0, l) : par[k] <=> DoParallel[k]
      BY <1>7, <1>10 DEF Members, OnSide
    <3>3. {k \in Members(0, l) : ~par[k]} = {k \in Members(0, l) : ~DoParallel[k]}
      BY <3>2
    <3> QED BY <3>1, <3>3 DEF Decided
  <2>3. AllDecided(par)
    BY <2>1, <2>2 DEF AllDecided, DecidedSide
  <2>4. AllDecided(DoParallel)'
    BY <2>3, <1>1, <1>8, StableOwn DEF AllDecided
  <2>5. todo' = <<>>
    BY <1>8, <1>10 DEF After
  <2> QED BY <2>4, <2>5 DEF OptOwn
<1> QED BY <1>9, <1>10


-----------------------------------------------------------------------------
(* The generator at work *)

\* No place of tc has an own call that sc did not have.
Within(tc, sc) == \A l \in 1 .. Len(tc) : tc[l] # Null => \E h \in 1 .. Len(sc) : sc[h] = tc[l]

LEMMA GenWorksNext ==
  ASSUME case' = case, GenWorks(todo', SequentialCall', DoParallel')
  PROVE  GenWorks(todo, SequentialCall, DoParallel)'
BY StableOwn

LEMMA TailSeqs ==
  ASSUME NEW t \in Seq(ItemSet), t # <<>>, NEW par, \A p \in 1 .. Len(t) : t[p].op = "seq" => ~par[t[p].n]
  PROVE  /\ Tail(t) \in Seq(ItemSet)
         /\ \A p \in 1 .. Len(Tail(t)) : Tail(t)[p].op = "seq" => ~par[Tail(t)[p].n]
<1>1. PICK v : v = Tail(t)
  OBVIOUS
<1>2. IsTail(v, t, ItemSet)
  BY <1>1, TailIndex
<1>3. v \in Seq(ItemSet) /\ \A p \in 1 .. Len(v) : p + 1 \in 1 .. Len(t) /\ v[p] = t[p + 1]
  BY <1>2 DEF IsTail
<1>4. \A p \in 1 .. Len(v) : v[p].op = "seq" => ~par[v[p].n]
  BY <1>3
<1> QED BY <1>1, <1>3, <1>4

\* An item that neither visits nor ends a call.
LEMMA GenWorksTail ==
  ASSUME NEW t, NEW sc, NEW par, GenWorks(t, sc, par), t # <<>>, t[1].op \notin Carrying,
         NEW tc, Within(tc, sc)
  PROVE  GenWorks(Tail(t), tc, par)
<1>1. PICK C, F, H, D \in SUBSET CallIds(case) :
        /\ Once(t, C, F) /\ Tree(CallIds(case), C, F, H, D)
        /\ \A l \in 1 .. Len(sc) : sc[l] # Null => sc[l] \in D
  BY DEF GenWorks
<1>2. Once(Tail(t), C, F)
  <2>1. OnceRest(Tail(t), t, C, F)
    BY <1>1, OnceTail
  <2> QED BY <2>1 DEF OnceRest
<1>3. t \in Seq(ItemSet)
  BY <1>1 DEF Once
<1>4. \A p \in 1 .. Len(Tail(t)) : Tail(t)[p].op = "seq" => ~par[Tail(t)[p].n]
  <2>1. \A p \in 1 .. Len(t) : t[p].op = "seq" => ~par[t[p].n]
    BY DEF GenWorks
  <2> QED BY <2>1, <1>3, TailSeqs
<1>5. \A l \in 1 .. Len(tc) : tc[l] # Null => tc[l] \in D /\ ~par[tc[l]]
  BY <1>1 DEF Within, GenWorks
<1> QED BY <1>1, <1>2, <1>4, <1>5 DEF GenWorks

\* A call is done.
LEMMA GenWorksEnd ==
  ASSUME NEW t, NEW sc, NEW par, GenWorks(t, sc, par), t # <<>>,
         NEW m \in CallIds(case), m = t[1].n, t[1].op \in {"spawn", "seq"},
         NEW tc, \A l \in 1 .. Len(tc) : tc[l] # Null =>
                   (\E h \in 1 .. Len(sc) : sc[h] = tc[l]) \/ (t[1].op = "seq" /\ tc[l] = m)
  PROVE  /\ GenWorks(Tail(t), tc, par)
         /\ t[1].op = "seq" => ~par[m]
         /\ \A l \in 1 .. Len(sc) : sc[l] # Null => sc[l] # m /\ ~par[sc[l]] /\ sc[l] \in CallIds(case)
<1>1. PICK C, F, H, D \in SUBSET CallIds(case) :
        /\ Once(t, C, F) /\ Tree(CallIds(case), C, F, H, D)
        /\ \A l \in 1 .. Len(sc) : sc[l] # Null => sc[l] \in D
  BY DEF GenWorks
<1>2. m \in F /\ Once(Tail(t), C, F \ {m})
  <2>1. OnceRest(Tail(t), t, C, F)
    BY <1>1, OnceTail
  <2>2. t[1].op \in Finishing
    BY DEF Finishing
  <2> QED BY <2>1, <2>2 DEF OnceRest
<1>3. t \in Seq(ItemSet)
  BY <1>1 DEF Once
<1>4. \A p \in 1 .. Len(t) : t[p].op = "seq" => ~par[t[p].n]
  BY DEF GenWorks
<1>5. \A p \in 1 .. Len(Tail(t)) : Tail(t)[p].op = "seq" => ~par[Tail(t)[p].n]
  BY <1>3, <1>4, TailSeqs
<1>6. t[1].op = "seq" => ~par[m]
  <2>1. 1 \in 1 .. Len(t)
    BY <1>3
  <2> QED BY <2>1, <1>4
<1>7. \A l \in 1 .. Len(sc) : sc[l] # Null => ~par[sc[l]]
  BY DEF GenWorks
<1>8. m \notin D
  BY <1>1, <1>2 DEF Tree
<1>9. Tree(CallIds(case), C, F \ {m}, H, D \cup {m})
  BY <1>1, <1>2, TreeEnd
<1>10. \A l \in 1 .. Len(tc) : tc[l] # Null => tc[l] \in D \cup {m} /\ ~par[tc[l]]
  BY <1>1, <1>6, <1>7
<1>11. PICK FF, DD \in SUBSET CallIds(case) : FF = F \ {m} /\ DD = D \cup {m}
  OBVIOUS
<1>12. /\ Once(Tail(t), C, FF) /\ Tree(CallIds(case), C, FF, H, DD)
       /\ \A l \in 1 .. Len(tc) : tc[l] # Null => tc[l] \in DD
  BY <1>2, <1>9, <1>10, <1>11
<1>13. GenWorks(Tail(t), tc, par)
  BY <1>5, <1>10, <1>12 DEF GenWorks
<1> QED BY <1>1, <1>6, <1>7, <1>8, <1>13

\* A call is visited: the block b is to come.
LEMMA GenWorksCall ==
  ASSUME case \in Cases, NEW t, NEW sc, NEW par, GenWorks(t, sc, par), t # <<>>,
         NEW m \in CallIds(case), m = t[1].n, t[1].op = "call",
         NEW b, Once(b, Inner(m), {m}), \A p \in 1 .. Len(b) : b[p].op = "seq" => ~par[m],
         NEW tc, Within(tc, sc)
  PROVE  GenWorks(b \o Tail(t), tc, par)
<1>1. PICK C, F, H, D \in SUBSET CallIds(case) :
        /\ Once(t, C, F) /\ Tree(CallIds(case), C, F, H, D)
        /\ \A l \in 1 .. Len(sc) : sc[l] # Null => sc[l] \in D
  BY DEF GenWorks
<1>2. PICK v : v = Tail(t)
  OBVIOUS
<1>3. m \in C /\ m \notin F /\ Once(v, C \ {m}, F)
  <2>1. OnceRest(v, t, C, F)
    BY <1>1, <1>2, OnceTail
  <2> QED BY <2>1 DEF OnceRest
<1>4. t \in Seq(ItemSet) /\ b \in Seq(ItemSet)
  BY <1>1 DEF Once
<1>5. v \in Seq(ItemSet) /\ \A p \in 1 .. Len(v) : v[p].op = "seq" => ~par[v[p].n]
  <2>1. \A p \in 1 .. Len(t) : t[p].op = "seq" => ~par[t[p].n]
    BY DEF GenWorks
  <2> QED BY <2>1, <1>2, <1>4, TailSeqs
<1>6. \A l \in 1 .. Len(tc) : tc[l] # Null => tc[l] \in D /\ ~par[tc[l]]
  BY <1>1 DEF Within, GenWorks
<1>7. Inner(m) \subseteq CallIds(case)
  BY DEF Inner
<1>8. Tree(CallIds(case), (C \ {m}) \cup Inner(m), F \cup {m}, H \ Inner(m), D) /\ Inner(m) \subseteq H
  BY <1>1, <1>3, <1>7, TreeVisit
<1>9. PICK u : u = b \o v
  OBVIOUS
<1>10. Once(u, (C \ {m}) \cup Inner(m), F \cup {m})
  <2>1. (Inner(m) \cup {m}) \cap ((C \ {m}) \cup F) = {}
    BY <1>1, <1>3, <1>8 DEF Tree
  <2>2. Once(u, Inner(m) \cup (C \ {m}), {m} \cup F)
    BY <2>1, <1>3, <1>9, OnceConcat
  <2>3. Inner(m) \cup (C \ {m}) = (C \ {m}) \cup Inner(m) /\ {m} \cup F = F \cup {m}
    OBVIOUS
  <2> QED BY <2>2, <2>3
<1>11. \A p \in 1 .. Len(u) : u[p].op = "seq" => ~par[u[p].n]
  <2>1. /\ Len(u) = Len(b) + Len(v)
        /\ \A q \in 1 .. Len(b) : u[q] = b[q]
        /\ \A q \in 1 .. Len(v) : u[Len(b) + q] = v[q]
    BY <1>4, <1>5, <1>9, ConcatFacts
  <2>2. PICK n \in Nat, h \in Nat : n = Len(b) /\ h = Len(v)
    BY <1>4, <1>5
  <2>3. \A q \in 1 .. n : b[q].op = "seq" => b[q].n = m
    <3>1. \A q \in 1 .. Len(b) : b[q].op \in Finishing => b[q].n \in {m}
      BY DEF Once
    <3> QED BY <3>1, <2>2 DEF Finishing
  <2>4. ASSUME NEW p \in 1 .. n + h, u[p].op = "seq" PROVE ~par[u[p].n]
    <3>1. CASE p <= n
      BY <3>1, <2>1, <2>2, <2>3, <2>4
    <3>2. CASE p > n
      <4>1. p - n \in 1 .. h /\ n + (p - n) = p
        BY <3>2
      <4>2. u[n + (p - n)] = v[p - n]
        BY <4>1, <2>1, <2>2
      <4> QED BY <4>1, <4>2, <2>2, <2>4, <1>5
    <3> QED BY <3>1, <3>2
  <2> QED BY <2>1, <2>2, <2>4
<1>12. PICK CC, FF, HH \in SUBSET CallIds(case) :
         CC = (C \ {m}) \cup Inner(m) /\ FF = F \cup {m} /\ HH = H \ Inner(m)
  BY <1>7
<1>13. Once(u, CC, FF) /\ Tree(CallIds(case), CC, FF, HH, D)
  BY <1>8, <1>10, <1>12
<1>14. GenWorks(u, tc, par)
  BY <1>6, <1>11, <1>13 DEF GenWorks
<1> QED BY <1>2, <1>9, <1>14

\* The two blocks of a call.
LEMMA GenBlocks ==
  ASSUME case \in Cases, NEW m \in CallIds(case), Kids(case, m, 0) = <<>>,
         NEW p, p = ArgStatements(m) \o Visits(Kids(case, m, 0)) \o <<Item("spawn", m, 0)>>,
         NEW s, s = Visits(Kids(case, m, 0)) \o ArgVisits(m) \o <<Item("seq", m, 0)>>
  PROVE  /\ Once(p, Inner(m), {m}) /\ \A q \in 1 .. Len(p) : p[q].op # "seq"
         /\ Once(s, Inner(m), {m})
<1>1. m \in Nat /\ m \notin Inner(m)
  BY CaseFacts DEF Inner
<1>2. PICK i, j : i = Item("spawn", m, 0) /\ j = Item("seq", m, 0)
  OBVIOUS
<1>3. i \in ItemSet /\ j \in ItemSet /\ i.op = "spawn" /\ j.op = "seq" /\ i.n = m /\ j.n = m
  BY <1>1, <1>2, ItemFacts DEF Ops
<1>4. Once(<<i>>, {}, {m}) /\ Once(<<j>>, {}, {m})
  BY <1>3, OnceEnd DEF Finishing
<1>5. PICK a, v : a = ArgStatements(m) /\ v = ArgVisits(m)
  OBVIOUS
<1>6. Once(a, Inner(m), {}) /\ Once(v, Inner(m), {})
  BY <1>5, OnceArgStatements, OnceArgVisits
<1>7. a \in Seq(ItemSet) /\ v \in Seq(ItemSet)
  BY <1>6 DEF Once
<1>8. p = a \o <<i>> /\ s = v \o <<j>>
  <2>1. Visits(<<>>) = <<>>
    BY DEF Visits
  <2>2. a \o <<>> = a /\ <<>> \o v = v
    BY <1>7, EmptyConcat
  <2> QED BY <2>1, <2>2, <1>2, <1>5
<1>9. Once(p, Inner(m) \cup {}, {} \cup {m}) /\ Once(s, Inner(m) \cup {}, {} \cup {m})
  <2>1. (Inner(m) \cup {}) \cap ({} \cup {m}) = {}
    BY <1>1
  <2>2. Once(a \o <<i>>, Inner(m) \cup {}, {} \cup {m})
    BY <2>1, <1>4, <1>6, OnceConcat
  <2>3. Once(v \o <<j>>, Inner(m) \cup {}, {} \cup {m})
    BY <2>1, <1>4, <1>6, OnceConcat
  <2> QED BY <2>2, <2>3, <1>8
<1>10. ASSUME NEW q \in 1 .. Len(p) PROVE p[q].op # "seq"
  <2>1. BlockOK(p, m, "spawn")
    BY ParallelBlock
  <2>2. p[Len(p)] = Item("spawn", m, 0)
    BY <2>1 DEF BlockOK
  <2>3. q # Len(p) => (\E k \in Inner(m) : p[q] = Item("call", k, 0)) \/ (\E h \in 1 .. Slots : p[q] = Item("arg", m, h))
    <3>1. q # Len(p) => q \in 1 .. Len(p) - 1
      BY <2>1 DEF BlockOK
    <3> QED BY <3>1, <2>1 DEF BlockOK
  <2>4. /\ Item("spawn", m, 0).op = "spawn"
        /\ \A k : Item("call", k, 0).op = "call"
        /\ \A h : Item("arg", m, h).op = "arg"
    BY DEF Item
  <2>5. p[q].op \in {"spawn", "call", "arg"}
    BY <2>2, <2>3, <2>4
  <2> QED BY <2>5
<1>11. Once(p, Inner(m), {m}) /\ Once(s, Inner(m), {m})
  BY <1>9
<1> QED BY <1>10, <1>11


LEMMA OncePair ==
  ASSUME NEW x \in ItemSet, NEW y \in ItemSet, x.op \notin Carrying, y.op \notin Carrying
  PROVE  Once(<<x, y>>, {}, {})
<1>1. Once(<<x>>, {}, {}) /\ Once(<<y>>, {}, {})
  BY OnceOther
<1>2. Once(<<x>> \o <<y>>, {} \cup {}, {} \cup {})
  BY <1>1, OnceConcat
<1>3. <<x, y>> = <<x>> \o <<y>> /\ {} \cup {} = {}
  BY PairConcat
<1> QED BY <1>2, <1>3

\* An expression of the case.
LEMMA OnceExpression ==
  ASSUME case \in Cases, NEW i \in {0, 1}, NEW op \in Direct
  PROVE  Once(Visits(Kids(case, Top, i)) \o <<Item("output", Top, 0), Item(op, Top, i)>>, Outermost(Top, i), {})
<1>1. PICK x, y : x = Item("output", Top, 0) /\ y = Item(op, Top, i)
  OBVIOUS
<1>2. x \in ItemSet /\ y \in ItemSet /\ x.op = "output" /\ y.op = op
  <2>1. "output" \in Ops /\ op \in Ops /\ Top \in Nat /\ i \in Nat /\ 0 \in Nat
    BY DEF Ops, Top
  <2> QED BY <2>1, <1>1, ItemFacts
<1>3. Once(<<x, y>>, {}, {})
  BY <1>2, OncePair DEF Carrying, Finishing, Direct
<1>4. Once(Visits(Kids(case, Top, i)), Outermost(Top, i), {})
  BY OnceVisits
<1>5. Once(Visits(Kids(case, Top, i)) \o <<x, y>>, Outermost(Top, i) \cup {}, {} \cup {})
  BY <1>3, <1>4, OnceConcat
<1>6. Outermost(Top, i) \cup {} = Outermost(Top, i) /\ {} \cup {} = {}
  OBVIOUS
<1> QED BY <1>1, <1>5, <1>6

\* Before the first item: the call that a tail call replaces counts as done.
LEMMA StartTree ==
  ASSUME case \in Cases, NEW C, NEW D,
         C = Outermost(Top, 0) \cup (IF TailRec(case) THEN Inner(TailHead) ELSE Outermost(Top, 1)),
         D = IF TailRec(case) THEN {TailHead} ELSE {}
  PROVE  /\ C \in SUBSET CallIds(case) /\ D \in SUBSET CallIds(case)
         /\ Tree(CallIds(case), C, {}, CallIds(case) \ (C \cup D), D)
         /\ Outermost(Top, 0) \cap (IF TailRec(case) THEN Inner(TailHead) ELSE Outermost(Top, 1)) = {}
<1>1. ASSUME NEW k \in CallIds(case)
      PROVE  /\ \A i : k \in Outermost(Top, i) <=> case.at[k].in = Top /\ case.at[k].slot = i
             /\ case.at[k].in = Top => case.at[k].slot \in {0, 1}
             /\ case.at[k].in # Top => case.at[k].in \in CallIds(case)
             /\ k # Top
  <2>1. case.at[k] \in [in : Nat, slot : Nat]
    BY CaseFacts
  <2>2. ASSUME NEW i PROVE k \in Outermost(Top, i) <=> case.at[k].in = Top /\ case.at[k].slot = i
    <3>1. k \in Outermost(Top, i) <=> case.at[k] = [in |-> Top, slot |-> i]
      BY KidsFacts
    <3> QED BY <2>1, <3>1
  <2>3. k # Top
    BY CaseFacts DEF Top
  <2> QED BY <2>2, <2>3, CaseFacts
<1>2. \A i : Outermost(Top, i) \subseteq CallIds(case)
  BY OutermostIds
<1>3. Top \notin CallIds(case)
  BY <1>1
<1>4. CASE TailRec(case)
  <2>1. TailHead \in CallIds(case) /\ Outermost(Top, 1) = {TailHead}
    BY <1>4, TailFacts
  <2>2. case.at[TailHead].in = Top
    BY <2>1, <1>1
  <2>3. \A k \in CallIds(case) : k \in Inner(TailHead) <=> case.at[k].in = TailHead
    BY DEF Inner
  <2>4. Inner(TailHead) \subseteq CallIds(case)
    BY DEF Inner
  <2>5. TailHead \notin Outermost(Top, 0)
    BY <2>1, <1>1
  <2>6. C = Outermost(Top, 0) \cup Inner(TailHead) /\ D = {TailHead}
    BY <1>4
  <2>7. TailHead \notin C
    BY <2>1, <2>2, <2>3, <2>5, <2>6, <1>3
  <2>8. ASSUME NEW k \in CallIds(case) PROVE k \notin C \cup D <=> case.at[k].in \in CallIds(case) \ D
    <3>1. CASE case.at[k].in = Top
      <4>1. k \in Outermost(Top, 0) \/ k \in Outermost(Top, 1)
        BY <3>1, <1>1
      <4> QED BY <4>1, <3>1, <2>1, <2>6, <1>3
    <3>2. CASE case.at[k].in # Top
      <4>1. k \notin Outermost(Top, 0) /\ k # TailHead /\ case.at[k].in \in CallIds(case)
        BY <3>2, <1>1, <2>2
      <4> QED BY <4>1, <2>3, <2>6
    <3> QED BY <3>1, <3>2
  <2>9. \A k \in CallIds(case) : case.at[k].in \in (CallIds(case) \ (C \cup D)) \cup C <=> case.at[k].in \in CallIds(case) \ D
    BY <2>4, <2>6, <2>7, <1>2
  <2>10. Outermost(Top, 0) \cap Inner(TailHead) = {}
    BY <2>1, <2>3, <1>1, <1>2, <1>3
  <2>11. C \subseteq CallIds(case) /\ D \subseteq CallIds(case) /\ C \cap D = {}
    BY <2>1, <2>4, <2>6, <2>7, <1>2
  <2>12. Tree(CallIds(case), C, {}, CallIds(case) \ (C \cup D), D)
    BY <2>8, <2>9, <2>11 DEF Tree
  <2> QED BY <2>10, <2>11, <2>12, <1>4
<1>5. CASE ~TailRec(case)
  <2>1. C = Outermost(Top, 0) \cup Outermost(Top, 1) /\ D = {}
    BY <1>5
  <2>2. \A k \in CallIds(case) : k \in C <=> case.at[k].in = Top
    BY <2>1, <1>1
  <2>3. Outermost(Top, 0) \cap Outermost(Top, 1) = {}
    BY SlotsDisjoint
  <2>4. C \subseteq CallIds(case) /\ D \subseteq CallIds(case) /\ C \cap D = {}
    BY <2>1, <1>2
  <2>5. \A k \in CallIds(case) : k \in CallIds(case) \ (C \cup D) <=> case.at[k].in \in (CallIds(case) \ (C \cup D)) \cup C
    BY <2>1, <2>2, <2>4, <1>1, <1>3
  <2>6. Tree(CallIds(case), C, {}, CallIds(case) \ (C \cup D), D)
    BY <2>4, <2>5 DEF Tree
  <2> QED BY <2>3, <2>4, <2>6, <1>5
<1> QED BY <1>4, <1>5

LEMMA StartWorks ==
  ASSUME PlanInv, NamedCallees(case), StartGenerating, NEW par
  PROVE  GenWorks(todo', <<>>, par)
<1>1. case \in Cases
  BY DEF PlanInv, PlanTypes
<1> DEFINE C0 == Outermost(Top, 0)
           C1 == IF TailRec(case) THEN Inner(TailHead) ELSE Outermost(Top, 1)
<1>2. PICK X, Y :
        /\ X = IF Kids(case, Top, 0) = <<>> THEN <<>>
               ELSE Visits(Kids(case, Top, 0)) \o <<Item("output", Top, 0), Item("guard", Top, 0)>>
        /\ Y = IF TailRec(case) THEN TailVisits(Head(Kids(case, Top, 1)))
               ELSE Visits(Kids(case, Top, 1)) \o <<Item("output", Top, 0), Item("exit", Top, 1)>>
  OBVIOUS
<1>3. todo' = X \o Y
  BY <1>2 DEF StartGenerating
<1>4. Once(X, C0, {})
  <2>1. CASE Kids(case, Top, 0) = <<>>
    <3>1. C0 = {}
      BY <2>1 DEF Outermost, Elements
    <3> QED BY <3>1, <2>1, <1>2, OnceEmpty
  <2>2. CASE Kids(case, Top, 0) # <<>>
    BY <2>2, <1>1, <1>2, OnceExpression DEF Direct
  <2> QED BY <2>1, <2>2
<1>5. Once(Y, C1, {})
  <2>1. CASE TailRec(case)
    <3>1. TailHead \in CallIds(case) /\ Kids(case, TailHead, 0) = <<>>
      BY <2>1, <1>1, TailFacts
    <3>2. Once(TailVisits(TailHead), Inner(TailHead), {})
      BY <3>1, <1>1, OnceTailVisits
    <3> QED BY <3>2, <2>1, <1>2 DEF TailHead
  <2>2. CASE ~TailRec(case)
    BY <2>2, <1>1, <1>2, OnceExpression DEF Direct
  <2> QED BY <2>1, <2>2
<1>6. PICK C, D, H :
        /\ C = C0 \cup C1 /\ D = (IF TailRec(case) THEN {TailHead} ELSE {})
        /\ H = CallIds(case) \ (C \cup D)
  OBVIOUS
<1>7. /\ C \in SUBSET CallIds(case) /\ D \in SUBSET CallIds(case) /\ H \in SUBSET CallIds(case)
      /\ Tree(CallIds(case), C, {}, H, D) /\ C0 \cap C1 = {}
  BY <1>1, <1>6, StartTree
<1> HIDE DEF C0, C1
<1>8. Once(todo', C, {})
  <2>1. (C0 \cup {}) \cap (C1 \cup {}) = {}
    BY <1>7
  <2>2. Once(X \o Y, C0 \cup C1, {} \cup {})
    BY <2>1, <1>4, <1>5, OnceConcat
  <2>3. {} \cup {} = {}
    OBVIOUS
  <2> QED BY <2>2, <2>3, <1>3, <1>6
<1>9. PICK t : t = todo'
  OBVIOUS
<1>10. \A p \in 1 .. Len(t) : t[p].op # "seq"
  <2>1. Once(t, C, {})
    BY <1>8, <1>9
  <2>2. "seq" \in Finishing
    BY DEF Finishing
  <2> QED BY <2>1, <2>2 DEF Once
<1>11. GenWorks(t, <<>>, par)
  <2>1. Once(t, C, {}) /\ {} \in SUBSET CallIds(case)
    BY <1>8, <1>9
  <2>2. \A l \in 1 .. Len(<<>>) : FALSE
    OBVIOUS
  <2> QED BY <2>1, <2>2, <1>7, <1>10 DEF GenWorks
<1> QED BY <1>9, <1>11


-----------------------------------------------------------------------------
(* The steps *)

\* The own call that is met, and the one whose place is taken, would be two
\* of one level.
LEMMA TwoOfOneLevel ==
  ASSUME case \in Cases, NEW par, AllDecided(par),
         NEW a \in CallIds(case), NEW b \in CallIds(case), a # b, ~par[a], ~par[b],
         Depth[a] = Depth[b], Side[a] = Side[b]
  PROVE  FALSE
<1>1. PICK x \in {0, 1} : x = Side[a]
  BY SideFacts
<1>2. PICK l \in Nat : l = Nesting(a)
  BY NestingFacts
<1>3. Nesting(b) = l
  BY <1>2 DEF Nesting
<1>4. PICK S : S = Members(x, l)
  OBVIOUS
<1>5. a \in S /\ b \in S /\ S \subseteq CallIds(case)
  BY <1>1, <1>2, <1>3, <1>4 DEF Members, OnSide
<1>6. IsFiniteSet(S)
  BY <1>5, FiniteCalls
<1>7. Cardinality(S) > 1
  BY <1>5, <1>6, TwoOrMore
<1>8. PICK own : own = {m \in S : ~par[m]}
  OBVIOUS
<1>9. Cardinality(own) = 1
  <2>1. Decided(par, S)
    <3>1. DecidedSide(par, x)
      BY DEF AllDecided
    <3> QED BY <3>1, <1>4 DEF DecidedSide
  <2>2. IsFiniteSet(S) /\ Cardinality(S) \in Nat /\ ~(Cardinality(S) <= 1)
    BY <1>5, <1>7, FiniteCalls
  <2> QED BY <2>1, <2>2, <1>7, <1>8 DEF Decided
<1>10. own \subseteq CallIds(case) /\ a \in own /\ b \in own
  BY <1>5, <1>8
<1>11. IsFiniteSet(own) /\ Cardinality(own) \in Nat
  BY <1>10, FiniteCalls
<1>12. Cardinality(own) > 1
  BY <1>10, <1>11, TwoOrMore
<1> QED BY <1>9, <1>12

LEMMA NeverFails ==
  ASSUME OwnInv, NamedCallees(case), GenSeqFails
  PROVE  FALSE
<1>1. /\ PlanInv /\ phase = "generate" /\ Doing("seq") /\ SequentialCall[CallDepth] # Null
      /\ AllDecided(DoParallel) /\ GenWorks(todo, SequentialCall, DoParallel)
  BY DEF OwnInv, GenSeqFails, Generating
<1>2. case \in Cases /\ LevelTypes(ParallelCalls, SequentialCall) /\ LevelsOK(ParallelCalls, SequentialCall, code)
  BY <1>1, Generates
<1>3. /\ Node \in CallIds(case) /\ CallDepth = Depth[Node] /\ CallDepth \in 1 .. Len(ParallelCalls)
      /\ Side[Node] = 1 <=> Past(code, Len(code) + 1)
  BY <1>1, CallingFacts DEF Calling
<1>4. todo # <<>> /\ todo[1].op = "seq" /\ Node = todo[1].n
  BY <1>1, Current
<1>5. PICK m \in CallIds(case) : m = Node
  BY <1>3
<1>6. PICK k : k = SequentialCall[CallDepth]
  OBVIOUS
<1>7. CallDepth \in 1 .. Len(SequentialCall)
  BY <1>2, <1>3 DEF LevelTypes
<1>8. Depth[k] = CallDepth /\ (Side[k] = 1 <=> Past(code, Len(code) + 1))
  BY <1>1, <1>2, <1>3, <1>6 DEF LevelsOK
<1>9. k \in CallIds(case) /\ k # m /\ ~DoParallel[k] /\ ~DoParallel[m]
  <2>1. \A l \in 1 .. Len(SequentialCall) : SequentialCall[l] # Null =>
          (\E h \in 1 .. Len(SequentialCall) : SequentialCall[h] = SequentialCall[l])
             \/ (todo[1].op = "seq" /\ SequentialCall[l] = m)
    OBVIOUS
  <2>2. /\ ~DoParallel[m]
        /\ \A l \in 1 .. Len(SequentialCall) : SequentialCall[l] # Null =>
             SequentialCall[l] # m /\ ~DoParallel[SequentialCall[l]] /\ SequentialCall[l] \in CallIds(case)
    BY <2>1, <1>1, <1>4, <1>5, GenWorksEnd
  <2> QED BY <2>2, <1>1, <1>6, <1>7
<1>10. Side[k] = Side[m]
  <2>1. Side[k] \in {0, 1} /\ Side[m] \in {0, 1}
    BY <1>2, <1>5, <1>9, SideFacts
  <2> QED BY <2>1, <1>3, <1>5, <1>8
<1> QED BY <1>1, <1>2, <1>3, <1>5, <1>8, <1>9, <1>10, TwoOfOneLevel

LEMMA OwnNext ==
  ASSUME PlanInv', case' = case, phase' # "failed",
         NamedCallees(case) =>
           /\ phase' = "optimize" => OptOwn'
           /\ phase' \in {"generate", "run"} => AllDecided(DoParallel')
           /\ phase' = "generate" => GenWorks(todo', SequentialCall', DoParallel')
  PROVE  OwnInv'
<1>1. NamedCallees(case)' <=> NamedCallees(case)
  BY DEF NamedCallees, CallIds
<1>2. AllDecided(DoParallel') => AllDecided(DoParallel)'
  BY StableOwn DEF AllDecided
<1>3. GenWorks(todo', SequentialCall', DoParallel') => GenWorks(todo, SequentialCall, DoParallel)'
  BY StableOwn
<1> QED BY <1>1, <1>2, <1>3 DEF OwnInv

LEMMA OptimizeOwn ==
  ASSUME OwnInv, PlanInv', Optimize
  PROVE  OwnInv'
<1>1. Optimizing /\ phase' = phase
  BY DEF Optimize, OptBegin, OptCall, OptOpen, OptClose, Determine
<1>2. case' = case /\ phase' = "optimize"
  BY <1>1 DEF Optimizing
<1>3. ASSUME NamedCallees(case) PROVE OptOwn'
  <2>1. PlanInv /\ OptOwn
    BY <1>1, <1>3 DEF OwnInv, Optimizing
  <2> QED BY <2>1, <1>3, BeginOwn, CallOwn, OpenOwn, CloseOwn, DetermineOwn DEF Optimize
<1> QED BY <1>2, <1>3, OwnNext

LEMMA StartOwn ==
  ASSUME OwnInv, PlanInv', StartGenerating
  PROVE  OwnInv'
<1>1. phase = "optimize" /\ todo = <<>> /\ phase' = "generate" /\ case' = case
      /\ DoParallel' = DoParallel /\ SequentialCall' = SequentialCall
  BY DEF StartGenerating, optVars, genVars
<1>2. PlanInv /\ case \in Cases /\ SequentialCall = <<>>
  <2>1. PlanInv /\ PlanTypes /\ ParallelCalls = <<>>
    BY <1>1 DEF OwnInv, PlanInv
  <2>2. Len(SequentialCall) = 0 /\ SequentialCall \in Seq({Null} \cup CallIds(case))
    BY <2>1 DEF PlanTypes, LevelTypes
  <2> QED BY <2>1, <2>2 DEF PlanTypes
<1>3. ASSUME NamedCallees(case)
      PROVE  AllDecided(DoParallel) /\ GenWorks(todo', SequentialCall', DoParallel')
  <2>1. OptOwn
    BY <1>1, <1>3 DEF OwnInv
  <2>2. \A x \in {0, 1} : ~Starting(x) /\ ~Works(x, todo, OptDepth, Calls, LastRecCall, LastOtherCall)
    BY <1>1, <1>2, WorkBegin, WorkEnd DEF Starting
  <2>3. AllDecided(DoParallel)
    BY <2>1, <2>2 DEF OptOwn
  <2> QED BY <2>3, <1>1, <1>2, <1>3, StartWorks
<1> QED BY <1>1, <1>3, OwnNext

LEMMA GenCallOwn ==
  ASSUME OwnInv, PlanInv', GenCall
  PROVE  OwnInv'
<1>1. /\ Generating /\ Doing("call") /\ phase = "generate" /\ phase' = "generate" /\ case' = case
      /\ DoParallel' = DoParallel
  BY DEF GenCall, Generating, optVars
<1>2. PlanInv /\ case \in Cases /\ LevelTypes(ParallelCalls, SequentialCall)
  BY <1>1, Generates DEF OwnInv
<1>3. todo # <<>> /\ todo[1].op = "call" /\ Node = todo[1].n /\ Fits("call", Node, todo[1].i)
  BY <1>1, <1>2, Current
<1>4. PICK m \in CallIds(case) : m = Node
  BY <1>3 DEF Fits, Direct
<1>5. Within(SequentialCall', SequentialCall)
  <2>1. SequentialCall \in Seq({Null} \cup CallIds(case))
    BY <1>2 DEF LevelTypes
  <2>2. CASE SequentialCall' = SequentialCall
    BY <2>2 DEF Within
  <2>3. CASE SequentialCall' = Append(SequentialCall, Null)
    <3>1. Grown(SequentialCall', SequentialCall, Null)
      BY <2>1, <2>3, Null \in {Null} \cup CallIds(case), AppendFacts
    <3>2. PICK n \in Nat : n = Len(SequentialCall)
      BY <2>1
    <3>3. Len(SequentialCall') = n + 1 /\ SequentialCall'[n + 1] = Null
          /\ \A l \in 1 .. n : SequentialCall'[l] = SequentialCall[l]
      BY <3>1, <3>2 DEF Grown
    <3>4. \A l \in 1 .. n + 1 : l \in 1 .. n \/ l = n + 1
      OBVIOUS
    <3> QED BY <3>2, <3>3, <3>4 DEF Within
  <2> QED BY <2>2, <2>3 DEF GenCall, OpenLevel
<1>6. ASSUME NamedCallees(case)
      PROVE  AllDecided(DoParallel) /\ GenWorks(todo', SequentialCall', DoParallel)
  <2>1. AllDecided(DoParallel) /\ GenWorks(todo, SequentialCall, DoParallel)
    BY <1>1, <1>6 DEF OwnInv
  <2>2. Kids(case, m, 0) = <<>>
    BY <1>6 DEF NamedCallees
  <2>3. PICK p, s :
          /\ p = ArgStatements(m) \o Visits(Kids(case, m, 0)) \o <<Item("spawn", m, 0)>>
          /\ s = Visits(Kids(case, m, 0)) \o ArgVisits(m) \o <<Item("seq", m, 0)>>
    OBVIOUS
  <2>4. /\ Once(p, Inner(m), {m}) /\ \A q \in 1 .. Len(p) : p[q].op # "seq"
        /\ Once(s, Inner(m), {m})
    BY <2>2, <2>3, <1>2, GenBlocks
  <2>5. CASE DoParallel[m]
    <3>1. todo' = p \o Tail(todo)
      BY <2>3, <2>5, <1>4 DEF GenCall, Rest
    <3> QED BY <3>1, <2>1, <2>4, <1>2, <1>3, <1>4, <1>5, GenWorksCall
  <2>6. CASE ~DoParallel[m]
    <3>1. todo' = s \o Tail(todo)
      BY <2>3, <2>6, <1>4 DEF GenCall, Rest
    <3> QED BY <3>1, <2>1, <2>4, <2>6, <1>2, <1>3, <1>4, <1>5, GenWorksCall
  <2> QED BY <2>5, <2>6
<1> QED BY <1>1, <1>6, OwnNext

\* A statement or what outputParallel writes.
LEMMA StatementOwn ==
  ASSUME OwnInv, PlanInv', GenArg \/ GenOutput \/ GenStatement
  PROVE  OwnInv'
<1>1. /\ Generating /\ phase = "generate" /\ phase' = "generate" /\ case' = case
      /\ DoParallel' = DoParallel /\ todo' = Tail(todo)
  BY DEF GenArg, GenOutput, GenStatement, Generating, optVars, Rest
<1>2. PICK op \in {"arg", "output"} \cup Direct : Doing(op)
  BY DEF GenArg, GenOutput, GenStatement, Direct
<1>3. todo # <<>> /\ todo[1].op \notin Carrying
  <2>1. todo # <<>> /\ todo[1].op = op
    BY <1>1, <1>2, Current DEF OwnInv
  <2> QED BY <2>1, <1>2 DEF Carrying, Finishing, Direct
<1>4. Within(SequentialCall', SequentialCall)
  <2>1. SequentialCall' = <<>> \/ SequentialCall' = SequentialCall
    BY DEF GenArg, GenOutput, GenStatement
  <2> QED BY <2>1 DEF Within
<1>5. ASSUME NamedCallees(case)
      PROVE  AllDecided(DoParallel) /\ GenWorks(todo', SequentialCall', DoParallel)
  <2>1. AllDecided(DoParallel) /\ GenWorks(todo, SequentialCall, DoParallel)
    BY <1>1, <1>5 DEF OwnInv
  <2> QED BY <2>1, <1>1, <1>3, <1>4, GenWorksTail
<1> QED BY <1>1, <1>5, OwnNext

LEMMA EndOwn ==
  ASSUME OwnInv, PlanInv', GenSpawn \/ GenSeq
  PROVE  OwnInv'
<1>1. /\ Generating /\ phase = "generate" /\ phase' = "generate" /\ case' = case
      /\ DoParallel' = DoParallel /\ todo' = Tail(todo) /\ PlanInv
  BY DEF GenSpawn, GenSeq, Generating, optVars, Rest, OwnInv
<1>2. PICK op \in {"spawn", "seq"} : Doing(op) /\ (op = "spawn" => GenSpawn) /\ (op = "seq" => GenSeq)
  BY DEF GenSpawn, GenSeq
<1>3. todo # <<>> /\ todo[1].op = op /\ Node = todo[1].n
  BY <1>1, <1>2, Current
<1>4. PICK m \in CallIds(case) : m = Node
  BY <1>1, <1>2, CallingFacts DEF Calling
<1>5. SequentialCall \in Seq({Null} \cup CallIds(case))
  BY <1>1, Generates DEF LevelTypes
<1>6. \A l \in 1 .. Len(SequentialCall') : SequentialCall'[l] # Null =>
        (\E h \in 1 .. Len(SequentialCall) : SequentialCall[h] = SequentialCall'[l])
           \/ (todo[1].op = "seq" /\ SequentialCall'[l] = m)
  <2>1. CASE op = "spawn"
    BY <2>1, <1>2 DEF GenSpawn
  <2>2. CASE op = "seq"
    <3>1. CallDepth \in 1 .. Len(SequentialCall)
      <4>1. CallDepth \in 1 .. Len(ParallelCalls) /\ Len(SequentialCall) = Len(ParallelCalls)
        BY <2>2, <1>1, <1>2, CallingFacts, Generates DEF Calling
      <4> QED BY <4>1
    <3>2. SequentialCall' = [SequentialCall EXCEPT ![CallDepth] = m]
      BY <2>2, <1>2, <1>4 DEF GenSeq
    <3>3. Replaced(SequentialCall', SequentialCall, CallDepth, m)
      BY <3>1, <3>2, <1>5, m \in {Null} \cup CallIds(case), ExceptFacts
    <3> QED BY <3>3, <2>2, <1>3 DEF Replaced
  <2> QED BY <2>1, <2>2, <1>2
<1>7. ASSUME NamedCallees(case)
      PROVE  AllDecided(DoParallel) /\ GenWorks(todo', SequentialCall', DoParallel)
  <2>1. AllDecided(DoParallel) /\ GenWorks(todo, SequentialCall, DoParallel)
    BY <1>1, <1>7 DEF OwnInv
  <2>2. PICK tc : tc = SequentialCall'
    OBVIOUS
  <2>3. GenWorks(Tail(todo), tc, DoParallel)
    BY <2>1, <2>2, <1>2, <1>3, <1>4, <1>6, GenWorksEnd
  <2> QED BY <2>1, <2>2, <2>3, <1>1
<1> QED BY <1>1, <1>7, OwnNext

LEMMA RunOwn ==
  ASSUME OwnInv, PlanInv', Run
  PROVE  OwnInv'
<1>1. /\ case' = case /\ DoParallel' = DoParallel
      /\ phase \in {"generate", "run"} /\ phase' \in {"run", "done", "other case"}
  BY DEF Run, StartRunning, RunArg, RunSpawn, RunSeq, RunYield, RunGuard, RunAssign, RunEnd, Running, optVars
<1>2. NamedCallees(case) => AllDecided(DoParallel)
  BY <1>1 DEF OwnInv
<1> QED BY <1>1, <1>2, OwnNext

LEMMA OwnInvNext ==
  ASSUME OwnInv, [Next]_vars
  PROVE  OwnInv'
<1>1. PlanInv'
  BY PlanInvNext DEF OwnInv
<1>2. CASE Optimize
  BY <1>1, <1>2, OptimizeOwn
<1>3. CASE StartGenerating \/ GenCall \/ GenArg \/ GenSpawn \/ GenSeq \/ GenOutput \/ GenStatement
  BY <1>1, <1>3, StartOwn, GenCallOwn, StatementOwn, EndOwn
<1>4. CASE GenUndefined
  <2>1. case' = case /\ phase' = "undefined"
    BY <1>4 DEF GenUndefined, Generating
  <2> QED BY <1>1, <2>1, OwnNext
<1>5. CASE GenSeqFails
  <2>1. ~NamedCallees(case)
    BY <1>5, NeverFails
  <2>2. case' = case
    BY <1>5 DEF GenSeqFails, Generating
  <2>3. ~NamedCallees(case)'
    BY <2>1, <2>2 DEF NamedCallees, CallIds
  <2> QED BY <1>1, <2>3 DEF OwnInv
<1>6. CASE Run
  BY <1>1, <1>6, RunOwn
<1>7. CASE UNCHANGED vars
  <2>1. /\ case' = case /\ phase' = phase /\ todo' = todo
        /\ DoParallel' = DoParallel /\ Calls' = Calls /\ LastRecCall' = LastRecCall
        /\ LastOtherCall' = LastOtherCall /\ OptDepth' = OptDepth /\ SequentialCall' = SequentialCall
    BY <1>7 DEF vars, optVars, genVars
  <2>2. OptOwn => OptOwn'
    <3>1. ASSUME NEW x \in {0, 1}, Starting(x) PROVE Starting(x)'
      <4>1. OptVisits(case, x)' = OptVisits(case, x) /\ After(x)' = After(x)
        BY <2>1, StableOwn DEF OptVisits
      <4> QED BY <3>1, <4>1, <2>1 DEF Starting
    <3>2. ASSUME NEW x \in {0, 1}, Works(x, todo, OptDepth, Calls, LastRecCall, LastOtherCall)
          PROVE  Works(x, todo, OptDepth, Calls, LastRecCall, LastOtherCall)'
      BY <3>2, <2>1, StableOwn
    <3>3. ASSUME NEW x \in {0, 1}, Before(DoParallel, x) PROVE Before(DoParallel, x)'
      BY <3>3, <2>1, StableOwn
    <3>4. AllDecided(DoParallel) => AllDecided(DoParallel)'
      BY <2>1, StableOwn DEF AllDecided
    <3> QED BY <3>1, <3>2, <3>3, <3>4, <2>1 DEF OptOwn
  <2>3. NamedCallees(case)' <=> NamedCallees(case)
    BY <2>1 DEF NamedCallees, CallIds
  <2>4. CASE ~NamedCallees(case)
    BY <2>3, <2>4, <1>1 DEF OwnInv
  <2>5. CASE NamedCallees(case)
    <3>1. /\ phase = "optimize" => OptOwn
          /\ phase \in {"generate", "run"} => AllDecided(DoParallel)
          /\ phase = "generate" => GenWorks(todo, SequentialCall, DoParallel)
          /\ phase # "failed"
      BY <2>5 DEF OwnInv
    <3> QED BY <3>1, <2>1, <2>2, <1>1, OwnNext
  <2> QED BY <2>4, <2>5
<1> QED BY <1>2, <1>3, <1>4, <1>5, <1>6, <1>7 DEF Next, Generate, Stopped

LEMMA OwnInvInit ==
  ASSUME Init
  PROVE  OwnInv
<1>1. case \in Cases /\ phase = "optimize" /\ DoParallel = [n \in CallIds(case) |-> TRUE]
      /\ Calls = <<>> /\ LastRecCall = <<>> /\ LastOtherCall = <<>> /\ OptDepth = 0
  BY DEF Init
<1>2. \A k \in CallIds(case) : DoParallel[k]
  BY <1>1
<1>3. OptVisits(case, 1) \in Seq(ItemSet)
  BY <1>1, OptFacts
<1>4. CASE Kids(case, Top, 0) = <<>>
  <2>1. todo = <<>> \o OptVisits(case, 1)
    BY <1>4 DEF Init
  <2>2. todo = OptVisits(case, 1) \o After(1)
    BY <2>1, <1>3, EmptyConcat DEF After
  <2>3. Starting(1)
    BY <2>2, <1>1 DEF Starting
  <2>4. DecidedSide(DoParallel, 0)
    BY <1>1, <1>4, SideEmpty, DecidedEmpty
  <2>5. Before(DoParallel, 1)
    BY <2>4, <1>2 DEF Before
  <2> QED BY <2>3, <2>5, <1>1, PlanInvInit DEF OwnInv, OptOwn
<1>5. CASE Kids(case, Top, 0) # <<>>
  <2>1. todo = OptVisits(case, 0) \o After(0)
    BY <1>5 DEF Init, After
  <2>2. Starting(0)
    BY <2>1, <1>1 DEF Starting
  <2>3. Before(DoParallel, 0)
    BY <1>2 DEF Before
  <2> QED BY <2>2, <2>3, <1>1, PlanInvInit DEF OwnInv, OptOwn
<1> QED BY <1>4, <1>5

\* With named callees, both passes keep the count of the calls of a level, and
\* the optimizer's decision holds from the first visit of the generator on.
THEOREM OwnInvariance == Spec => []OwnInv
<1>1. Init => OwnInv
  BY OwnInvInit
<1>2. OwnInv /\ [Next]_vars => OwnInv'
  BY OwnInvNext
<1> QED BY <1>1, <1>2, PTL DEF Spec

LEMMA InvOneOwnCall ==
  ASSUME OwnInv
  PROVE  OneOwnCallPerLevel
<1> SUFFICES ASSUME phase \in {"generate", "run"}, NamedCallees(case),
                    NEW s \in {0, 1}, NEW i \in 0 .. Cardinality(CallIds(case)),
                    NEW level, level = AtLevel(case, s)[i]
             PROVE  Decided(DoParallel, level)
  BY DEF OneOwnCallPerLevel, Decided
<1>1. case \in Cases
  BY DEF OwnInv, PlanInv, PlanTypes
<1>2. i \in Nat
  OBVIOUS
<1>3. level = Members(s, i + 1)
  BY <1>1, <1>2, LevelsAre
<1>4. DecidedSide(DoParallel, s)
  BY DEF OwnInv, AllDecided
<1> QED BY <1>2, <1>3, <1>4 DEF DecidedSide

\* In a case with named callees, of the calls of a level of several the
\* optimizer leaves exactly one to the task itself, a call of another function
\* when there is one; of a level of one call only a recursive one.
THEOREM OwnCalls == Spec => []OneOwnCallPerLevel
<1>1. OwnInv => OneOwnCallPerLevel
  BY InvOneOwnCall
<1> QED BY <1>1, OwnInvariance, PTL

\* In a case with named callees the code generator, whose levels have a place
\* for one own call each, never meets a second one.
THEOREM PlaceForOwnCalls == Spec => []NeverTwoOwnCallsIfNamed
<1>1. OwnInv => NeverTwoOwnCallsIfNamed
  BY DEF OwnInv, NeverTwoOwnCallsIfNamed, NeverTwoOwnCalls
<1> QED BY <1>1, OwnInvariance, PTL

=============================================================================
