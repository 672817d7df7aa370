----------------------------- MODULE Induction -----------------------------
(***************************************************************************)
(* Induction over the natural numbers for a set of numbers, which a proof  *)
(* can give where it could not give an operator, and what follows for the  *)
(* functions that are defined by recursion: they exist, and flattening a   *)
(* sequence of sequences puts them one after the other.                    *)
(***************************************************************************)
EXTENDS Naturals, SequencesExt, SequenceTheorems, NaturalsInduction, WellFoundedInduction, TLAPS

\* A set of numbers has a least one.
LEMMA LeastNumber ==
  ASSUME NEW T, T \subseteq Nat, T # {}
  PROVE  \E x \in T : \A y \in T : x <= y
<1> DEFINE R == OpToRel(<, Nat)
<1>1. \A x \in Nat, y \in Nat : <<y, x>> \in R <=> y < x
  BY DEF OpToRel
<1>2. IsWellFoundedOn(R, Nat)
  BY NatLessThanWellFounded
<1> HIDE DEF R
<1>3. \E x \in T : \A y \in T : ~(<<y, x>> \in R)
  BY <1>2, WFMin
<1>4. PICK x \in T : \A y \in T : ~(<<y, x>> \in R)
  BY <1>3
<1>5. ASSUME NEW y \in T PROVE x <= y
  <2>1. x \in Nat /\ y \in Nat /\ ~(<<y, x>> \in R)
    BY <1>4
  <2>2. ~(y < x)
    BY <1>1, <2>1
  <2> QED BY <2>1, <2>2
<1> QED
  BY <1>4, <1>5

LEMMA StrongInduction ==
  ASSUME NEW S,
         \A n \in Nat : (\A m \in Nat : m < n => m \in S) => n \in S
  PROVE  \A n \in Nat : n \in S
<1> DEFINE T == {n \in Nat : n \notin S}
<1>1. SUFFICES ASSUME T # {} PROVE FALSE
  OBVIOUS
<1>2. T \subseteq Nat
  OBVIOUS
<1>3. PICK x \in T : \A y \in T : x <= y
  <2> HIDE DEF T
  <2> QED BY <1>1, <1>2, LeastNumber
<1>4. \A m \in Nat : m < x => m \in S
  BY <1>3
<1> QED BY <1>3, <1>4

LEMMA SimpleInduction ==
  ASSUME NEW S, 0 \in S,
         \A n \in Nat : n \in S => n + 1 \in S
  PROVE  \A n \in Nat : n \in S
<1>1. ASSUME NEW n \in Nat, \A m \in Nat : m < n => m \in S
      PROVE  n \in S
  <2>1. CASE n = 0
    BY <2>1
  <2>2. CASE n # 0
    <3>1. n - 1 \in Nat /\ n - 1 < n /\ (n - 1) + 1 = n
      BY <2>2
    <3>2. n - 1 \in S
      BY <3>1, <1>1
    <3>3. (n - 1) + 1 \in S
      BY <3>1, <3>2
    <3> QED BY <3>1, <3>3
  <2> QED BY <2>1, <2>2
<1> QED BY <1>1, StrongInduction

-----------------------------------------------------------------------------
(* Sequences of sequences                                                  *)

LEMMA ConcatFacts ==
  ASSUME NEW S, NEW s \in Seq(S), NEW t \in Seq(S), NEW u, u = s \o t
  PROVE  /\ u \in Seq(S)
         /\ Len(s) \in Nat /\ Len(t) \in Nat /\ Len(u) = Len(s) + Len(t)
         /\ \A q \in 1 .. Len(s) : u[q] = s[q]
         /\ \A q \in 1 .. Len(t) : u[Len(s) + q] = t[q]
<1>1. u \in Seq(S) /\ Len(s) \in Nat /\ Len(t) \in Nat /\ Len(u) = Len(s) + Len(t)
  OBVIOUS
<1>2. \A q \in 1 .. Len(s) : u[q] = s[q]
  OBVIOUS
<1>3. \A q \in 1 .. Len(t) : u[Len(s) + q] = t[q]
  OBVIOUS
<1> QED BY <1>1, <1>2, <1>3

\* The sequence x is s, then t, then e.
Parts(x, s, t, e, S) ==
  /\ x \in Seq(S) /\ Len(s) \in Nat /\ Len(t) \in Nat /\ Len(x) = Len(s) + Len(t) + 1
  /\ \A q \in 1 .. Len(s) : x[q] = s[q]
  /\ \A q \in 1 .. Len(t) : x[Len(s) + q] = t[q]
  /\ x[Len(s) + Len(t) + 1] = e

LEMMA ConcatAppend ==
  ASSUME NEW S, NEW s \in Seq(S), NEW t \in Seq(S), NEW e \in S
  PROVE  Parts(s \o t \o <<e>>, s, t, e, S)
<1> DEFINE x == s \o t \o <<e>>
           a == Len(s)
           n == Len(t)
<1>1. a \in Nat /\ n \in Nat
  OBVIOUS
<1> DEFINE l == <<e>>
           u == s \o t
<1>2. l \in Seq(S) /\ Len(l) = 1 /\ l[1] = e
  OBVIOUS
<1>3. u \in Seq(S)
  OBVIOUS
<1>4. /\ Len(u) = a + n
      /\ \A q \in 1 .. a : u[q] = s[q]
      /\ \A q \in 1 .. n : u[a + q] = t[q]
  BY ConcatFacts
<1>5. x = u \o l
  OBVIOUS
<1> HIDE DEF u, l, x, a, n
<1>6. /\ x \in Seq(S) /\ Len(x) = Len(u) + Len(l)
      /\ \A q \in 1 .. Len(u) : x[q] = u[q]
      /\ \A q \in 1 .. Len(l) : x[Len(u) + q] = l[q]
  <2>1. PICK w \in Seq(S), z \in Seq(S) : w = u /\ z = l
    BY <1>2, <1>3
  <2>2. /\ w \o z \in Seq(S) /\ Len(w \o z) = Len(w) + Len(z)
        /\ \A q \in 1 .. Len(w) : (w \o z)[q] = w[q]
        /\ \A q \in 1 .. Len(z) : (w \o z)[Len(w) + q] = z[q]
    BY ConcatFacts
  <2> QED BY <2>1, <2>2, <1>5, Zenon
<1>7. Len(x) = a + n + 1
  BY <1>2, <1>4, <1>6
<1>8. ASSUME NEW q \in 1 .. a PROVE x[q] = s[q]
  <2>1. q \in 1 .. a + n
    BY <1>1
  <2> QED BY <2>1, <1>4, <1>6
<1>9. ASSUME NEW q \in 1 .. n PROVE x[a + q] = t[q]
  <2>1. a + q \in 1 .. a + n
    BY <1>1
  <2> QED BY <2>1, <1>4, <1>6
<1>10. x[a + n + 1] = e
  <2>1. 1 \in 1 .. Len(l)
    BY <1>2
  <2>2. x[Len(u) + 1] = l[1]
    BY <2>1, <1>6
  <2> QED BY <2>2, <1>2, <1>4
<1>11. Parts(x, s, t, e, S)
  BY <1>1, <1>6, <1>7, <1>8, <1>9, <1>10, Zenon DEF Parts, a, n
<1> QED BY <1>11 DEF x

\* The first i of the sequences ss, one after the other.
Joined(ss, n) ==
  LET joined[i \in 0 .. n] == IF i = 0 THEN <<>> ELSE joined[i - 1] \o ss[i]
  IN joined

LEMMA JoinedDef ==
  ASSUME NEW ss, NEW n \in Nat
  PROVE  /\ DOMAIN Joined(ss, n) = 0 .. n
         /\ Joined(ss, n)[0] = <<>>
         /\ \A i \in 1 .. n : Joined(ss, n)[i] = Joined(ss, n)[i - 1] \o ss[i]
<1> DEFINE Def(v, i) == v \o ss[i]
           f[i \in 0 .. n] == IF i = 0 THEN <<>> ELSE Def(f[i - 1], i)
<1>1. FiniteNatInductiveDefHypothesis(f, <<>>, Def, 0, n)
  BY DEF FiniteNatInductiveDefHypothesis
<1>2. FiniteNatInductiveDefConclusion(f, <<>>, Def, 0, n)
  BY <1>1, FiniteNatInductiveDef
<1>3. f = [i \in 0 .. n |-> IF i = 0 THEN <<>> ELSE f[i - 1] \o ss[i]]
  BY <1>2 DEF FiniteNatInductiveDefConclusion
<1>4. Joined(ss, n) = f
  BY DEF Joined
<1> HIDE DEF f
<1> QED BY <1>3, <1>4

LEMMA FlattenIsJoined ==
  ASSUME NEW S, NEW ss \in Seq(Seq(S))
  PROVE  FlattenSeq(ss) = Joined(ss, Len(ss))[Len(ss)]
<1> DEFINE n == Len(ss)
           J == Joined(ss, n)
<1>1. n \in Nat /\ DOMAIN ss = 1 .. n /\ \A i \in 1 .. n : ss[i] \in Seq(S)
  OBVIOUS
<1>2. /\ J[0] = <<>>
      /\ \A i \in 1 .. n : J[i] = J[i - 1] \o ss[i]
  BY <1>1, JoinedDef
<1> HIDE DEF J
<1>3. CASE n = 0
  <2>1. ss = <<>>
    BY <1>3
  <2>2. FlattenSeq(ss) = <<>>
    BY <2>1 DEF FlattenSeq
  <2>3. J[n] = <<>>
    BY <1>2, <1>3
  <2> QED BY <2>2, <2>3 DEF J
<1>4. CASE n # 0
  <2> DEFINE flatten[i \in 1 .. n] == IF i = 1 THEN ss[i] ELSE flatten[i - 1] \o ss[i]
             g == [i \in 1 .. n |-> J[i]]
  <2>1. n \in 1 .. n
    BY <1>1, <1>4
  <2>2. g = [i \in 1 .. n |-> IF i = 1 THEN ss[i] ELSE g[i - 1] \o ss[i]]
    <3>1. ASSUME NEW i \in 1 .. n
          PROVE  J[i] = IF i = 1 THEN ss[i] ELSE g[i - 1] \o ss[i]
      <4>1. J[i] = J[i - 1] \o ss[i] /\ ss[i] \in Seq(S)
        BY <1>1, <1>2
      <4>2. CASE i = 1
        <5>1. i - 1 = 0
          BY <4>2
        <5>2. J[i] = <<>> \o ss[i]
          BY <4>1, <5>1, <1>2, Zenon
        <5> QED BY <5>2, <4>1, <4>2
      <4>3. CASE i # 1
        <5>1. i - 1 \in 1 .. n
          BY <4>3, <1>1
        <5> QED BY <5>1, <4>1, <4>3
      <4> QED BY <4>2, <4>3
    <3> QED BY <3>1
  <2>3. flatten = [i \in 1 .. n |-> IF i = 1 THEN ss[i] ELSE flatten[i - 1] \o ss[i]]
    <3> HIDE DEF g
    <3> QED BY <2>2
  <2>4. FlattenSeq(ss) = flatten[n]
    BY <1>4 DEF FlattenSeq
  <2> HIDE DEF flatten
  <2> DEFINE F == {k \in Nat : k + 1 \in 1 .. n => flatten[k + 1] = J[k + 1]}
  <2>5. 0 \in F
    <3>0. 1 \in 1 .. n /\ 1 - 1 = 0
      BY <2>1, <1>1
    <3>1. J[1] = <<>> \o ss[1] /\ ss[1] \in Seq(S)
      BY <3>0, <1>1, <1>2, Zenon
    <3>2. J[1] = ss[1]
      BY <3>1
    <3> QED BY <3>2, <2>3, <2>1
  <2>6. ASSUME NEW k \in Nat, k \in F PROVE k + 1 \in F
    <3>1. SUFFICES ASSUME k + 2 \in 1 .. n PROVE flatten[k + 2] = J[k + 2]
      OBVIOUS
    <3>2. k + 1 \in 1 .. n /\ (k + 2) - 1 = k + 1 /\ k + 2 # 1
      BY <3>1, <1>1
    <3>3. flatten[k + 1] = J[k + 1]
      BY <2>6, <3>2
    <3>4. flatten[k + 2] = flatten[k + 1] \o ss[k + 2]
      BY <2>3, <3>1, <3>2
    <3>5. J[k + 2] = J[k + 1] \o ss[k + 2]
      BY <1>2, <3>1, <3>2
    <3> QED BY <3>3, <3>4, <3>5
  <2>7. \A k \in Nat : k \in F
    <3> HIDE DEF F
    <3> QED BY <2>5, <2>6, SimpleInduction
  <2>8. n - 1 \in Nat /\ (n - 1) + 1 = n
    BY <1>1, <1>4
  <2>9. flatten[n] = J[n]
    BY <2>1, <2>7, <2>8
  <2> QED BY <2>4, <2>9 DEF J
<1> QED BY <1>3, <1>4

-----------------------------------------------------------------------------
\* Where flattening puts them: element j of ss[i] is number off[i - 1] + j.
Layout(ss, flat, off) ==
  /\ off \in [0 .. Len(ss) -> Nat]
  /\ off[0] = 0
  /\ off[Len(ss)] = Len(flat)
  /\ \A i \in 1 .. Len(ss) :
       /\ off[i] = off[i - 1] + Len(ss[i])
       /\ \A j \in 1 .. Len(ss[i]) : flat[off[i - 1] + j] = ss[i][j]
  /\ \A i, k \in 0 .. Len(ss) : i <= k => off[i] <= off[k]
  /\ \A q \in 1 .. Len(flat) : \E i \in 1 .. Len(ss) : off[i - 1] < q /\ q <= off[i]

LEMMA FlattenLayout ==
  ASSUME NEW S, NEW ss \in Seq(Seq(S))
  PROVE  FlattenSeq(ss) \in Seq(S) /\ \E off : Layout(ss, FlattenSeq(ss), off)
<1> DEFINE n == Len(ss)
           J == Joined(ss, n)
           off == [i \in 0 .. n |-> Len(J[i])]
           len == [i \in 1 .. n |-> Len(ss[i])]
<1>1. n \in Nat /\ DOMAIN ss = 1 .. n /\ \A i \in 1 .. n : ss[i] \in Seq(S)
  OBVIOUS
<1>2. /\ J[0] = <<>>
      /\ \A i \in 1 .. n : J[i] = J[i - 1] \o ss[i]
  BY <1>1, JoinedDef
<1>3. FlattenSeq(ss) = J[n]
  BY FlattenIsJoined
<1> HIDE DEF J
<1>4. \A i \in 0 .. n : off[i] = Len(J[i])
  OBVIOUS
<1>5. \A i \in 1 .. n : len[i] = Len(ss[i]) /\ len[i] \in Nat
  BY <1>1
<1>6. off \in [0 .. n -> {Len(J[i]) : i \in 0 .. n}]
  OBVIOUS
<1> HIDE DEF off, len, n
<1> DEFINE T == {k \in Nat : k <= n => J[k] \in Seq(S)}
<1>7. \A i \in 0 .. n : J[i] \in Seq(S) /\ off[i] \in Nat
  <2>1. 0 \in T
    <3>1. J[0] \in Seq(S)
      BY <1>2
    <3> QED BY <3>1
  <2>2. ASSUME NEW k \in Nat, k \in T PROVE k + 1 \in T
    <3>1. SUFFICES ASSUME k + 1 <= n PROVE J[k + 1] \in Seq(S)
      OBVIOUS
    <3>2. k + 1 \in 1 .. n /\ (k + 1) - 1 = k /\ k <= n
      BY <3>1, <1>1
    <3>3. J[k + 1] = J[k] \o ss[k + 1] /\ ss[k + 1] \in Seq(S) /\ J[k] \in Seq(S)
      BY <1>1, <1>2, <2>2, <3>2
    <3> QED BY <3>3
  <2>3. \A k \in Nat : k \in T
    <3> HIDE DEF T
    <3> QED BY <2>1, <2>2, SimpleInduction
  <2>4. \A i \in 0 .. n : J[i] \in Seq(S)
    BY <2>3, <1>1
  <2> QED BY <2>4, <1>4
<1>8. ASSUME NEW i \in 1 .. n
      PROVE  /\ i - 1 \in 0 .. n /\ i \in 0 .. n
             /\ off[i] = off[i - 1] + len[i]
             /\ \A q \in 1 .. off[i - 1] : J[i][q] = J[i - 1][q]
             /\ \A q \in 1 .. len[i] : J[i][off[i - 1] + q] = ss[i][q]
  <2>1. i - 1 \in 0 .. n /\ i \in 0 .. n
    BY <1>1
  <2>2. J[i] = J[i - 1] \o ss[i] /\ ss[i] \in Seq(S) /\ J[i - 1] \in Seq(S)
    BY <1>1, <1>2, <1>7, <2>1
  <2>3. off[i] = Len(J[i]) /\ off[i - 1] = Len(J[i - 1]) /\ len[i] = Len(ss[i])
    BY <2>1, <1>4, <1>5
  <2>4. PICK s \in Seq(S), t \in Seq(S) : s = J[i - 1] /\ t = ss[i]
    BY <2>2
  <2>5. J[i] = s \o t
    BY <2>2, <2>4, Zenon
  <2>6. /\ Len(s \o t) = Len(s) + Len(t)
        /\ \A q \in 1 .. Len(s) : (s \o t)[q] = s[q]
        /\ \A q \in 1 .. Len(t) : (s \o t)[Len(s) + q] = t[q]
    BY ConcatFacts
  <2> QED BY <2>1, <2>3, <2>4, <2>5, <2>6, Zenon
<1> DEFINE Good(k) ==
             /\ \A i \in 0 .. k : off[i] <= off[k] /\ \A q \in 1 .. off[i] : J[k][q] = J[i][q]
             /\ \A q \in 1 .. off[k] : \E i \in 1 .. k : off[i - 1] < q /\ q <= off[i]
           G == {k \in Nat : k <= n => Good(k)}
<1>9. 0 \in G
  <2>1. off[0] = 0
    BY <1>1, <1>2, <1>4
  <2>2. Good(0)
    BY <2>1
  <2> HIDE DEF Good
  <2> QED BY <2>2
<1>10. ASSUME NEW k \in Nat, k \in G PROVE k + 1 \in G
  <2>1. SUFFICES ASSUME k + 1 <= n PROVE Good(k + 1)
    OBVIOUS
  <2>2. k + 1 \in 1 .. n /\ (k + 1) - 1 = k /\ k <= n
    BY <2>1, <1>1
  <2>3. Good(k)
    BY <1>10, <2>2
  <2>4. /\ off[k + 1] = off[k] + len[k + 1]
        /\ \A q \in 1 .. off[k] : J[k + 1][q] = J[k][q]
    BY <1>8, <2>2
  <2>5. off[k + 1] \in Nat /\ off[k] \in Nat /\ len[k + 1] \in Nat
    BY <1>5, <1>7, <2>2
  <2>6. ASSUME NEW i \in 0 .. k + 1
        PROVE  off[i] <= off[k + 1] /\ \A q \in 1 .. off[i] : J[k + 1][q] = J[i][q]
    <3>1. CASE i = k + 1
      BY <3>1, <2>5
    <3>2. CASE i # k + 1
      <4>1. i \in 0 .. k /\ i \in 0 .. n
        BY <3>2, <2>2, <1>1
      <4>2. off[i] \in Nat /\ off[i] <= off[k] /\ \A q \in 1 .. off[i] : J[k][q] = J[i][q]
        BY <4>1, <2>3, <1>7
      <4> QED BY <4>2, <2>4, <2>5
    <3> QED BY <3>1, <3>2
  <2>7. ASSUME NEW q \in 1 .. off[k + 1]
        PROVE  \E i \in 1 .. k + 1 : off[i - 1] < q /\ q <= off[i]
    <3>1. CASE q <= off[k]
      <4>1. PICK i \in 1 .. k : off[i - 1] < q /\ q <= off[i]
        BY <3>1, <2>3, <2>5
      <4> QED BY <4>1
    <3>2. CASE ~(q <= off[k])
      <4>1. k + 1 \in 1 .. k + 1 /\ off[(k + 1) - 1] < q /\ q <= off[k + 1]
        BY <3>2, <2>2, <2>5
      <4> QED BY <4>1
    <3> QED BY <3>1, <3>2
  <2> QED BY <2>6, <2>7
<1>11. \A k \in Nat : k \in G
  <2> HIDE DEF G
  <2> QED BY <1>9, <1>10, SimpleInduction
<1>12. \A k \in 0 .. n : Good(k)
  BY <1>1, <1>11
<1> DEFINE F == FlattenSeq(ss)
<1>13. off[n] = Len(F) /\ F \in Seq(S)
  BY <1>1, <1>3, <1>4, <1>7
<1>14. Layout(ss, F, off)
  <2>1. off \in [0 .. n -> Nat] /\ off[0] = 0
    <3>1. off[0] = 0
      BY <1>1, <1>2, <1>4
    <3>2. DOMAIN off = 0 .. n /\ off = [i \in 0 .. n |-> off[i]]
      BY <1>6
    <3> QED BY <3>1, <3>2, <1>7
  <2>2. ASSUME NEW i \in 1 .. n
        PROVE  /\ off[i] = off[i - 1] + Len(ss[i])
               /\ \A j \in 1 .. Len(ss[i]) : F[off[i - 1] + j] = ss[i][j]
    <3>1. /\ off[i] = off[i - 1] + len[i] /\ len[i] = Len(ss[i])
          /\ off[i] \in Nat /\ off[i - 1] \in Nat /\ len[i] \in Nat
      BY <1>5, <1>7, <1>8
    <3>2. ASSUME NEW j \in 1 .. len[i] PROVE F[off[i - 1] + j] = ss[i][j]
      <4>1. off[i - 1] + j \in 1 .. off[i]
        BY <3>1
      <4>2. J[n][off[i - 1] + j] = J[i][off[i - 1] + j]
        BY <4>1, <1>1, <1>12
      <4>3. J[i][off[i - 1] + j] = ss[i][j]
        BY <1>8
      <4> QED BY <4>2, <4>3, <1>3
    <3> QED BY <3>1, <3>2, Zenon
  <2>3. ASSUME NEW i \in 0 .. n, NEW k \in 0 .. n, i <= k PROVE off[i] <= off[k]
    <3>1. i \in 0 .. k /\ Good(k)
      BY <2>3, <1>1, <1>12
    <3> QED BY <3>1
  <2>4. ASSUME NEW q \in 1 .. Len(F) PROVE \E i \in 1 .. n : off[i - 1] < q /\ q <= off[i]
    <3>1. Good(n)
      BY <1>1, <1>12
    <3>2. q \in 1 .. off[n]
      BY <1>13
    <3> HIDE DEF F
    <3> QED BY <3>1, <3>2
  <2> HIDE DEF F
  <2> QED BY <2>1, <2>2, <2>3, <2>4, <1>13 DEF Layout, n
<1> QED BY <1>13, <1>14

\* Every place of the flat sequence is that of an element.
Places(ss, flat, off) ==
  /\ \A i \in 1 .. Len(ss) : \A j \in 1 .. Len(ss[i]) :
       off[i - 1] + j \in 1 .. Len(flat) /\ flat[off[i - 1] + j] = ss[i][j]
  /\ \A q \in 1 .. Len(flat) : \E i \in 1 .. Len(ss) : \E j \in 1 .. Len(ss[i]) :
       q = off[i - 1] + j /\ flat[q] = ss[i][j]

LEMMA LayoutPlaces ==
  ASSUME NEW S, NEW ss \in Seq(Seq(S)), NEW flat \in Seq(S), NEW off, Layout(ss, flat, off)
  PROVE  Places(ss, flat, off)
<1> DEFINE n == Len(ss)
           len == [i \in 1 .. n |-> Len(ss[i])]
<1>1. n \in Nat /\ Len(flat) \in Nat
  OBVIOUS
<1>2. \A i \in 1 .. n : len[i] = Len(ss[i]) /\ len[i] \in Nat
  OBVIOUS
<1> HIDE DEF len, n
<1>3. ASSUME NEW i \in 1 .. n
      PROVE  /\ i - 1 \in 0 .. n /\ i \in 0 .. n
             /\ off[i] \in Nat /\ off[i - 1] \in Nat /\ off[i] = off[i - 1] + len[i]
             /\ off[i] <= Len(flat)
             /\ \A j \in 1 .. len[i] : flat[off[i - 1] + j] = ss[i][j]
             /\ \A k \in 1 .. n : i < k => off[i] <= off[k - 1]
  <2>1. i - 1 \in 0 .. n /\ i \in 0 .. n /\ n \in 0 .. n /\ i <= n
    BY <1>1
  <2>2. off[i] \in Nat /\ off[i - 1] \in Nat
    BY <2>1 DEF Layout, n
  <2>3. off[i] = off[i - 1] + len[i]
    BY <2>1, <1>2 DEF Layout, n
  <2>4. off[i] <= Len(flat)
    BY <2>1 DEF Layout, n
  <2>5. \A j \in 1 .. len[i] : flat[off[i - 1] + j] = ss[i][j]
    BY <1>2 DEF Layout, n
  <2>6. ASSUME NEW k \in 1 .. n, i < k PROVE off[i] <= off[k - 1]
    <3>1. k - 1 \in 0 .. n /\ i <= k - 1
      BY <2>6, <1>1
    <3> QED BY <3>1, <2>1 DEF Layout, n
  <2> QED BY <2>1, <2>2, <2>3, <2>4, <2>5, <2>6
<1>4. ASSUME NEW i \in 1 .. n, NEW j \in 1 .. len[i]
      PROVE  off[i - 1] + j \in 1 .. Len(flat) /\ flat[off[i - 1] + j] = ss[i][j]
  <2>1. flat[off[i - 1] + j] = ss[i][j]
    BY <1>3
  <2>2. off[i] \in Nat /\ off[i - 1] \in Nat /\ off[i] = off[i - 1] + len[i] /\ off[i] <= Len(flat)
    BY <1>3
  <2>3. len[i] \in Nat
    BY <1>2
  <2> QED BY <2>1, <2>2, <2>3, <1>1
<1>5. ASSUME NEW q \in 1 .. Len(flat)
      PROVE  \E i \in 1 .. n : \E j \in 1 .. len[i] : q = off[i - 1] + j /\ flat[q] = ss[i][j]
  <2>1. PICK i \in 1 .. n : off[i - 1] < q /\ q <= off[i]
    BY DEF Layout, n
  <2>2. q - off[i - 1] \in 1 .. len[i] /\ q = off[i - 1] + (q - off[i - 1])
    BY <2>1, <1>1, <1>2, <1>3
  <2> QED BY <2>2, <1>4
<1>6. \A i \in 1 .. n : 1 .. len[i] = 1 .. Len(ss[i])
  BY <1>2
<1> HIDE DEF Layout
<1>7. \A i \in 1 .. n : \A j \in 1 .. Len(ss[i]) :
        off[i - 1] + j \in 1 .. Len(flat) /\ flat[off[i - 1] + j] = ss[i][j]
  BY <1>4, <1>6, Zenon
<1>8. \A q \in 1 .. Len(flat) : \E i \in 1 .. n : \E j \in 1 .. Len(ss[i]) :
        q = off[i - 1] + j /\ flat[q] = ss[i][j]
  BY <1>5, <1>6, Zenon
<1> QED BY <1>7, <1>8, Zenon DEF n, Places

\* Elements of earlier sequences come first.
InOrder(ss, off) ==
  \A i, k \in 1 .. Len(ss) : i < k =>
    \A j \in 1 .. Len(ss[i]), m \in 1 .. Len(ss[k]) : off[i - 1] + j < off[k - 1] + m

LEMMA LayoutOrder ==
  ASSUME NEW S, NEW ss \in Seq(Seq(S)), NEW flat, NEW off, Layout(ss, flat, off)
  PROVE  InOrder(ss, off)
<1> DEFINE n == Len(ss)
           len == [i \in 1 .. n |-> Len(ss[i])]
<1>1. n \in Nat
  OBVIOUS
<1>2. \A i \in 1 .. n : len[i] = Len(ss[i]) /\ len[i] \in Nat
  OBVIOUS
<1> HIDE DEF len, n
<1>3. ASSUME NEW i \in 1 .. n, NEW k \in 1 .. n, i < k, NEW j \in 1 .. len[i], NEW m \in 1 .. len[k]
      PROVE  off[i - 1] + j < off[k - 1] + m
  <2>1. i - 1 \in 0 .. n /\ i \in 0 .. n /\ k - 1 \in 0 .. n /\ i <= k - 1
    BY <1>1, <1>3
  <2>2. off[i] \in Nat /\ off[i - 1] \in Nat /\ off[k - 1] \in Nat /\ off[i] <= off[k - 1]
    BY <2>1 DEF Layout, n
  <2>3. off[i] = off[i - 1] + len[i] /\ len[i] \in Nat
    BY <1>2 DEF Layout, n
  <2> QED BY <2>2, <2>3
<1>4. \A i \in 1 .. n : 1 .. len[i] = 1 .. Len(ss[i])
  BY <1>2
<1> QED BY <1>3, <1>4, Zenon DEF n, InOrder

\* The sequence r is s with x in place of its first element.
Spliced(r, x, s, S) ==
  /\ r \in Seq(S) /\ Len(x) \in Nat /\ Len(s) \in Nat /\ Len(r) = Len(x) + Len(s) - 1
  /\ \A p \in 1 .. Len(x) : r[p] = x[p]
  /\ \A q \in 2 .. Len(s) : r[Len(x) + q - 1] = s[q]

LEMMA SpliceFacts ==
  ASSUME NEW S, NEW x \in Seq(S), NEW s \in Seq(S), s # <<>>
  PROVE  Spliced(x \o Tail(s), x, s, S)
<1> DEFINE t == Tail(s)
           r == x \o t
           a == Len(x)
           n == Len(s)
<1>1. a \in Nat /\ n \in Nat /\ n >= 1
  OBVIOUS
<1>2. t \in Seq(S)
  OBVIOUS
<1>3. Len(t) = n - 1
  OBVIOUS
<1>4. \A q \in 1 .. n - 1 : t[q] = s[q + 1]
  OBVIOUS
<1> HIDE DEF t
<1>5. /\ r \in Seq(S) /\ Len(r) = a + Len(t)
      /\ \A q \in 1 .. a : r[q] = x[q]
      /\ \A q \in 1 .. Len(t) : r[a + q] = t[q]
  BY <1>2, ConcatFacts
<1> HIDE DEF r, a, n
<1>6. Len(r) = a + n - 1
  BY <1>1, <1>3, <1>5
<1>7. ASSUME NEW q \in 2 .. n PROVE r[a + q - 1] = s[q]
  <2>1. q - 1 \in 1 .. n - 1 /\ (q - 1) + 1 = q /\ a + (q - 1) = a + q - 1
    BY <1>1
  <2>2. r[a + (q - 1)] = t[q - 1]
    BY <2>1, <1>3, <1>5
  <2>3. t[q - 1] = s[(q - 1) + 1]
    BY <2>1, <1>4
  <2> QED BY <2>1, <2>2, <2>3
<1> QED BY <1>1, <1>5, <1>6, <1>7 DEF Spliced, r, a, n, t

=============================================================================
