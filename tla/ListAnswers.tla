----------------------------- MODULE ListAnswers -----------------------------
(***************************************************************************)
(* The generated list functions answer what sequences do: GenList          *)
(* implements ListValues, for any program, with any number of nodes.       *)
(*                                                                         *)
(* ListInv says that every pointer is to a node of the right type, but not *)
(* what a call has to do with what it was called for.  AnswerInv adds      *)
(* that, of the one call on the stack or the two: how far each has come in *)
(* the sequences that its operands stand for (Does), what one waits for    *)
(* the other to find out (WaitsFor) and has when it is resumed (Resumed),  *)
(* what the two together have printed (HasSaid), that the values they were *)
(* given are values of the program (Asked), and which values there are in  *)
(* the heap that the program does not have yet (HasMade).  When the last   *)
(* call returns, these say that its answer is the one of ListValues.       *)
(***************************************************************************)
EXTENDS GenListProofs, Induction

-----------------------------------------------------------------------------
(* What calls have done                                                     *)
(*                                                                          *)
(* A list function works its way along a list.  Does says of a call how far *)
(* it has come in its operands, in, which are sequences; a call that waits  *)
(* for another one is Resumed with what that one was called for.            *)

\* r is what v has after its first d elements.
IsRest(r, v, d) == IsSeq(v) /\ d \in 0 .. Len(v) /\ r = SubSeq(v, d + 1, Len(v))

MainDoes(w, f) ==
  /\ f.in = Argv /\ f.els = Argv
  /\ IsRest(w[f.l1], Argv, f.i + 1)
  /\ f.at \in {"loop", "add"}

\* els has the elements that are not in the list yet, the next one first.
CreateDoes(w, f) ==
  /\ IsRest(w[f.l1], f.in, Len(f.els))
  /\ \A k \in 1 .. Len(f.els) : StandsFor(w, f.ty, f.els[k]) = f.in[Len(f.els) + 1 - k]
  /\ f.at = "loop"

StringDoes(w, f) ==
  /\ f.els = f.in
  /\ IsRest(w[f.l1], f.in, f.i + 1)
  /\ f.at = "loop"

AtDoes(h, w, f) ==
  /\ f.ty \in ListTypes /\ f.l1 \in Chain(h, f.ty)
  /\ f.i \in Nat /\ f.i <= h[f.l1].length
  /\ f.in[2] \in Nat /\ IsRest(w[f.l1], f.in[1], f.in[2] - f.i)
  /\ f.at = "loop"

\* What gcompare_list has found out of two elements when it goes on.
Agree(ty, x, y) == IF ty = "lists" THEN x # y ELSE x = y

CompareDoes(w, f) ==
  /\ \E d \in Nat :
       /\ IsRest(w[f.l1], f.in[1], d) /\ IsRest(w[f.l2], f.in[2], d)
       /\ \A k \in 1 .. d : Agree(f.ty, f.in[1][k], f.in[2][k])
       /\ f.at = "entry" => d = 0
  /\ f.at \in {"entry", "loop"} \/ (f.at = "test" /\ f.ty = "lists")

CompareTupleDoes(w, f) ==
  /\ f.in = <<w[f.l1], w[f.l2]>>
  /\ \A k \in 1 .. 2 : k < f.i => f.in[1][k] = f.in[2][k]
  /\ f.at = "loop" \/ (f.at = "test" /\ f.i = 2)

ConcatDoes(h, w, f) ==
  /\ Len(f.els) = Len(f.in[1]) /\ IsSeq(f.in[1]) /\ IsSeq(f.in[2])
  /\ f.at = "loop" =>
       /\ IsRest(w[f.l1], f.in[1], f.i) /\ w[f.l2] = f.in[2]
       /\ \A k \in 1 .. f.i : StandsFor(w, f.ty, h[f.els[k]].value) = f.in[1][k]
  /\ f.at = "add" =>
       /\ IsRest(w[f.l2], f.in[1] \o f.in[2], f.i + 1)
       /\ \A k \in 1 .. Len(f.els) : StandsFor(w, f.ty, h[f.els[k]].value) = f.in[1][k]
  /\ f.at \in {"loop", "add"}

PrintDoes(h, w, f) ==
  /\ f.l2 \in Chain(h, f.ty) /\ w[f.l2] = f.in
  /\ \E d \in Nat : IsRest(w[f.l1], f.in, d) /\ (f.at = "entry" => d = 0)
  /\ f.at \in {"entry", "loop"} \/ (f.at = "next" /\ f.ty # "chars")

PrintStringDoes(w, f) ==
  /\ IsRest(w[f.l1], f.in, Len(f.els))
  /\ \A k \in 1 .. Len(f.els) : f.els[k] = f.in[k]
  /\ f.at = "loop"

PrintTupleDoes(w, f) ==
  /\ f.in = w[f.l1]
  /\ f.at = "entry" => f.i = 1
  /\ f.at \in {"entry", "loop"} \/ (f.at = "next" /\ f.i = 2)

Does(h, w, f) ==
  /\ f.fn \in Functions
  /\ f.fn = "main" => MainDoes(w, f)
  /\ f.fn = "create" => CreateDoes(w, f)
  /\ f.fn = "string" => StringDoes(w, f)
  /\ f.fn = "at" => AtDoes(h, w, f)
  /\ f.fn = "compare" => CompareDoes(w, f)
  /\ f.fn = "compare_tuple" => CompareTupleDoes(w, f)
  /\ f.fn = "concat" => ConcatDoes(h, w, f)
  /\ f.fn = "print" => PrintDoes(h, w, f)
  /\ f.fn = "print_string" => PrintStringDoes(w, f)
  /\ f.fn = "print_tuple" => PrintTupleDoes(w, f)

Waiting(f) == f.at \in {"test", "next"} \/ (f.fn = "main" /\ f.at = "add")

\* What the values of the nodes that f looks at stand for.
Value1(h, w, f) == w[h[f.l1].value]
Value2(h, w, f) == w[h[f.l2].value]

\* f waits for g, which was called for this.
WaitsFor(h, w, f, g) ==
  /\ f.fn = "main" => g.fn = "string" /\ g.in = Argv[f.i + 1]
  /\ f.fn = "compare" => g.fn = "compare" /\ g.ty = "chars" /\ g.in = <<Value1(h, w, f), Value2(h, w, f)>>
  /\ f.fn = "compare_tuple" => g.fn = "compare" /\ g.ty = "chars" /\ g.in = <<f.in[1][2], f.in[2][2]>>
  /\ (f.fn = "print" /\ f.ty = "strings") => g.fn = "print_string" /\ g.l2 = FALSE /\ g.in = Value1(h, w, f)
  /\ (f.fn = "print" /\ f.ty = "lists") => g.fn = "print" /\ g.ty = "chars" /\ g.in = Value1(h, w, f)
  /\ f.fn = "print_tuple" => g.fn = "print_string" /\ g.l2 = FALSE /\ g.in = f.in[2]

Resumed(h, w, f) ==
  /\ f.fn = "main" => w[f.got] = Argv[f.i + 1]
  /\ f.fn = "compare" => f.got = (Value1(h, w, f) = Value2(h, w, f))
  /\ f.fn = "compare_tuple" => f.got = (f.in[1][2] = f.in[2][2])

Calling(h, w, s) ==
  \/ s = <<>>
  \/ \E f : s = <<f>> /\ Does(h, w, f) /\ (Waiting(f) => Resumed(h, w, f))
  \/ \E f, g : s = <<f, g>> /\ Does(h, w, f) /\ Does(h, w, g) /\ Waiting(f) /\ WaitsFor(h, w, f, g)

-----------------------------------------------------------------------------
(* What they have printed *)

\* The texts of the elements of f's list, from the second on with a comma.
Texts(f) == [k \in DOMAIN f.in |-> ListValuesOf!ElementText(f.ty, f.in[k])]
Spaced(f) == [k \in DOMAIN Texts(f) |-> IF k = 1 THEN Texts(f)[k] ELSE <<", ">> \o Texts(f)[k]]

\* The text up to and with element d, and what follows it if another one does.
UpTo(f, d) == <<"[">> \o Joined(Spaced(f), Len(f.in))[d]
Comma(f, d) == IF d \in 1 .. Len(f.in) - 1 THEN <<", ">> ELSE <<>>

\* How many elements have been printed.
Passed(w, f) == Len(f.in) - Len(w[f.l1])

PrintSays(w, f) ==
  IF f.at = "entry" THEN <<>>
  ELSE UpTo(f, Passed(w, f)) \o IF Passed(w, f) \in 1 .. Len(f.in) - 1 THEN <<", ">> ELSE <<>>

PrintTupleSays(f) ==
  CASE f.at = "entry" -> <<>>
    [] f.at # "entry" /\ f.i = 1 -> <<"(">>
    [] OTHER -> <<"(">> \o CharText(f.in[1], FALSE) \o <<", ">>

Says(w, f) ==
  CASE f.fn = "print" -> PrintSays(w, f)
    [] f.fn = "print_tuple" -> PrintTupleSays(f)
    [] OTHER -> <<>>

\* A print that is resumed has printed one element more.
SaysResumed(w, f) ==
  CASE f.fn = "print" -> UpTo(f, Passed(w, f) + 1)
    [] f.fn = "print_tuple" -> PrintTupleSays(f) \o StringText(f.in[2], FALSE)
    [] OTHER -> <<>>

HasSaid(w, s, text) ==
  /\ \A f : s = <<f>> => text = IF Waiting(f) THEN SaysResumed(w, f) ELSE Says(w, f)
  /\ \A f, g : s = <<f, g>> => text = Says(w, f) \o Says(w, g)

-----------------------------------------------------------------------------
(* What they were asked for, and what they have made *)

\* The operands of an expression are values of the program, those of the
\* first n nodes.
ValuesOf(h, w, n) == {<<h[m].ty, w[m]>> : m \in 1 .. n}

Asked(V, f) ==
  /\ f.fn = "create" => /\ f.in \in Seq(IF f.ty = "chars" THEN Chars ELSE {x[2] : x \in {y \in V : y[1] = "chars"}})
                        /\ Len(f.in) <= MaxElements
  /\ f.fn = "string" => f.in \in Literals
  /\ f.fn = "at" => \E v : \E i \in 1 .. MaxIndex : f.in = <<v, i>> /\ <<f.ty, v>> \in V
  /\ f.fn = "compare" => f.ty \in CompareTypes /\ \E a, b : f.in = <<a, b>> /\ <<f.ty, a>> \in V /\ <<f.ty, b>> \in V
  /\ f.fn = "compare_tuple" => \E a, b : f.in = <<a, b>> /\ <<"tuple", a>> \in V /\ <<"tuple", b>> \in V
  /\ f.fn = "concat" => \E a, b : f.in = <<a, b>> /\ <<f.ty, a>> \in V /\ <<f.ty, b>> \in V
  /\ f.fn = "print" => <<f.ty, f.in>> \in V
  /\ f.fn = "print_string" => f.l2 = TRUE /\ <<"chars", f.in>> \in V
  /\ f.fn = "print_tuple" => <<"tuple", f.in>> \in V

Tails(ty, v) == ListValuesOf!Tails(ty, v)

Made(w, f) ==
  CASE f.fn = "main" -> Tails("strings", w[f.l1]) \cup UNION {Tails("chars", Argv[k]) : k \in f.i + 2 .. Len(Argv)}
    [] f.fn = "create" -> Tails(f.ty, w[f.l1])
    [] f.fn = "string" -> Tails("chars", w[f.l1])
    [] f.fn = "concat" /\ f.at = "add" -> Tails(f.ty, w[f.l2])
    [] OTHER -> {}

MadeResumed(w, f) ==
  IF f.fn = "main" /\ f.at = "add" THEN Made(w, f) \cup Tails("chars", Argv[f.i + 1]) ELSE Made(w, f)

HasMade(w, s, V, all) ==
  /\ s = <<>> => all = V
  /\ \A f : s = <<f>> => all = V \cup MadeResumed(w, f)
  /\ \A f, g : s = <<f, g>> => all = V \cup Made(w, f) \cup Made(w, g)

\* With a list come the lists it ends in, and its elements.
PartsAreThere(h, w) ==
  \A n \in 1 .. Len(h) : h[n].ty \in ListTypes =>
    /\ Tails(h[n].ty, w[n]) \subseteq ValuesOf(h, w, n)
    /\ h[n].ty # "chars" => \A k \in 1 .. Len(w[n]) : <<"chars", w[n][k]>> \in ValuesOf(h, w, n)

AnswerInv ==
  /\ Calling(heap, val, stack)
  /\ HasSaid(val, stack, printed)
  /\ HasMade(val, stack, ValuesOf(heap, val, known), ValuesOf(heap, val, Len(heap)))
  /\ PartsAreThere(heap, val)
  /\ stack # <<>> =>
       /\ Asked(ValuesOf(heap, val, known), stack[1])
       /\ stack[1].fn = "main" => known = 0
       /\ answer = NoAnswer /\ exited = FALSE
  /\ (stack = <<>> /\ answer = NoAnswer) => printed = <<>>
  /\ stack = <<>> => known = Len(heap)
  /\ exited \in BOOLEAN
  /\ exited = TRUE => answer = NoAnswer

-----------------------------------------------------------------------------
(* Sequences *)

LEMMA SeqIs ==
  ASSUME NEW s, IsSeq(s)
  PROVE  Len(s) \in Nat /\ DOMAIN s = 1 .. Len(s)
BY DEF IsSeq

LEMMA SameSeq ==
  ASSUME NEW s, IsSeq(s), NEW t, IsSeq(t), Len(s) = Len(t), \A k \in 1 .. Len(s) : s[k] = t[k]
  PROVE  s = t
<1>1. PICK S : s \in Seq(S)
  BY DEF IsSeq
<1>2. PICK T : t \in Seq(T)
  BY DEF IsSeq
<1>3. s \in Seq(S \cup T) /\ t \in Seq(S \cup T)
  BY <1>1, <1>2
<1> QED BY <1>3, SeqEqual

LEMMA EmptyIsSeq == IsSeq(<<>>) /\ Len(<<>>) = 0
<1>1. <<>> \in Seq({}) /\ Len(<<>>) = 0
  OBVIOUS
<1> QED BY <1>1 DEF IsSeq

LEMMA OneIsSeq ==
  ASSUME NEW x
  PROVE  IsSeq(<<x>>) /\ Len(<<x>>) = 1 /\ <<x>>[1] = x
<1>1. <<x>> \in Seq({x}) /\ Len(<<x>>) = 1 /\ <<x>>[1] = x
  OBVIOUS
<1> QED BY <1>1 DEF IsSeq

IsConcat(u, s, t) == u = s \o t

LEMMA ConcatIs ==
  ASSUME NEW s, IsSeq(s), NEW t, IsSeq(t), NEW u, IsConcat(u, s, t)
  PROVE  /\ IsSeq(u) /\ Len(u) = Len(s) + Len(t)
         /\ \A k \in 1 .. Len(s) : u[k] = s[k]
         /\ \A k \in 1 .. Len(t) : u[Len(s) + k] = t[k]
<1>1. PICK S : s \in Seq(S)
  BY DEF IsSeq
<1>2. PICK T : t \in Seq(T)
  BY DEF IsSeq
<1>3. s \in Seq(S \cup T) /\ t \in Seq(S \cup T)
  BY <1>1, <1>2
<1>4. /\ u \in Seq(S \cup T) /\ Len(u) = Len(s) + Len(t)
      /\ \A k \in 1 .. Len(s) : u[k] = s[k]
      /\ \A k \in 1 .. Len(t) : u[Len(s) + k] = t[k]
  BY <1>3, ConcatFacts DEF IsConcat
<1> QED BY <1>4 DEF IsSeq

LEMMA ConcatEmpty ==
  ASSUME NEW s, IsSeq(s)
  PROVE  s \o <<>> = s /\ <<>> \o s = s
<1>1. PICK S : s \in Seq(S)
  BY DEF IsSeq
<1> QED BY <1>1

LEMMA ConcatTwice ==
  ASSUME NEW s, IsSeq(s), NEW t, IsSeq(t), NEW u, IsSeq(u)
  PROVE  (s \o t) \o u = s \o (t \o u)
<1>1. PICK S, T, U : s \in Seq(S) /\ t \in Seq(T) /\ u \in Seq(U)
  BY DEF IsSeq
<1>2. s \in Seq(S \cup T \cup U) /\ t \in Seq(S \cup T \cup U) /\ u \in Seq(S \cup T \cup U)
  BY <1>1
<1> QED BY <1>2, ConcatAssociative

\* A sequence of two things.
LEMMA PairIsSeq ==
  ASSUME NEW x, NEW y
  PROVE  IsSeq(<<x, y>>) /\ Len(<<x, y>>) = 2 /\ <<x, y>>[1] = x /\ <<x, y>>[2] = y
<1>1. <<x, y>> \in Seq({x, y})
  OBVIOUS
<1> QED BY <1>1 DEF IsSeq

\* r is x followed by t.
IsCons(r, x, t) ==
  /\ IsSeq(r) /\ IsSeq(t) /\ Len(r) = Len(t) + 1 /\ r[1] = x
  /\ \A k \in 1 .. Len(t) : r[k + 1] = t[k]

LEMMA OneMore ==
  ASSUME NEW o, IsSeq(o), NEW t, IsSeq(t), NEW r, IsConcat(r, o, t)
  PROVE  Len(o) = 1 => IsCons(r, o[1], t)
<1>1. Len(t) \in Nat
  BY SeqIs
<1>2. Len(r) = Len(o) + Len(t)
  BY ConcatIs
<1>3. \A k \in 1 .. Len(o) : r[k] = o[k]
  BY ConcatIs
<1>4. \A k \in 1 .. Len(t) : r[Len(o) + k] = t[k]
  BY ConcatIs
<1>5. IsSeq(r)
  BY ConcatIs
<1>6. ASSUME Len(o) = 1 PROVE Len(r) = Len(t) + 1 /\ r[1] = o[1] /\ \A k \in 1 .. Len(t) : r[k + 1] = t[k]
  BY <1>1, <1>2, <1>3, <1>4, <1>6
<1> QED BY <1>5, <1>6 DEF IsCons

LEMMA ConsIs ==
  ASSUME NEW x, NEW t, IsSeq(t)
  PROVE  IsCons(<<x>> \o t, x, t)
<1>1. IsConcat(<<x>> \o t, <<x>>, t)
  BY DEF IsConcat
<1> QED BY <1>1, OneIsSeq, OneMore, Zenon

LEMMA ConsUnique ==
  ASSUME NEW r, NEW x, NEW t, IsCons(r, x, t)
  PROVE  r = <<x>> \o t
<1> DEFINE s == <<x>> \o t
<1>1. IsCons(s, x, t)
  BY ConsIs DEF IsCons
<1> HIDE DEF s
<1>2. Len(r) = Len(s) /\ IsSeq(r) /\ IsSeq(s) /\ Len(t) \in Nat /\ Len(r) = Len(t) + 1
  BY <1>1, SeqIs DEF IsCons
<1>3. ASSUME NEW k \in 1 .. Len(r) PROVE r[k] = s[k]
  <2>1. CASE k = 1
    BY <1>1, <2>1 DEF IsCons
  <2>2. CASE k # 1
    <3>1. k - 1 \in 1 .. Len(t) /\ (k - 1) + 1 = k
      BY <1>2, <2>2
    <3> QED BY <3>1, <1>1 DEF IsCons
  <2> QED BY <2>1, <2>2
<1> QED BY <1>2, <1>3, SameSeq DEF s

LEMMA RestFacts ==
  ASSUME NEW v, NEW r, NEW d, IsRest(r, v, d)
  PROVE  /\ IsSeq(v) /\ IsSeq(r) /\ Len(v) \in Nat /\ d \in 0 .. Len(v) /\ Len(r) = Len(v) - d
         /\ \A k \in 1 .. Len(r) : r[k] = v[d + k]
<1>1. PICK S : v \in Seq(S)
  BY DEF IsRest, IsSeq
<1>2. Len(v) \in Nat /\ d \in 0 .. Len(v) /\ \A k \in 1 .. Len(v) : v[k] \in S
  BY <1>1 DEF IsRest
<1> DEFINE m == d + 1
           n == Len(v)
           s == SubSeq(v, m, n)
<1>3. m \in Nat \ {0} /\ n \in Nat /\ m <= n + 1 /\ n - m + 1 = n - d /\ \A k \in m .. n : v[k] \in S
  BY <1>2
<1>4. r = s
  BY DEF IsRest
<1> HIDE DEF m, n
<1>5. s \in Seq(S)
  BY <1>3, SubSeqProperties
<1>6. Len(s) = n - m + 1
  BY <1>3
<1>7. \A k \in 1 .. n - m + 1 : s[k] = v[m + k - 1]
  BY <1>3
<1> HIDE DEF s
<1>8. \A k \in 1 .. n - d : m + k - 1 = d + k
  BY <1>2, <1>3 DEF m
<1>9. \A k \in 1 .. Len(r) : r[k] = v[d + k]
  BY <1>3, <1>4, <1>6, <1>7, <1>8
<1> QED BY <1>1, <1>2, <1>3, <1>4, <1>5, <1>6, <1>9 DEF n, IsSeq

LEMMA RestIs ==
  ASSUME NEW v, IsSeq(v), NEW r, IsSeq(r), NEW d \in 0 .. Len(v), Len(r) = Len(v) - d,
         \A k \in 1 .. Len(r) : r[k] = v[d + k]
  PROVE  IsRest(r, v, d)
<1> DEFINE s == SubSeq(v, d + 1, Len(v))
<1>1. IsRest(s, v, d)
  BY DEF IsRest
<1> HIDE DEF s
<1>2. IsSeq(s) /\ Len(s) = Len(v) - d /\ \A k \in 1 .. Len(s) : s[k] = v[d + k]
  BY <1>1, RestFacts
<1>3. r = s
  BY <1>2, SameSeq
<1> QED BY <1>1, <1>3

LEMMA RestStart ==
  ASSUME NEW v, IsSeq(v), NEW r
  PROVE  IsRest(r, v, 0) <=> r = v
<1>1. Len(v) \in Nat
  BY SeqIs
<1>2. IsRest(v, v, 0)
  BY <1>1, RestIs
<1>3. ASSUME IsRest(r, v, 0) PROVE r = v
  BY <1>1, <1>3, RestFacts, SameSeq
<1> QED BY <1>2, <1>3

LEMMA RestEnd ==
  ASSUME NEW v, IsSeq(v)
  PROVE  IsRest(<<>>, v, Len(v))
<1>1. Len(v) \in Nat
  BY SeqIs
<1> QED BY <1>1, EmptyIsSeq, RestIs

\* One element further, and one back.
LEMMA RestStep ==
  ASSUME NEW v, NEW r, NEW d, IsRest(r, v, d), NEW x, NEW t, IsCons(r, x, t)
  PROVE  IsRest(t, v, d + 1) /\ v[d + 1] = x /\ d + 1 \in 1 .. Len(v)
<1>1. /\ IsSeq(v) /\ Len(v) \in Nat /\ d \in 0 .. Len(v) /\ Len(r) = Len(v) - d
      /\ \A k \in 1 .. Len(r) : r[k] = v[d + k]
  BY RestFacts
<1>2. /\ IsSeq(t) /\ Len(t) \in Nat /\ Len(r) = Len(t) + 1 /\ r[1] = x
      /\ \A k \in 1 .. Len(t) : r[k + 1] = t[k]
  BY SeqIs DEF IsCons
<1> DEFINE a == Len(v)
           b == Len(t)
<1>3. d + 1 \in 1 .. a /\ b = a - (d + 1) /\ d + 1 \in 0 .. a
  <2>1. a \in Nat /\ b \in Nat /\ d \in 0 .. a /\ b + 1 = a - d
    BY <1>1, <1>2
  <2> HIDE DEF a, b
  <2> QED BY <2>1
<1>4. v[d + 1] = x
  <2>1. 1 \in 1 .. Len(r)
    BY <1>2
  <2> QED BY <2>1, <1>1, <1>2
<1>5. ASSUME NEW k \in 1 .. Len(t) PROVE t[k] = v[(d + 1) + k]
  <2>1. k + 1 \in 1 .. Len(r) /\ d + (k + 1) = (d + 1) + k
    BY <1>1, <1>2
  <2> QED BY <2>1, <1>1, <1>2
<1>6. IsRest(t, v, d + 1)
  BY <1>1, <1>2, <1>3, <1>5, RestIs
<1> QED BY <1>3, <1>4, <1>6

LEMMA RestBack ==
  ASSUME NEW v, NEW t, NEW d, IsRest(t, v, d), d # 0, NEW r, IsCons(r, v[d], t)
  PROVE  IsRest(r, v, d - 1)
<1>1. /\ IsSeq(v) /\ Len(v) \in Nat /\ d \in 0 .. Len(v) /\ Len(t) = Len(v) - d
      /\ \A k \in 1 .. Len(t) : t[k] = v[d + k]
  BY RestFacts
<1>2. /\ IsSeq(r) /\ Len(r) = Len(t) + 1 /\ r[1] = v[d]
      /\ \A k \in 1 .. Len(t) : r[k + 1] = t[k]
  BY DEF IsCons
<1>3. d - 1 \in 0 .. Len(v) /\ Len(r) = Len(v) - (d - 1)
  BY <1>1, <1>2
<1>4. ASSUME NEW k \in 1 .. Len(r) PROVE r[k] = v[(d - 1) + k]
  <2>1. CASE k = 1
    BY <2>1, <1>1, <1>2
  <2>2. CASE k # 1
    <3>1. k - 1 \in 1 .. Len(t) /\ (k - 1) + 1 = k /\ d + (k - 1) = (d - 1) + k
      BY <2>2, <1>1, <1>2
    <3>2. r[(k - 1) + 1] = t[k - 1]
      BY <3>1, <1>2
    <3> QED BY <3>1, <3>2, <1>1
  <2> QED BY <2>1, <2>2
<1> QED BY <1>1, <1>2, <1>3, <1>4, RestIs

-----------------------------------------------------------------------------
(* A stack has one call on it, or one that waits and one that runs. *)

\* A sequence with one or two elements is <<f>> or <<f, g>>.
LEMMA AsOne ==
  ASSUME NEW s, IsSeq(s), Len(s) = 1
  PROVE  s = <<s[1]>>
<1> DEFINE t == <<s[1]>>
<1>1. IsSeq(t) /\ Len(t) = 1 /\ t[1] = s[1]
  BY OneIsSeq
<1> HIDE DEF t
<1>2. s = t
  BY <1>1, SameSeq
<1> QED BY <1>2 DEF t

LEMMA AsTwo ==
  ASSUME NEW s, IsSeq(s), Len(s) = 2
  PROVE  s = <<s[1], s[2]>>
<1> DEFINE t == <<s[1], s[2]>>
<1>1. IsSeq(t) /\ Len(t) = 2 /\ t[1] = s[1] /\ t[2] = s[2]
  BY PairIsSeq
<1> HIDE DEF t
<1>2. \A k \in 1 .. 2 : k = 1 \/ k = 2
  OBVIOUS
<1>3. s = t
  BY <1>1, <1>2, SameSeq
<1> QED BY <1>3 DEF t

\* A call, and a step of a call, on a stack.
LEMMA CallOnOne ==
  ASSUME NEW s, IsSeq(s), s # <<>>, NEW g, NEW k
  PROVE  Len(s) = 1 => Append(Front(s), g) \o <<k>> = <<g, k>>
<1> DEFINE t == Append(Front(s), g) \o <<k>>
           n == Len(s)
<1>1. IsSeq(t) /\ Len(t) = n + 1 /\ t[n] = g /\ t[n + 1] = k
  BY CallSeq
<1>2. SUFFICES ASSUME n = 1 PROVE t = <<g, k>>
  OBVIOUS
<1> HIDE DEF t, n
<1>3. Len(t) = 2 /\ t[1] = g /\ t[2] = k
  BY <1>1, <1>2
<1>4. t = <<t[1], t[2]>>
  BY <1>1, <1>3, AsTwo
<1> QED BY <1>3, <1>4

LEMMA GotoOnTwo ==
  ASSUME NEW s, IsSeq(s), s # <<>>, NEW k
  PROVE  Len(s) = 2 => Append(Front(s), k) = <<s[1], k>>
<1> DEFINE t == Append(Front(s), k)
           n == Len(s)
<1>1. IsSeq(t) /\ Len(t) = n /\ t[n] = k
  BY GotoSeq
<1>2. \A j \in 1 .. n - 1 : t[j] = s[j]
  BY GotoSeq
<1>3. SUFFICES ASSUME n = 2 PROVE t = <<s[1], k>>
  OBVIOUS
<1> HIDE DEF t, n
<1>4. Len(t) = 2 /\ t[1] = s[1] /\ t[2] = k
  BY <1>1, <1>2, <1>3
<1>5. t = <<t[1], t[2]>>
  BY <1>1, <1>4, AsTwo
<1> QED BY <1>4, <1>5

LEMMA OneCall ==
  ASSUME NEW s, NEW f, s = <<f>>
  PROVE  /\ IsSeq(s) /\ s # <<>> /\ Len(s) = 1 /\ s[1] = f /\ Last(s) = f
         /\ \A g : Append(Front(s), g) = <<g>>
         /\ \A g, k : Append(Front(s), g) \o <<k>> = <<g, k>>
<1>0. IsSeq(s) /\ s # <<>>
  BY OneIsSeq
<1>1. Len(s) = 1 /\ s[1] = f
  OBVIOUS
<1>2. Last(s) = f
  BY <1>0, <1>1 DEF Last
<1>3. ASSUME NEW g PROVE Append(Front(s), g) = <<g>>
  <2> DEFINE t == Append(Front(s), g)
  <2>0. IsSeq(t)
    BY <1>0, GotoSeq
  <2>1. Len(t) = 1 /\ t[1] = g
    <3>1. Len(t) = Len(s) /\ t[Len(s)] = g
      BY <1>0, GotoSeq
    <3> QED BY <3>1, <1>1
  <2> HIDE DEF t
  <2>2. t = <<t[1]>>
    BY <2>0, <2>1, AsOne
  <2> QED BY <2>1, <2>2 DEF t
<1>4. ASSUME NEW g, NEW k PROVE Append(Front(s), g) \o <<k>> = <<g, k>>
  BY <1>0, <1>1, CallOnOne
<1> QED BY <1>0, <1>1, <1>2, <1>3, <1>4

LEMMA TwoCalls ==
  ASSUME NEW s, NEW f, NEW g, s = <<f, g>>
  PROVE  /\ IsSeq(s) /\ s # <<>> /\ Len(s) = 2 /\ s[1] = f /\ s[2] = g /\ Last(s) = g
         /\ \A k : Append(Front(s), k) = <<f, k>>
         /\ \A k : Append(Front(Front(s)), k) = <<k>>
<1>0. IsSeq(s) /\ s # <<>>
  BY PairIsSeq
<1>1. Len(s) = 2 /\ s[1] = f /\ s[2] = g
  OBVIOUS
<1>2. Last(s) = g
  BY <1>0, <1>1 DEF Last
<1>3. ASSUME NEW k PROVE Append(Front(s), k) = <<f, k>>
  BY <1>0, <1>1, GotoOnTwo
<1>4. ASSUME NEW k PROVE Append(Front(Front(s)), k) = <<k>>
  <2> DEFINE t == Append(Front(Front(s)), k)
  <2>0. IsSeq(t)
    <3>0. Len(s) > 1
      BY <1>1
    <3> QED BY <1>0, <3>0, ReturnSeq
  <2>1. Len(t) = 1 /\ t[1] = k
    <3>0. Len(s) > 1
      BY <1>1
    <3>1. Len(t) = Len(s) - 1
      BY <1>0, <3>0, ReturnSeq
    <3>2. t[Len(s) - 1] = k
      BY <1>0, <3>0, ReturnSeq
    <3> HIDE DEF t
    <3> QED BY <3>1, <3>2, <1>1
  <2> HIDE DEF t
  <2>2. t = <<t[1]>>
    BY <2>0, <2>1, AsOne
  <2> QED BY <2>1, <2>2 DEF t
<1> QED BY <1>0, <1>1, <1>2, <1>3, <1>4

-----------------------------------------------------------------------------
(* What lists end in *)

LEMMA TailsAre ==
  ASSUME NEW ty, NEW v, IsSeq(v), NEW y
  PROVE  y \in Tails(ty, v) <=> \E d \in 0 .. Len(v) : \E r : IsRest(r, v, d) /\ y = <<ty, r>>
<1>1. Len(v) \in Nat
  BY SeqIs
<1>2. ASSUME y \in Tails(ty, v) PROVE \E d \in 0 .. Len(v) : \E r : IsRest(r, v, d) /\ y = <<ty, r>>
  <2>1. PICK k \in 1 .. Len(v) + 1 : y = <<ty, SubSeq(v, k, Len(v))>>
    BY <1>2 DEF Tails, ListValuesOf!Tails
  <2>2. k - 1 \in 0 .. Len(v) /\ (k - 1) + 1 = k
    BY <1>1
  <2>3. IsRest(SubSeq(v, k, Len(v)), v, k - 1)
    BY <2>2 DEF IsRest
  <2> QED BY <2>1, <2>2, <2>3
<1>3. ASSUME NEW d \in 0 .. Len(v), NEW r, IsRest(r, v, d), y = <<ty, r>> PROVE y \in Tails(ty, v)
  <2>1. d + 1 \in 1 .. Len(v) + 1
    BY <1>1
  <2>2. y = <<ty, SubSeq(v, d + 1, Len(v))>>
    BY <1>3 DEF IsRest
  <2> QED BY <2>1, <2>2 DEF Tails, ListValuesOf!Tails
<1> QED BY <1>2, <1>3

LEMMA RestOfCons ==
  ASSUME NEW r, NEW x, NEW t, IsCons(r, x, t), NEW s, NEW d \in Nat
  PROVE  IsRest(s, r, d + 1) <=> IsRest(s, t, d)
<1>1. IsSeq(r) /\ IsSeq(t) /\ Len(r) = Len(t) + 1 /\ Len(t) \in Nat
  BY SeqIs DEF IsCons
<1>2. \A k \in 1 .. Len(t) : r[k + 1] = t[k]
  BY DEF IsCons
<1>3. ASSUME IsRest(s, r, d + 1) PROVE IsRest(s, t, d)
  <2>1. IsSeq(s) /\ d + 1 \in 0 .. Len(r) /\ Len(s) = Len(r) - (d + 1)
    BY <1>3, RestFacts
  <2>2. d \in 0 .. Len(t) /\ Len(s) = Len(t) - d
    BY <1>1, <2>1
  <2>3. ASSUME NEW k \in 1 .. Len(s) PROVE s[k] = t[d + k]
    <3>1. s[k] = r[(d + 1) + k]
      BY <1>3, RestFacts
    <3>2. d + k \in 1 .. Len(t) /\ (d + 1) + k = (d + k) + 1
      BY <1>1, <2>2
    <3> QED BY <3>1, <3>2, <1>2
  <2> QED BY <1>1, <2>1, <2>2, <2>3, RestIs
<1>4. ASSUME IsRest(s, t, d) PROVE IsRest(s, r, d + 1)
  <2>1. IsSeq(s) /\ d \in 0 .. Len(t) /\ Len(s) = Len(t) - d
    BY <1>4, RestFacts
  <2>2. d + 1 \in 0 .. Len(r) /\ Len(s) = Len(r) - (d + 1)
    BY <1>1, <2>1
  <2>3. ASSUME NEW k \in 1 .. Len(s) PROVE s[k] = r[(d + 1) + k]
    <3>1. s[k] = t[d + k]
      BY <1>4, RestFacts
    <3>2. d + k \in 1 .. Len(t) /\ (d + 1) + k = (d + k) + 1
      BY <1>1, <2>1
    <3> QED BY <3>1, <3>2, <1>2
  <2> QED BY <1>1, <2>1, <2>2, <2>3, RestIs
<1> QED BY <1>3, <1>4

LEMMA TailsEmpty ==
  ASSUME NEW ty
  PROVE  Tails(ty, <<>>) = {<<ty, <<>> >>}
<1> DEFINE e == <<>>
<1>1. IsSeq(e) /\ Len(e) = 0
  BY EmptyIsSeq
<1> HIDE DEF e
<1>2. 0 .. Len(e) = {0}
  BY <1>1
<1>3. \A r : IsRest(r, e, 0) <=> r = e
  BY <1>1, RestStart
<1>4. \A y : y \in Tails(ty, e) <=> y = <<ty, e>>
  BY <1>1, <1>2, <1>3, TailsAre
<1>5. Tails(ty, e) = {<<ty, e>>}
  BY <1>4
<1> QED BY <1>5 DEF e

LEMMA TailsCons ==
  ASSUME NEW ty, NEW r, NEW x, NEW t, IsCons(r, x, t)
  PROVE  Tails(ty, r) = {<<ty, r>>} \cup Tails(ty, t)
<1>1. IsSeq(r) /\ IsSeq(t)
  BY DEF IsCons
<1>2. Len(r) = Len(t) + 1 /\ Len(t) \in Nat
  BY <1>1, SeqIs DEF IsCons
<1>3. ASSUME NEW y, y \in Tails(ty, r) PROVE y \in {<<ty, r>>} \cup Tails(ty, t)
  <2>1. PICK d \in 0 .. Len(r) : \E s : IsRest(s, r, d) /\ y = <<ty, s>>
    BY <1>1, <1>3, TailsAre
  <2>2. PICK s : IsRest(s, r, d) /\ y = <<ty, s>>
    BY <2>1
  <2>3. CASE d = 0
    BY <1>1, <2>2, <2>3, RestStart
  <2>4. CASE d # 0
    <3>1. d - 1 \in 0 .. Len(t) /\ d - 1 \in Nat /\ (d - 1) + 1 = d
      BY <1>2, <2>4
    <3>2. IsRest(s, t, d - 1)
      BY <2>2, <3>1, RestOfCons
    <3> QED BY <1>1, <2>2, <3>1, <3>2, TailsAre
  <2> QED BY <2>3, <2>4
<1>4. <<ty, r>> \in Tails(ty, r)
  <2>1. IsRest(r, r, 0) /\ 0 \in 0 .. Len(r)
    BY <1>1, <1>2, RestStart
  <2> QED BY <1>1, <2>1, TailsAre
<1>5. ASSUME NEW y, y \in Tails(ty, t) PROVE y \in Tails(ty, r)
  <2>1. PICK d \in 0 .. Len(t) : \E s : IsRest(s, t, d) /\ y = <<ty, s>>
    BY <1>1, <1>5, TailsAre
  <2>2. PICK s : IsRest(s, t, d) /\ y = <<ty, s>>
    BY <2>1
  <2>3. IsRest(s, r, d + 1) /\ d + 1 \in 0 .. Len(r)
    BY <1>2, <2>2, RestOfCons
  <2> QED BY <1>1, <2>2, <2>3, TailsAre
<1> QED BY <1>3, <1>4, <1>5

LEMMA OwnTail ==
  ASSUME NEW ty, NEW v, IsSeq(v)
  PROVE  <<ty, v>> \in Tails(ty, v)
<1>1. IsRest(v, v, 0) /\ 0 \in 0 .. Len(v)
  BY RestStart, SeqIs
<1> QED BY <1>1, TailsAre

-----------------------------------------------------------------------------
(* Memory that grows. *)

LEMMA NoElements ==
  ASSUME NEW s, IsSeq(s), Len(s) = 0
  PROVE  s = <<>>
<1>1. PICK S : s \in Seq(S)
  BY DEF IsSeq
<1> QED BY <1>1

\* What a list stands for, and its first element.
LEMMA Listed ==
  ASSUME NEW h, NEW w, Memory(h, w), NEW ty \in ListTypes, NEW l \in Chain(h, ty)
  PROVE  /\ l \in 1 .. Len(h) /\ h[l].ty = ty /\ IsSeq(w[l]) /\ h[l].length = Len(w[l]) /\ Len(w[l]) \in Nat
         /\ h[l].length = 0 => w[l] = <<>>
         /\ h[l].length # 0 =>
              /\ h[l].next \in Chain(h, ty) /\ h[l].value \in Elements(h, ty)
              /\ IsCons(w[l], StandsFor(w, ty, h[l].value), w[h[l].next])
<1>1. l \in 1 .. Len(h) /\ h[l].ty = ty
  BY DEF Chain
<1>2. ListNode(h, w, l)
  BY <1>1 DEF Memory, ListTypes
<1>3. IsSeq(w[l]) /\ h[l].length = Len(w[l]) /\ Len(w[l]) \in Nat
  BY <1>2, SeqIs DEF ListNode
<1>4. ASSUME h[l].length = 0 PROVE w[l] = <<>>
  BY <1>3, <1>4, NoElements
<1>5. ASSUME h[l].length # 0
      PROVE  /\ h[l].next \in Chain(h, ty) /\ h[l].value \in Elements(h, ty)
             /\ IsCons(w[l], StandsFor(w, ty, h[l].value), w[h[l].next])
  <2>1. /\ h[l].next \in Chain(h, ty) /\ h[l].value \in Elements(h, ty)
        /\ w[l] = <<StandsFor(w, ty, h[l].value)>> \o w[h[l].next]
    BY <1>1, <1>2, <1>5 DEF ListNode
  <2>2. ListNode(h, w, h[l].next)
    BY <2>1 DEF Memory, ListTypes, Chain
  <2>3. IsSeq(w[h[l].next])
    BY <2>2 DEF ListNode
  <2> QED BY <2>1, <2>3, ConsIs
<1> QED BY <1>1, <1>3, <1>4, <1>5

Grows(h, w, g, x, n, new) ==
  /\ Extends(h, g) /\ \A m \in 1 .. Len(h) : x[m] = w[m]
  /\ ValuesOf(g, x, n) = ValuesOf(h, w, n)
  /\ ValuesOf(g, x, Len(g)) = ValuesOf(h, w, Len(h)) \cup new
  /\ PartsAreThere(g, x)

Grown(new) == Grows(heap, val, heap', val', known, new)

LEMMA OneNodeMore ==
  ASSUME NEW h, NEW w, Memory(h, w), PartsAreThere(h, w), NEW g, NEW x, Extends(h, g), Len(g) = Len(h) + 1,
         \A m \in 1 .. Len(h) : x[m] = w[m], NEW n \in 0 .. Len(h),
         LET z == Len(g) IN g[z].ty \in ListTypes =>
           /\ Tails(g[z].ty, x[z]) \subseteq ValuesOf(g, x, z)
           /\ g[z].ty # "chars" => \A k \in 1 .. Len(x[z]) : <<"chars", x[z][k]>> \in ValuesOf(g, x, z)
  PROVE  Grows(h, w, g, x, n, {<<g[Len(g)].ty, x[Len(g)]>>})
<1>1. Len(h) \in Nat /\ Len(g) = Len(h) + 1 /\ \A m \in 1 .. Len(h) : g[m] = h[m] /\ x[m] = w[m]
  BY DEF Extends
<1>2. ASSUME NEW k \in 0 .. Len(h) PROVE ValuesOf(g, x, k) = ValuesOf(h, w, k)
  <2>1. \A m \in 1 .. k : g[m] = h[m] /\ x[m] = w[m]
    BY <1>1
  <2> QED BY <2>1 DEF ValuesOf
<1>3. ValuesOf(g, x, Len(g)) = ValuesOf(h, w, Len(h)) \cup {<<g[Len(g)].ty, x[Len(g)]>>}
  <2>1. 1 .. Len(g) = 1 .. Len(h) \cup {Len(g)}
    BY <1>1
  <2>2. ValuesOf(g, x, Len(g)) = ValuesOf(g, x, Len(h)) \cup {<<g[Len(g)].ty, x[Len(g)]>>}
    BY <2>1 DEF ValuesOf
  <2> QED BY <1>1, <1>2, <2>2
<1>4. PartsAreThere(g, x)
  <2> SUFFICES ASSUME NEW m \in 1 .. Len(g), g[m].ty \in ListTypes
               PROVE  /\ Tails(g[m].ty, x[m]) \subseteq ValuesOf(g, x, m)
                      /\ g[m].ty # "chars" => \A k \in 1 .. Len(x[m]) : <<"chars", x[m][k]>> \in ValuesOf(g, x, m)
    BY DEF PartsAreThere
  <2>1. CASE m = Len(g)
    BY <2>1
  <2>2. CASE m # Len(g)
    <3>1. m \in 1 .. Len(h) /\ m \in 0 .. Len(h) /\ g[m] = h[m] /\ x[m] = w[m]
      BY <1>1, <2>2
    <3>2. ValuesOf(g, x, m) = ValuesOf(h, w, m)
      BY <1>2, <3>1
    <3> QED BY <3>1, <3>2 DEF PartsAreThere
  <2> QED BY <2>1, <2>2
<1> QED BY <1>1, <1>2, <1>3, <1>4 DEF Grows

LEMMA SameMemory ==
  ASSUME ListInv, AnswerInv, UNCHANGED memory
  PROVE  Grown({}) /\ heap' = heap /\ val' = val
<1>1. heap' = heap /\ val' = val
  BY DEF memory
<1>2. Len(heap) \in Nat
  BY SeqIs DEF ListInv, Memory
<1> QED BY <1>1, <1>2 DEF Grown, Grows, Extends, AnswerInv

\* Values of earlier nodes are among those of later ones.
LEMMA MoreValues ==
  ASSUME NEW h, NEW w, NEW n, NEW m, n \in Nat, m \in Nat, n <= m
  PROVE  ValuesOf(h, w, n) \subseteq ValuesOf(h, w, m)
<1>1. 1 .. n \subseteq 1 .. m
  OBVIOUS
<1> QED BY <1>1 DEF ValuesOf

\* gcrt_list(0)
LEMMA EmptyGrows ==
  ASSUME ListInv, AnswerInv, NEW ty \in ListTypes, Empty(ty)
  PROVE  /\ Grown({<<ty, <<>> >>}) /\ val'[Fresh] = <<>> /\ Fresh \in Chain(heap', ty) /\ Memory(heap', val')
<1>1. Memory(heap', val') /\ Extends(heap, heap') /\ Fresh \in Chain(heap', ty)
  BY Emptied DEF ListInv
<1>2. Len(heap) \in Nat /\ Len(val) = Len(heap) /\ IsSeq(heap) /\ IsSeq(val) /\ known \in 0 .. Len(heap)
  BY SeqIs DEF ListInv, Memory
<1>3. heap' = Append(heap, EmptyNode(ty)) /\ val' = Append(val, <<>>)
  BY DEF Empty, Allocate
<1>4. Len(heap') = Len(heap) + 1 /\ val'[Len(heap) + 1] = <<>> /\ \A m \in 1 .. Len(heap) : val'[m] = val[m]
  BY <1>2, <1>3, AppendSeq
<1>5. Fresh = Len(heap') /\ heap'[Len(heap')].ty = ty
  BY <1>1, <1>4 DEF Fresh, Chain
<1>6. <<ty, <<>> >> \in ValuesOf(heap', val', Len(heap'))
  <2>1. Len(heap') \in 1 .. Len(heap')
    BY <1>2, <1>4
  <2> QED BY <2>1, <1>4, <1>5 DEF ValuesOf
<1>7. Tails(ty, <<>>) = {<<ty, <<>> >>} /\ Len(<<>>) = 0
  BY TailsEmpty
<1>8. Grows(heap, val, heap', val', known, {<<heap'[Len(heap')].ty, val'[Len(heap')]>>})
  BY <1>1, <1>2, <1>4, <1>5, <1>6, <1>7, OneNodeMore DEF ListInv, AnswerInv
<1> QED BY <1>1, <1>4, <1>5, <1>8 DEF Grown

\* gadd_list(l, v)
LEMMA AddGrows ==
  ASSUME ListInv, AnswerInv, NEW ty \in ListTypes, NEW l \in Chain(heap, ty), NEW v \in Elements(heap, ty),
         Add(ty, l, v)
  PROVE  /\ Grown({<<ty, val'[Fresh]>>}) /\ Fresh \in Chain(heap', ty) /\ Memory(heap', val')
         /\ val'[Fresh] = <<StandsFor(val, ty, v)>> \o val[l]
         /\ IsCons(val'[Fresh], StandsFor(val, ty, v), val[l])
<1> DEFINE y == StandsFor(val, ty, v)
<1>0. Memory(heap, val) /\ PartsAreThere(heap, val)
  BY DEF ListInv, AnswerInv
<1>1. Memory(heap', val') /\ Extends(heap, heap') /\ Fresh \in Chain(heap', ty)
  BY <1>0, Added
<1>2. Len(heap) \in Nat /\ Len(val) = Len(heap) /\ IsSeq(heap) /\ IsSeq(val) /\ known \in 0 .. Len(heap)
  BY SeqIs DEF ListInv, Memory
<1>3. /\ heap' = Append(heap, [ty |-> ty, next |-> l, length |-> heap[l].length + 1, value |-> v])
      /\ val' = Append(val, <<y>> \o val[l])
  <2>1. Denotes(Element[ty], v) = y
    BY DEF Denotes, StandsFor, Element, ListTypes
  <2> QED BY <2>1 DEF Add, Allocate
<1> HIDE DEF y
<1> DEFINE z == <<y>> \o val[l]
<1>4. l \in 1 .. Len(heap) /\ heap[l].ty = ty /\ IsSeq(val[l]) /\ Len(val[l]) \in Nat
  BY <1>0, Listed
<1>5. IsCons(z, y, val[l])
  BY <1>4, ConsIs
<1> HIDE DEF z
<1>6. val' = Append(val, z)
  BY <1>3 DEF z
<1>7. Len(heap') = Len(heap) + 1 /\ val'[Len(heap) + 1] = z /\ \A m \in 1 .. Len(heap) : val'[m] = val[m]
  BY <1>2, <1>3, <1>6, AppendSeq
<1>8. Fresh = Len(heap') /\ Fresh = Len(heap) + 1 /\ heap'[Len(heap')].ty = ty /\ val'[Fresh] = z
  BY <1>1, <1>7 DEF Fresh, Chain
<1>9. <<ty, z>> \in ValuesOf(heap', val', Len(heap'))
  <2>1. Len(heap') \in 1 .. Len(heap')
    BY <1>2, <1>7
  <2> QED BY <2>1, <1>8 DEF ValuesOf
<1>10. ValuesOf(heap, val, Len(heap)) \subseteq ValuesOf(heap', val', Len(heap'))
  <2>1. \A m \in 1 .. Len(heap) : m \in 1 .. Len(heap') /\ heap'[m] = heap[m] /\ val'[m] = val[m]
    BY <1>1, <1>2, <1>7 DEF Extends
  <2> QED BY <2>1 DEF ValuesOf
<1>11. ValuesOf(heap, val, l) \subseteq ValuesOf(heap, val, Len(heap))
  BY <1>2, <1>4, MoreValues
<1>12. Tails(ty, z) \subseteq ValuesOf(heap', val', Len(heap'))
  <2>1. Tails(ty, val[l]) \subseteq ValuesOf(heap, val, l)
    BY <1>0, <1>4 DEF PartsAreThere
  <2>2. Tails(ty, z) = {<<ty, z>>} \cup Tails(ty, val[l])
    BY <1>5, TailsCons
  <2> QED BY <2>1, <2>2, <1>9, <1>10, <1>11
<1>13. ASSUME ty # "chars", NEW k \in 1 .. Len(z) PROVE <<"chars", z[k]>> \in ValuesOf(heap', val', Len(heap'))
  <2>1. CASE k = 1
    <3>1. v \in 1 .. Len(heap) /\ heap[v].ty = "chars" /\ y = val[v]
      BY <1>13 DEF Elements, Chain, StandsFor, y
    <3>2. <<"chars", y>> \in ValuesOf(heap, val, Len(heap))
      BY <3>1 DEF ValuesOf
    <3> QED BY <2>1, <3>2, <1>5, <1>10 DEF IsCons
  <2>2. CASE k # 1
    <3>1. k - 1 \in 1 .. Len(val[l]) /\ (k - 1) + 1 = k
      BY <2>2, <1>4, <1>5 DEF IsCons
    <3>2. z[k] = val[l][k - 1]
      BY <3>1, <1>5 DEF IsCons
    <3>3. <<"chars", val[l][k - 1]>> \in ValuesOf(heap, val, l)
      BY <1>0, <1>4, <1>13, <3>1 DEF PartsAreThere
    <3> QED BY <3>2, <3>3, <1>10, <1>11
  <2> QED BY <2>1, <2>2
<1>14. Grows(heap, val, heap', val', known, {<<heap'[Len(heap')].ty, val'[Len(heap')]>>})
  BY <1>0, <1>1, <1>2, <1>7, <1>8, <1>12, <1>13, OneNodeMore
<1> QED BY <1>1, <1>5, <1>8, <1>14 DEF Grown, z, y

\* gcrt_tuple
LEMMA TupleGrows ==
  ASSUME ListInv, AnswerInv, NEW c \in Chars, NEW s \in Chain(heap, "chars"), Tuple(<<c, s>>)
  PROVE  Grown({<<"tuple", <<c, val[s]>> >>}) /\ val'[Fresh] = <<c, val[s]>> /\ Memory(heap', val')
<1>0. Memory(heap, val) /\ PartsAreThere(heap, val)
  BY DEF ListInv, AnswerInv
<1> DEFINE m == [k \in DOMAIN <<c, s>> |-> Denotes(TupleItems[k], <<c, s>>[k])]
<1>1. heap' = Append(heap, [EmptyNode("tuple") EXCEPT !.value = <<c, s>>]) /\ val' = Append(val, m)
  BY DEF Tuple, Allocate
<1>2. m = <<c, val[s]>>
  BY DEF TupleItems, Denotes
<1> HIDE DEF m
<1>3. Memory(heap', val') /\ Extends(heap, heap')
  BY <1>0, <1>1, <1>2, TupleAdded, Zenon
<1>4. Len(heap) \in Nat /\ Len(val) = Len(heap) /\ IsSeq(heap) /\ IsSeq(val) /\ known \in 0 .. Len(heap)
  BY SeqIs DEF ListInv, Memory
<1>5. /\ Len(heap') = Len(heap) + 1 /\ heap'[Len(heap) + 1] = [EmptyNode("tuple") EXCEPT !.value = <<c, s>>]
      /\ val'[Len(heap) + 1] = m /\ \A j \in 1 .. Len(heap) : val'[j] = val[j]
  BY <1>1, <1>4, AppendSeq
<1>6. heap'[Len(heap')].ty = "tuple" /\ Fresh = Len(heap')
  BY <1>5 DEF EmptyNode, Fresh
<1>7. Grows(heap, val, heap', val', known, {<<heap'[Len(heap')].ty, val'[Len(heap')]>>})
  BY <1>0, <1>3, <1>4, <1>5, <1>6, OneNodeMore DEF ListTypes
<1> QED BY <1>2, <1>3, <1>5, <1>6, <1>7 DEF Grown

-----------------------------------------------------------------------------
(* What is known of the calls on a stack. *)

\* What has been printed when f runs and nothing waits for it.
Now(w, f) == IF Waiting(f) THEN SaysResumed(w, f) ELSE Says(w, f)

LEMMA OneIs ==
  ASSUME NEW h, NEW w, NEW f
  PROVE  /\ Calling(h, w, <<f>>) <=> Does(h, w, f) /\ (Waiting(f) => Resumed(h, w, f))
         /\ \A text : HasSaid(w, <<f>>, text) <=> text = Now(w, f)
         /\ \A V, all : HasMade(w, <<f>>, V, all) <=> all = V \cup MadeResumed(w, f)
<1>1. <<f>> # <<>> /\ \A g : <<f>> = <<g>> <=> g = f
  OBVIOUS
<1>2. \A g, k : <<f>> # <<g, k>>
  OBVIOUS
<1>3. Calling(h, w, <<f>>) <=> Does(h, w, f) /\ (Waiting(f) => Resumed(h, w, f))
  BY <1>1, <1>2, Zenon DEF Calling
<1>4. ASSUME NEW text PROVE HasSaid(w, <<f>>, text) <=> text = Now(w, f)
  BY <1>1, <1>2, Zenon DEF HasSaid, Now
<1>5. ASSUME NEW V, NEW all PROVE HasMade(w, <<f>>, V, all) <=> all = V \cup MadeResumed(w, f)
  BY <1>1, <1>2, Zenon DEF HasMade
<1> QED BY <1>3, <1>4, <1>5

LEMMA TwoAre ==
  ASSUME NEW h, NEW w, NEW f, NEW g
  PROVE  /\ Calling(h, w, <<f, g>>) <=> Does(h, w, f) /\ Does(h, w, g) /\ Waiting(f) /\ WaitsFor(h, w, f, g)
         /\ \A text : HasSaid(w, <<f, g>>, text) <=> text = Says(w, f) \o Says(w, g)
         /\ \A V, all : HasMade(w, <<f, g>>, V, all) <=> all = V \cup Made(w, f) \cup Made(w, g)
<1>1. <<f, g>> # <<>> /\ \A k, m : <<f, g>> = <<k, m>> <=> f = k /\ g = m
  OBVIOUS
<1>2. \A k : <<f, g>> # <<k>>
  OBVIOUS
<1>3. Calling(h, w, <<f, g>>) <=> Does(h, w, f) /\ Does(h, w, g) /\ Waiting(f) /\ WaitsFor(h, w, f, g)
  BY <1>1, <1>2, Zenon DEF Calling
<1>4. ASSUME NEW text PROVE HasSaid(w, <<f, g>>, text) <=> text = Says(w, f) \o Says(w, g)
  BY <1>1, <1>2, Zenon DEF HasSaid
<1>5. ASSUME NEW V, NEW all PROVE HasMade(w, <<f, g>>, V, all) <=> all = V \cup Made(w, f) \cup Made(w, g)
  BY <1>1, <1>2, Zenon DEF HasMade
<1> QED BY <1>3, <1>4, <1>5

V0 == ValuesOf(heap, val, known)
All0 == ValuesOf(heap, val, Len(heap))

LEMMA Alone ==
  ASSUME ListInv, AnswerInv, NEW f, stack = <<f>>
  PROVE  /\ Does(heap, val, f) /\ (Waiting(f) => Resumed(heap, val, f)) /\ FrameFits(heap, f) /\ Top = f
         /\ printed = Now(val, f) /\ All0 = V0 \cup MadeResumed(val, f)
         /\ Asked(V0, f) /\ (f.fn = "main" => known = 0) /\ answer = NoAnswer /\ exited = FALSE
<1>1. Len(stack) = 1 /\ stack[1] = f /\ stack # <<>> /\ Last(stack) = f
  BY OneCall
<1>2. /\ Calling(heap, val, stack) /\ HasSaid(val, stack, printed) /\ HasMade(val, stack, V0, All0)
      /\ Asked(V0, stack[1]) /\ (stack[1].fn = "main" => known = 0) /\ answer = NoAnswer /\ exited = FALSE
  BY <1>1 DEF AnswerInv, V0, All0
<1>3. FrameFits(heap, f)
  <2>1. 1 \in 1 .. Len(stack)
    BY <1>1
  <2> QED BY <1>1, <2>1 DEF ListInv, Frames
<1>4. Top = f
  BY <1>1 DEF Top
<1>5. /\ Does(heap, val, f) /\ (Waiting(f) => Resumed(heap, val, f))
      /\ printed = Now(val, f) /\ All0 = V0 \cup MadeResumed(val, f)
  BY <1>2, OneIs
<1> QED BY <1>1, <1>2, <1>3, <1>4, <1>5

LEMMA Pair ==
  ASSUME ListInv, AnswerInv, NEW f, NEW g, stack = <<f, g>>
  PROVE  /\ Does(heap, val, f) /\ Does(heap, val, g) /\ Waiting(f) /\ WaitsFor(heap, val, f, g)
         /\ FrameFits(heap, f) /\ FrameFits(heap, g) /\ Top = g
         /\ printed = Says(val, f) \o Says(val, g) /\ All0 = V0 \cup Made(val, f) \cup Made(val, g)
         /\ Asked(V0, f) /\ (f.fn = "main" => known = 0) /\ answer = NoAnswer /\ exited = FALSE
<1>1. Len(stack) = 2 /\ stack[1] = f /\ stack[2] = g /\ stack # <<>> /\ Last(stack) = g
  BY TwoCalls
<1>2. /\ Calling(heap, val, stack) /\ HasSaid(val, stack, printed) /\ HasMade(val, stack, V0, All0)
      /\ Asked(V0, stack[1]) /\ (stack[1].fn = "main" => known = 0) /\ answer = NoAnswer /\ exited = FALSE
  BY <1>1 DEF AnswerInv, V0, All0
<1>3. FrameFits(heap, f) /\ FrameFits(heap, g)
  <2>1. 1 \in 1 .. Len(stack) /\ 2 \in 1 .. Len(stack)
    BY <1>1
  <2> QED BY <1>1, <2>1 DEF ListInv, Frames
<1>4. Top = g
  BY <1>1 DEF Top
<1>5. /\ Does(heap, val, f) /\ Does(heap, val, g) /\ Waiting(f) /\ WaitsFor(heap, val, f, g)
      /\ printed = Says(val, f) \o Says(val, g) /\ All0 = V0 \cup Made(val, f) \cup Made(val, g)
  BY <1>2, TwoAre
<1> QED BY <1>1, <1>2, <1>3, <1>4, <1>5

LEMMA OneOrTwo ==
  ASSUME AnswerInv, stack # <<>>
  PROVE  (\E f : stack = <<f>>) \/ (\E f, g : stack = <<f, g>>)
BY DEF AnswerInv, Calling

\* The call another one waits for runs, and it is one of these.
LEMMA InnerRuns ==
  ASSUME ListInv, AnswerInv, NEW f, NEW g, stack = <<f, g>>
  PROVE  /\ ~Waiting(g)
         /\ \/ f.fn = "main" /\ f.at = "add" /\ g.fn = "string"
            \/ f.fn = "compare" /\ f.at = "test" /\ g.fn = "compare" /\ g.ty = "chars"
            \/ f.fn = "compare_tuple" /\ f.at = "test" /\ g.fn = "compare" /\ g.ty = "chars"
            \/ f.fn = "print" /\ f.at = "next" /\ f.ty = "strings" /\ g.fn = "print_string" /\ g.l2 = FALSE
            \/ f.fn = "print" /\ f.at = "next" /\ f.ty = "lists" /\ g.fn = "print" /\ g.ty = "chars"
            \/ f.fn = "print_tuple" /\ f.at = "next" /\ g.fn = "print_string" /\ g.l2 = FALSE
<1>1. Does(heap, val, f) /\ Does(heap, val, g) /\ Waiting(f) /\ WaitsFor(heap, val, f, g) /\ FrameFits(heap, f)
  BY Pair
<1>2. CASE f.fn = "main"
  <2>1. f.at = "add" /\ g.fn = "string"
    BY <1>1, <1>2 DEF Does, MainDoes, Waiting, WaitsFor
  <2>2. g.at = "loop"
    BY <1>1, <2>1 DEF Does, StringDoes
  <2> QED BY <1>2, <2>1, <2>2 DEF Waiting
<1>3. CASE f.fn = "compare"
  <2>1. f.at = "test" /\ g.fn = "compare" /\ g.ty = "chars"
    BY <1>1, <1>3 DEF Does, CompareDoes, Waiting, WaitsFor
  <2>2. g.at \in {"entry", "loop"}
    BY <1>1, <2>1 DEF Does, CompareDoes
  <2> QED BY <1>3, <2>1, <2>2 DEF Waiting
<1>4. CASE f.fn = "compare_tuple"
  <2>1. f.at = "test" /\ g.fn = "compare" /\ g.ty = "chars"
    BY <1>1, <1>4 DEF Does, CompareTupleDoes, Waiting, WaitsFor
  <2>2. g.at \in {"entry", "loop"}
    BY <1>1, <2>1 DEF Does, CompareDoes
  <2> QED BY <1>4, <2>1, <2>2 DEF Waiting
<1>5. CASE f.fn = "print"
  <2>1. f.at = "next" /\ f.ty # "chars" /\ f.ty \in ListTypes
    BY <1>1, <1>5 DEF Does, PrintDoes, Waiting, FrameFits, PrintFits
  <2>2. CASE f.ty = "strings"
    <3>1. g.fn = "print_string" /\ g.l2 = FALSE
      BY <1>1, <1>5, <2>2 DEF WaitsFor
    <3>2. g.at = "loop"
      BY <1>1, <3>1 DEF Does, PrintStringDoes
    <3> QED BY <1>5, <2>1, <2>2, <3>1, <3>2 DEF Waiting
  <2>3. CASE f.ty = "lists"
    <3>1. g.fn = "print" /\ g.ty = "chars"
      BY <1>1, <1>5, <2>3 DEF WaitsFor
    <3>2. g.at \in {"entry", "loop"}
      BY <1>1, <3>1 DEF Does, PrintDoes
    <3> QED BY <1>5, <2>1, <2>3, <3>1, <3>2 DEF Waiting
  <2> QED BY <2>1, <2>2, <2>3 DEF ListTypes
<1>6. CASE f.fn = "print_tuple"
  <2>1. f.at = "next" /\ g.fn = "print_string" /\ g.l2 = FALSE
    BY <1>1, <1>6 DEF Does, PrintTupleDoes, Waiting, WaitsFor
  <2>2. g.at = "loop"
    BY <1>1, <2>1 DEF Does, PrintStringDoes
  <2> QED BY <1>6, <2>1, <2>2 DEF Waiting
<1>7. CASE f.fn \in {"create", "string", "at", "concat", "print_string"}
  <2>1. f.at \in {"loop", "add"}
    BY <1>1, <1>7 DEF Does, CreateDoes, StringDoes, AtDoes, ConcatDoes, PrintStringDoes
  <2> QED BY <1>1, <1>7, <2>1 DEF Waiting
<1> QED BY <1>1, <1>2, <1>3, <1>4, <1>5, <1>6, <1>7 DEF Does, Functions

-----------------------------------------------------------------------------
(* Steps. *)

SameCall(f, g) ==
  g.fn = f.fn /\ g.ty = f.ty /\ g.in = f.in /\ (f.fn = "print_string" => g.l2 = f.l2)

Stutters == AnswerInv' /\ UNCHANGED ListValuesOf!vars

LEMMA AskedSame ==
  ASSUME NEW V, NEW f, NEW g, SameCall(f, g), Asked(V, f)
  PROVE  Asked(V, g)
BY DEF SameCall, Asked

LEMMA GoesOnAs ==
  ASSUME ListInv, AnswerInv, stack # <<>>, stack' # <<>>, SameCall(stack[1], stack'[1]),
         UNCHANGED program, UNCHANGED exited, NEW new, Grown(new),
         Calling(heap', val', stack'), HasSaid(val', stack', printed'), HasMade(val', stack', V0, All0 \cup new)
  PROVE  Stutters
<1>1. known' = known /\ answer' = answer /\ exited' = exited
  BY DEF program
<1>2. ValuesOf(heap', val', known') = V0 /\ ValuesOf(heap', val', Len(heap')) = All0 \cup new /\ PartsAreThere(heap', val')
  BY <1>1 DEF Grown, Grows, V0, All0
<1>3. Asked(V0, stack[1]) /\ (stack[1].fn = "main" => known = 0) /\ answer = NoAnswer /\ exited = FALSE
  BY DEF AnswerInv, V0
<1>4. Asked(V0, stack'[1]) /\ (stack'[1].fn = "main" => known' = 0)
  BY <1>1, <1>3, AskedSame DEF SameCall
<1>5. AnswerInv'
  BY <1>1, <1>2, <1>3, <1>4 DEF AnswerInv
<1>6. UNCHANGED ListValuesOf!vars
  BY <1>1, <1>2 DEF ListValuesOf!vars, V0, ValuesOf
<1> QED BY <1>5, <1>6 DEF Stutters

LEMMA AloneGoes ==
  ASSUME ListInv, AnswerInv, NEW f, stack = <<f>>, NEW g, Goto(g), UNCHANGED exited, NEW new, Grown(new),
         SameCall(f, g), Does(heap', val', g), ~Waiting(g), printed' = Says(val', g),
         V0 \cup Made(val', g) = V0 \cup MadeResumed(val, f) \cup new
  PROVE  Stutters
<1>1. All0 = V0 \cup MadeResumed(val, f) /\ stack # <<>> /\ stack[1] = f
  BY Alone, OneCall
<1>2. stack' = <<g>> /\ UNCHANGED program
  BY OneCall DEF Goto
<1>3. stack' # <<>> /\ stack'[1] = g
  BY <1>2, OneCall
<1>4. Now(val', g) = Says(val', g) /\ MadeResumed(val', g) = Made(val', g)
  BY DEF Now, MadeResumed, Waiting
<1>5. Calling(heap', val', stack') /\ HasSaid(val', stack', printed')
  BY <1>2, <1>4, OneIs
<1>6. HasMade(val', stack', V0, All0 \cup new)
  <2>1. All0 \cup new = V0 \cup MadeResumed(val', g)
    BY <1>1, <1>4
  <2> QED BY <2>1, <1>2, OneIs
<1> QED BY <1>1, <1>2, <1>3, <1>5, <1>6, GoesOnAs

LEMMA PairGoes ==
  ASSUME ListInv, AnswerInv, NEW e, NEW f, stack = <<e, f>>, NEW g, Goto(g), UNCHANGED exited, NEW new, Grown(new),
         SameCall(f, g), Does(heap', val', e), WaitsFor(heap', val', e, f), Does(heap', val', g),
         printed' = Says(val', e) \o Says(val', g),
         V0 \cup Made(val', e) \cup Made(val', g) = V0 \cup Made(val, e) \cup Made(val, f) \cup new
  PROVE  Stutters
<1>1. All0 = V0 \cup Made(val, e) \cup Made(val, f) /\ Waiting(e)
  BY Pair
<1>2. stack # <<>> /\ stack[1] = e
  BY TwoCalls
<1>3. stack' = <<e, g>> /\ UNCHANGED program
  <2>1. stack' = Append(Front(stack), g) /\ UNCHANGED program
    BY DEF Goto
  <2>2. IsSeq(stack) /\ stack # <<>> /\ Len(stack) = 2 /\ stack[1] = e
    BY TwoCalls
  <2>3. Append(Front(stack), g) = <<stack[1], g>>
    BY <2>2, GotoOnTwo, Zenon
  <2>4. Append(Front(stack), g) = <<e, g>>
    BY <2>2, <2>3, Zenon
  <2> QED BY <2>1, <2>4, Zenon
<1>4. stack' # <<>> /\ stack'[1] = e
  BY <1>3, TwoCalls
<1>5. WaitsFor(heap', val', e, g)
  <2>1. f.fn = "print_string" => g.l2 = f.l2
    BY DEF SameCall
  <2> QED BY <2>1 DEF SameCall, WaitsFor
<1>6. Calling(heap', val', stack') /\ HasSaid(val', stack', printed')
  BY <1>1, <1>3, <1>5, TwoAre
<1>7. HasMade(val', stack', V0, All0 \cup new)
  BY <1>1, <1>3, TwoAre
<1>8. SameCall(stack[1], stack'[1])
  BY <1>2, <1>4 DEF SameCall
<1> QED BY <1>2, <1>3, <1>4, <1>6, <1>7, <1>8, GoesOnAs

LEMMA AloneCalls ==
  ASSUME ListInv, AnswerInv, NEW f, stack = <<f>>, NEW e, NEW g, Call(e, g), Silent, NEW new, Grown(new),
         SameCall(f, e), Waiting(e), Does(heap', val', e), Does(heap', val', g), WaitsFor(heap', val', e, g),
         Says(val', e) \o Says(val', g) = Now(val, f),
         V0 \cup Made(val', e) \cup Made(val', g) = V0 \cup MadeResumed(val, f) \cup new
  PROVE  Stutters
<1>1. All0 = V0 \cup MadeResumed(val, f) /\ printed = Now(val, f) /\ stack # <<>> /\ stack[1] = f
  BY Alone, OneCall
<1>2. stack' = <<e, g>> /\ UNCHANGED program
  <2>1. stack' = Append(Front(stack), e) \o <<g>> /\ UNCHANGED program
    BY DEF Call
  <2>2. Append(Front(stack), e) \o <<g>> = <<e, g>>
    BY OneCall
  <2> QED BY <2>1, <2>2, Zenon
<1>3. stack' # <<>> /\ stack'[1] = e
  BY <1>2, TwoCalls
<1>4. printed' = printed /\ exited' = exited
  BY DEF Silent
<1>5. Calling(heap', val', stack') /\ HasSaid(val', stack', printed')
  BY <1>1, <1>2, <1>4, TwoAre
<1>6. HasMade(val', stack', V0, All0 \cup new)
  BY <1>1, <1>2, TwoAre
<1> QED BY <1>1, <1>2, <1>3, <1>4, <1>5, <1>6, GoesOnAs

\* Only what is printed depends on the list and its type, not on where a print is in it.
LEMMA UpToSame ==
  ASSUME NEW f, NEW g, g.in = f.in, g.ty = f.ty, NEW d
  PROVE  UpTo(g, d) = UpTo(f, d) /\ Comma(g, d) = Comma(f, d) /\ Texts(g) = Texts(f)
<1>1. Texts(g) = Texts(f)
  BY Zenon DEF Texts
<1>2. Spaced(g) = Spaced(f)
  BY <1>1, Zenon DEF Spaced
<1> QED BY <1>1, <1>2, Zenon DEF UpTo, Comma

\* What a function has done is not in its result.
LEMMA ResultDoes ==
  ASSUME NEW h, NEW w, NEW f, FrameFits(h, f), Does(h, w, f), NEW v, NEW g, g = [f EXCEPT !.got = v]
  PROVE  /\ Does(h, w, g) /\ SameCall(f, g) /\ g.got = v /\ g.at = f.at /\ g.l1 = f.l1 /\ g.l2 = f.l2 /\ g.i = f.i
         /\ (Waiting(g) <=> Waiting(f)) /\ SaysResumed(w, g) = SaysResumed(w, f) /\ MadeResumed(w, g) = MadeResumed(w, f)
<1>1. /\ g.fn = f.fn /\ g.at = f.at /\ g.ty = f.ty /\ g.l1 = f.l1 /\ g.l2 = f.l2 /\ g.i = f.i /\ g.els = f.els
      /\ g.in = f.in /\ g.got = v
  BY DEF FrameFits, IsFrame
<1>2. Does(h, w, g)
  <2>1. MainDoes(w, g) <=> MainDoes(w, f)
    BY <1>1 DEF MainDoes
  <2>2. CreateDoes(w, g) <=> CreateDoes(w, f)
    BY <1>1 DEF CreateDoes
  <2>3. StringDoes(w, g) <=> StringDoes(w, f)
    BY <1>1 DEF StringDoes
  <2>4. AtDoes(h, w, g) <=> AtDoes(h, w, f)
    BY <1>1 DEF AtDoes
  <2>5. CompareDoes(w, g) <=> CompareDoes(w, f)
    BY <1>1 DEF CompareDoes
  <2>6. CompareTupleDoes(w, g) <=> CompareTupleDoes(w, f)
    BY <1>1 DEF CompareTupleDoes
  <2>7. ConcatDoes(h, w, g) <=> ConcatDoes(h, w, f)
    BY <1>1 DEF ConcatDoes
  <2>8. PrintDoes(h, w, g) <=> PrintDoes(h, w, f)
    BY <1>1 DEF PrintDoes
  <2>9. PrintStringDoes(w, g) <=> PrintStringDoes(w, f)
    BY <1>1 DEF PrintStringDoes
  <2>10. PrintTupleDoes(w, g) <=> PrintTupleDoes(w, f)
    BY <1>1 DEF PrintTupleDoes
  <2> QED BY <1>1, <2>1, <2>2, <2>3, <2>4, <2>5, <2>6, <2>7, <2>8, <2>9, <2>10 DEF Does
<1>3. SameCall(f, g) /\ (Waiting(g) <=> Waiting(f))
  BY <1>1 DEF SameCall, Waiting
<1>4. SaysResumed(w, g) = SaysResumed(w, f)
  <2>1. Passed(w, g) = Passed(w, f)
    BY <1>1 DEF Passed
  <2>2. \A d : UpTo(g, d) = UpTo(f, d)
    BY <1>1, UpToSame
  <2>3. PrintTupleSays(g) = PrintTupleSays(f)
    BY <1>1 DEF PrintTupleSays
  <2> QED BY <1>1, <2>1, <2>2, <2>3 DEF SaysResumed
<1>5. MadeResumed(w, g) = MadeResumed(w, f)
  BY <1>1 DEF MadeResumed, Made
<1> QED BY <1>1, <1>2, <1>3, <1>4, <1>5

LEMMA PairReturns ==
  ASSUME ListInv, AnswerInv, NEW f, NEW g, stack = <<f, g>>, NEW v, NEW out, Return(v, out), UNCHANGED memory,
         UNCHANGED exited, printed' = SaysResumed(val, f),
         Resumed(heap, val, [f EXCEPT !.got = v]),
         Made(val, f) \cup Made(val, g) = MadeResumed(val, f)
  PROVE  Stutters
<1> DEFINE e == [f EXCEPT !.got = v]
<1>1. /\ All0 = V0 \cup Made(val, f) \cup Made(val, g) /\ Waiting(f) /\ Does(heap, val, f) /\ FrameFits(heap, f)
  BY Pair
<1>2. stack # <<>> /\ stack[1] = f /\ Len(stack) = 2 /\ \A k : Append(Front(Front(stack)), k) = <<k>>
  BY TwoCalls
<1>3. stack' = <<e>> /\ UNCHANGED program
  <2>0. Len(stack) > 1
    BY <1>2
  <2>1. stack' = Append(Front(Front(stack)), [stack[Len(stack) - 1] EXCEPT !.got = v]) /\ UNCHANGED program
    BY <2>0, Zenon DEF Return
  <2>2. stack[Len(stack) - 1] = f
    BY <1>2
  <2> QED BY <2>1, <2>2, <1>2
<1>4. /\ Does(heap, val, e) /\ SameCall(f, e) /\ Waiting(e) /\ SaysResumed(val, e) = SaysResumed(val, f)
      /\ MadeResumed(val, e) = MadeResumed(val, f)
  BY <1>1, ResultDoes
<1>5. Resumed(heap, val, e)
  OBVIOUS
<1> HIDE DEF e
<1>6. stack' # <<>> /\ stack'[1] = e
  BY <1>3, OneCall
<1>7. Grown({}) /\ heap' = heap /\ val' = val
  BY SameMemory
<1>8. Calling(heap', val', stack')
  BY <1>3, <1>4, <1>5, <1>7, OneIs
<1>9. HasSaid(val', stack', printed')
  BY <1>3, <1>4, <1>7, OneIs DEF Now
<1>10. HasMade(val', stack', V0, All0 \cup {})
  <2>1. All0 \cup {} = V0 \cup MadeResumed(val, e)
    BY <1>1, <1>4
  <2> QED BY <2>1, <1>3, <1>7, OneIs
<1> QED BY <1>2, <1>3, <1>4, <1>6, <1>7, <1>8, <1>9, <1>10, GoesOnAs

\* The program gets an answer, and with it these values.
Answers(fn, in, out, text, new) ==
  /\ exited = FALSE /\ exited' = exited
  /\ answer' = [fn |-> fn, in |-> in, out |-> out, text |-> text]
  /\ ValuesOf(heap', val', known') = V0 \cup new

LEMMA AloneReturns ==
  ASSUME ListInv, AnswerInv, NEW f, stack = <<f>>, NEW v, NEW out, Return(v, out), UNCHANGED memory,
         UNCHANGED exited
  PROVE  AnswerInv' /\ Answers(f.fn, f.in, out, printed', MadeResumed(val, f)) /\ Asked(V0, f) /\ (f.fn = "main" => V0 = {})
<1>1. /\ All0 = V0 \cup MadeResumed(val, f) /\ Asked(V0, f) /\ (f.fn = "main" => known = 0) /\ exited = FALSE /\ Top = f
      /\ Does(heap, val, f)
  BY Alone
<1>2. Len(stack) = 1
  BY OneCall
<1>3. /\ stack' = <<>> /\ known' = Len(heap)
      /\ answer' = [fn |-> f.fn, in |-> f.in, out |-> out, text |-> printed']
  BY <1>1, <1>2 DEF Return
<1>4. heap' = heap /\ val' = val /\ exited' = FALSE
  BY <1>1 DEF memory
<1>5. ValuesOf(heap', val', known') = All0 /\ ValuesOf(heap', val', Len(heap')) = All0
  BY <1>3, <1>4 DEF All0
<1>6. answer' # NoAnswer
  BY <1>1, <1>3 DEF NoAnswer, Does, Functions
<1>7. Calling(heap', val', stack')
  BY <1>3 DEF Calling
<1>8. HasSaid(val', stack', printed') /\ HasMade(val', stack', All0, All0)
  <2>1. \A g : stack' # <<g>>
    BY <1>3
  <2>2. \A g, k : stack' # <<g, k>>
    BY <1>3
  <2> QED BY <2>1, <2>2, <1>3 DEF HasSaid, HasMade
<1>9. PartsAreThere(heap', val')
  BY <1>4 DEF AnswerInv
<1>10. AnswerInv'
  BY <1>3, <1>4, <1>5, <1>6, <1>7, <1>8, <1>9 DEF AnswerInv
<1>11. Answers(f.fn, f.in, out, printed', MadeResumed(val, f))
  BY <1>1, <1>3, <1>4, <1>5 DEF Answers
<1>12. f.fn = "main" => V0 = {}
  BY <1>1 DEF V0, ValuesOf
<1> QED BY <1>1, <1>10, <1>11, <1>12

-----------------------------------------------------------------------------
(* Texts. *)

AreSeqs(ss) == IsSeq(ss) /\ \A k \in 1 .. Len(ss) : IsSeq(ss[k])

LEMMA OneAlphabet ==
  ASSUME NEW ss, AreSeqs(ss)
  PROVE  \E S : ss \in Seq(Seq(S))
<1> DEFINE S == UNION {{ss[k][j] : j \in 1 .. Len(ss[k])} : k \in 1 .. Len(ss)}
<1>1. ASSUME NEW k \in 1 .. Len(ss) PROVE ss[k] \in Seq(S)
  <2>1. PICK T : ss[k] \in Seq(T)
    BY DEF AreSeqs, IsSeq
  <2>2. \A j \in 1 .. Len(ss[k]) : ss[k][j] \in S
    OBVIOUS
  <2> HIDE DEF S
  <2>3. ss[k] = [j \in 1 .. Len(ss[k]) |-> ss[k][j]] /\ Len(ss[k]) \in Nat
    BY <2>1
  <2>4. ss[k] \in [1 .. Len(ss[k]) -> S]
    BY <2>2, <2>3, Zenon
  <2> QED BY <2>3, <2>4
<1> HIDE DEF S
<1>2. PICK T : ss \in Seq(T)
  BY DEF AreSeqs, IsSeq
<1>3. ss = [k \in 1 .. Len(ss) |-> ss[k]] /\ Len(ss) \in Nat
  BY <1>2
<1> DEFINE Q == Seq(S)
<1>4. \A k \in 1 .. Len(ss) : ss[k] \in Q
  BY <1>1
<1> HIDE DEF Q
<1>5. ss \in [1 .. Len(ss) -> Q]
  BY <1>3, <1>4, Zenon
<1>6. ss \in Seq(Q)
  BY <1>3, <1>5
<1> QED BY <1>6 DEF Q

LEMMA JoinedSeqs ==
  ASSUME NEW ss, AreSeqs(ss)
  PROVE  /\ \A d \in 0 .. Len(ss) : IsSeq(Joined(ss, Len(ss))[d])
         /\ FlattenSeq(ss) = Joined(ss, Len(ss))[Len(ss)] /\ IsSeq(FlattenSeq(ss))
<1>1. PICK S : ss \in Seq(Seq(S))
  BY OneAlphabet
<1> DEFINE n == Len(ss)
           J == Joined(ss, n)
<1>2. n \in Nat /\ \A i \in 1 .. n : ss[i] \in Seq(S)
  BY <1>1
<1>3. FlattenSeq(ss) = J[n]
  BY <1>1, FlattenIsJoined
<1>4. J[0] = <<>> /\ \A i \in 1 .. n : J[i] = J[i - 1] \o ss[i]
  BY <1>2, JoinedDef
<1> HIDE DEF n, J
<1> DEFINE T == {d \in Nat : d <= n => J[d] \in Seq(S)}
<1>5. 0 \in T
  <2>1. <<>> \in Seq(S)
    OBVIOUS
  <2> QED BY <2>1, <1>4
<1>6. ASSUME NEW d \in Nat, d \in T PROVE d + 1 \in T
  <2> SUFFICES ASSUME d + 1 <= n PROVE J[d + 1] \in Seq(S)
    OBVIOUS
  <2>1. d + 1 \in 1 .. n /\ (d + 1) - 1 = d
    BY <1>2
  <2>2. J[d] \in Seq(S) /\ ss[d + 1] \in Seq(S)
    BY <1>2, <1>6, <2>1
  <2>3. J[d + 1] = J[d] \o ss[d + 1]
    BY <1>4, <2>1
  <2> QED BY <2>2, <2>3
<1> HIDE DEF T
<1>7. \A d \in Nat : d \in T
  BY <1>5, <1>6, SimpleInduction
<1>8. \A d \in 0 .. n : J[d] \in Seq(S)
  BY <1>2, <1>7 DEF T
<1>9. \A d \in 0 .. n : IsSeq(J[d])
  BY <1>8 DEF IsSeq
<1> QED BY <1>2, <1>3, <1>9 DEF n, J

\* What f prints is a list of things that can be printed.
Printable(f) ==
  /\ f.ty \in ListTypes /\ IsSeq(f.in)
  /\ f.ty # "chars" => \A k \in 1 .. Len(f.in) : IsSeq(f.in[k])

LEMMA ConcatSeq ==
  ASSUME NEW s, IsSeq(s), NEW t, IsSeq(t)
  PROVE  IsSeq(s \o t)
<1>1. PICK S : s \in Seq(S)
  BY DEF IsSeq
<1>2. PICK T : t \in Seq(T)
  BY DEF IsSeq
<1>3. s \in Seq(S \cup T) /\ t \in Seq(S \cup T)
  BY <1>1, <1>2
<1>4. s \o t \in Seq(S \cup T)
  BY <1>3
<1> QED BY <1>4 DEF IsSeq

LEMMA ThreeIsSeq ==
  ASSUME NEW x, NEW y, NEW z
  PROVE  IsSeq(<<x, y, z>>)
<1>1. <<x, y, z>> \in Seq({x, y, z})
  OBVIOUS
<1> QED BY <1>1 DEF IsSeq

LEMMA FunctionIsSeq ==
  ASSUME NEW s, NEW n \in Nat, s = [k \in 1 .. n |-> s[k]]
  PROVE  IsSeq(s) /\ Len(s) = n
<1>1. s \in [1 .. n -> {s[k] : k \in 1 .. n}]
  BY Zenon
<1> DEFINE T == {s[k] : k \in 1 .. n}
<1>2. s \in [1 .. n -> T]
  BY <1>1
<1> HIDE DEF T
<1>3. s \in Seq(T) /\ Len(s) = n
  BY <1>2
<1> QED BY <1>3 DEF IsSeq

LEMMA SameFlatten ==
  ASSUME NEW ss
  PROVE  ListValuesOf!FlattenSeq(ss) = FlattenSeq(ss)
BY DEF FlattenSeq, ListValuesOf!FlattenSeq

LEMMA ListedIs ==
  ASSUME NEW texts, AreSeqs(texts)
  PROVE  LET spaced == [k \in DOMAIN texts |-> IF k = 1 THEN texts[k] ELSE <<", ">> \o texts[k]]
         IN /\ AreSeqs(spaced) /\ Len(spaced) = Len(texts)
            /\ IsSeq(ListValuesOf!Listed(texts))
            /\ ListValuesOf!Listed(texts) = <<"[">> \o Joined(spaced, Len(texts))[Len(texts)] \o <<"]">>
<1> DEFINE n == Len(texts)
           spaced == [k \in DOMAIN texts |-> IF k = 1 THEN texts[k] ELSE <<", ">> \o texts[k]]
<1>1. n \in Nat /\ DOMAIN texts = 1 .. n
  BY SeqIs DEF AreSeqs
<1>2. spaced = [k \in 1 .. n |-> spaced[k]]
  BY <1>1
<1>3. IsSeq(spaced) /\ Len(spaced) = n
  BY <1>1, <1>2, FunctionIsSeq
<1>4. ASSUME NEW k \in 1 .. n PROVE IsSeq(spaced[k])
  <2>1. IsSeq(texts[k])
    BY DEF AreSeqs
  <2>2. IsSeq(<<", ">> \o texts[k])
    BY <2>1, OneIsSeq, ConcatSeq
  <2>3. spaced[k] = IF k = 1 THEN texts[k] ELSE <<", ">> \o texts[k]
    BY <1>1
  <2> QED BY <2>1, <2>2, <2>3
<1>5. ListValuesOf!Listed(texts) = <<"[">> \o FlattenSeq(spaced) \o <<"]">>
  BY SameFlatten, Zenon DEF ListValuesOf!Listed
<1> HIDE DEF spaced
<1>6. AreSeqs(spaced)
  BY <1>3, <1>4 DEF AreSeqs
<1>7. FlattenSeq(spaced) = Joined(spaced, n)[n] /\ IsSeq(FlattenSeq(spaced))
  BY <1>3, <1>6, JoinedSeqs
<1>8. IsSeq(<<"[">> \o FlattenSeq(spaced) \o <<"]">>)
  BY <1>7, OneIsSeq, ConcatSeq
<1> QED BY <1>3, <1>5, <1>6, <1>7, <1>8 DEF spaced

LEMMA TextsAre ==
  ASSUME NEW f, Printable(f)
  PROVE  AreSeqs(Texts(f)) /\ Len(Texts(f)) = Len(f.in)
<1> DEFINE n == Len(f.in)
<1>1. n \in Nat /\ DOMAIN f.in = 1 .. n
  BY SeqIs DEF Printable
<1>2. Texts(f) = [k \in 1 .. n |-> Texts(f)[k]]
  BY <1>1 DEF Texts
<1>3. IsSeq(Texts(f)) /\ Len(Texts(f)) = n
  BY <1>1, <1>2, FunctionIsSeq
<1>4. ASSUME NEW k \in 1 .. n PROVE IsSeq(Texts(f)[k])
  <2> DEFINE x == f.in[k]
  <2>1. Texts(f)[k] = ListValuesOf!ElementText(f.ty, x)
    BY <1>1 DEF Texts
  <2>2. f.ty # "chars" => IsSeq(x)
    BY DEF Printable
  <2> HIDE DEF x
  <2>3. CASE f.ty = "chars"
    <3>1. Texts(f)[k] = <<"'", x, "'">>
      BY <2>1, <2>3 DEF ListValuesOf!ElementText, ListValuesOf!CharText
    <3> QED BY <3>1, ThreeIsSeq
  <2>4. CASE f.ty = "strings"
    <3>1. Texts(f)[k] = <<"\"">> \o x \o <<"\"">>
      BY <2>1, <2>4 DEF ListValuesOf!ElementText
    <3>2. IsSeq(<<"\"">> \o x \o <<"\"">>)
      BY <2>2, <2>4, OneIsSeq, ConcatSeq
    <3> QED BY <3>1, <3>2
  <2>5. CASE f.ty = "lists"
    <3> DEFINE t == [j \in DOMAIN x |-> ListValuesOf!CharText(x[j])]
    <3>1. Texts(f)[k] = ListValuesOf!Listed(t)
      BY <2>1, <2>5 DEF ListValuesOf!ElementText
    <3>2. Len(x) \in Nat /\ DOMAIN x = 1 .. Len(x)
      BY <2>2, <2>5, SeqIs
    <3>3. t = [j \in 1 .. Len(x) |-> t[j]]
      BY <3>2
    <3>4. IsSeq(t) /\ Len(t) = Len(x)
      BY <3>2, <3>3, FunctionIsSeq
    <3>5. \A j \in 1 .. Len(x) : IsSeq(t[j])
      BY <3>2, ThreeIsSeq DEF ListValuesOf!CharText
    <3> HIDE DEF t
    <3>6. AreSeqs(t)
      BY <3>4, <3>5 DEF AreSeqs
    <3> QED BY <3>1, <3>6, ListedIs
  <2> QED BY <2>3, <2>4, <2>5 DEF Printable, ListTypes
<1> QED BY <1>3, <1>4 DEF AreSeqs

\* s followed by t, as something the provers do not look into.
Cat(s, t) == s \o t

LEMMA CatFacts ==
  ASSUME NEW s, IsSeq(s), NEW t, IsSeq(t)
  PROVE  /\ IsSeq(Cat(s, t)) /\ Cat(s, <<>>) = s /\ Cat(<<>>, s) = s
         /\ \A u : IsSeq(u) => Cat(Cat(s, t), u) = Cat(s, Cat(t, u))
<1>1. IsSeq(Cat(s, t))
  BY ConcatSeq DEF Cat
<1>2. Cat(s, <<>>) = s /\ Cat(<<>>, s) = s
  BY ConcatEmpty DEF Cat
<1>3. ASSUME NEW u, IsSeq(u) PROVE Cat(Cat(s, t), u) = Cat(s, Cat(t, u))
  BY <1>3, ConcatTwice DEF Cat
<1> QED BY <1>1, <1>2, <1>3

LEMMA CatFour ==
  ASSUME NEW o, IsSeq(o), NEW j, IsSeq(j), NEW c, IsSeq(c), NEW x, IsSeq(x)
  PROVE  Cat(o, Cat(j, Cat(c, x))) = Cat(Cat(Cat(o, j), c), x)
<1>1. IsSeq(Cat(c, x)) /\ IsSeq(Cat(o, j))
  BY CatFacts
<1>2. Cat(Cat(o, j), Cat(c, x)) = Cat(o, Cat(j, Cat(c, x)))
  BY <1>1, CatFacts
<1>3. Cat(Cat(Cat(o, j), c), x) = Cat(Cat(o, j), Cat(c, x))
  BY <1>1, CatFacts
<1> QED BY <1>2, <1>3

LEMMA UpToFacts ==
  ASSUME NEW f, Printable(f)
  PROVE  /\ \A d \in 0 .. Len(f.in) : IsSeq(UpTo(f, d))
         /\ UpTo(f, 0) = <<"[">>
         /\ \A d \in 0 .. Len(f.in) - 1 : UpTo(f, d + 1) = (UpTo(f, d) \o Comma(f, d)) \o Texts(f)[d + 1]
         /\ UpTo(f, Len(f.in)) \o <<"]">> = ListValuesOf!Listed(Texts(f))
<1> DEFINE n == Len(f.in)
           ss == Spaced(f)
           t == Texts(f)
           J == Joined(ss, n)
<1>1. n \in Nat /\ AreSeqs(t) /\ Len(t) = n
  BY TextsAre, SeqIs DEF Printable
<1>2. ss = [k \in DOMAIN t |-> IF k = 1 THEN t[k] ELSE <<", ">> \o t[k]]
  BY DEF Spaced
<1>3. AreSeqs(ss) /\ Len(ss) = n
  BY <1>1, <1>2, ListedIs
<1>4. ListValuesOf!Listed(t) = <<"[">> \o J[n] \o <<"]">>
  BY <1>1, <1>2, ListedIs
<1>5. DOMAIN t = 1 .. n /\ \A k \in 1 .. n : IsSeq(t[k])
  BY <1>1, SeqIs DEF AreSeqs
<1>6. \A d \in 0 .. n : IsSeq(J[d])
  BY <1>3, JoinedSeqs
<1>7. J[0] = <<>> /\ \A d \in 1 .. n : J[d] = J[d - 1] \o ss[d]
  BY <1>1, JoinedDef
<1>8. \A d : UpTo(f, d) = <<"[">> \o J[d]
  BY DEF UpTo
<1>9. \A k \in 1 .. n : ss[k] = IF k = 1 THEN t[k] ELSE <<", ">> \o t[k]
  BY <1>2, <1>5
<1> HIDE DEF n, ss, t, J
<1>10. ASSUME NEW d \in 0 .. n PROVE IsSeq(UpTo(f, d))
  <2>1. IsSeq(J[d])
    BY <1>6
  <2>2. IsSeq(<<"[">> \o J[d])
    BY <2>1, OneIsSeq, ConcatSeq
  <2> QED BY <2>2, <1>8
<1>11. UpTo(f, 0) = <<"[">>
  <2>1. UpTo(f, 0) = <<"[">> \o <<>>
    BY <1>7, <1>8
  <2>2. <<"[">> \o <<>> = <<"[">>
    BY OneIsSeq, ConcatEmpty
  <2> QED BY <2>1, <2>2
<1>12. ASSUME NEW d \in 0 .. n - 1
       PROVE  UpTo(f, d + 1) = (UpTo(f, d) \o (IF d \in 1 .. n - 1 THEN <<", ">> ELSE <<>>)) \o t[d + 1]
  <2>1. d + 1 \in 1 .. n /\ (d + 1) - 1 = d /\ d \in 0 .. n /\ 0 \in 0 .. n
    BY <1>1
  <2>2. UpTo(f, d + 1) = <<"[">> \o (J[d] \o ss[d + 1]) /\ UpTo(f, d) = <<"[">> \o J[d]
    BY <1>7, <1>8, <2>1
  <2>3. ss[d + 1] = (IF d \in 1 .. n - 1 THEN <<", ">> ELSE <<>>) \o t[d + 1]
    <3>1. CASE d = 0
      <4>0. 1 \in 1 .. n /\ d + 1 = 1 /\ d \notin 1 .. n - 1
        BY <2>1, <3>1
      <4>1. ss[d + 1] = t[d + 1] /\ d \notin 1 .. n - 1
        BY <1>9, <4>0, Zenon
      <4>2. t[d + 1] = <<>> \o t[d + 1]
        BY <1>5, <2>1, ConcatEmpty
      <4> QED BY <4>1, <4>2
    <3>2. CASE d # 0
      <4>1. d \in 1 .. n - 1 /\ d + 1 # 1
        BY <1>1, <3>2
      <4>2. ss[d + 1] = <<", ">> \o t[d + 1]
        BY <1>9, <2>1, <4>1
      <4> QED BY <4>1, <4>2
    <3> QED BY <3>1, <3>2
  <2> DEFINE c == IF d \in 1 .. n - 1 THEN <<", ">> ELSE <<>>
  <2>4. IsSeq(t[d + 1]) /\ IsSeq(c) /\ IsSeq(J[d]) /\ IsSeq(<<"[">>)
    BY <1>5, <1>6, <2>1, OneIsSeq, EmptyIsSeq
  <2> HIDE DEF c
  <2> DEFINE o == <<"[">>
             x == t[d + 1]
             j == J[d]
  <2> HIDE DEF o, x, j
  <2>4a. IsSeq(o) /\ IsSeq(j) /\ IsSeq(x)
    BY <2>4 DEF o, x, j
  <2>5. Cat(o, Cat(j, Cat(c, x))) = Cat(Cat(Cat(o, j), c), x)
    BY <2>4, <2>4a, CatFour
  <2>6. ss[d + 1] = c \o t[d + 1]
    BY <2>3 DEF c
  <2>7. UpTo(f, d + 1) = (UpTo(f, d) \o c) \o t[d + 1]
    BY <2>2, <2>5, <2>6, Zenon DEF Cat, o, x, j
  <2> QED BY <2>7 DEF c
<1>13. UpTo(f, n) \o <<"]">> = ListValuesOf!Listed(t)
  <2>1. UpTo(f, n) = <<"[">> \o J[n]
    BY <1>8
  <2> QED BY <2>1, <1>4
<1> QED BY <1>10, <1>11, <1>12, <1>13 DEF n, t, Comma

LEMMA PrintFacts ==
  ASSUME ListInv, AnswerInv, NEW f, FrameFits(heap, f), Does(heap, val, f), f.fn = "print"
  PROVE  LET p == Passed(val, f) IN
         /\ Printable(f) /\ f.ty \in ListTypes /\ f.l1 \in Chain(heap, f.ty) /\ f.l2 \in Chain(heap, f.ty) /\ val[f.l2] = f.in
         /\ Len(f.in) \in Nat /\ p \in 0 .. Len(f.in) /\ heap[f.l1].length = Len(f.in) - p
         /\ heap[f.l1].length # 0 =>
              /\ heap[f.l1].next \in Chain(heap, f.ty) /\ heap[f.l1].value \in Elements(heap, f.ty)
              /\ heap[heap[f.l1].next].length = heap[f.l1].length - 1
              /\ IsRest(val[heap[f.l1].next], f.in, p + 1) /\ Len(val[heap[f.l1].next]) = Len(f.in) - (p + 1)
              /\ f.in[p + 1] = StandsFor(val, f.ty, heap[f.l1].value) /\ p + 1 \in 1 .. Len(f.in)
<1> DEFINE p == Passed(val, f)
           next == heap[f.l1].next
<1>1. Memory(heap, val) /\ PartsAreThere(heap, val)
  BY DEF ListInv, AnswerInv
<1>2. f.ty \in ListTypes /\ f.l1 \in Chain(heap, f.ty)
  BY DEF FrameFits, PrintFits
<1>3. f.l2 \in Chain(heap, f.ty) /\ val[f.l2] = f.in
  BY DEF Does, PrintDoes
<1>4. PICK d \in Nat : IsRest(val[f.l1], f.in, d)
  BY DEF Does, PrintDoes
<1>5. IsSeq(f.in) /\ Len(f.in) \in Nat /\ d \in 0 .. Len(f.in) /\ Len(val[f.l1]) = Len(f.in) - d
  BY <1>4, RestFacts
<1>6. p = d
  <2>1. Passed(val, f) = Len(f.in) - Len(val[f.l1])
    BY DEF Passed
  <2> QED BY <2>1, <1>5
<1>7. heap[f.l1].length = Len(f.in) - p
  <2>1. heap[f.l1].length = Len(val[f.l1])
    BY <1>1, <1>2, Listed
  <2> HIDE DEF p
  <2> QED BY <2>1, <1>5, <1>6
<1>8. ASSUME f.ty # "chars", NEW k \in 1 .. Len(f.in) PROVE IsSeq(f.in[k])
  <2>1. f.l2 \in 1 .. Len(heap) /\ heap[f.l2].ty = f.ty
    BY <1>3 DEF Chain
  <2>2. <<"chars", f.in[k]>> \in ValuesOf(heap, val, f.l2)
    BY <1>1, <1>2, <1>3, <1>8, <2>1 DEF PartsAreThere
  <2>3. PICK m \in 1 .. f.l2 : heap[m].ty = "chars" /\ f.in[k] = val[m]
    BY <2>2 DEF ValuesOf
  <2>4. Len(heap) \in Nat
    BY SeqIs DEF ListInv, Memory
  <2>5. m \in Chain(heap, "chars")
    BY <2>1, <2>3, <2>4 DEF Chain
  <2>6. "chars" \in ListTypes
    BY DEF ListTypes
  <2> QED BY <1>1, <2>3, <2>5, <2>6, Listed
<1>9. Printable(f)
  BY <1>2, <1>5, <1>8 DEF Printable
<1>10. ASSUME heap[f.l1].length # 0
       PROVE  /\ next \in Chain(heap, f.ty) /\ heap[f.l1].value \in Elements(heap, f.ty)
              /\ IsRest(val[next], f.in, p + 1) /\ Len(val[next]) = Len(f.in) - (p + 1)
              /\ heap[next].length = heap[f.l1].length - 1
              /\ f.in[p + 1] = StandsFor(val, f.ty, heap[f.l1].value) /\ p + 1 \in 1 .. Len(f.in)
  <2>1. /\ next \in Chain(heap, f.ty) /\ heap[f.l1].value \in Elements(heap, f.ty)
        /\ IsCons(val[f.l1], StandsFor(val, f.ty, heap[f.l1].value), val[next])
    BY <1>1, <1>2, <1>10, Listed
  <2>2. IsRest(val[f.l1], f.in, p)
    BY <1>4, <1>6
  <2> HIDE DEF p, next
  <2>3. IsRest(val[next], f.in, p + 1) /\ f.in[p + 1] = StandsFor(val, f.ty, heap[f.l1].value) /\ p + 1 \in 1 .. Len(f.in)
    BY <2>1, <2>2, RestStep
  <2>4. Len(val[next]) = Len(f.in) - (p + 1)
    BY <2>3, RestFacts
  <2>5. heap[next].length = Len(val[next])
    BY <1>1, <1>2, <2>1, Listed
  <2>6. p \in 0 .. Len(f.in)
    BY <1>5, <1>6
  <2>7. heap[next].length = heap[f.l1].length - 1
    BY <1>5, <1>7, <2>4, <2>5, <2>6
  <2> QED BY <2>1, <2>3, <2>4, <2>7
<1> QED BY <1>2, <1>3, <1>5, <1>6, <1>7, <1>9, <1>10

LEMMA SaysSeq ==
  ASSUME ListInv, AnswerInv, NEW f, FrameFits(heap, f), Does(heap, val, f)
  PROVE  IsSeq(Says(val, f))
<1>1. CASE f.fn = "print"
  <2>1. Printable(f) /\ Passed(val, f) \in 0 .. Len(f.in)
    BY <1>1, PrintFacts
  <2>2. IsSeq(UpTo(f, Passed(val, f)))
    BY <2>1, UpToFacts
  <2>3. IsSeq(<<", ">>) /\ IsSeq(<<>>)
    BY OneIsSeq, EmptyIsSeq
  <2>4. IsSeq(UpTo(f, Passed(val, f)) \o IF Passed(val, f) \in 1 .. Len(f.in) - 1 THEN <<", ">> ELSE <<>>)
    <3>1. IsSeq(IF Passed(val, f) \in 1 .. Len(f.in) - 1 THEN <<", ">> ELSE <<>>)
      BY <2>3
    <3> QED BY <2>2, <3>1, ConcatSeq
  <2>5. IsSeq(PrintSays(val, f))
    BY <2>3, <2>4, Zenon DEF PrintSays
  <2> QED BY <1>1, <2>5, Zenon DEF Says
<1>2. CASE f.fn = "print_tuple"
  <2>1. IsSeq(<<"(">>) /\ IsSeq(<<>>) /\ IsSeq(<<", ">>) /\ IsSeq(CharText(f.in[1], FALSE))
    BY OneIsSeq, EmptyIsSeq, ThreeIsSeq DEF CharText
  <2>2. IsSeq(<<"(">> \o CharText(f.in[1], FALSE) \o <<", ">>)
    BY <2>1, ConcatSeq
  <2>3. IsSeq(PrintTupleSays(f))
    BY <2>1, <2>2, Zenon DEF PrintTupleSays
  <2> QED BY <1>2, <2>3, Zenon DEF Says
<1>3. CASE f.fn \notin {"print", "print_tuple"}
  BY <1>3, EmptyIsSeq, Zenon DEF Says
<1> QED BY <1>1, <1>2, <1>3

LEMMA OnTop ==
  ASSUME ListInv, AnswerInv, stack # <<>>
  PROVE  /\ FrameFits(heap, Top) /\ Does(heap, val, Top) /\ exited = FALSE /\ answer = NoAnswer
         /\ stack = <<Top>> \/ \E e : stack = <<e, Top>>
<1>1. CASE \E f : stack = <<f>>
  BY <1>1, Alone
<1>2. CASE \E f, g : stack = <<f, g>>
  BY <1>2, Pair
<1> QED BY <1>1, <1>2, OneOrTwo

\* Nothing waits for a function that is no other's.
LEMMA OnlyOne ==
  ASSUME ListInv, AnswerInv, stack # <<>>,
         \/ Waiting(Top)
         \/ Top.fn \in {"main", "create", "at", "compare_tuple", "concat", "print_tuple"}
         \/ Top.fn \in {"compare", "print"} /\ Top.ty # "chars"
         \/ Top.fn = "print_string" /\ Top.l2 # FALSE
  PROVE  stack = <<Top>>
<1> SUFFICES ASSUME NEW e, stack = <<e, Top>> PROVE FALSE
  BY OnTop
<1> QED BY InnerRuns

LEMMA GoesOnSame ==
  ASSUME ListInv, AnswerInv, stack # <<>>, ~Waiting(Top), NEW g, Goto(g), UNCHANGED memory, UNCHANGED exited,
         NEW t, IsSeq(t), printed' = printed \o t,
         SameCall(Top, g), Does(heap, val, g), ~Waiting(g),
         Says(val, g) = Says(val, Top) \o t, Made(val, g) = Made(val, Top)
  PROVE  Stutters
<1>1. Grown({}) /\ heap' = heap /\ val' = val
  BY SameMemory
<1>2. CASE stack = <<Top>>
  <2>1. printed = Says(val, Top) /\ MadeResumed(val, Top) = Made(val, Top)
    <3>1. printed = Now(val, Top)
      BY <1>2, Alone
    <3> QED BY <3>1 DEF Now, MadeResumed, Waiting
  <2> QED BY <1>1, <1>2, <2>1, AloneGoes
<1>3. CASE \E e : stack = <<e, Top>>
  <2>1. PICK e : stack = <<e, Top>>
    BY <1>3
  <2>2. /\ Does(heap, val, e) /\ FrameFits(heap, e) /\ WaitsFor(heap, val, e, Top) /\ printed = Says(val, e) \o Says(val, Top)
        /\ Does(heap, val, Top) /\ FrameFits(heap, Top)
    BY <2>1, Pair
  <2>3. IsSeq(Says(val, e)) /\ IsSeq(Says(val, Top))
    BY <2>2, SaysSeq
  <2>4. printed' = Says(val, e) \o Says(val, g)
    <3>1. Cat(Cat(Says(val, e), Says(val, Top)), t) = Cat(Says(val, e), Cat(Says(val, Top), t))
      BY <2>3, CatFacts
    <3> QED BY <2>2, <3>1, Zenon DEF Cat
  <2> QED BY <1>1, <2>1, <2>2, <2>4, PairGoes
<1> QED BY <1>2, <1>3, OnTop

LEMMA GoesOnSilently ==
  ASSUME ListInv, AnswerInv, stack # <<>>, ~Waiting(Top), NEW g, Goto(g), UNCHANGED memory, Silent,
         SameCall(Top, g), Does(heap, val, g), ~Waiting(g),
         Says(val, g) = Says(val, Top), Made(val, g) = Made(val, Top)
  PROVE  Stutters
<1>1. Grown({}) /\ heap' = heap /\ val' = val /\ printed' = printed /\ UNCHANGED exited
  BY SameMemory DEF Silent
<1>2. CASE stack = <<Top>>
  <2>1. printed = Says(val, Top) /\ MadeResumed(val, Top) = Made(val, Top)
    <3>1. printed = Now(val, Top)
      BY <1>2, Alone
    <3> QED BY <3>1 DEF Now, MadeResumed, Waiting
  <2> QED BY <1>1, <1>2, <2>1, AloneGoes
<1>3. CASE \E e : stack = <<e, Top>>
  <2>1. PICK e : stack = <<e, Top>>
    BY <1>3
  <2>2. /\ Does(heap, val, e) /\ WaitsFor(heap, val, e, Top) /\ printed = Says(val, e) \o Says(val, Top)
    BY <2>1, Pair
  <2> QED BY <1>1, <2>1, <2>2, PairGoes
<1> QED BY <1>2, <1>3, OnTop

-----------------------------------------------------------------------------
(* What a step is to the program. *)

Refines == AnswerInv' /\ (ListValuesOf!Next \/ UNCHANGED ListValuesOf!vars)

LEMMA OfIs ==
  ASSUME NEW ty, NEW v, <<ty, v>> \in V0
  PROVE  v \in ListValuesOf!Of(ty)
<1> DEFINE x == <<ty, v>>
<1>1. x[1] = ty /\ x[2] = v /\ x \in {<<heap[n].ty, val[n]>> : n \in 1 .. known}
  BY DEF V0, ValuesOf
<1> HIDE DEF x
<1> QED BY <1>1 DEF ListValuesOf!Of

\* A function that does not print says nothing.
LEMMA Quiet ==
  ASSUME NEW w, NEW f, f.fn \notin {"print", "print_tuple"}
  PROVE  Says(w, f) = <<>> /\ SaysResumed(w, f) = <<>> /\ Now(w, f) = <<>>
BY Zenon DEF Says, SaysResumed, Now

\* These only make something when they are asked to.
LEMMA MakesNothing ==
  ASSUME NEW w, NEW f, f.fn \notin {"main", "create", "string", "concat"}
  PROVE  Made(w, f) = {} /\ MadeResumed(w, f) = {}
BY Zenon DEF Made, MadeResumed

LEMMA TopReturns ==
  ASSUME ListInv, AnswerInv, stack = <<Top>>, NEW v, NEW out, Return(v, out), UNCHANGED memory, UNCHANGED exited,
         NEW fn, Top.fn = fn, NEW text, printed' = text, NEW made, MadeResumed(val, Top) = made
  PROVE  AnswerInv' /\ Answers(fn, Top.in, out, text, made) /\ Asked(V0, Top)
<1>1. AnswerInv' /\ Answers(Top.fn, Top.in, out, printed', MadeResumed(val, Top)) /\ Asked(V0, Top)
  <2> DEFINE f == Top
  <2>1. stack = <<f>>
    OBVIOUS
  <2> HIDE DEF f
  <2>2. AnswerInv'
    BY <2>1, AloneReturns
  <2>3. Answers(f.fn, f.in, out, printed', MadeResumed(val, f))
    BY <2>1, AloneReturns DEF Answers
  <2>4. Asked(V0, f)
    BY <2>1, AloneReturns
  <2> QED BY <2>2, <2>3, <2>4 DEF f
<1>2. Answers(fn, Top.in, out, text, made)
  BY <1>1 DEF Answers
<1> QED BY <1>1, <1>2

LEMMA AtAnswers ==
  ASSUME ListInv, AnswerInv, At
  PROVE  Refines
<1>1. stack # <<>> /\ Top.fn = "at" /\ Top.at = "loop" /\ Silent /\ UNCHANGED memory
  BY DEF At, Running
<1>2. FrameFits(heap, Top) /\ Does(heap, val, Top) /\ stack = <<Top>> /\ exited = FALSE
  BY <1>1, OnTop, OnlyOne
<1>3. AtDoes(heap, val, Top) /\ IsFrame(Top)
  BY <1>1, <1>2 DEF Does, FrameFits
<1> DEFINE v == Top.in[1]
           j == Top.in[2]
<1>4. /\ Top.ty \in ListTypes /\ Top.l1 \in Chain(heap, Top.ty) /\ Top.i \in Nat /\ Top.i <= heap[Top.l1].length
      /\ j \in Nat /\ IsRest(val[Top.l1], v, j - Top.i)
  BY <1>3 DEF AtDoes
<1>5. Memory(heap, val)
  BY DEF ListInv
<1>6. CASE Top.i > 0
  <2> DEFINE g == [Top EXCEPT !.l1 = heap[@].next, !.i = @ - 1]
             next == heap[Top.l1].next
  <2>1. Goto(g)
    BY <1>6 DEF At
  <2>2. g.fn = "at" /\ g.at = "loop" /\ g.ty = Top.ty /\ g.l1 = next /\ g.i = Top.i - 1 /\ g.in = Top.in
    BY <1>1, <1>3 DEF IsFrame
  <2> HIDE DEF g
  <2>3. heap[Top.l1].length \in Nat /\ heap[Top.l1].length = Len(val[Top.l1])
    BY <1>4, <1>5, Listed
  <2>4. heap[Top.l1].length # 0
    BY <1>4, <1>6, <2>3
  <2>5. next \in Chain(heap, Top.ty) /\ IsCons(val[Top.l1], StandsFor(val, Top.ty, heap[Top.l1].value), val[next])
    BY <1>4, <1>5, <2>4, Listed
  <2> HIDE DEF next, v, j
  <2>6. heap[next].length = Len(val[next]) /\ Len(val[next]) \in Nat
    BY <1>4, <1>5, <2>5, Listed
  <2>7. IsRest(val[next], v, (j - Top.i) + 1)
    BY <1>4, <2>5, RestStep
  <2>8. (j - Top.i) + 1 = j - g.i /\ g.i \in Nat /\ g.i <= heap[next].length
    <3>1. Len(val[Top.l1]) = Len(val[next]) + 1
      BY <2>5 DEF IsCons
    <3> QED BY <1>4, <1>6, <2>2, <2>3, <2>6, <3>1
  <2>9. AtDoes(heap, val, g)
    BY <1>4, <2>2, <2>5, <2>7, <2>8 DEF AtDoes, v, j
  <2>10. Does(heap, val, g) /\ ~Waiting(g) /\ ~Waiting(Top) /\ SameCall(Top, g)
    BY <1>1, <2>2, <2>9 DEF Does, Functions, Waiting, SameCall
  <2>11. Says(val, g) = Says(val, Top) /\ Made(val, g) = Made(val, Top)
    BY <1>1, <2>2, Quiet, MakesNothing
  <2>12. Stutters
    BY <1>1, <2>1, <2>10, <2>11, GoesOnSilently
  <2> QED BY <2>12 DEF Refines, Stutters
<1>7. CASE ~(Top.i > 0)
  <2>1. Return(Top.l1, val[Top.l1])
    BY <1>7 DEF At, ReturnNode
  <2>2. Top.i = 0
    BY <1>4, <1>7
  <2>3. printed' = <<>> /\ exited' = exited
    BY <1>1, <1>2, Alone, Quiet DEF Silent
  <2>4. AnswerInv' /\ Answers("at", Top.in, val[Top.l1], <<>>, {}) /\ Asked(V0, Top)
    <3>1. MadeResumed(val, Top) = {}
      BY <1>1, MakesNothing
    <3> QED BY <1>1, <1>2, <2>1, <2>3, <3>1, TopReturns
  <2>5a. PICK a : \E i \in 1 .. MaxIndex : Top.in = <<a, i>> /\ <<Top.ty, a>> \in V0
    BY <1>1, <2>4, Zenon DEF Asked
  <2>5. PICK i \in 1 .. MaxIndex : Top.in = <<a, i>> /\ <<Top.ty, a>> \in V0
    BY <2>5a
  <2>6. v = a /\ j = i
    BY <2>5
  <2>7. IsRest(val[Top.l1], a, i)
    <3>1. j - Top.i = i
      BY <1>4, <2>2, <2>6
    <3> QED BY <1>4, <2>6, <3>1
  <2>8. i <= Len(a) /\ val[Top.l1] = SubSeq(a, i + 1, Len(a))
    BY <2>7 DEF IsRest
  <2>9. ListValuesOf!Rest(Top.ty, a, i)
    BY <2>4, <2>5, <2>8 DEF ListValuesOf!Rest, Answers, ListValuesOf!Evaluates, V0, ValuesOf
  <2>10. ListValuesOf!Next
    <3>1. a \in ListValuesOf!Of(Top.ty) /\ Top.ty \in ListValuesOf!ListTypes
      BY <1>4, <2>5, OfIs DEF ListTypes, ListValuesOf!ListTypes
    <3> QED BY <2>9, <3>1 DEF ListValuesOf!Next
  <2> QED BY <2>4, <2>10 DEF Refines
<1> QED BY <1>6, <1>7

\* A function that neither prints nor makes anything goes on.
LEMMA QuietGoes ==
  ASSUME ListInv, AnswerInv, stack # <<>>, Top.fn \in {"at", "compare", "compare_tuple"},
         NEW g, Goto(g), UNCHANGED memory, Silent, SameCall(Top, g), Does(heap, val, g), ~Waiting(g)
  PROVE  Stutters
<1>0. g.fn = Top.fn
  BY DEF SameCall
<1>1. /\ Says(val, g) = <<>> /\ Says(val, Top) = <<>> /\ Now(val, Top) = <<>>
      /\ Made(val, g) = {} /\ Made(val, Top) = {} /\ MadeResumed(val, Top) = {}
  BY <1>0, Quiet, MakesNothing
<1>2. CASE ~Waiting(Top)
  BY <1>1, <1>2, GoesOnSilently
<1>3. CASE Waiting(Top)
  <2>1. stack = <<Top>>
    BY <1>3, OnlyOne
  <2>2. Grown({}) /\ heap' = heap /\ val' = val /\ printed' = printed /\ UNCHANGED exited
    BY SameMemory DEF Silent
  <2>3. printed = <<>>
    BY <1>1, <2>1, Alone
  <2> QED BY <1>1, <2>1, <2>2, <2>3, AloneGoes
<1> QED BY <1>2, <1>3

-----------------------------------------------------------------------------
(* Comparing. *)

LEMMA CompareReturns ==
  ASSUME ListInv, AnswerInv, stack # <<>>, Top.fn = "compare", NEW b \in BOOLEAN, ReturnInt(b), Silent,
         UNCHANGED memory, ListValuesOf!ComparesTo(Top.ty, Top.in[1], Top.in[2], b)
  PROVE  Refines
<1>1. FrameFits(heap, Top) /\ Does(heap, val, Top) /\ exited = FALSE /\ (stack = <<Top>> \/ \E e : stack = <<e, Top>>)
  BY OnTop
<1>2. Return(b, b) /\ printed' = printed /\ exited' = exited
  BY DEF ReturnInt, Silent
<1>3. Top.ty \in ListTypes
  BY <1>1 DEF FrameFits, CompareFits
<1>4. CASE stack = <<Top>>
  <2>1. printed' = <<>> /\ MadeResumed(val, Top) = {}
    BY <1>2, <1>4, Alone, Quiet, MakesNothing
  <2>2. AnswerInv' /\ Answers("compare", Top.in, b, <<>>, {}) /\ Asked(V0, Top)
    BY <1>2, <1>4, <2>1, TopReturns
  <2>3. Top.ty \in CompareTypes /\ \E x, y : Top.in = <<x, y>> /\ <<Top.ty, x>> \in V0 /\ <<Top.ty, y>> \in V0
    BY <2>2, Zenon DEF Asked
  <2>4. PICK x, y : Top.in = <<x, y>> /\ <<Top.ty, x>> \in V0 /\ <<Top.ty, y>> \in V0
    BY <2>3
  <2>5. ListValuesOf!ComparesTo(Top.ty, x, y, b)
    <3>1. Top.in[1] = x /\ Top.in[2] = y
      BY <2>4
    <3> QED BY <3>1
  <2>6. ListValuesOf!Compare(Top.ty, x, y)
    BY <2>2, <2>4, <2>5 DEF ListValuesOf!Compare, Answers, ListValuesOf!Evaluates, V0, ValuesOf
  <2>7. ListValuesOf!Next
    <3>1. x \in ListValuesOf!Of(Top.ty) /\ y \in ListValuesOf!Of(Top.ty) /\ Top.ty \in ListValuesOf!ListTypes
      BY <1>3, <2>4, OfIs DEF ListTypes, ListValuesOf!ListTypes
    <3> QED BY <2>3, <2>6, <3>1 DEF ListValuesOf!Next
  <2> QED BY <2>2, <2>7 DEF Refines
<1>5. CASE \E e : stack = <<e, Top>>
  <2>1. PICK e : stack = <<e, Top>>
    BY <1>5
  <2> DEFINE f == Top
             k == [e EXCEPT !.got = b]
  <2>2. stack = <<e, f>> /\ f.fn = "compare"
    BY <2>1
  <2>3. f.ty = "chars" /\ e.fn \in {"compare", "compare_tuple"} /\ (e.fn = "compare" => e.at = "test")
    BY <2>2, InnerRuns
  <2>4. /\ Does(heap, val, e) /\ WaitsFor(heap, val, e, f) /\ FrameFits(heap, e)
        /\ printed = Says(val, e) \o Says(val, f)
    BY <2>2, Pair
  <2>5. b = (f.in[1] = f.in[2])
    BY <2>3, Zenon DEF ListValuesOf!ComparesTo
  <2>6. k.fn = e.fn /\ k.l1 = e.l1 /\ k.l2 = e.l2 /\ k.in = e.in /\ k.got = b
    BY <2>4 DEF FrameFits, IsFrame
  <2> HIDE DEF f, k
  <2>7. Resumed(heap, val, k)
    <3>1. e.fn = "compare" => b = (Value1(heap, val, e) = Value2(heap, val, e))
      BY <2>4, <2>5 DEF WaitsFor
    <3>2. e.fn = "compare_tuple" => b = (e.in[1][2] = e.in[2][2])
      BY <2>4, <2>5 DEF WaitsFor
    <3>3. Value1(heap, val, k) = Value1(heap, val, e) /\ Value2(heap, val, k) = Value2(heap, val, e)
      BY <2>6 DEF Value1, Value2
    <3> QED BY <2>3, <2>6, <3>1, <3>2, <3>3 DEF Resumed
  <2>8. printed' = SaysResumed(val, e)
    <3>1. Says(val, e) = <<>> /\ Says(val, f) = <<>> /\ SaysResumed(val, e) = <<>>
      BY <2>2, <2>3, Quiet
    <3>2. <<>> \o <<>> = <<>>
      BY EmptyIsSeq, ConcatEmpty
    <3> QED BY <1>2, <2>4, <3>1, <3>2
  <2>9. Made(val, e) = {} /\ Made(val, f) = {} /\ MadeResumed(val, e) = {}
    BY <2>2, <2>3, MakesNothing
  <2>10. Stutters
    BY <1>2, <2>2, <2>7, <2>8, <2>9, PairReturns DEF k
  <2> QED BY <2>10 DEF Refines, Stutters
<1> QED BY <1>1, <1>4, <1>5

\* Where the comparison of two lists has come to.
LEMMA CompareFacts ==
  ASSUME ListInv, NEW f, FrameFits(heap, f), Does(heap, val, f), f.fn = "compare"
  PROVE  /\ f.ty \in ListTypes /\ f.l1 \in Chain(heap, f.ty) /\ f.l2 \in Chain(heap, f.ty)
         /\ IsSeq(f.in[1]) /\ IsSeq(f.in[2]) /\ Len(f.in[1]) \in Nat /\ Len(f.in[2]) \in Nat
         /\ heap[f.l1].length \in Nat /\ heap[f.l2].length \in Nat
         /\ \E d \in Nat :
              /\ heap[f.l1].length = Len(f.in[1]) - d /\ heap[f.l2].length = Len(f.in[2]) - d
              /\ \A k \in 1 .. d : Agree(f.ty, f.in[1][k], f.in[2][k])
              /\ IsRest(val[f.l1], f.in[1], d) /\ IsRest(val[f.l2], f.in[2], d)
              /\ f.at = "entry" => d = 0
<1>1. Memory(heap, val) /\ f.ty \in ListTypes /\ f.l1 \in Chain(heap, f.ty) /\ f.l2 \in Chain(heap, f.ty)
  BY DEF ListInv, FrameFits, CompareFits
<1>2. PICK d \in Nat :
        /\ IsRest(val[f.l1], f.in[1], d) /\ IsRest(val[f.l2], f.in[2], d)
        /\ \A k \in 1 .. d : Agree(f.ty, f.in[1][k], f.in[2][k])
        /\ f.at = "entry" => d = 0
  BY DEF Does, CompareDoes
<1>3. IsSeq(f.in[1]) /\ Len(f.in[1]) \in Nat /\ Len(val[f.l1]) = Len(f.in[1]) - d
  BY <1>2, RestFacts
<1>4. IsSeq(f.in[2]) /\ Len(f.in[2]) \in Nat /\ Len(val[f.l2]) = Len(f.in[2]) - d
  BY <1>2, RestFacts
<1>5. /\ heap[f.l1].length = Len(val[f.l1]) /\ heap[f.l2].length = Len(val[f.l2])
      /\ Len(val[f.l1]) \in Nat /\ Len(val[f.l2]) \in Nat
  BY <1>1, Listed
<1> QED BY <1>1, <1>2, <1>3, <1>4, <1>5

\* What the results of a comparison mean.
LEMMA ComparesAre ==
  ASSUME NEW ty \in ListTypes, NEW v, IsSeq(v), NEW w, IsSeq(w)
  PROVE  /\ Len(v) # Len(w) => ListValuesOf!ComparesTo(ty, v, w, FALSE)
         /\ \A k \in DOMAIN v : ty = "strings" \/ ~Agree(ty, v[k], w[k]) => ListValuesOf!ComparesTo(ty, v, w, FALSE)
         /\ Len(v) = Len(w) /\ (\A k \in DOMAIN v : Agree(ty, v[k], w[k])) => ListValuesOf!ComparesTo(ty, v, w, TRUE)
<1> DEFINE Same == Len(v) = Len(w) /\ \A k \in DOMAIN v : v[k] # w[k]
<1>0. v = w => Len(v) = Len(w) /\ \A k : v[k] = w[k]
  OBVIOUS
<1>1. CASE ty = "chars"
  <2>1. \A out : ListValuesOf!ComparesTo(ty, v, w, out) <=> out = (v = w)
    BY <1>1, Zenon DEF ListValuesOf!ComparesTo
  <2>2. \A k : Agree(ty, v[k], w[k]) <=> v[k] = w[k]
    BY <1>1 DEF Agree
  <2>3. Len(v) = Len(w) /\ (\A k \in DOMAIN v : v[k] = w[k]) => v = w
    BY SameSeq, SeqIs
  <2> QED BY <1>0, <1>1, <2>1, <2>2, <2>3
<1>2. CASE ty = "strings"
  <2>1. \A out : ListValuesOf!ComparesTo(ty, v, w, out) <=> (out => v = w)
    BY <1>2, Zenon DEF ListValuesOf!ComparesTo
  <2>2. \A k : Agree(ty, v[k], w[k]) <=> v[k] = w[k]
    BY <1>2 DEF Agree
  <2>3. Len(v) = Len(w) /\ (\A k \in DOMAIN v : v[k] = w[k]) => v = w
    BY SameSeq, SeqIs
  <2> QED BY <2>1, <2>2, <2>3
<1>3. CASE ty = "lists"
  <2>1. \A out : ListValuesOf!ComparesTo(ty, v, w, out) <=> out = Same
    BY <1>3, Zenon DEF ListValuesOf!ComparesTo
  <2>2. \A k : Agree(ty, v[k], w[k]) <=> v[k] # w[k]
    BY <1>3 DEF Agree
  <2>3. ASSUME ~Same PROVE ListValuesOf!ComparesTo(ty, v, w, FALSE)
    BY <2>1, <2>3
  <2>4. ASSUME Same PROVE ListValuesOf!ComparesTo(ty, v, w, TRUE)
    BY <2>1, <2>4
  <2> QED BY <1>3, <2>2, <2>3, <2>4
<1> QED BY <1>1, <1>2, <1>3 DEF ListTypes

LEMMA CompareLengthAnswers ==
  ASSUME ListInv, AnswerInv, CompareLength
  PROVE  Refines
<1>1. stack # <<>> /\ Top.fn = "compare" /\ Top.at = "entry" /\ Silent /\ UNCHANGED memory
  BY DEF CompareLength, Running
<1>2. FrameFits(heap, Top) /\ Does(heap, val, Top) /\ IsFrame(Top) /\ CompareDoes(val, Top)
  BY <1>1, OnTop DEF FrameFits, Does
<1>3. PICK d \in Nat :
        /\ heap[Top.l1].length = Len(Top.in[1]) - d /\ heap[Top.l2].length = Len(Top.in[2]) - d
        /\ Top.at = "entry" => d = 0
  BY <1>1, <1>2, CompareFacts
<1>4. /\ Top.ty \in ListTypes /\ IsSeq(Top.in[1]) /\ IsSeq(Top.in[2])
      /\ Len(Top.in[1]) \in Nat /\ Len(Top.in[2]) \in Nat
  BY <1>1, <1>2, CompareFacts
<1>5. heap[Top.l1].length = Len(Top.in[1]) /\ heap[Top.l2].length = Len(Top.in[2])
  BY <1>1, <1>3, <1>4
<1>6. CASE heap[Top.l1].length # heap[Top.l2].length
  <2>1. ReturnInt(FALSE)
    BY <1>6 DEF CompareLength
  <2>2. ListValuesOf!ComparesTo(Top.ty, Top.in[1], Top.in[2], FALSE)
    BY <1>4, <1>5, <1>6, ComparesAre
  <2> QED BY <1>1, <2>1, <2>2, CompareReturns
<1>7. CASE heap[Top.l1].length = heap[Top.l2].length
  <2> DEFINE g == [Top EXCEPT !.at = "loop"]
  <2>1. Goto(g)
    BY <1>7 DEF CompareLength
  <2>2. g.fn = "compare" /\ g.at = "loop" /\ g.ty = Top.ty /\ g.l1 = Top.l1 /\ g.l2 = Top.l2 /\ g.in = Top.in
    BY <1>1, <1>2 DEF IsFrame
  <2> HIDE DEF g
  <2>3. CompareDoes(val, g)
    BY <1>2, <2>2 DEF CompareDoes
  <2>4. Does(heap, val, g) /\ ~Waiting(g) /\ SameCall(Top, g)
    BY <1>1, <2>2, <2>3 DEF Does, Functions, Waiting, SameCall
  <2>5. Stutters
    BY <1>1, <2>1, <2>4, QuietGoes
  <2> QED BY <2>5 DEF Refines, Stutters
<1> QED BY <1>6, <1>7

LEMMA CompareBodyAnswers ==
  ASSUME ListInv, AnswerInv, stack # <<>>, Top.fn = "compare", Top.at \in {"loop", "test"}, heap[Top.l1].length # 0,
         NEW unequal \in BOOLEAN, CompareBody(unequal), Silent, UNCHANGED memory,
         LET x == StandsFor(val, Top.ty, heap[Top.l1].value)
             y == StandsFor(val, Top.ty, heap[Top.l2].value)
         IN IF unequal THEN Top.ty = "strings" \/ ~Agree(Top.ty, x, y) ELSE Agree(Top.ty, x, y)
  PROVE  Refines
<1> DEFINE x == StandsFor(val, Top.ty, heap[Top.l1].value)
           y == StandsFor(val, Top.ty, heap[Top.l2].value)
           v == Top.in[1]
           w == Top.in[2]
           n1 == heap[Top.l1].next
           n2 == heap[Top.l2].next
<1>1. FrameFits(heap, Top) /\ Does(heap, val, Top) /\ IsFrame(Top) /\ CompareFits(heap, Top) /\ Memory(heap, val)
  BY OnTop DEF FrameFits, ListInv
<1>2. /\ Top.ty \in ListTypes /\ IsSeq(v) /\ IsSeq(w) /\ Len(v) \in Nat /\ Len(w) \in Nat
      /\ Top.l1 \in Chain(heap, Top.ty) /\ Top.l2 \in Chain(heap, Top.ty)
  BY <1>1, CompareFacts
<1>3. PICK d \in Nat :
        /\ heap[Top.l1].length = Len(v) - d /\ heap[Top.l2].length = Len(w) - d
        /\ \A k \in 1 .. d : Agree(Top.ty, v[k], w[k])
        /\ IsRest(val[Top.l1], v, d) /\ IsRest(val[Top.l2], w, d)
  BY <1>1, CompareFacts
<1>4. heap[Top.l2].length # 0 /\ heap[Top.l2].length = heap[Top.l1].length
  BY <1>1 DEF CompareFits
<1>5. IsCons(val[Top.l1], x, val[n1]) /\ IsCons(val[Top.l2], y, val[n2])
  BY <1>1, <1>2, <1>4, Listed
<1> HIDE DEF x, y, v, w, n1, n2
<1>6. IsRest(val[n1], v, d + 1) /\ v[d + 1] = x /\ d + 1 \in 1 .. Len(v)
  BY <1>3, <1>5, RestStep
<1>7. IsRest(val[n2], w, d + 1) /\ w[d + 1] = y
  BY <1>3, <1>5, RestStep
<1>8. CASE unequal = TRUE
  <2>1. ReturnInt(FALSE) /\ (Top.ty = "strings" \/ ~Agree(Top.ty, x, y))
    BY <1>8 DEF CompareBody, x, y
  <2>2. d + 1 \in DOMAIN v
    BY <1>2, <1>6, SeqIs
  <2>3. ListValuesOf!ComparesTo(Top.ty, v, w, FALSE)
    BY <1>2, <1>6, <1>7, <2>1, <2>2, ComparesAre
  <2>4. ListValuesOf!ComparesTo(Top.ty, Top.in[1], Top.in[2], FALSE)
    BY <2>3 DEF v, w
  <2> QED BY <2>1, <2>4, CompareReturns
<1>9. CASE unequal = FALSE
  <2> DEFINE g == [Top EXCEPT !.l1 = heap[@].next, !.l2 = heap[@].next, !.at = "loop"]
  <2>1. Goto(g) /\ Agree(Top.ty, x, y)
    BY <1>9 DEF CompareBody, x, y
  <2>2. g.fn = "compare" /\ g.at = "loop" /\ g.ty = Top.ty /\ g.l1 = n1 /\ g.l2 = n2 /\ g.in = Top.in
    BY <1>1 DEF IsFrame, n1, n2
  <2> HIDE DEF g
  <2>3. ASSUME NEW k \in 1 .. d + 1 PROVE Agree(Top.ty, v[k], w[k])
    <3>1. k \in 1 .. d \/ k = d + 1
      OBVIOUS
    <3> QED BY <3>1, <1>3, <1>6, <1>7, <2>1
  <2>4. d + 1 \in Nat /\ g.in[1] = v /\ g.in[2] = w
    BY <2>2 DEF v, w
  <2>5. CompareDoes(val, g)
    BY <1>6, <1>7, <2>2, <2>3, <2>4 DEF CompareDoes
  <2>6. Does(heap, val, g) /\ ~Waiting(g) /\ SameCall(Top, g)
    BY <2>2, <2>5 DEF Does, Functions, Waiting, SameCall
  <2>7. Stutters
    BY <2>1, <2>6, QuietGoes
  <2> QED BY <2>7 DEF Refines, Stutters
<1> QED BY <1>8, <1>9

\* gcompare_list has not looked at anything when it is called.
LEMMA CompareFrameDoes ==
  ASSUME Memory(heap, val), NEW a \in Chain(heap, "chars"), NEW b \in Chain(heap, "chars"), NEW g,
         g = CompareFrame("chars", a, b, <<val[a], val[b]>>)
  PROVE  /\ Does(heap, val, g) /\ ~Waiting(g) /\ g.fn = "compare" /\ g.ty = "chars" /\ g.at = "entry"
         /\ g.in = <<val[a], val[b]>>
<1>1. /\ g.fn = "compare" /\ g.ty = "chars" /\ g.at = "entry" /\ g.l1 = a /\ g.l2 = b
      /\ g.in[1] = val[a] /\ g.in[2] = val[b] /\ g.in = <<val[a], val[b]>>
  BY DEF CompareFrame, Frame
<1>2. IsSeq(val[a]) /\ IsSeq(val[b])
  BY Listed DEF ListTypes
<1>3. IsRest(val[a], val[a], 0) /\ IsRest(val[b], val[b], 0)
  BY <1>2, RestStart
<1>4. CompareDoes(val, g)
  <2>1. /\ IsRest(val[g.l1], g.in[1], 0) /\ IsRest(val[g.l2], g.in[2], 0) /\ 0 \in Nat
        /\ \A k \in 1 .. 0 : Agree(g.ty, g.in[1][k], g.in[2][k])
    BY <1>1, <1>3
  <2> QED BY <1>1, <2>1 DEF CompareDoes
<1> QED BY <1>1, <1>4 DEF Does, Functions, Waiting

LEMMA CompareAnswers ==
  ASSUME ListInv, AnswerInv, Compare
  PROVE  Refines
<1>1. stack # <<>> /\ Top.fn = "compare" /\ Top.at = "loop" /\ Silent /\ UNCHANGED memory
  BY DEF Compare, Running
<1>2. FrameFits(heap, Top) /\ Does(heap, val, Top) /\ IsFrame(Top) /\ CompareDoes(val, Top) /\ CompareFits(heap, Top)
      /\ Memory(heap, val)
  BY <1>1, OnTop DEF FrameFits, Does, ListInv
<1>3. /\ Top.ty \in ListTypes /\ IsSeq(Top.in[1]) /\ IsSeq(Top.in[2])
      /\ Len(Top.in[1]) \in Nat /\ Len(Top.in[2]) \in Nat
      /\ Top.l1 \in Chain(heap, Top.ty) /\ Top.l2 \in Chain(heap, Top.ty)
  BY <1>1, <1>2, CompareFacts
<1>4. heap[Top.l1].length = heap[Top.l2].length
  BY <1>1, <1>2 DEF CompareFits
<1>5. CASE heap[Top.l1].length = 0
  <2>1. ReturnInt(TRUE)
    BY <1>5 DEF Compare
  <2>2. PICK d \in Nat :
          /\ heap[Top.l1].length = Len(Top.in[1]) - d /\ heap[Top.l2].length = Len(Top.in[2]) - d
          /\ \A k \in 1 .. d : Agree(Top.ty, Top.in[1][k], Top.in[2][k])
    BY <1>1, <1>2, CompareFacts
  <2>3. Len(Top.in[1]) = d /\ Len(Top.in[2]) = d
    <3> DEFINE a == Len(Top.in[1])
               b == Len(Top.in[2])
    <3>1. a \in Nat /\ b \in Nat /\ a - d = 0 /\ b - d = 0
      BY <1>3, <1>4, <1>5, <2>2
    <3> HIDE DEF a, b
    <3>2. a = d /\ b = d
      BY <3>1
    <3> QED BY <3>2 DEF a, b
  <2>4. DOMAIN Top.in[1] = 1 .. d
    BY <1>3, <2>3, SeqIs
  <2>5. ListValuesOf!ComparesTo(Top.ty, Top.in[1], Top.in[2], TRUE)
    BY <1>3, <2>2, <2>3, <2>4, ComparesAre
  <2> QED BY <1>1, <2>1, <2>5, CompareReturns
<1>6. CASE heap[Top.l1].length # 0
  <2> DEFINE v1 == heap[Top.l1].value
             v2 == heap[Top.l2].value
  <2>1. v1 \in Elements(heap, Top.ty) /\ v2 \in Elements(heap, Top.ty)
    BY <1>2, <1>3, <1>4, <1>6, Listed
  <2>2. CASE Element[Top.ty] = "LIST"
    <3> DEFINE e == [Top EXCEPT !.at = "test"]
               g == CompareFrame("chars", v1, v2, <<val[v1], val[v2]>>)
    <3>0. Top.ty = "lists"
      BY <1>3, <2>2 DEF Element, ListTypes
    <3>1. stack = <<Top>>
      BY <1>1, <3>0, OnlyOne
    <3>2. Call(e, g)
      BY <1>6, <2>2 DEF Compare
    <3>3. v1 \in Chain(heap, "chars") /\ v2 \in Chain(heap, "chars")
      BY <2>1, <3>0 DEF Elements
    <3>4. Does(heap, val, g) /\ g.fn = "compare" /\ g.ty = "chars" /\ g.in = <<val[v1], val[v2]>>
      BY <1>2, <3>3, CompareFrameDoes
    <3>5. e.fn = "compare" /\ e.at = "test" /\ e.ty = Top.ty /\ e.l1 = Top.l1 /\ e.l2 = Top.l2 /\ e.in = Top.in
      BY <1>1, <1>2 DEF IsFrame
    <3> HIDE DEF e, g
    <3>6. CompareDoes(val, e)
      BY <1>1, <1>2, <3>0, <3>5 DEF CompareDoes
    <3>7. Does(heap, val, e) /\ Waiting(e) /\ SameCall(Top, e)
      BY <1>1, <3>5, <3>6 DEF Does, Functions, Waiting, SameCall
    <3>8. WaitsFor(heap, val, e, g)
      BY <3>4, <3>5 DEF WaitsFor, Value1, Value2
    <3>9. /\ Says(val, e) = <<>> /\ Says(val, g) = <<>> /\ Now(val, Top) = <<>>
          /\ Made(val, e) = {} /\ Made(val, g) = {} /\ MadeResumed(val, Top) = {}
      BY <1>1, <3>4, <3>5, Quiet, MakesNothing
    <3>10. Says(val, e) \o Says(val, g) = Now(val, Top)
      BY <3>9, EmptyIsSeq, ConcatEmpty
    <3>11. Grown({}) /\ heap' = heap /\ val' = val
      BY <1>1, SameMemory
    <3>12. Stutters
      BY <1>1, <3>1, <3>2, <3>4, <3>7, <3>8, <3>9, <3>10, <3>11, AloneCalls
    <3> QED BY <3>12 DEF Refines, Stutters
  <2>3. CASE Element[Top.ty] # "LIST"
    <3>1. CompareBody(v1 # v2)
      BY <1>6, <2>3 DEF Compare
    <3>2. Top.ty = "chars" \/ Top.ty = "strings"
      BY <1>3, <2>3 DEF Element, ListTypes
    <3> DEFINE x == StandsFor(val, Top.ty, v1)
               y == StandsFor(val, Top.ty, v2)
    <3>3. Top.ty = "strings" \/ (v1 # v2 => x # y)
      BY <3>2 DEF StandsFor
    <3>4. IF v1 # v2 THEN Top.ty = "strings" \/ ~Agree(Top.ty, x, y) ELSE Agree(Top.ty, x, y)
      BY <3>2, <3>3 DEF Agree
    <3> QED BY <1>1, <1>6, <3>1, <3>4, CompareBodyAnswers
  <2> QED BY <2>2, <2>3
<1> QED BY <1>5, <1>6

LEMMA CompareTestAnswers ==
  ASSUME ListInv, AnswerInv, CompareTest
  PROVE  Refines
<1>1. stack # <<>> /\ Top.fn = "compare" /\ Top.at = "test" /\ Silent /\ UNCHANGED memory /\ CompareBody(Top.got)
  BY DEF CompareTest, Running
<1>2. Waiting(Top)
  BY <1>1 DEF Waiting
<1>3. stack = <<Top>>
  BY <1>1, <1>2, OnlyOne
<1>4. Does(heap, val, Top) /\ Resumed(heap, val, Top) /\ FrameFits(heap, Top)
  BY <1>2, <1>3, Alone
<1>5. Top.ty = "lists" /\ heap[Top.l1].length # 0
  BY <1>1, <1>4 DEF Does, CompareDoes, FrameFits, CompareFits
<1> DEFINE x == StandsFor(val, Top.ty, heap[Top.l1].value)
           y == StandsFor(val, Top.ty, heap[Top.l2].value)
<1>6. Top.got = (x = y)
  BY <1>1, <1>4, <1>5 DEF Resumed, Value1, Value2, StandsFor
<1>7. IF Top.got THEN Top.ty = "strings" \/ ~Agree(Top.ty, x, y) ELSE Agree(Top.ty, x, y)
  BY <1>5, <1>6 DEF Agree
<1>8. Top.got \in BOOLEAN
  BY <1>6
<1> QED BY <1>1, <1>5, <1>7, <1>8, CompareBodyAnswers

\* A tuple stands for its two items.
LEMMA TupleIs ==
  ASSUME NEW h, NEW w, Memory(h, w), NEW t \in Chain(h, "tuple")
  PROVE  /\ h[t].value[2] \in Chain(h, "chars")
         /\ w[t] = <<h[t].value[1], w[h[t].value[2]]>>
         /\ w[t][1] = h[t].value[1] /\ w[t][2] = w[h[t].value[2]]
<1>1. t \in 1 .. Len(h) /\ h[t].ty = "tuple"
  BY DEF Chain
<1>2. TupleNode(h, w, t)
  BY <1>1 DEF Memory, ListTypes
<1> QED BY <1>2 DEF TupleNode

LEMMA CompareTupleReturns ==
  ASSUME ListInv, AnswerInv, stack = <<Top>>, Top.fn = "compare_tuple", NEW b \in BOOLEAN, ReturnInt(b), Silent,
         UNCHANGED memory, b = (Top.in[1] = Top.in[2])
  PROVE  Refines
<1>2. Return(b, b) /\ printed' = printed /\ exited' = exited
  BY DEF ReturnInt, Silent
<1>3. printed' = <<>> /\ MadeResumed(val, Top) = {}
  BY <1>2, Alone, Quiet, MakesNothing
<1>4. AnswerInv' /\ Answers("compare_tuple", Top.in, b, <<>>, {}) /\ Asked(V0, Top)
  BY <1>2, <1>3, TopReturns
<1>5. PICK x, y : Top.in = <<x, y>> /\ <<"tuple", x>> \in V0 /\ <<"tuple", y>> \in V0
  BY <1>4, Zenon DEF Asked
<1>6. b = (x = y)
  <2>1. Top.in[1] = x /\ Top.in[2] = y
    BY <1>5
  <2> QED BY <2>1
<1>7. ListValuesOf!CompareTuple(x, y)
  BY <1>4, <1>5, <1>6 DEF ListValuesOf!CompareTuple, Answers, ListValuesOf!Evaluates, V0, ValuesOf
<1>8. x \in ListValuesOf!Of("tuple") /\ y \in ListValuesOf!Of("tuple")
  BY <1>5, OfIs
<1>9. ListValuesOf!Next
  BY <1>7, <1>8 DEF ListValuesOf!Next
<1> QED BY <1>4, <1>9 DEF Refines

\* The comparison of two tuples has found the items before the next one equal.
LEMMA CompareTupleFacts ==
  ASSUME ListInv, NEW f, FrameFits(heap, f), Does(heap, val, f), f.fn = "compare_tuple"
  PROVE  /\ f.l1 \in Chain(heap, "tuple") /\ f.l2 \in Chain(heap, "tuple") /\ f.i \in 1 .. 3
         /\ f.in = <<val[f.l1], val[f.l2]>> /\ f.in[1] = val[f.l1] /\ f.in[2] = val[f.l2]
         /\ f.in[1] = <<f.in[1][1], f.in[1][2]>> /\ f.in[2] = <<f.in[2][1], f.in[2][2]>>
         /\ \A k \in 1 .. 2 : k < f.i => f.in[1][k] = f.in[2][k]
         /\ f.in[1][1] = heap[f.l1].value[1] /\ f.in[2][1] = heap[f.l2].value[1]
         /\ f.in[1][2] = val[heap[f.l1].value[2]] /\ f.in[2][2] = val[heap[f.l2].value[2]]
         /\ heap[f.l1].value[2] \in Chain(heap, "chars") /\ heap[f.l2].value[2] \in Chain(heap, "chars")
<1>1. Memory(heap, val) /\ f.l1 \in Chain(heap, "tuple") /\ f.l2 \in Chain(heap, "tuple") /\ f.i \in 1 .. 3
  BY DEF ListInv, FrameFits, TuplesFit
<1>2. CompareTupleDoes(val, f)
  BY DEF Does
<1>3. f.in = <<val[f.l1], val[f.l2]>> /\ \A k \in 1 .. 2 : k < f.i => f.in[1][k] = f.in[2][k]
  BY <1>2 DEF CompareTupleDoes
<1>4. f.in[1] = val[f.l1] /\ f.in[2] = val[f.l2]
  BY <1>3
<1>5. /\ heap[f.l1].value[2] \in Chain(heap, "chars")
      /\ val[f.l1] = <<heap[f.l1].value[1], val[heap[f.l1].value[2]]>>
      /\ val[f.l1][1] = heap[f.l1].value[1] /\ val[f.l1][2] = val[heap[f.l1].value[2]]
  BY <1>1, TupleIs
<1>6. /\ heap[f.l2].value[2] \in Chain(heap, "chars")
      /\ val[f.l2] = <<heap[f.l2].value[1], val[heap[f.l2].value[2]]>>
      /\ val[f.l2][1] = heap[f.l2].value[1] /\ val[f.l2][2] = val[heap[f.l2].value[2]]
  BY <1>1, TupleIs
<1>7. f.in[1] = <<f.in[1][1], f.in[1][2]>> /\ f.in[2] = <<f.in[2][1], f.in[2][2]>>
  BY <1>4, <1>5, <1>6, Zenon
<1>8. /\ f.in[1][1] = heap[f.l1].value[1] /\ f.in[2][1] = heap[f.l2].value[1]
      /\ f.in[1][2] = val[heap[f.l1].value[2]] /\ f.in[2][2] = val[heap[f.l2].value[2]]
  BY <1>4, <1>5, <1>6, Zenon
<1> QED BY <1>1, <1>3, <1>4, <1>5, <1>6, <1>7, <1>8, Zenon

LEMMA CompareTupleAnswers ==
  ASSUME ListInv, AnswerInv, CompareTuple
  PROVE  Refines
<1>1. stack # <<>> /\ Top.fn = "compare_tuple" /\ Top.at = "loop" /\ Silent /\ UNCHANGED memory
  BY DEF CompareTuple, Running
<1>2. FrameFits(heap, Top) /\ Does(heap, val, Top) /\ IsFrame(Top) /\ stack = <<Top>> /\ Memory(heap, val)
      /\ CompareTupleDoes(val, Top)
  BY <1>1, OnTop, OnlyOne DEF FrameFits, ListInv, Does
<1>3. /\ Top.i \in 1 .. 3
      /\ \A k \in 1 .. 2 : k < Top.i => Top.in[1][k] = Top.in[2][k]
      /\ Top.in[1][1] = heap[Top.l1].value[1] /\ Top.in[2][1] = heap[Top.l2].value[1]
      /\ Top.in[1][2] = val[heap[Top.l1].value[2]] /\ Top.in[2][2] = val[heap[Top.l2].value[2]]
      /\ heap[Top.l1].value[2] \in Chain(heap, "chars") /\ heap[Top.l2].value[2] \in Chain(heap, "chars")
  BY <1>1, <1>2, CompareTupleFacts, Zenon
<1>4. Top.in[1] = <<Top.in[1][1], Top.in[1][2]>> /\ Top.in[2] = <<Top.in[2][1], Top.in[2][2]>>
  BY <1>1, <1>2, CompareTupleFacts, Zenon
<1> DEFINE x1 == heap[Top.l1].value[Top.i]
           x2 == heap[Top.l2].value[Top.i]
           item == TupleItems[Top.i]
           over == Top.i > Len(TupleItems)
<1>9. IF over THEN ReturnInt(TRUE)
      ELSE IF item = "STRING"
           THEN Call([Top EXCEPT !.at = "test"], CompareFrame("chars", x1, x2, <<val[x1], val[x2]>>))
           ELSE IF x1 # x2 THEN ReturnInt(FALSE) ELSE Goto([Top EXCEPT !.i = @ + 1])
  BY DEF CompareTuple
<1>10. (over <=> Top.i = 3) /\ (Top.i = 2 => item = "STRING") /\ (Top.i = 1 => item = "CHAR")
  BY <1>3 DEF TupleItems
<1> HIDE DEF over, item
<1>5. CASE Top.i = 3
  <2>1. ReturnInt(TRUE)
    BY <1>5, <1>9, <1>10
  <2>2. Top.in[1][1] = Top.in[2][1] /\ Top.in[1][2] = Top.in[2][2]
    BY <1>3, <1>5
  <2>3. TRUE = (Top.in[1] = Top.in[2])
    BY <1>4, <2>2, Zenon
  <2> QED BY <1>1, <1>2, <2>1, <2>3, CompareTupleReturns
<1>6. CASE Top.i = 2
  <2> DEFINE v1 == heap[Top.l1].value[2]
             v2 == heap[Top.l2].value[2]
             e == [Top EXCEPT !.at = "test"]
             g == CompareFrame("chars", v1, v2, <<val[v1], val[v2]>>)
  <2>1. Call(e, g)
    BY <1>6, <1>9, <1>10
  <2>2. Does(heap, val, g) /\ g.fn = "compare" /\ g.ty = "chars" /\ g.in = <<val[v1], val[v2]>>
    <3>1. v1 \in Chain(heap, "chars") /\ v2 \in Chain(heap, "chars")
      BY <1>3
    <3> HIDE DEF v1, v2
    <3> QED BY <1>2, <3>1, CompareFrameDoes
  <2>3. e.fn = "compare_tuple" /\ e.at = "test" /\ e.ty = Top.ty /\ e.l1 = Top.l1 /\ e.l2 = Top.l2 /\ e.in = Top.in
        /\ e.i = Top.i
    BY <1>1, <1>2 DEF IsFrame
  <2> HIDE DEF e, g
  <2>4. CompareTupleDoes(val, e)
    BY <1>2, <1>6, <2>3 DEF CompareTupleDoes
  <2>5. Does(heap, val, e) /\ Waiting(e) /\ SameCall(Top, e)
    BY <1>1, <2>3, <2>4 DEF Does, Functions, Waiting, SameCall
  <2>6. g.in = <<e.in[1][2], e.in[2][2]>>
    BY <1>3, <2>2, <2>3, Zenon
  <2>7. WaitsFor(heap, val, e, g)
    BY <2>2, <2>3, <2>6 DEF WaitsFor
  <2>8. /\ Says(val, e) = <<>> /\ Says(val, g) = <<>> /\ Now(val, Top) = <<>>
        /\ Made(val, e) = {} /\ Made(val, g) = {} /\ MadeResumed(val, Top) = {}
    BY <1>1, <2>2, <2>3, Quiet, MakesNothing
  <2>9. Says(val, e) \o Says(val, g) = Now(val, Top)
    BY <2>8, EmptyIsSeq, ConcatEmpty
  <2>10. Grown({}) /\ heap' = heap /\ val' = val
    BY <1>1, SameMemory
  <2>11. Stutters
    BY <1>1, <1>2, <2>1, <2>2, <2>5, <2>7, <2>8, <2>9, <2>10, AloneCalls
  <2> QED BY <2>11 DEF Refines, Stutters
<1>7. CASE Top.i = 1
  <2> DEFINE v1 == heap[Top.l1].value[1]
             v2 == heap[Top.l2].value[1]
  <2>1. IF v1 # v2 THEN ReturnInt(FALSE) ELSE Goto([Top EXCEPT !.i = @ + 1])
    <3>1. ~over /\ item # "STRING"
      BY <1>7, <1>10
    <3>2. IF x1 # x2 THEN ReturnInt(FALSE) ELSE Goto([Top EXCEPT !.i = @ + 1])
      BY <1>9, <3>1, Zenon
    <3>3. x1 = v1 /\ x2 = v2
      BY <1>7
    <3> HIDE DEF x1, x2, v1, v2
    <3> QED BY <3>2, <3>3
  <2>2. CASE v1 # v2
    <3>1. ReturnInt(FALSE) /\ FALSE = (Top.in[1] = Top.in[2])
      <4>1. Top.in[1][1] # Top.in[2][1]
        BY <1>3, <2>2
      <4> QED BY <2>1, <2>2, <4>1
    <3> QED BY <1>1, <1>2, <3>1, CompareTupleReturns
  <2>3. CASE v1 = v2
    <3> DEFINE g == [Top EXCEPT !.i = @ + 1]
    <3>1. Goto(g)
      BY <2>1, <2>3
    <3>2. g.fn = "compare_tuple" /\ g.at = "loop" /\ g.ty = Top.ty /\ g.l1 = Top.l1 /\ g.l2 = Top.l2 /\ g.in = Top.in
          /\ g.i = 2
      BY <1>1, <1>2, <1>7 DEF IsFrame
    <3> HIDE DEF g
    <3>3. \A k \in 1 .. 2 : k < g.i => g.in[1][k] = g.in[2][k]
      <4>1. g.in[1][1] = g.in[2][1]
        BY <1>3, <2>3, <3>2
      <4>2. \A k \in 1 .. 2 : k < g.i => k = 1
        BY <3>2
      <4> QED BY <4>1, <4>2
    <3>4. CompareTupleDoes(val, g)
      BY <1>2, <3>2, <3>3 DEF CompareTupleDoes
    <3>5. Does(heap, val, g) /\ ~Waiting(g) /\ SameCall(Top, g)
      BY <1>1, <3>2, <3>4 DEF Does, Functions, Waiting, SameCall
    <3>6. Stutters
      BY <1>1, <3>1, <3>5, QuietGoes
    <3> QED BY <3>6 DEF Refines, Stutters
  <2> QED BY <2>2, <2>3
<1>8. \A k \in 1 .. 3 : k = 1 \/ k = 2 \/ k = 3
  OBVIOUS
<1> QED BY <1>3, <1>5, <1>6, <1>7, <1>8

LEMMA CompareTupleTestAnswers ==
  ASSUME ListInv, AnswerInv, CompareTupleTest
  PROVE  Refines
<1>1. stack # <<>> /\ Top.fn = "compare_tuple" /\ Top.at = "test" /\ Silent /\ UNCHANGED memory
  BY DEF CompareTupleTest, Running
<1>2. FrameFits(heap, Top) /\ Does(heap, val, Top) /\ IsFrame(Top) /\ stack = <<Top>> /\ CompareTupleDoes(val, Top)
  BY <1>1, OnTop, OnlyOne DEF FrameFits, Does
<1>3. Waiting(Top)
  BY <1>1 DEF Waiting
<1>4. Top.got = (Top.in[1][2] = Top.in[2][2])
  BY <1>1, <1>2, <1>3, Alone DEF Resumed
<1>5. Top.i = 2
  BY <1>1, <1>2 DEF CompareTupleDoes
<1>6. Top.in[1][1] = Top.in[2][1]
  <2>1. \A k \in 1 .. 2 : k < Top.i => Top.in[1][k] = Top.in[2][k]
    BY <1>2 DEF CompareTupleDoes
  <2> QED BY <1>5, <2>1
<1>7. CASE ~Top.got
  <2>1. ReturnInt(FALSE)
    BY <1>7 DEF CompareTupleTest
  <2>2. FALSE = (Top.in[1] = Top.in[2])
    BY <1>4, <1>7
  <2> QED BY <1>1, <1>2, <2>1, <2>2, CompareTupleReturns
<1>8. CASE Top.got
  <2> DEFINE g == [Top EXCEPT !.i = @ + 1, !.at = "loop"]
  <2>1. Goto(g)
    BY <1>8 DEF CompareTupleTest
  <2>2. g.fn = "compare_tuple" /\ g.at = "loop" /\ g.ty = Top.ty /\ g.l1 = Top.l1 /\ g.l2 = Top.l2 /\ g.in = Top.in
    BY <1>1, <1>2 DEF IsFrame
  <2> HIDE DEF g
  <2>3. \A k \in 1 .. 2 : g.in[1][k] = g.in[2][k]
    <3>1. \A k \in 1 .. 2 : k = 1 \/ k = 2
      OBVIOUS
    <3>2. Top.in[1][2] = Top.in[2][2]
      BY <1>4, <1>8
    <3> QED BY <1>6, <2>2, <3>1, <3>2
  <2>4. CompareTupleDoes(val, g)
    BY <1>2, <2>2, <2>3 DEF CompareTupleDoes
  <2>5. Does(heap, val, g) /\ ~Waiting(g) /\ SameCall(Top, g)
    BY <1>1, <2>2, <2>4 DEF Does, Functions, Waiting, SameCall
  <2>6. Stutters
    BY <1>1, <2>1, <2>5, QuietGoes
  <2> QED BY <2>6 DEF Refines, Stutters
<1> QED BY <1>7, <1>8

-----------------------------------------------------------------------------
(* Making lists. *)

LEMMA PartsOf ==
  ASSUME NEW h, NEW w, Memory(h, w), PartsAreThere(h, w), NEW ty \in ListTypes, NEW n \in Chain(h, ty)
  PROVE  /\ Tails(ty, w[n]) \subseteq ListValuesOf!Parts(ty, w[n])
         /\ ListValuesOf!Parts(ty, w[n]) \subseteq ValuesOf(h, w, Len(h))
<1>1. n \in 1 .. Len(h) /\ h[n].ty = ty /\ IsSeq(w[n]) /\ DOMAIN w[n] = 1 .. Len(w[n])
  BY Listed, SeqIs
<1>2. Len(h) \in Nat
  BY SeqIs DEF Memory
<1>3. \A m \in 1 .. Len(h) : ValuesOf(h, w, m) \subseteq ValuesOf(h, w, Len(h))
  BY <1>2, MoreValues
<1>4. Tails(ty, w[n]) \subseteq ValuesOf(h, w, Len(h))
  BY <1>1, <1>3 DEF PartsAreThere
<1>5. ASSUME ty # "chars", NEW k \in DOMAIN w[n] PROVE Tails("chars", w[n][k]) \subseteq ValuesOf(h, w, Len(h))
  <2>1. <<"chars", w[n][k]>> \in ValuesOf(h, w, n)
    BY <1>1, <1>5 DEF PartsAreThere
  <2>2. PICK m \in 1 .. n : h[m].ty = "chars" /\ w[m] = w[n][k]
    BY <2>1 DEF ValuesOf
  <2>3. m \in 1 .. Len(h)
    BY <1>1, <1>2, <2>2
  <2>4. Tails("chars", w[m]) \subseteq ValuesOf(h, w, m)
    BY <2>2, <2>3 DEF PartsAreThere, ListTypes
  <2> QED BY <1>3, <2>2, <2>3, <2>4
<1>6. CASE ty = "chars"
  <2>1. ListValuesOf!Parts(ty, w[n]) = Tails(ty, w[n])
    BY <1>6, Zenon DEF ListValuesOf!Parts, Tails
  <2> QED BY <1>4, <2>1
<1>7. CASE ty # "chars"
  <2>0. ty # "tuple"
    BY DEF ListTypes
  <2>1. ListValuesOf!Parts(ty, w[n]) = Tails(ty, w[n]) \cup UNION {Tails("chars", w[n][k]) : k \in DOMAIN w[n]}
    BY <1>7, <2>0, Zenon DEF ListValuesOf!Parts, Tails
  <2> QED BY <1>4, <1>5, <1>7, <2>1
<1> QED BY <1>6, <1>7

LEMMA PartsReturned ==
  ASSUME ListInv, AnswerInv, stack = <<Top>>, NEW ty \in ListTypes, NEW n \in Chain(heap, ty), ReturnNode(n),
         UNCHANGED memory, Silent, Top.fn \notin {"print", "print_tuple"}, NEW fn, Top.fn = fn,
         MadeResumed(val, Top) \subseteq ListValuesOf!Parts(ty, val[n]),
         Tails(ty, val[n]) \subseteq MadeResumed(val, Top)
  PROVE  /\ AnswerInv' /\ Answers(fn, Top.in, val[n], <<>>, ListValuesOf!Parts(ty, val[n])) /\ Asked(V0, Top)
<1>1. printed' = <<>> /\ UNCHANGED exited /\ Return(n, val[n])
  BY Alone, Quiet DEF Silent, ReturnNode
<1>2. AnswerInv' /\ Answers(fn, Top.in, val[n], <<>>, MadeResumed(val, Top)) /\ Asked(V0, Top)
  BY <1>1, TopReturns
<1>3. All0 = V0 \cup MadeResumed(val, Top)
  BY Alone
<1>4. Memory(heap, val) /\ PartsAreThere(heap, val)
  BY DEF ListInv, AnswerInv
<1>5. ListValuesOf!Parts(ty, val[n]) \subseteq All0
  BY <1>4, PartsOf DEF All0
<1>6. V0 \cup MadeResumed(val, Top) = V0 \cup ListValuesOf!Parts(ty, val[n])
  BY <1>3, <1>5
<1> QED BY <1>2, <1>6 DEF Answers

\* What follows v in v \o w is w.
LEMMA RestOfConcat ==
  ASSUME NEW v, IsSeq(v), NEW w, IsSeq(w)
  PROVE  /\ IsRest(w, v \o w, Len(v)) /\ IsSeq(v \o w)
         /\ \A k \in 1 .. Len(v) : (v \o w)[k] = v[k]
<1> DEFINE u == v \o w
<1>1. IsConcat(u, v, w)
  BY DEF IsConcat
<1> HIDE DEF u
<1>2. IsSeq(u)
  BY <1>1, ConcatIs
<1>3. Len(u) = Len(v) + Len(w) /\ Len(v) \in Nat /\ Len(w) \in Nat
  BY <1>1, ConcatIs, SeqIs
<1>4. \A k \in 1 .. Len(v) : u[k] = v[k]
  BY <1>1, ConcatIs
<1>5. \A k \in 1 .. Len(w) : u[Len(v) + k] = w[k]
  BY <1>1, ConcatIs
<1>6. Len(v) \in 0 .. Len(u) /\ Len(w) = Len(u) - Len(v)
  BY <1>3
<1>7. IsRest(w, u, Len(v))
  BY <1>2, <1>5, <1>6, RestIs
<1> QED BY <1>2, <1>4, <1>7 DEF u

LEMMA ConcatCollectAnswers ==
  ASSUME ListInv, AnswerInv, ConcatCollect
  PROVE  Refines
<1>1. stack # <<>> /\ Top.fn = "concat" /\ Top.at = "loop" /\ Silent /\ UNCHANGED memory
  BY DEF ConcatCollect, Running
<1>2. /\ FrameFits(heap, Top) /\ Does(heap, val, Top) /\ IsFrame(Top) /\ stack = <<Top>> /\ ConcatFits(heap, Top)
      /\ ConcatDoes(heap, val, Top) /\ Memory(heap, val) /\ PartsAreThere(heap, val)
  BY <1>1, OnTop, OnlyOne DEF FrameFits, Does, ListInv, AnswerInv
<1> DEFINE v == Top.in[1]
           w == Top.in[2]
           n == heap[Top.l1].next
<1>3. /\ Top.ty \in ListTypes /\ Top.l1 \in Chain(heap, Top.ty) /\ Top.l2 \in Chain(heap, Top.ty)
      /\ IsSeq(Top.els) /\ Top.i \in Nat /\ Top.i + heap[Top.l1].length = Len(Top.els)
  BY <1>1, <1>2 DEF ConcatFits
<1>4. /\ Len(Top.els) = Len(v) /\ IsSeq(v) /\ IsSeq(w) /\ IsRest(val[Top.l1], v, Top.i) /\ val[Top.l2] = w
      /\ \A k \in 1 .. Top.i : StandsFor(val, Top.ty, heap[Top.els[k]].value) = v[k]
  BY <1>1, <1>2 DEF ConcatDoes
<1>5. heap[Top.l1].length \in Nat /\ Len(Top.els) \in Nat /\ DOMAIN Top.els = 1 .. Len(Top.els)
  BY <1>2, <1>3, Listed, SeqIs
<1>6. Grown({}) /\ heap' = heap /\ val' = val
  BY <1>1, SameMemory
<1>7. printed' = <<>> /\ exited' = exited
  BY <1>1, <1>2, Alone, Quiet DEF Silent
<1>8. ~Waiting(Top) /\ MadeResumed(val, Top) = {} /\ All0 = V0
  <2>1. ~Waiting(Top)
    BY <1>1 DEF Waiting
  <2>2. MadeResumed(val, Top) = {}
    BY <1>1, Zenon DEF MadeResumed, Made
  <2>3. All0 = V0 \cup MadeResumed(val, Top)
    BY <1>2, Alone
  <2> QED BY <2>1, <2>2, <2>3
<1>9. CASE heap[Top.l1].length > 0
  <2> DEFINE els == [Top.els EXCEPT ![Top.i + 1] = Top.l1]
             g == [Top EXCEPT !.els = [@ EXCEPT ![Top.i + 1] = Top.l1], !.l1 = heap[@].next, !.i = @ + 1]
  <2>1. Goto(g)
    BY <1>9 DEF ConcatCollect
  <2>2. /\ g.fn = "concat" /\ g.at = "loop" /\ g.ty = Top.ty /\ g.l1 = n /\ g.l2 = Top.l2 /\ g.in = Top.in
        /\ g.i = Top.i + 1 /\ g.els = els
    BY <1>1, <1>2 DEF IsFrame
  <2> HIDE DEF g
  <2>3. heap[Top.l1].length # 0
    BY <1>9
  <2>4. IsCons(val[Top.l1], StandsFor(val, Top.ty, heap[Top.l1].value), val[n])
    BY <1>2, <1>3, <2>3, Listed
  <2> HIDE DEF n, v, w
  <2>5. IsRest(val[n], v, Top.i + 1) /\ v[Top.i + 1] = StandsFor(val, Top.ty, heap[Top.l1].value)
    BY <1>4, <2>4, RestStep
  <2>6. Top.i + 1 \in DOMAIN Top.els
    BY <1>3, <1>5, <1>9
  <2>7. Len(els) = Len(Top.els)
    <3>1. PICK S : Top.els \in Seq(S)
      BY <1>3 DEF IsSeq
    <3>2. els = [k \in 1 .. Len(Top.els) |-> els[k]]
      BY <1>5
    <3> HIDE DEF els
    <3> QED BY <1>5, <3>2, FunctionIsSeq
  <2>8. els[Top.i + 1] = Top.l1 /\ \A k \in 1 .. Top.i : els[k] = Top.els[k]
    <3>1. els[Top.i + 1] = Top.l1
      BY <2>6
    <3>2. ASSUME NEW k \in 1 .. Top.i PROVE els[k] = Top.els[k]
      <4>1. k \in DOMAIN Top.els /\ k # Top.i + 1
        BY <1>3, <1>5
      <4> QED BY <4>1
    <3> QED BY <3>1, <3>2
  <2> HIDE DEF els
  <2>9. ASSUME NEW k \in 1 .. Top.i + 1 PROVE StandsFor(val, Top.ty, heap[els[k]].value) = v[k]
    <3>1. k \in 1 .. Top.i \/ k = Top.i + 1
      BY <1>3
    <3> QED BY <3>1, <1>4, <2>5, <2>8
  <2>10. ConcatDoes(heap, val, g)
    BY <1>4, <2>2, <2>5, <2>7, <2>9 DEF ConcatDoes, v, w
  <2>11. Does(heap, val, g) /\ ~Waiting(g) /\ SameCall(Top, g)
    BY <1>1, <2>2, <2>10 DEF Does, Functions, Waiting, SameCall
  <2>12. Says(val, g) = <<>> /\ Made(val, g) = {}
    <3>1. Made(val, g) = {}
      BY <2>2, Zenon DEF Made
    <3> QED BY <2>2, <3>1, Quiet
  <2>13. Stutters
    BY <1>2, <1>6, <1>7, <1>8, <2>1, <2>11, <2>12, AloneGoes
  <2> QED BY <2>13 DEF Refines, Stutters
<1>10. CASE ~(heap[Top.l1].length > 0)
  <2> DEFINE g == [Top EXCEPT !.i = @ - 1, !.at = "add"]
  <2>1. Goto(g)
    BY <1>10 DEF ConcatCollect
  <2>2. /\ g.fn = "concat" /\ g.at = "add" /\ g.ty = Top.ty /\ g.l2 = Top.l2 /\ g.in = Top.in
        /\ g.i = Top.i - 1 /\ g.els = Top.els
    BY <1>1, <1>2 DEF IsFrame
  <2> HIDE DEF g
  <2>3. Top.i = Len(Top.els) /\ Top.i = Len(v) /\ g.i + 1 = Len(v)
    BY <1>3, <1>4, <1>5, <1>10, <2>2
  <2> HIDE DEF v, w
  <2>4. IsRest(w, v \o w, Len(v))
    BY <1>4, RestOfConcat
  <2>5. IsRest(val[g.l2], v \o w, g.i + 1)
    BY <1>4, <2>2, <2>3, <2>4, Zenon
  <2>6. \A k \in 1 .. Len(g.els) : StandsFor(val, g.ty, heap[g.els[k]].value) = g.in[1][k]
    BY <1>4, <2>2, <2>3 DEF v
  <2>6a. IsRest(val[g.l2], g.in[1] \o g.in[2], g.i + 1)
    BY <2>2, <2>5, Zenon DEF v, w
  <2>6b. Len(g.els) = Len(g.in[1]) /\ IsSeq(g.in[1]) /\ IsSeq(g.in[2])
    BY <1>4, <2>2 DEF v, w
  <2>7. ConcatDoes(heap, val, g)
    <3>1. g.at # "loop" /\ g.at \in {"loop", "add"}
      BY <2>2
    <3> QED BY <2>6, <2>6a, <2>6b, <3>1, Zenon DEF ConcatDoes
  <2>8. Does(heap, val, g) /\ ~Waiting(g) /\ SameCall(Top, g)
    BY <1>1, <2>2, <2>7 DEF Does, Functions, Waiting, SameCall
  <2>9. Says(val, g) = <<>>
    BY <2>2, Quiet
  <2>10. Made(val, g) = Tails(Top.ty, val[Top.l2])
    BY <2>2, Zenon DEF Made
  <2>11. Tails(Top.ty, val[Top.l2]) \subseteq V0
    BY <1>2, <1>3, <1>8, PartsOf DEF All0
  <2>12. V0 \cup Made(val', g) = V0 \cup MadeResumed(val, Top) \cup {}
    BY <1>6, <1>8, <2>10, <2>11
  <2>13. Stutters
    BY <1>2, <1>6, <1>7, <2>1, <2>8, <2>9, <2>12, AloneGoes
  <2> QED BY <2>13 DEF Refines, Stutters
<1> QED BY <1>9, <1>10

\* What the values of nodes stand for does not change.
LEMMA StandsForKept ==
  ASSUME NEW h, NEW w, Memory(h, w), NEW x, \A m \in 1 .. Len(h) : x[m] = w[m], NEW ty, NEW v \in Elements(h, ty)
  PROVE  StandsFor(x, ty, v) = StandsFor(w, ty, v)
BY DEF StandsFor, Elements, Chain

LEMMA ConcatAddAnswers ==
  ASSUME ListInv, AnswerInv, ConcatAdd
  PROVE  Refines
<1>1. stack # <<>> /\ Top.fn = "concat" /\ Top.at = "add" /\ Silent
  BY DEF ConcatAdd, Running
<1>2. /\ FrameFits(heap, Top) /\ Does(heap, val, Top) /\ IsFrame(Top) /\ stack = <<Top>> /\ ConcatFits(heap, Top)
      /\ ConcatDoes(heap, val, Top) /\ Memory(heap, val) /\ PartsAreThere(heap, val)
  BY <1>1, OnTop, OnlyOne DEF FrameFits, Does, ListInv, AnswerInv
<1> DEFINE v == Top.in[1]
           w == Top.in[2]
           u == v \o w
<1>3. /\ Top.ty \in ListTypes /\ Top.l2 \in Chain(heap, Top.ty) /\ IsSeq(Top.els) /\ Top.i \in -1 .. Len(Top.els) - 1
      /\ \A k \in 1 .. Len(Top.els) : Top.els[k] \in Chain(heap, Top.ty) /\ heap[Top.els[k]].length # 0
  BY <1>1, <1>2 DEF ConcatFits
<1>4. /\ Len(Top.els) = Len(v) /\ IsSeq(v) /\ IsSeq(w) /\ IsRest(val[Top.l2], u, Top.i + 1)
      /\ \A k \in 1 .. Len(Top.els) : StandsFor(val, Top.ty, heap[Top.els[k]].value) = v[k]
  BY <1>1, <1>2 DEF ConcatDoes
<1>5. Len(Top.els) \in Nat
  BY <1>3, SeqIs
<1>6. IsSeq(u) /\ \A k \in 1 .. Len(v) : u[k] = v[k]
  BY <1>4, RestOfConcat
<1>7. printed' = <<>> /\ exited' = exited
  BY <1>1, <1>2, Alone, Quiet DEF Silent
<1>8. MadeResumed(val, Top) = Tails(Top.ty, val[Top.l2])
  BY <1>1, Zenon DEF MadeResumed, Made
<1>9. CASE Top.i >= 0
  <2> DEFINE n == Top.els[Top.i + 1]
             x == heap[n].value
             g == [Top EXCEPT !.l2 = Fresh, !.i = @ - 1]
  <2>1. Add(Top.ty, Top.l2, x) /\ Goto(g)
    BY <1>9 DEF ConcatAdd
  <2>2. /\ g.fn = "concat" /\ g.at = "add" /\ g.ty = Top.ty /\ g.l2 = Fresh /\ g.in = Top.in
        /\ g.i = Top.i - 1 /\ g.els = Top.els
    BY <1>1, <1>2 DEF IsFrame
  <2> HIDE DEF g
  <2>3. Top.i + 1 \in 1 .. Len(Top.els) /\ Top.i + 1 # 0 /\ (Top.i + 1) - 1 = g.i + 1
    BY <1>3, <1>5, <1>9, <2>2
  <2>4. x \in Elements(heap, Top.ty)
    BY <1>2, <1>3, <2>3, Listed
  <2> HIDE DEF x, n
  <2>5. /\ Grown({<<Top.ty, val'[Fresh]>>}) /\ IsCons(val'[Fresh], StandsFor(val, Top.ty, x), val[Top.l2])
    BY <1>3, <2>1, <2>4, AddGrows
  <2>6. StandsFor(val, Top.ty, x) = v[Top.i + 1]
    BY <1>4, <2>3 DEF x, n
  <2> HIDE DEF v, w
  <2>7. u[Top.i + 1] = v[Top.i + 1]
    BY <1>4, <1>6, <2>3
  <2> HIDE DEF u
  <2>8. IsRest(val'[Fresh], u, g.i + 1)
    <3>1. IsCons(val'[Fresh], u[Top.i + 1], val[Top.l2])
      BY <2>5, <2>6, <2>7
    <3>2. IsRest(val'[Fresh], u, (Top.i + 1) - 1)
      BY <1>4, <2>3, <3>1, RestBack
    <3> QED BY <2>3, <3>2
  <2>9. \A m \in 1 .. Len(heap) : heap'[m] = heap[m] /\ val'[m] = val[m]
    BY <2>5 DEF Grown, Grows, Extends
  <2>10. ASSUME NEW k \in 1 .. Len(Top.els) PROVE StandsFor(val', Top.ty, heap'[Top.els[k]].value) = v[k]
    <3>1. Top.els[k] \in Chain(heap, Top.ty) /\ heap[Top.els[k]].length # 0
      BY <1>3
    <3>2. heap'[Top.els[k]] = heap[Top.els[k]]
      BY <2>9, <3>1 DEF Chain
    <3>3. heap[Top.els[k]].value \in Elements(heap, Top.ty)
      BY <1>2, <1>3, <3>1, Listed
    <3>4. StandsFor(val', Top.ty, heap[Top.els[k]].value) = StandsFor(val, Top.ty, heap[Top.els[k]].value)
      BY <1>2, <2>9, <3>3, StandsForKept
    <3> QED BY <1>4, <3>2, <3>4
  <2>11. ConcatDoes(heap', val', g)
    <3>1. IsRest(val'[g.l2], g.in[1] \o g.in[2], g.i + 1)
      BY <2>2, <2>8, Zenon DEF u, v, w
    <3>2. Len(g.els) = Len(g.in[1]) /\ IsSeq(g.in[1]) /\ IsSeq(g.in[2])
      BY <1>4, <2>2 DEF v, w
    <3>3. \A k \in 1 .. Len(g.els) : StandsFor(val', g.ty, heap'[g.els[k]].value) = g.in[1][k]
      BY <2>2, <2>10, Zenon DEF v
    <3>4. g.at # "loop" /\ g.at \in {"loop", "add"}
      BY <2>2
    <3> QED BY <3>1, <3>2, <3>3, <3>4, Zenon DEF ConcatDoes
  <2>12. Does(heap', val', g) /\ ~Waiting(g) /\ SameCall(Top, g)
    BY <1>1, <2>2, <2>11 DEF Does, Functions, Waiting, SameCall
  <2>13. Says(val', g) = <<>> /\ Made(val', g) = Tails(Top.ty, val'[Fresh])
    <3>1. Made(val', g) = Tails(Top.ty, val'[Fresh])
      BY <2>2, Zenon DEF Made
    <3> QED BY <2>2, <3>1, Quiet
  <2>14. Tails(Top.ty, val'[Fresh]) = {<<Top.ty, val'[Fresh]>>} \cup Tails(Top.ty, val[Top.l2])
    BY <2>5, TailsCons
  <2>15. V0 \cup Made(val', g) = V0 \cup MadeResumed(val, Top) \cup {<<Top.ty, val'[Fresh]>>}
    BY <1>8, <2>13, <2>14
  <2>16. Stutters
    BY <1>2, <1>7, <2>1, <2>5, <2>12, <2>13, <2>15, AloneGoes
  <2> QED BY <2>16 DEF Refines, Stutters
<1>10. CASE ~(Top.i >= 0)
  <2>1. ReturnNode(Top.l2) /\ UNCHANGED memory
    BY <1>10 DEF ConcatAdd
  <2>2. Top.i + 1 = 0
    BY <1>3, <1>5, <1>10
  <2>3. val[Top.l2] = u
    <3> HIDE DEF u
    <3>1. IsRest(val[Top.l2], u, 0)
      BY <1>4, <2>2
    <3> QED BY <1>6, <3>1, RestStart
  <2>4. Tails(Top.ty, val[Top.l2]) \subseteq ListValuesOf!Parts(Top.ty, val[Top.l2])
    BY <1>2, <1>3, PartsOf
  <2>5. AnswerInv' /\ Answers("concat", Top.in, val[Top.l2], <<>>, ListValuesOf!Parts(Top.ty, val[Top.l2])) /\ Asked(V0, Top)
    BY <1>1, <1>2, <1>3, <1>8, <2>1, <2>4, PartsReturned
  <2>6. PICK a, b : Top.in = <<a, b>> /\ <<Top.ty, a>> \in V0 /\ <<Top.ty, b>> \in V0
    BY <1>1, <2>5, Zenon DEF Asked
  <2>7. val[Top.l2] = a \o b
    <3>1. v = a /\ w = b
      BY <2>6
    <3> HIDE DEF v, w
    <3> QED BY <2>3, <3>1
  <2>8. ListValuesOf!Concat(Top.ty, a, b)
    <3> HIDE DEF u, v, w
    <3> DEFINE y == val[Top.l2]
    <3>1. Answers("concat", <<a, b>>, y, <<>>, ListValuesOf!Parts(Top.ty, y))
      BY <2>5, <2>6 DEF Answers
    <3>2. y = a \o b
      BY <2>7
    <3> HIDE DEF y
    <3> QED BY <3>1, <3>2 DEF ListValuesOf!Concat, Answers, ListValuesOf!Evaluates, V0, ValuesOf
  <2>9. ListValuesOf!Next
    <3>1. a \in ListValuesOf!Of(Top.ty) /\ b \in ListValuesOf!Of(Top.ty) /\ Top.ty \in ListValuesOf!ListTypes
      BY <1>3, <2>6, OfIs DEF ListTypes, ListValuesOf!ListTypes
    <3> QED BY <2>8, <3>1 DEF ListValuesOf!Next
  <2> QED BY <2>5, <2>9 DEF Refines
<1> QED BY <1>9, <1>10

LEMMA CreateAnswers ==
  ASSUME ListInv, AnswerInv, Create
  PROVE  Refines
<1>1. stack # <<>> /\ Top.fn = "create" /\ Top.at = "loop" /\ Silent
  BY DEF Create, Running
<1>2. /\ FrameFits(heap, Top) /\ Does(heap, val, Top) /\ IsFrame(Top) /\ stack = <<Top>> /\ CreateFits(heap, Top)
      /\ CreateDoes(val, Top) /\ Memory(heap, val)
  BY <1>1, OnTop, OnlyOne DEF FrameFits, Does, ListInv
<1> DEFINE S == Elements(heap, Top.ty)
           s == Top.els
           v == Top.in
<1>3. Top.ty \in ListTypes /\ Top.l1 \in Chain(heap, Top.ty) /\ s \in Seq(S)
  BY <1>2 DEF CreateFits
<1>4. IsRest(val[Top.l1], v, Len(s)) /\ \A k \in 1 .. Len(s) : StandsFor(val, Top.ty, s[k]) = v[Len(s) + 1 - k]
  BY <1>2 DEF CreateDoes
<1>5. printed' = <<>> /\ exited' = exited
  BY <1>1, <1>2, Alone, Quiet DEF Silent
<1>6. MadeResumed(val, Top) = Tails(Top.ty, val[Top.l1])
  BY <1>1, Zenon DEF MadeResumed, Made
<1>7. CASE s # <<>>
  <2> DEFINE x == Head(s)
             t == Tail(s)
             g == [Top EXCEPT !.l1 = Fresh, !.els = Tail(@)]
  <2>1. Add(Top.ty, Top.l1, x) /\ Goto(g)
    BY <1>7 DEF Create
  <2>2. g.fn = "create" /\ g.at = "loop" /\ g.ty = Top.ty /\ g.l1 = Fresh /\ g.in = Top.in /\ g.els = t
    BY <1>1, <1>2 DEF IsFrame
  <2> HIDE DEF g
  <2>3. /\ x \in S /\ t \in Seq(S) /\ Len(t) = Len(s) - 1 /\ x = s[1] /\ Len(s) \in Nat /\ Len(s) # 0
        /\ \A k \in 1 .. Len(t) : t[k] = s[k + 1]
    <3> HIDE DEF S, s
    <3> QED BY <1>3, <1>7, HeadTailProperties
  <2>4. Grown({<<Top.ty, val'[Fresh]>>}) /\ IsCons(val'[Fresh], StandsFor(val, Top.ty, x), val[Top.l1])
    BY <1>3, <2>1, <2>3, AddGrows
  <2>5. \A m \in 1 .. Len(heap) : val'[m] = val[m]
    BY <2>4 DEF Grown, Grows
  <2>6. \A e \in S : StandsFor(val', Top.ty, e) = StandsFor(val, Top.ty, e)
    BY <1>2, <2>5, StandsForKept
  <2>7. \A k \in 1 .. Len(s) : s[k] \in S
    <3> HIDE DEF S, s
    <3> QED BY <1>3
  <2> HIDE DEF S, s, t, x, v
  <2>8. StandsFor(val, Top.ty, x) = v[Len(s)]
    <3>1. 1 \in 1 .. Len(s) /\ Len(s) + 1 - 1 = Len(s)
      BY <2>3
    <3> QED BY <1>4, <2>3, <3>1
  <2>9. IsRest(val'[Fresh], v, Len(t))
    <3>1. IsRest(val'[Fresh], v, Len(s) - 1)
      BY <1>4, <2>3, <2>4, <2>8, RestBack
    <3> QED BY <2>3, <3>1
  <2>10. ASSUME NEW k \in 1 .. Len(t) PROVE StandsFor(val', Top.ty, t[k]) = v[Len(t) + 1 - k]
    <3>1. k + 1 \in 1 .. Len(s) /\ Len(s) + 1 - (k + 1) = Len(t) + 1 - k
      BY <2>3
    <3> QED BY <1>4, <2>3, <2>6, <2>7, <3>1
  <2>11. CreateDoes(val', g)
    BY <2>2, <2>9, <2>10 DEF CreateDoes, v
  <2>12. Does(heap', val', g) /\ ~Waiting(g) /\ SameCall(Top, g)
    BY <1>1, <2>2, <2>11 DEF Does, Functions, Waiting, SameCall
  <2>13. Says(val', g) = <<>> /\ Made(val', g) = Tails(Top.ty, val'[Fresh])
    <3>1. Made(val', g) = Tails(Top.ty, val'[Fresh])
      BY <2>2, Zenon DEF Made
    <3> QED BY <2>2, <3>1, Quiet
  <2>14. Tails(Top.ty, val'[Fresh]) = {<<Top.ty, val'[Fresh]>>} \cup Tails(Top.ty, val[Top.l1])
    BY <2>4, TailsCons
  <2>15. V0 \cup Made(val', g) = V0 \cup MadeResumed(val, Top) \cup {<<Top.ty, val'[Fresh]>>}
    BY <1>6, <2>13, <2>14
  <2>16. Stutters
    BY <1>2, <1>5, <2>1, <2>4, <2>12, <2>13, <2>15, AloneGoes
  <2> QED BY <2>16 DEF Refines, Stutters
<1>8. CASE s = <<>>
  <2>1. ReturnNode(Top.l1) /\ UNCHANGED memory
    BY <1>8 DEF Create
  <2>2. val[Top.l1] = v
    <3>1. IsRest(val[Top.l1], v, 0)
      BY <1>4, <1>8, EmptyIsSeq
    <3> HIDE DEF v
    <3>2. IsSeq(v)
      BY <3>1, RestFacts
    <3> QED BY <3>1, <3>2, RestStart
  <2>3. Tails(Top.ty, val[Top.l1]) \subseteq ListValuesOf!Parts(Top.ty, val[Top.l1])
    <3>1. PartsAreThere(heap, val)
      BY DEF AnswerInv
    <3> QED BY <1>2, <1>3, <3>1, PartsOf
  <2>4. AnswerInv' /\ Answers("create", Top.in, val[Top.l1], <<>>, ListValuesOf!Parts(Top.ty, val[Top.l1])) /\ Asked(V0, Top)
    BY <1>1, <1>2, <1>3, <1>6, <2>1, <2>3, PartsReturned
  <2> HIDE DEF v
  <2>5. ListValuesOf!Create(Top.ty, v)
    BY <2>2, <2>4 DEF ListValuesOf!Create, Answers, ListValuesOf!Evaluates, V0, ValuesOf, v
  <2> DEFINE E == ListValuesOf!Elements(Top.ty)
  <2>6. v \in Seq(E) /\ Len(v) <= MaxElements
    <3>1. /\ v \in Seq(IF Top.ty = "chars" THEN Chars ELSE {x[2] : x \in {y \in V0 : y[1] = "chars"}})
          /\ Len(v) <= MaxElements
      BY <1>1, <2>4, Zenon DEF Asked, v
    <3>2. E = IF Top.ty = "chars" THEN Chars ELSE {x[2] : x \in {y \in V0 : y[1] = "chars"}}
      BY DEF ListValuesOf!Elements, ListValuesOf!Of, V0, ValuesOf
    <3> QED BY <3>1, <3>2
  <2> HIDE DEF E
  <2>7. v \in ListValuesOf!BoundedSeq(E, MaxElements)
    <3>1. Len(v) \in 0 .. MaxElements /\ v \in [1 .. Len(v) -> E]
      BY <2>6, ListsAssumption
    <3> QED BY <3>1 DEF ListValuesOf!BoundedSeq, ListValuesOf!SeqOf
  <2>8. Top.ty \in ListValuesOf!ListTypes
    BY <1>3 DEF ListTypes, ListValuesOf!ListTypes
  <2>9. ListValuesOf!Next
    BY <2>5, <2>7, <2>8 DEF ListValuesOf!Next, E
  <2> QED BY <2>4, <2>9 DEF Refines
<1> QED BY <1>7, <1>8

\* main's list stays as it is while gcrt_string makes the next argument.
LEMMA MainKept ==
  ASSUME ListInv, NEW e, FrameFits(heap, e), e.fn = "main", Does(heap, val, e), NEW new, Grown(new)
  PROVE  Does(heap', val', e) /\ Made(val', e) = Made(val, e) /\ val'[e.l1] = val[e.l1]
<1>1. e.l1 \in 1 .. Len(heap)
  BY DEF FrameFits, MainFits, Chain
<1>2. val'[e.l1] = val[e.l1]
  BY <1>1 DEF Grown, Grows
<1>3. MainDoes(val', e)
  BY <1>2 DEF Does, MainDoes
<1>4. Does(heap', val', e)
  BY <1>3 DEF Does
<1>5. Made(val', e) = Made(val, e)
  <2>1. \A x : Made(x, e) = Tails("strings", x[e.l1]) \cup UNION {Tails("chars", Argv[k]) : k \in e.i + 2 .. Len(Argv)}
    BY Zenon DEF Made
  <2> QED BY <1>2, <2>1
<1> QED BY <1>2, <1>4, <1>5

LEMMA CreateStringAnswers ==
  ASSUME ListInv, AnswerInv, CreateString
  PROVE  Refines
<1>1. stack # <<>> /\ Top.fn = "string" /\ Top.at = "loop" /\ Silent
  BY DEF CreateString, Running
<1> DEFINE f == Top
           v == f.in
<1>2. /\ FrameFits(heap, f) /\ Does(heap, val, f) /\ IsFrame(f) /\ StringFits(heap, f)
      /\ StringDoes(val, f) /\ Memory(heap, val)
      /\ stack = <<f>> \/ \E e : stack = <<e, f>>
  BY <1>1, OnTop DEF FrameFits, Does, ListInv
<1>3. f.l1 \in Chain(heap, "chars") /\ f.els \in Seq(Chars) /\ f.i \in -1 .. Len(f.els) - 1 /\ "chars" \in ListTypes
  BY <1>2 DEF StringFits, ListTypes
<1>4. f.els = v /\ IsRest(val[f.l1], v, f.i + 1)
  BY <1>2 DEF StringDoes
<1>5. printed' = printed /\ exited' = exited
  BY <1>1 DEF Silent
<1>6. Made(val, f) = Tails("chars", val[f.l1]) /\ MadeResumed(val, f) = Tails("chars", val[f.l1])
  BY <1>1, Zenon DEF MadeResumed, Made
<1>7. Says(val, f) = <<>> /\ Now(val, f) = <<>> /\ ~Waiting(f)
  BY <1>1, Quiet DEF Waiting
<1>8. \A e : stack = <<e, f>> => e.fn = "main" /\ e.at = "add"
  <2> SUFFICES ASSUME NEW e, stack = <<e, f>> PROVE e.fn = "main" /\ e.at = "add"
    OBVIOUS
  <2>1. f.fn = "string"
    BY <1>1
  <2> HIDE DEF f
  <2> QED BY <2>1, InnerRuns
<1>9. CASE f.i >= 0
  <2> DEFINE x == f.els[f.i + 1]
             g == [Top EXCEPT !.l1 = Fresh, !.i = @ - 1]
  <2>1. Add("chars", f.l1, x) /\ Goto(g)
    BY <1>9 DEF CreateString
  <2>2. g.fn = "string" /\ g.at = "loop" /\ g.ty = f.ty /\ g.l1 = Fresh /\ g.in = v /\ g.els = f.els /\ g.i = f.i - 1
    BY <1>1, <1>2 DEF IsFrame
  <2>0. f.fn = "string"
    BY <1>1
  <2> HIDE DEF f, g, v
  <2>3. f.i + 1 # 0 /\ (f.i + 1) - 1 = g.i + 1 /\ f.i + 1 \in 1 .. Len(f.els)
    BY <1>3, <1>9, <2>2
  <2>4. x \in Chars /\ x = v[f.i + 1]
    BY <1>3, <1>4, <2>3
  <2> HIDE DEF x
  <2>5. x \in Elements(heap, "chars") /\ StandsFor(val, "chars", x) = x
    BY <2>4 DEF Elements, StandsFor
  <2>6. Grown({<<"chars", val'[Fresh]>>}) /\ IsCons(val'[Fresh], x, val[f.l1])
    BY <1>3, <2>1, <2>5, AddGrows
  <2>7. IsRest(val'[Fresh], v, g.i + 1)
    <3>1. IsRest(val'[Fresh], v, (f.i + 1) - 1)
      BY <1>4, <2>3, <2>4, <2>6, RestBack
    <3> QED BY <2>3, <3>1
  <2>8. StringDoes(val', g)
    BY <1>4, <2>2, <2>7 DEF StringDoes
  <2>9. Does(heap', val', g) /\ ~Waiting(g) /\ SameCall(f, g)
    BY <2>0, <2>2, <2>8 DEF Does, Functions, Waiting, SameCall, v
  <2>10. Says(val', g) = <<>> /\ Made(val', g) = Tails("chars", val'[Fresh])
    <3>1. Made(val', g) = Tails("chars", val'[Fresh])
      BY <2>2, Zenon DEF Made
    <3> QED BY <2>2, <3>1, Quiet
  <2>11. Tails("chars", val'[Fresh]) = {<<"chars", val'[Fresh]>>} \cup Tails("chars", val[f.l1])
    BY <2>6, TailsCons
  <2>12. Made(val', g) = Made(val, f) \cup {<<"chars", val'[Fresh]>>}
    BY <1>6, <2>10, <2>11
  <2>13. CASE stack = <<f>>
    <3>1. printed' = <<>>
      BY <1>5, <1>7, <2>13, Alone
    <3>2. V0 \cup Made(val', g) = V0 \cup MadeResumed(val, f) \cup {<<"chars", val'[Fresh]>>}
      BY <1>6, <2>12
    <3>3. Stutters
      BY <1>5, <2>1, <2>6, <2>9, <2>10, <2>13, <3>1, <3>2, AloneGoes
    <3> QED BY <3>3 DEF Refines, Stutters
  <2>14. CASE \E e : stack = <<e, f>>
    <3>1. PICK e : stack = <<e, f>>
      BY <2>14
    <3>2. /\ Does(heap, val, e) /\ WaitsFor(heap, val, e, f) /\ FrameFits(heap, e)
          /\ printed = Says(val, e) \o Says(val, f)
      BY <3>1, Pair
    <3>3. e.fn = "main"
      BY <1>8, <3>1
    <3>4. Does(heap', val', e) /\ Made(val', e) = Made(val, e)
      BY <2>6, <3>2, <3>3, MainKept
    <3>5. WaitsFor(heap', val', e, f)
      BY <3>2, <3>3 DEF WaitsFor
    <3>6. printed' = Says(val', e) \o Says(val', g)
      <4>1. Says(val', e) = <<>> /\ Says(val, e) = <<>>
        BY <3>3, Quiet
      <4> QED BY <1>5, <1>7, <2>10, <3>2, <4>1
    <3>7. V0 \cup Made(val', e) \cup Made(val', g) = V0 \cup Made(val, e) \cup Made(val, f) \cup {<<"chars", val'[Fresh]>>}
      BY <2>12, <3>4
    <3>8. Stutters
      BY <1>5, <2>1, <2>6, <2>9, <3>1, <3>4, <3>5, <3>6, <3>7, PairGoes
    <3> QED BY <3>8 DEF Refines, Stutters
  <2> QED BY <1>2, <2>13, <2>14
<1>10. CASE ~(f.i >= 0)
  <2>1. ReturnNode(f.l1) /\ UNCHANGED memory
    BY <1>10 DEF CreateString
  <2>2. val[f.l1] = v
    <3>1. f.i + 1 = 0
      BY <1>3, <1>10
    <3> HIDE DEF v
    <3>2. IsRest(val[f.l1], v, 0)
      BY <1>4, <3>1
    <3>3. IsSeq(v)
      BY <3>2, RestFacts
    <3> QED BY <3>2, <3>3, RestStart
  <2>3. CASE stack = <<f>>
    <3>1. Tails("chars", val[f.l1]) \subseteq ListValuesOf!Parts("chars", val[f.l1])
      <4>1. PartsAreThere(heap, val)
        BY DEF AnswerInv
      <4> QED BY <1>2, <1>3, <4>1, PartsOf
    <3>2. AnswerInv' /\ Answers("string", Top.in, val[f.l1], <<>>, ListValuesOf!Parts("chars", val[f.l1])) /\ Asked(V0, Top)
      BY <1>1, <1>2, <1>3, <1>6, <2>1, <2>3, <3>1, PartsReturned
    <3>3. ListValuesOf!String(v)
      BY <2>2, <3>2 DEF ListValuesOf!String, Answers, ListValuesOf!Evaluates, V0, ValuesOf
    <3>4. v \in Literals
      BY <1>1, <3>2, Zenon DEF Asked
    <3>5. ListValuesOf!Next
      BY <3>3, <3>4 DEF ListValuesOf!Next
    <3> QED BY <3>2, <3>5 DEF Refines
  <2>4. CASE \E e : stack = <<e, f>>
    <3>1. PICK e : stack = <<e, f>>
      BY <2>4
    <3> HIDE DEF f
    <3>2. Does(heap, val, e) /\ WaitsFor(heap, val, e, f) /\ FrameFits(heap, e) /\ printed = Says(val, e) \o Says(val, f)
      BY <3>1, Pair
    <3>3. e.fn = "main" /\ e.at = "add"
      BY <1>8, <3>1
    <3>4. v = Argv[e.i + 1]
      BY <3>2, <3>3 DEF WaitsFor
    <3> DEFINE k == [e EXCEPT !.got = f.l1]
    <3>5. k.fn = "main" /\ k.got = f.l1 /\ k.i = e.i
      BY <3>2, <3>3 DEF FrameFits, IsFrame
    <3> HIDE DEF k, v
    <3>6. Resumed(heap, val, k)
      BY <2>2, <3>4, <3>5 DEF Resumed
    <3>7. printed' = SaysResumed(val, e)
      <4>1. Says(val, e) = <<>> /\ SaysResumed(val, e) = <<>>
        BY <3>3, Quiet
      <4>2. <<>> \o <<>> = <<>>
        BY EmptyIsSeq, ConcatEmpty
      <4> QED BY <1>5, <1>7, <3>2, <4>1, <4>2
    <3>8. Made(val, e) \cup Made(val, f) = MadeResumed(val, e)
      <4>1. MadeResumed(val, e) = Made(val, e) \cup Tails("chars", Argv[e.i + 1])
        BY <3>3, Zenon DEF MadeResumed
      <4> QED BY <1>6, <2>2, <3>4, <4>1
    <3>9. Return(f.l1, val[f.l1])
      BY <2>1 DEF ReturnNode
    <3>10. Stutters
      BY <1>5, <2>1, <3>1, <3>6, <3>7, <3>8, <3>9, PairReturns DEF k
    <3> QED BY <3>10 DEF Refines, Stutters
  <2> QED BY <1>2, <2>3, <2>4
<1> QED BY <1>9, <1>10

LEMMA MainMakes ==
  ASSUME NEW w, NEW f, f.fn = "main"
  PROVE  /\ Made(w, f) = Tails("strings", w[f.l1]) \cup UNION {Tails("chars", Argv[k]) : k \in f.i + 2 .. Len(Argv)}
         /\ f.at = "loop" => MadeResumed(w, f) = Made(w, f)
         /\ f.at = "add" => MadeResumed(w, f) = Made(w, f) \cup Tails("chars", Argv[f.i + 1])
<1>1. Made(w, f) = Tails("strings", w[f.l1]) \cup UNION {Tails("chars", Argv[k]) : k \in f.i + 2 .. Len(Argv)}
  BY Zenon DEF Made
<1>2. f.at = "loop" => MadeResumed(w, f) = Made(w, f)
  <2>1. "loop" # "add"
    OBVIOUS
  <2> QED BY <2>1, Zenon DEF MadeResumed
<1>3. f.at = "add" => MadeResumed(w, f) = Made(w, f) \cup Tails("chars", Argv[f.i + 1])
  BY Zenon DEF MadeResumed
<1> QED BY <1>1, <1>2, <1>3

LEMMA MainAnswers ==
  ASSUME ListInv, AnswerInv, Main
  PROVE  Refines
<1>1. stack # <<>> /\ Top.fn = "main" /\ Top.at = "loop" /\ Silent
  BY DEF Main, Running
<1>2. /\ FrameFits(heap, Top) /\ Does(heap, val, Top) /\ IsFrame(Top) /\ stack = <<Top>> /\ MainFits(heap, Top)
      /\ MainDoes(val, Top) /\ Memory(heap, val)
  BY <1>1, OnTop, OnlyOne DEF FrameFits, Does, ListInv
<1>3. Top.l1 \in Chain(heap, "strings") /\ Top.els \in Seq(Seq(Chars)) /\ Top.i \in -1 .. Len(Top.els) - 1
  BY <1>2 DEF MainFits
<1>4. Top.in = Argv /\ Top.els = Argv /\ IsRest(val[Top.l1], Argv, Top.i + 1)
  BY <1>2 DEF MainDoes
<1>5. Made(val, Top) = Tails("strings", val[Top.l1]) \cup UNION {Tails("chars", Argv[k]) : k \in Top.i + 2 .. Len(Argv)}
      /\ MadeResumed(val, Top) = Made(val, Top)
  BY <1>1, MainMakes
<1>6. Argv \in Seq(Seq(Chars)) /\ Len(Argv) \in Nat /\ IsSeq(Argv)
  BY ListsAssumption DEF IsSeq
<1>7. CASE Top.i >= 0
  <2> DEFINE text == Top.els[Top.i + 1]
             e == [Top EXCEPT !.at = "add"]
             g == StringFrame(text)
  <2>1. Empty("chars") /\ Call(e, g)
    BY <1>7 DEF Main
  <2>2. /\ e.fn = "main" /\ e.at = "add" /\ e.ty = Top.ty /\ e.l1 = Top.l1 /\ e.in = Top.in /\ e.els = Top.els
        /\ e.i = Top.i
    BY <1>1, <1>2 DEF IsFrame
  <2>3. g.fn = "string" /\ g.at = "loop" /\ g.l1 = Fresh /\ g.in = text /\ g.els = text /\ g.i = Len(text) - 1
    BY DEF StringFrame, Frame
  <2> HIDE DEF e, g
  <2>4. text \in Seq(Chars) /\ text = Argv[Top.i + 1]
    BY <1>3, <1>4, <1>7
  <2> HIDE DEF text
  <2>5. Grown({<<"chars", <<>> >>}) /\ val'[Fresh] = <<>>
    BY <2>1, EmptyGrows DEF ListTypes
  <2>6. Does(heap', val', Top) /\ Made(val', Top) = Made(val, Top) /\ val'[Top.l1] = val[Top.l1]
    BY <1>1, <1>2, <2>5, MainKept
  <2>7. MainDoes(val', e)
    BY <1>4, <2>2, <2>6 DEF MainDoes
  <2>8. StringDoes(val', g)
    <3>1. IsSeq(text) /\ g.i + 1 = Len(text)
      BY <2>3, <2>4 DEF IsSeq
    <3>2. IsRest(<<>>, text, Len(text))
      BY <3>1, RestEnd
    <3> QED BY <2>3, <2>5, <3>1, <3>2 DEF StringDoes
  <2>9. Does(heap', val', e) /\ Waiting(e) /\ SameCall(Top, e)
    BY <1>1, <2>2, <2>7 DEF Does, Functions, Waiting, SameCall
  <2>10. Does(heap', val', g)
    BY <2>3, <2>8 DEF Does, Functions
  <2>11. WaitsFor(heap', val', e, g)
    BY <2>2, <2>3, <2>4 DEF WaitsFor
  <2>12. Says(val', e) = <<>> /\ Says(val', g) = <<>> /\ Now(val, Top) = <<>>
    BY <1>1, <2>2, <2>3, Quiet
  <2>13. Says(val', e) \o Says(val', g) = Now(val, Top)
    BY <2>12, EmptyIsSeq, ConcatEmpty
  <2>14. Made(val', e) = Made(val, Top)
    <3>1. Made(val', e) = Tails("strings", val'[e.l1]) \cup UNION {Tails("chars", Argv[k]) : k \in e.i + 2 .. Len(Argv)}
      BY <2>2, MainMakes
    <3> QED BY <1>5, <2>2, <2>6, <3>1
  <2>15. Made(val', g) = {<<"chars", <<>> >>}
    <3>1. Made(val', g) = Tails("chars", val'[g.l1])
      BY <2>3, Zenon DEF Made
    <3>2. val'[g.l1] = <<>>
      BY <2>3, <2>5
    <3> QED BY <3>1, <3>2, TailsEmpty, Zenon
  <2> DEFINE new == {<<"chars", <<>> >>}
  <2>16. Grown(new) /\ V0 \cup Made(val', e) \cup Made(val', g) = V0 \cup MadeResumed(val, Top) \cup new
    BY <1>5, <2>5, <2>14, <2>15
  <2> HIDE DEF new
  <2>17. Stutters
    BY <1>1, <1>2, <2>1, <2>9, <2>10, <2>11, <2>13, <2>16, AloneCalls
  <2> QED BY <2>17 DEF Refines, Stutters
<1>8. CASE ~(Top.i >= 0)
  <2>1. ReturnNode(Top.l1) /\ UNCHANGED memory
    BY <1>8 DEF Main
  <2>2. Top.i = -1
    BY <1>3, <1>4, <1>6, <1>8
  <2>3. val[Top.l1] = Argv
    <3>1. IsRest(val[Top.l1], Argv, 0)
      <4>1. Top.i + 1 = 0
        BY <2>2
      <4> QED BY <1>4, <4>1
    <3> QED BY <1>6, <3>1, RestStart
  <2>4. MadeResumed(val, Top) = Tails("strings", Argv) \cup UNION {Tails("chars", Argv[k]) : k \in 1 .. Len(Argv)}
    <3>1. Top.i + 2 = 1
      BY <2>2
    <3> QED BY <1>5, <2>3, <3>1
  <2>5. ListValuesOf!Parts("strings", Argv) = MadeResumed(val, Top)
    <3>1. ListValuesOf!Parts("strings", Argv) = Tails("strings", Argv) \cup UNION {Tails("chars", Argv[k]) : k \in DOMAIN Argv}
      <4>1. "strings" # "tuple" /\ "strings" # "chars"
        OBVIOUS
      <4> QED BY <4>1, Zenon DEF ListValuesOf!Parts, Tails
    <3>2. DOMAIN Argv = 1 .. Len(Argv)
      BY <1>6
    <3> QED BY <2>4, <3>1, <3>2, Zenon
  <2>6. printed' = <<>> /\ exited' = exited /\ Return(Top.l1, Argv)
    <3>1. printed' = <<>> /\ exited' = exited
      BY <1>1, <1>2, Alone, Quiet DEF Silent
    <3>2. Return(Top.l1, val[Top.l1])
      BY <2>1 DEF ReturnNode
    <3> QED BY <2>3, <3>1, <3>2
  <2>7. AnswerInv' /\ Answers("main", Argv, Argv, <<>>, MadeResumed(val, Top))
    <3>1. AnswerInv' /\ Answers("main", Top.in, Argv, <<>>, MadeResumed(val, Top)) /\ Asked(V0, Top)
      BY <1>1, <1>2, <2>1, <2>6, TopReturns
    <3> QED BY <1>4, <3>1 DEF Answers
  <2>8. V0 = {}
    <3>1. known = 0
      BY <1>1, <1>2, Alone
    <3> QED BY <3>1 DEF V0, ValuesOf
  <2>9. ListValuesOf!Main
    <3> DEFINE new == MadeResumed(val, Top)
    <3>1. Answers("main", Argv, Argv, <<>>, new) /\ ListValuesOf!Parts("strings", Argv) = new
      BY <2>5, <2>7
    <3> HIDE DEF new
    <3> QED BY <2>8, <3>1 DEF ListValuesOf!Main, Answers, ListValuesOf!Evaluates, V0, ValuesOf
  <2> QED BY <2>7, <2>9 DEF Refines, ListValuesOf!Next
<1> QED BY <1>7, <1>8

LEMMA MainAddAnswers ==
  ASSUME ListInv, AnswerInv, MainAdd
  PROVE  Refines
<1>1. stack # <<>> /\ Top.fn = "main" /\ Top.at = "add" /\ Silent
  BY DEF MainAdd, Running
<1>2. /\ FrameFits(heap, Top) /\ Does(heap, val, Top) /\ IsFrame(Top) /\ stack = <<Top>> /\ MainFits(heap, Top)
      /\ MainDoes(val, Top) /\ Memory(heap, val)
  BY <1>1, OnTop, OnlyOne DEF FrameFits, Does, ListInv
<1>3. /\ Top.l1 \in Chain(heap, "strings") /\ Top.els \in Seq(Seq(Chars)) /\ Top.i \in -1 .. Len(Top.els) - 1
      /\ Top.i >= 0
  BY <1>1, <1>2 DEF MainFits
<1>4. Top.in = Argv /\ Top.els = Argv /\ IsRest(val[Top.l1], Argv, Top.i + 1)
  BY <1>2 DEF MainDoes
<1>5. val[Top.got] = Argv[Top.i + 1] /\ Waiting(Top)
  <2>1. Waiting(Top)
    BY <1>1 DEF Waiting
  <2>2. Resumed(heap, val, Top)
    BY <1>2, <2>1, Alone
  <2> QED BY <1>1, <2>1, <2>2 DEF Resumed
<1>6. Top.got \in Chain(heap, "chars")
  <2>1. PICK T : stack \in Seq(T)
    BY DEF ListInv, Frames, IsSeq
  <2>2. Len(stack) \in 1 .. Len(stack)
    BY <1>1, <2>1
  <2> QED BY <1>1, <2>2 DEF ListInv, Frames, WaitsForString, Top, Last
<1>7. Argv \in Seq(Seq(Chars)) /\ Len(Argv) \in Nat /\ IsSeq(Argv)
  BY ListsAssumption DEF IsSeq
<1>8. /\ Made(val, Top) = Tails("strings", val[Top.l1]) \cup UNION {Tails("chars", Argv[k]) : k \in Top.i + 2 .. Len(Argv)}
      /\ MadeResumed(val, Top) = Made(val, Top) \cup Tails("chars", Argv[Top.i + 1])
  BY <1>1, MainMakes
<1> DEFINE g == [Top EXCEPT !.l1 = Fresh, !.i = @ - 1, !.at = "loop"]
<1>9. Add("strings", Top.l1, Top.got) /\ Goto(g)
  BY DEF MainAdd
<1>10. /\ g.fn = "main" /\ g.at = "loop" /\ g.ty = Top.ty /\ g.l1 = Fresh /\ g.in = Top.in /\ g.els = Top.els
       /\ g.i = Top.i - 1
  BY <1>1, <1>2 DEF IsFrame
<1> HIDE DEF g
<1>11. Top.i + 1 # 0 /\ (Top.i + 1) - 1 = g.i + 1 /\ Top.i + 1 \in 1 .. Len(Argv) /\ g.i + 2 = Top.i + 1
  <2> DEFINE n == Len(Argv)
  <2>1. n \in Nat /\ Top.i \in -1 .. n - 1 /\ Top.i >= 0 /\ g.i = Top.i - 1
    BY <1>3, <1>4, <1>7, <1>10
  <2> HIDE DEF n
  <2>2. Top.i + 1 # 0 /\ (Top.i + 1) - 1 = g.i + 1 /\ Top.i + 1 \in 1 .. n /\ g.i + 2 = Top.i + 1
    BY <2>1
  <2> QED BY <2>2 DEF n
<1>12. Top.got \in Elements(heap, "strings") /\ StandsFor(val, "strings", Top.got) = Argv[Top.i + 1] /\ "strings" \in ListTypes
  BY <1>5, <1>6 DEF Elements, StandsFor, ListTypes
<1>13. Grown({<<"strings", val'[Fresh]>>}) /\ IsCons(val'[Fresh], Argv[Top.i + 1], val[Top.l1])
  <2>1. Grown({<<"strings", val'[Fresh]>>}) /\ IsCons(val'[Fresh], StandsFor(val, "strings", Top.got), val[Top.l1])
    BY <1>3, <1>9, <1>12, AddGrows
  <2> QED BY <1>12, <2>1
<1>14. IsRest(val'[Fresh], Argv, g.i + 1)
  <2>1. IsRest(val'[Fresh], Argv, (Top.i + 1) - 1)
    BY <1>4, <1>11, <1>13, RestBack
  <2> QED BY <1>11, <2>1
<1>15. MainDoes(val', g)
  BY <1>4, <1>10, <1>14 DEF MainDoes
<1>16. Does(heap', val', g) /\ ~Waiting(g) /\ SameCall(Top, g)
  BY <1>1, <1>10, <1>15 DEF Does, Functions, Waiting, SameCall
<1>17. printed' = <<>> /\ exited' = exited /\ Says(val', g) = <<>>
  BY <1>1, <1>2, <1>10, Alone, Quiet DEF Silent
<1>18. V0 \cup Made(val', g) = V0 \cup MadeResumed(val, Top) \cup {<<"strings", val'[Fresh]>>}
  <2>1. Made(val', g) = Tails("strings", val'[Fresh]) \cup UNION {Tails("chars", Argv[k]) : k \in Top.i + 1 .. Len(Argv)}
    <3>1. Made(val', g) = Tails("strings", val'[g.l1]) \cup UNION {Tails("chars", Argv[k]) : k \in g.i + 2 .. Len(Argv)}
      BY <1>10, MainMakes
    <3> QED BY <1>10, <1>11, <3>1
  <2>2. Tails("strings", val'[Fresh]) = {<<"strings", val'[Fresh]>>} \cup Tails("strings", val[Top.l1])
    BY <1>13, TailsCons
  <2>3. Top.i + 1 .. Len(Argv) = {Top.i + 1} \cup (Top.i + 2 .. Len(Argv))
    BY <1>3, <1>4, <1>7
  <2>4. UNION {Tails("chars", Argv[k]) : k \in Top.i + 1 .. Len(Argv)}
        = Tails("chars", Argv[Top.i + 1]) \cup UNION {Tails("chars", Argv[k]) : k \in Top.i + 2 .. Len(Argv)}
    BY <2>3
  <2> QED BY <1>8, <2>1, <2>2, <2>4
<1>19. Stutters
  BY <1>2, <1>9, <1>13, <1>16, <1>17, <1>18, AloneGoes
<1> QED BY <1>19 DEF Refines, Stutters

-----------------------------------------------------------------------------
(* Printing. *)

\* With the text of the next element, one element more has been printed.
LEMMA ElementPrinted ==
  ASSUME ListInv, AnswerInv, NEW f, FrameFits(heap, f), Does(heap, val, f), f.fn = "print", f.at # "entry",
         heap[f.l1].length # 0
  PROVE  LET p == Passed(val, f) IN
         /\ Says(val, f) \o ListValuesOf!ElementText(f.ty, f.in[p + 1]) = UpTo(f, p + 1)
         /\ IsSeq(UpTo(f, p + 1)) /\ IsSeq(ListValuesOf!ElementText(f.ty, f.in[p + 1])) /\ SaysResumed(val, f) = UpTo(f, p + 1)
<1> DEFINE p == Passed(val, f)
           n == Len(f.in)
           text == ListValuesOf!ElementText(f.ty, f.in[p + 1])
<1>1. Printable(f) /\ n \in Nat /\ p \in 0 .. n /\ p + 1 \in 1 .. n
  BY PrintFacts
<1>2. p \in 0 .. n - 1 /\ p + 1 \in 0 .. n /\ p + 1 \in DOMAIN f.in
  <2>1. DOMAIN f.in = 1 .. n
    BY <1>1, SeqIs DEF Printable
  <2> HIDE DEF p, n
  <2> QED BY <1>1, <2>1
<1>3. Texts(f)[p + 1] = text
  BY <1>2 DEF Texts
<1>4. UpTo(f, p + 1) = (UpTo(f, p) \o Comma(f, p)) \o Texts(f)[p + 1]
  BY <1>1, <1>2, UpToFacts
<1>5. Says(val, f) = UpTo(f, p) \o Comma(f, p)
  BY Zenon DEF Says, PrintSays, Comma
<1>6. IsSeq(UpTo(f, p + 1))
  BY <1>1, <1>2, UpToFacts
<1>7. IsSeq(text)
  <2>1. AreSeqs(Texts(f)) /\ Len(Texts(f)) = n
    BY <1>1, TextsAre
  <2> QED BY <1>1, <1>3, <2>1 DEF AreSeqs
<1>8. SaysResumed(val, f) = UpTo(f, p + 1)
  BY Zenon DEF SaysResumed
<1>9. Says(val, f) \o text = UpTo(f, p + 1)
  BY <1>3, <1>4, <1>5, Zenon
<1> QED BY <1>6, <1>7, <1>8, <1>9

LEMMA PrintStringFrameDoes ==
  ASSUME Memory(heap, val), NEW l \in Chain(heap, "chars"), NEW is_top, NEW g, g = PrintStringFrame(l, is_top, val[l])
  PROVE  Does(heap, val, g) /\ g.fn = "print_string" /\ g.l2 = is_top /\ g.in = val[l]
<1>1. g.fn = "print_string" /\ g.l2 = is_top /\ g.in = val[l] /\ g.l1 = l /\ g.els = <<>> /\ g.at = "loop"
  BY DEF PrintStringFrame, Frame
<1>2. IsSeq(val[l])
  BY Listed DEF ListTypes
<1>3. IsRest(val[l], val[l], 0)
  BY <1>2, RestStart
<1>4. Len(g.els) = 0
  BY <1>1, EmptyIsSeq
<1>5. PrintStringDoes(val, g)
  <2>1. IsRest(val[g.l1], g.in, Len(g.els))
    BY <1>1, <1>3, <1>4
  <2>2. \A k \in 1 .. Len(g.els) : g.els[k] = g.in[k]
    BY <1>4
  <2> QED BY <1>1, <2>1, <2>2 DEF PrintStringDoes
<1> QED BY <1>1, <1>5 DEF Does, Functions

\* A text that a print waits for has been printed.
LEMMA TextReturned ==
  ASSUME ListInv, AnswerInv, NEW e, NEW f, stack = <<e, f>>, NEW n, ReturnNode(n), UNCHANGED memory, UNCHANGED exited,
         e.fn \in {"print", "print_tuple"}, NEW text, printed' = Says(val, e) \o text,
         e.fn = "print" => text = ListValuesOf!ElementText(e.ty, e.in[Passed(val, e) + 1]),
         e.fn = "print_tuple" => text = StringText(e.in[2], FALSE)
  PROVE  Refines
<1>1. Does(heap, val, e) /\ FrameFits(heap, e) /\ f.fn \in {"print", "print_string"} /\ e.at = "next"
  BY Pair, InnerRuns
<1>2. printed' = SaysResumed(val, e)
  <2>1. CASE e.fn = "print"
    <3>1. heap[e.l1].length # 0 /\ e.at # "entry"
      BY <1>1, <2>1 DEF FrameFits, PrintFits
    <3>2. Says(val, e) \o ListValuesOf!ElementText(e.ty, e.in[Passed(val, e) + 1]) = SaysResumed(val, e)
      BY <1>1, <2>1, <3>1, ElementPrinted
    <3> QED BY <2>1, <3>2
  <2>2. CASE e.fn = "print_tuple"
    <3>1. Says(val, e) = PrintTupleSays(e) /\ SaysResumed(val, e) = PrintTupleSays(e) \o StringText(e.in[2], FALSE)
      BY <2>2, Zenon DEF Says, SaysResumed
    <3> QED BY <2>2, <3>1
  <2> QED BY <2>1, <2>2
<1> DEFINE k == [e EXCEPT !.got = n]
<1>3. k.fn = e.fn
  BY <1>1 DEF FrameFits, IsFrame
<1> HIDE DEF k
<1>4. Resumed(heap, val, k)
  BY <1>3 DEF Resumed
<1>5. Made(val, e) = {} /\ Made(val, f) = {} /\ MadeResumed(val, e) = {}
  BY <1>1, MakesNothing
<1>6. Made(val, e) \cup Made(val, f) = MadeResumed(val, e)
  BY <1>5
<1>7. Return(n, val[n])
  BY DEF ReturnNode
<1>8. Stutters
  BY <1>2, <1>4, <1>6, <1>7, PairReturns DEF k
<1> QED BY <1>8 DEF Refines, Stutters

LEMMA PrintStringAnswers ==
  ASSUME ListInv, AnswerInv, PrintString
  PROVE  Refines
<1> DEFINE f == Top
           v == f.in
<1>1. stack # <<>> /\ f.fn = "print_string" /\ f.at = "loop" /\ UNCHANGED memory
  BY DEF PrintString, Running
<1>2. /\ FrameFits(heap, f) /\ Does(heap, val, f) /\ IsFrame(f) /\ PrintStringFits(heap, f)
      /\ PrintStringDoes(val, f) /\ Memory(heap, val)
      /\ stack = <<f>> \/ \E e : stack = <<e, f>>
  BY <1>1, OnTop DEF FrameFits, Does, ListInv
<1>3. f.l1 \in Chain(heap, "chars") /\ f.els \in Seq(Chars) /\ "chars" \in ListTypes
  BY <1>2 DEF PrintStringFits, ListTypes
<1>4. IsRest(val[f.l1], v, Len(f.els)) /\ \A k \in 1 .. Len(f.els) : f.els[k] = v[k]
  BY <1>2 DEF PrintStringDoes
<1>5. IsSeq(f.els) /\ Len(f.els) \in Nat /\ IsSeq(v) /\ Len(v) \in Nat /\ Len(val[f.l1]) = Len(v) - Len(f.els)
  BY <1>3, <1>4, RestFacts, SeqIs DEF IsSeq
<1>6. heap[f.l1].length = Len(val[f.l1]) /\ Len(val[f.l1]) \in Nat
  BY <1>2, <1>3, Listed
<1>7. ~Waiting(f) /\ Says(val, f) = <<>> /\ Now(val, f) = <<>>
  BY <1>1, Quiet DEF Waiting
<1>8. CASE heap[f.l1].length > 0
  <2> DEFINE x == heap[f.l1].value
             n == heap[f.l1].next
             g == [Top EXCEPT !.els = Append(@, heap[Top.l1].value), !.l1 = heap[@].next]
  <2>1. Goto(g) /\ Silent
    BY <1>8 DEF PrintString
  <2>2. /\ g.fn = "print_string" /\ g.at = "loop" /\ g.ty = f.ty /\ g.l1 = n /\ g.l2 = f.l2 /\ g.in = v
        /\ g.els = Append(f.els, x)
    BY <1>1, <1>2 DEF IsFrame
  <2> HIDE DEF g
  <2>3. heap[f.l1].length # 0
    BY <1>8
  <2>4. IsCons(val[f.l1], x, val[n])
    <3>1. IsCons(val[f.l1], StandsFor(val, "chars", x), val[n])
      BY <1>2, <1>3, <2>3, Listed
    <3> QED BY <3>1 DEF StandsFor
  <2>0. f.fn = "print_string"
    BY <1>1
  <2> HIDE DEF f, v, x, n
  <2>5. IsRest(val[n], v, Len(f.els) + 1) /\ v[Len(f.els) + 1] = x
    BY <1>4, <2>4, RestStep
  <2>6. Len(g.els) = Len(f.els) + 1 /\ g.els[Len(f.els) + 1] = x /\ \A k \in 1 .. Len(f.els) : g.els[k] = f.els[k]
    BY <1>5, <2>2, AppendSeq
  <2>7. ASSUME NEW k \in 1 .. Len(g.els) PROVE g.els[k] = v[k]
    <3>1. k \in 1 .. Len(f.els) \/ k = Len(f.els) + 1
      BY <1>5, <2>6
    <3> QED BY <1>4, <2>5, <2>6, <3>1
  <2>8. PrintStringDoes(val, g)
    BY <2>2, <2>5, <2>6, <2>7 DEF PrintStringDoes
  <2>9. Does(heap, val, g) /\ ~Waiting(g) /\ SameCall(f, g)
    BY <2>0, <2>2, <2>8 DEF Does, Functions, Waiting, SameCall, v
  <2>10. Says(val, g) = Says(val, f) /\ Made(val, g) = Made(val, f)
    BY <1>7, <2>0, <2>2, Quiet, MakesNothing
  <2>11. Stutters
    BY <1>1, <1>7, <2>1, <2>9, <2>10, GoesOnSilently DEF f
  <2> QED BY <2>11 DEF Refines, Stutters
<1>9. CASE ~(heap[f.l1].length > 0)
  <2>1. Prints(StringText(f.els, f.l2)) /\ ReturnNode(f.l1)
    BY <1>9 DEF PrintString
  <2>2. printed' = printed \o StringText(f.els, f.l2) /\ exited' = exited
    BY <2>1 DEF Prints
  <2>0. f.fn = "print_string"
    BY <1>1
  <2>3. f.els = v /\ val[f.l1] = <<>>
    <3> HIDE DEF f, v
    <3>1. Len(f.els) = Len(v) /\ heap[f.l1].length = 0
      <4> DEFINE a == Len(f.els)
                 b == Len(v)
                 c == heap[f.l1].length
      <4>1. a \in Nat /\ b \in Nat /\ c \in Nat /\ c = b - a /\ ~(c > 0)
        BY <1>5, <1>6, <1>9
      <4> HIDE DEF a, b, c
      <4>2. a = b /\ c = 0
        BY <4>1
      <4> QED BY <4>2 DEF a, b, c
    <3>2. val[f.l1] = <<>>
      BY <1>2, <1>3, <3>1, Listed
    <3> QED BY <1>4, <1>5, <3>1, <3>2, SameSeq
  <2>4. CASE stack = <<f>>
    <3>1. f.l2 = TRUE /\ <<"chars", v>> \in V0
      <4>1. Asked(V0, f)
        BY <2>4, Alone
      <4> QED BY <2>0, <4>1 DEF Asked
    <3>2. printed' = v
      <4>1. printed = <<>>
        BY <1>7, <2>4, Alone
      <4>2. StringText(f.els, f.l2) = v
        BY <2>3, <3>1, Zenon DEF StringText
      <4> QED BY <1>5, <2>2, <4>1, <4>2, ConcatEmpty
    <3>3. AnswerInv' /\ Answers("print_string", Top.in, <<>>, v, {}) /\ Asked(V0, Top)
      <4>1. Return(Top.l1, <<>>) /\ MadeResumed(val, Top) = {}
        BY <2>0, <2>1, <2>3, MakesNothing DEF ReturnNode
      <4> QED BY <1>1, <2>0, <2>2, <2>4, <3>2, <4>1, TopReturns
    <3>4. ListValuesOf!PrintString(v)
      BY <3>3 DEF ListValuesOf!PrintString, Answers, ListValuesOf!Evaluates, V0, ValuesOf
    <3>5. v \in ListValuesOf!Of("chars")
      BY <3>1, OfIs
    <3> QED BY <3>3, <3>4, <3>5 DEF Refines, ListValuesOf!Next
  <2>5. CASE \E e : stack = <<e, f>>
    <3>1. PICK e : stack = <<e, f>>
      BY <2>5
    <3> HIDE DEF f
    <3>2. /\ Does(heap, val, e) /\ WaitsFor(heap, val, e, f) /\ FrameFits(heap, e)
          /\ printed = Says(val, e) \o Says(val, f)
      BY <3>1, Pair
    <3>3. f.l2 = FALSE /\ e.at = "next" /\ (e.fn = "print_tuple" \/ (e.fn = "print" /\ e.ty = "strings"))
      BY <2>0, <3>1, InnerRuns
    <3> DEFINE text == StringText(v, FALSE)
    <3>4. printed' = Says(val, e) \o text
      <4>1. printed = Says(val, e)
        BY <1>7, <3>2, SaysSeq, ConcatEmpty
      <4>2. StringText(f.els, f.l2) = text
        BY <2>3, <3>3
      <4> QED BY <2>2, <4>1, <4>2
    <3>5. e.fn = "print_tuple" => v = e.in[2]
      BY <3>2, <3>3 DEF WaitsFor
    <3>6. ASSUME e.fn = "print" PROVE text = ListValuesOf!ElementText(e.ty, e.in[Passed(val, e) + 1])
      <4>1. v = Value1(heap, val, e) /\ e.ty = "strings"
        BY <3>2, <3>3, <3>6 DEF WaitsFor
      <4>2. heap[e.l1].length # 0
        BY <3>2, <3>3, <3>6 DEF FrameFits, PrintFits
      <4>3. e.in[Passed(val, e) + 1] = StandsFor(val, e.ty, heap[e.l1].value)
        BY <3>2, <3>6, <4>2, PrintFacts
      <4>4. v = e.in[Passed(val, e) + 1]
        BY <4>1, <4>3 DEF Value1, StandsFor
      <4> HIDE DEF v
      <4>5. text = <<"\"">> \o v \o <<"\"">>
        BY Zenon DEF StringText
      <4>6. "strings" # "chars"
        OBVIOUS
      <4>7. ListValuesOf!ElementText(e.ty, v) = <<"\"">> \o v \o <<"\"">>
        BY <4>1, <4>6, Zenon DEF ListValuesOf!ElementText
      <4> QED BY <4>4, <4>5, <4>7, Zenon
    <3>7. e.fn = "print_tuple" => text = StringText(e.in[2], FALSE)
      BY <3>5
    <3> HIDE DEF text
    <3> QED BY <1>1, <2>1, <2>2, <3>1, <3>3, <3>4, <3>6, <3>7, TextReturned
  <2> QED BY <1>2, <2>4, <2>5
<1> QED BY <1>8, <1>9

\* gprint_list has come to the next node of its list.
LEMMA NextNodeDoes ==
  ASSUME ListInv, AnswerInv, stack # <<>>, Top.fn = "print", Top.at \in {"loop", "next"}, heap[Top.l1].length # 0,
         NEW g, g.fn = "print", g.at = "loop", g.ty = Top.ty, g.l1 = heap[Top.l1].next, g.l2 = Top.l2, g.in = Top.in
  PROVE  /\ Does(heap, val, g) /\ ~Waiting(g) /\ SameCall(Top, g)
         /\ Says(val, g) = UpTo(Top, Passed(val, Top) + 1) \o Comma(Top, Passed(val, Top) + 1)
         /\ heap[heap[Top.l1].next].length > 0 <=> Passed(val, Top) + 1 \in 1 .. Len(Top.in) - 1
         /\ Made(val, g) = {} /\ MadeResumed(val, Top) = {} /\ Made(val, Top) = {}
<1> DEFINE p == Passed(val, Top)
           n == Len(Top.in)
           next == heap[Top.l1].next
           m == heap[next].length
<1>1. FrameFits(heap, Top) /\ Does(heap, val, Top) /\ IsFrame(Top)
  BY OnTop DEF FrameFits
<1>2. /\ n \in Nat /\ p \in 0 .. n /\ heap[Top.l1].length = n - p /\ Top.l2 \in Chain(heap, Top.ty) /\ val[Top.l2] = Top.in
      /\ m = heap[Top.l1].length - 1 /\ IsRest(val[next], Top.in, p + 1) /\ Len(val[next]) = n - (p + 1) /\ p + 1 \in 1 .. n
  BY <1>1, PrintFacts
<1>3. /\ g.fn = "print" /\ g.at = "loop" /\ g.ty = Top.ty /\ g.l1 = next /\ g.l2 = Top.l2 /\ g.in = Top.in
  OBVIOUS
<1> HIDE DEF p, next
<1>4. p + 1 \in Nat
  BY <1>2
<1>5. PrintDoes(heap, val, g)
  BY <1>2, <1>3, <1>4 DEF PrintDoes
<1>6. Does(heap, val, g) /\ ~Waiting(g) /\ SameCall(Top, g)
  BY <1>3, <1>5 DEF Does, Functions, Waiting, SameCall
<1>7. Passed(val, g) = p + 1
  <2> DEFINE c == Len(val[next])
  <2>1. Passed(val, g) = n - c
    BY <1>3 DEF Passed
  <2>2. c = n - (p + 1) /\ n \in Nat /\ p \in 0 .. n
    BY <1>2
  <2> HIDE DEF c, n
  <2>3. \A q \in 0 .. n : n - (n - (q + 1)) = q + 1
    BY <2>2
  <2>4. n - c = p + 1
    BY <2>2, <2>3
  <2> QED BY <2>1, <2>4, Zenon
<1>8. Says(val, g) = UpTo(Top, p + 1) \o Comma(Top, p + 1)
  <2>1. Says(val, g) = UpTo(g, Passed(val, g)) \o Comma(g, Passed(val, g))
    BY <1>3, Zenon DEF Says, PrintSays, Comma
  <2>2. Says(val, g) = UpTo(g, p + 1) \o Comma(g, p + 1)
    BY <1>7, <2>1, Zenon
  <2>3. UpTo(g, p + 1) = UpTo(Top, p + 1) /\ Comma(g, p + 1) = Comma(Top, p + 1)
    BY <1>3, UpToSame, Zenon
  <2> QED BY <2>2, <2>3, Zenon
<1>9. m > 0 <=> p + 1 \in 1 .. n - 1
  <2>1. n \in Nat /\ p \in 0 .. n /\ m = (n - p) - 1 /\ p + 1 \in 1 .. n
    BY <1>2
  <2> HIDE DEF n, m
  <2> QED BY <2>1
<1>10. Made(val, g) = {} /\ MadeResumed(val, Top) = {} /\ Made(val, Top) = {}
  BY <1>3, MakesNothing
<1> QED BY <1>6, <1>8, <1>9, <1>10 DEF p, next

LEMMA PrintNextDoes ==
  ASSUME ListInv, AnswerInv, stack # <<>>, Top.fn = "print", Top.at \in {"loop", "next"}, heap[Top.l1].length # 0,
         NEW g, g = [Top EXCEPT !.l1 = heap[Top.l1].next, !.at = "loop"]
  PROVE  /\ Does(heap, val, g) /\ ~Waiting(g) /\ SameCall(Top, g)
         /\ Says(val, g) = UpTo(Top, Passed(val, Top) + 1) \o Comma(Top, Passed(val, Top) + 1)
         /\ heap[heap[Top.l1].next].length > 0 <=> Passed(val, Top) + 1 \in 1 .. Len(Top.in) - 1
         /\ Made(val, g) = {} /\ MadeResumed(val, Top) = {} /\ Made(val, Top) = {}
<1>1. IsFrame(Top)
  BY OnTop DEF FrameFits
<1>2. /\ g.fn = "print" /\ g.at = "loop" /\ g.ty = Top.ty
      /\ g.l1 = heap[Top.l1].next /\ g.l2 = Top.l2 /\ g.in = Top.in
  BY <1>1 DEF IsFrame
<1> QED BY <1>2, NextNodeDoes, Zenon

LEMMA PrintFrameDoes ==
  ASSUME Memory(heap, val), NEW ty \in ListTypes, NEW l \in Chain(heap, ty), NEW g, g = PrintFrame(ty, l, val[l])
  PROVE  Does(heap, val, g) /\ g.fn = "print" /\ g.at = "entry" /\ g.ty = ty /\ g.in = val[l] /\ Says(val, g) = <<>>
<1>1. g.fn = "print" /\ g.in = val[l] /\ g.l1 = l /\ g.l2 = l /\ g.ty = ty /\ g.at = "entry"
  BY DEF PrintFrame, Frame
<1>2. IsRest(val[l], val[l], 0)
  BY Listed, RestStart
<1>3. PrintDoes(heap, val, g)
  BY <1>1, <1>2 DEF PrintDoes
<1>4. Says(val, g) = <<>>
  BY <1>1, Zenon DEF Says, PrintSays
<1> QED BY <1>1, <1>3, <1>4 DEF Does, Functions

LEMMA PrintOpenAnswers ==
  ASSUME ListInv, AnswerInv, PrintOpen
  PROVE  Refines
<1>1. stack # <<>> /\ Top.fn = "print" /\ Top.at = "entry" /\ UNCHANGED memory /\ printed' = printed \o <<"[">>
      /\ UNCHANGED exited
  BY DEF PrintOpen, Running, Prints
<1>2. FrameFits(heap, Top) /\ Does(heap, val, Top) /\ IsFrame(Top) /\ PrintDoes(heap, val, Top)
  BY <1>1, OnTop DEF FrameFits, Does
<1> DEFINE g == [Top EXCEPT !.at = "loop"]
<1>3. Goto(g)
  BY DEF PrintOpen
<1>4. g.fn = "print" /\ g.at = "loop" /\ g.ty = Top.ty /\ g.l1 = Top.l1 /\ g.l2 = Top.l2 /\ g.in = Top.in
  BY <1>1, <1>2 DEF IsFrame
<1> HIDE DEF g
<1>5. PrintDoes(heap, val, g)
  BY <1>2, <1>4 DEF PrintDoes
<1>6. Does(heap, val, g) /\ ~Waiting(g) /\ SameCall(Top, g) /\ ~Waiting(Top)
  BY <1>1, <1>4, <1>5 DEF Does, Functions, Waiting, SameCall
<1>7. Says(val, g) = Says(val, Top) \o <<"[">>
  <2>1. IsRest(val[Top.l1], Top.in, 0) /\ Printable(Top) /\ Len(Top.in) \in Nat
    BY <1>1, <1>2, PrintFacts DEF PrintDoes
  <2>2. Passed(val, g) = 0
    <3>1. val[Top.l1] = Top.in
      BY <2>1, RestStart DEF Printable
    <3>2. Passed(val, g) = Len(Top.in) - Len(Top.in)
      BY <1>4, <3>1, Zenon DEF Passed
    <3> QED BY <2>1, <3>2
  <2>3. Says(val, g) = UpTo(g, 0) \o Comma(g, 0)
    BY <1>4, <2>2, Zenon DEF Says, PrintSays, Comma
  <2>4. UpTo(g, 0) = <<"[">> /\ Comma(g, 0) = <<>>
    <3>1. Printable(g)
      BY <1>4, <2>1 DEF Printable
    <3>2. 0 \notin 1 .. Len(g.in) - 1
      OBVIOUS
    <3>3. Comma(g, 0) = <<>>
      BY <3>2, Zenon DEF Comma
    <3> QED BY <3>1, <3>3, UpToFacts
  <2>5. Says(val, Top) = <<>>
    BY <1>1, Zenon DEF Says, PrintSays
  <2>6. Says(val, g) = <<"[">>
    BY <2>3, <2>4, OneIsSeq, ConcatEmpty
  <2>7. Says(val, Top) \o <<"[">> = <<"[">>
    BY <2>5, OneIsSeq, ConcatEmpty
  <2> QED BY <2>6, <2>7
<1>8. Made(val, g) = {} /\ Made(val, Top) = {}
  BY <1>1, <1>4, MakesNothing
<1>9. Stutters
  BY <1>1, <1>3, <1>6, <1>7, <1>8, OneIsSeq, GoesOnSame
<1> QED BY <1>9 DEF Refines, Stutters

LEMMA PrintedElementAnswers ==
  ASSUME ListInv, AnswerInv, PrintedElement
  PROVE  Refines
<1>1. stack # <<>> /\ Top.fn = "print" /\ Top.at = "next" /\ UNCHANGED memory /\ PrintNext(Top.l1, <<>>)
  BY DEF PrintedElement, Running
<1>2. FrameFits(heap, Top) /\ Does(heap, val, Top) /\ stack = <<Top>> /\ heap[Top.l1].length # 0 /\ Waiting(Top)
  BY <1>1, OnTop, OnlyOne DEF FrameFits, PrintFits, Waiting
<1> DEFINE g == [Top EXCEPT !.l1 = heap[Top.l1].next, !.at = "loop"]
           p == Passed(val, Top)
           comma == IF heap[heap[Top.l1].next].length > 0 THEN <<", ">> ELSE <<>>
<1>3. Goto(g) /\ printed' = printed \o (<<>> \o comma) /\ UNCHANGED exited
  BY <1>1, Zenon DEF PrintNext, Prints
<1>4. /\ Does(heap, val, g) /\ ~Waiting(g) /\ SameCall(Top, g)
      /\ Says(val, g) = UpTo(Top, p + 1) \o Comma(Top, p + 1)
      /\ heap[heap[Top.l1].next].length > 0 <=> p + 1 \in 1 .. Len(Top.in) - 1
      /\ Made(val, g) = {} /\ MadeResumed(val, Top) = {}
  BY <1>1, <1>2, PrintNextDoes
<1> HIDE DEF g
<1>5. comma = Comma(Top, p + 1) /\ IsSeq(comma)
  <2>1. comma = Comma(Top, p + 1)
    BY <1>4, Zenon DEF Comma
  <2>2. comma = <<>> \/ comma = <<", ">>
    BY Zenon
  <2> HIDE DEF comma
  <2> QED BY <2>1, <2>2, EmptyIsSeq, OneIsSeq
<1> HIDE DEF comma
<1>6. <<>> \o comma = comma
  BY <1>5, ConcatEmpty
<1>7. printed = UpTo(Top, p + 1)
  <2>1. printed = Now(val, Top)
    BY <1>2, Alone
  <2>2. Now(val, Top) = UpTo(Top, p + 1)
    BY <1>1, <1>2, Zenon DEF Now, SaysResumed
  <2> QED BY <2>1, <2>2
<1>8. printed' = Says(val, g)
  BY <1>3, <1>4, <1>5, <1>6, <1>7, Zenon
<1>9. Grown({}) /\ heap' = heap /\ val' = val
  BY <1>1, SameMemory
<1>10. Stutters
  BY <1>2, <1>3, <1>4, <1>8, <1>9, AloneGoes
<1> QED BY <1>10 DEF Refines, Stutters

LEMMA PrintElementAnswers ==
  ASSUME ListInv, AnswerInv, PrintElement
  PROVE  Refines
<1>1. stack # <<>> /\ Top.fn = "print" /\ Top.at = "loop" /\ UNCHANGED memory /\ heap[Top.l1].length # 0
  BY DEF PrintElement, Running
<1>2. FrameFits(heap, Top) /\ Does(heap, val, Top) /\ IsFrame(Top) /\ Memory(heap, val) /\ PrintDoes(heap, val, Top)
      /\ ~Waiting(Top)
  BY <1>1, OnTop DEF FrameFits, ListInv, Does, Waiting
<1> DEFINE v == heap[Top.l1].value
           p == Passed(val, Top)
           e == [Top EXCEPT !.at = "next"]
<1>3. /\ Top.ty \in ListTypes /\ v \in Elements(heap, Top.ty) /\ Top.in[p + 1] = StandsFor(val, Top.ty, v)
      /\ Printable(Top)
  BY <1>1, <1>2, PrintFacts
<1>4. /\ Element[Top.ty] = "CHAR" => PrintNext(Top.l1, CharText(v, FALSE))
      /\ Element[Top.ty] = "STRING" => Call(e, PrintStringFrame(v, FALSE, val[v])) /\ Silent
      /\ Element[Top.ty] = "LIST" => Call(e, PrintFrame("chars", v, val[v])) /\ Silent
  BY DEF PrintElement
<1>5. CASE Top.ty = "chars"
  <2> DEFINE g == [Top EXCEPT !.l1 = heap[Top.l1].next, !.at = "loop"]
             comma == IF heap[heap[Top.l1].next].length > 0 THEN <<", ">> ELSE <<>>
             text == CharText(v, FALSE)
  <2>1. PrintNext(Top.l1, text)
    <3>1. Element[Top.ty] = "CHAR"
      BY <1>5 DEF Element
    <3> QED BY <1>4, <3>1
  <2>2. Goto(g) /\ printed' = printed \o (text \o comma) /\ UNCHANGED exited
    BY <2>1, Zenon DEF PrintNext, Prints
  <2>3. /\ Does(heap, val, g) /\ ~Waiting(g) /\ SameCall(Top, g)
        /\ Says(val, g) = UpTo(Top, p + 1) \o Comma(Top, p + 1)
        /\ heap[heap[Top.l1].next].length > 0 <=> p + 1 \in 1 .. Len(Top.in) - 1
        /\ Made(val, g) = {} /\ Made(val, Top) = {}
    BY <1>1, PrintNextDoes
  <2>4. /\ Says(val, Top) \o ListValuesOf!ElementText(Top.ty, Top.in[p + 1]) = UpTo(Top, p + 1)
        /\ IsSeq(ListValuesOf!ElementText(Top.ty, Top.in[p + 1]))
    BY <1>1, <1>2, ElementPrinted
  <2>5. text = ListValuesOf!ElementText(Top.ty, Top.in[p + 1])
    <3>1. Top.in[p + 1] = v
      BY <1>3, <1>5 DEF StandsFor
    <3>2. ListValuesOf!ElementText(Top.ty, v) = <<"'", v, "'">>
      BY <1>5, Zenon DEF ListValuesOf!ElementText, ListValuesOf!CharText
    <3>3. text = <<"'", v, "'">>
      BY Zenon DEF CharText
    <3> HIDE DEF text, v, p
    <3> QED BY <3>1, <3>2, <3>3
  <2>6. comma = Comma(Top, p + 1) /\ IsSeq(comma)
    <3>1. comma = Comma(Top, p + 1)
      BY <2>3, Zenon DEF Comma
    <3>2. comma = <<>> \/ comma = <<", ">>
      BY Zenon
    <3> HIDE DEF comma
    <3> QED BY <3>1, <3>2, EmptyIsSeq, OneIsSeq
  <2> HIDE DEF g, comma, text
  <2>7. IsSeq(text) /\ IsSeq(text \o comma)
    BY <2>4, <2>5, <2>6, ConcatSeq
  <2>8. Says(val, g) = Says(val, Top) \o (text \o comma)
    <3>1. IsSeq(Says(val, Top))
      BY <1>2, SaysSeq
    <3>2. Cat(Cat(Says(val, Top), text), comma) = Cat(Says(val, Top), Cat(text, comma))
      BY <2>6, <2>7, <3>1, CatFacts
    <3>3. Cat(Says(val, Top), text) = UpTo(Top, p + 1)
      BY <2>4, <2>5, Zenon DEF Cat
    <3>4. Says(val, g) = Cat(UpTo(Top, p + 1), comma)
      BY <2>3, <2>6, Zenon DEF Cat
    <3>5. Says(val, g) = Cat(Says(val, Top), Cat(text, comma))
      BY <3>2, <3>3, <3>4, Zenon
    <3> QED BY <3>5, Zenon DEF Cat
  <2>9. Made(val, g) = Made(val, Top)
    BY <2>3
  <2>10. Stutters
    BY <1>1, <1>2, <2>2, <2>3, <2>7, <2>8, <2>9, GoesOnSame
  <2> QED BY <2>10 DEF Refines, Stutters
<1>6. e.fn = "print" /\ e.at = "next" /\ e.ty = Top.ty /\ e.l1 = Top.l1 /\ e.l2 = Top.l2 /\ e.in = Top.in
  BY <1>1, <1>2 DEF IsFrame
<1> HIDE DEF e
<1>7. ASSUME Top.ty # "chars"
      PROVE  /\ stack = <<Top>> /\ v \in Chain(heap, "chars") /\ Does(heap, val, e) /\ Waiting(e) /\ SameCall(Top, e)
             /\ Says(val, e) = Now(val, Top) /\ IsSeq(Says(val, e)) /\ Made(val, e) = {} /\ MadeResumed(val, Top) = {}
  <2>1. stack = <<Top>>
    BY <1>1, <1>7, OnlyOne
  <2>2. v \in Chain(heap, "chars")
    BY <1>3, <1>7 DEF Elements
  <2>3. PrintDoes(heap, val, e)
    BY <1>1, <1>2, <1>6, <1>7 DEF PrintDoes
  <2>4. Does(heap, val, e) /\ Waiting(e) /\ SameCall(Top, e)
    <3>1. e.fn = "print" /\ e.at = "next" /\ e.ty = Top.ty /\ e.in = Top.in /\ Top.fn = "print"
      BY <1>1, <1>6
    <3> QED BY <2>3, <3>1 DEF Does, Functions, Waiting, SameCall
  <2>5. Says(val, e) = Says(val, Top)
    <3>1. Says(val, Top) = UpTo(Top, p) \o Comma(Top, p)
      BY <1>1, Zenon DEF Says, PrintSays, Comma
    <3>2. Passed(val, e) = p
      BY <1>6, Zenon DEF Passed
    <3>3. Says(val, e) = UpTo(e, p) \o Comma(e, p)
      BY <1>6, <3>2, Zenon DEF Says, PrintSays, Comma
    <3>4. UpTo(e, p) = UpTo(Top, p) /\ Comma(e, p) = Comma(Top, p)
      BY <1>6, UpToSame
    <3> QED BY <3>1, <3>3, <3>4, Zenon
  <2>6. Now(val, Top) = Says(val, Top)
    BY <1>2 DEF Now
  <2>7. IsSeq(Says(val, Top))
    BY <1>2, SaysSeq
  <2>8. Made(val, e) = {} /\ MadeResumed(val, Top) = {}
    BY <1>1, <1>6, MakesNothing
  <2> QED BY <2>1, <2>2, <2>4, <2>5, <2>6, <2>7, <2>8
<1>8. Grown({}) /\ heap' = heap /\ val' = val
  BY <1>1, SameMemory
<1>9. CASE Top.ty = "strings"
  <2> DEFINE g == PrintStringFrame(v, FALSE, val[v])
  <2>1. Call(e, g) /\ Silent
    <3>1. Element[Top.ty] = "STRING"
      BY <1>9 DEF Element
    <3> QED BY <1>4, <3>1
  <2>2. Top.ty # "chars"
    BY <1>9
  <2>3. Does(heap, val, g) /\ g.fn = "print_string" /\ g.l2 = FALSE /\ g.in = val[v]
    <3>1. v \in Chain(heap, "chars")
      BY <1>7, <2>2
    <3> HIDE DEF v
    <3> QED BY <1>2, <3>1, PrintStringFrameDoes
  <2> HIDE DEF g
  <2>4. WaitsFor(heap, val, e, g)
    BY <1>6, <1>9, <2>3 DEF WaitsFor, Value1
  <2>5. Says(val, g) = <<>> /\ Made(val, g) = {}
    BY <2>3, Quiet, MakesNothing
  <2>6. Says(val, e) \o Says(val, g) = Now(val, Top)
    BY <1>7, <2>2, <2>5, ConcatEmpty
  <2>7. Stutters
    BY <1>1, <1>7, <1>8, <2>1, <2>2, <2>3, <2>4, <2>5, <2>6, AloneCalls
  <2> QED BY <2>7 DEF Refines, Stutters
<1>10. CASE Top.ty = "lists"
  <2> DEFINE g == PrintFrame("chars", v, val[v])
  <2>1. Call(e, g) /\ Silent
    <3>1. Element[Top.ty] = "LIST"
      BY <1>10 DEF Element
    <3> QED BY <1>4, <3>1
  <2>2. Top.ty # "chars" /\ "chars" \in ListTypes
    BY <1>10 DEF ListTypes
  <2>3. Does(heap, val, g) /\ g.fn = "print" /\ g.ty = "chars" /\ g.in = val[v] /\ Says(val, g) = <<>>
    <3>1. v \in Chain(heap, "chars")
      BY <1>7, <2>2
    <3> HIDE DEF v
    <3> QED BY <1>2, <2>2, <3>1, PrintFrameDoes
  <2> HIDE DEF g
  <2>4. WaitsFor(heap, val, e, g)
    BY <1>6, <1>10, <2>3 DEF WaitsFor, Value1
  <2>5. Made(val, g) = {}
    BY <2>3, MakesNothing
  <2>6. Says(val, e) \o Says(val, g) = Now(val, Top)
    BY <1>7, <2>2, <2>3, ConcatEmpty
  <2>7. Stutters
    BY <1>1, <1>7, <1>8, <2>1, <2>2, <2>3, <2>4, <2>5, <2>6, AloneCalls
  <2> QED BY <2>7 DEF Refines, Stutters
<1> QED BY <1>3, <1>5, <1>9, <1>10 DEF ListTypes

LEMMA PrintCloseAnswers ==
  ASSUME ListInv, AnswerInv, PrintClose
  PROVE  Refines
<1> DEFINE f == Top
           p == Passed(val, f)
           all == ListValuesOf!Listed(Texts(f))
<1>1. stack # <<>> /\ f.fn = "print" /\ f.at = "loop" /\ UNCHANGED memory /\ heap[f.l1].length = 0
      /\ printed' = printed \o <<"]">> /\ UNCHANGED exited /\ ReturnNode(f.l2)
  BY DEF PrintClose, Running, Prints
<1>2. FrameFits(heap, f) /\ Does(heap, val, f) /\ ~Waiting(f)
      /\ (stack = <<f>> \/ \E e : stack = <<e, f>>)
  BY <1>1, OnTop DEF Waiting
<1>3. Printable(f) /\ f.ty \in ListTypes /\ val[f.l2] = f.in /\ Len(f.in) \in Nat /\ p \in 0 .. Len(f.in)
      /\ heap[f.l1].length = Len(f.in) - p
  BY <1>1, <1>2, PrintFacts
<1>4. p = Len(f.in)
  <2> DEFINE n == Len(f.in)
  <2>1. n \in Nat /\ p \in 0 .. n /\ n - p = 0
    BY <1>1, <1>3
  <2> HIDE DEF n, p
  <2>2. p = n
    BY <2>1
  <2> QED BY <2>2 DEF n
<1>5. Says(val, f) = UpTo(f, Len(f.in)) /\ IsSeq(Says(val, f))
  <2>1. Says(val, f) = UpTo(f, Len(f.in)) \o Comma(f, Len(f.in))
    BY <1>1, <1>4, Zenon DEF Says, PrintSays, Comma
  <2>2. Len(f.in) \notin 1 .. Len(f.in) - 1 /\ Len(f.in) \in 0 .. Len(f.in)
    BY <1>3
  <2>3. Comma(f, Len(f.in)) = <<>>
    BY <2>2, Zenon DEF Comma
  <2>4. IsSeq(UpTo(f, Len(f.in)))
    BY <1>3, <2>2, UpToFacts
  <2> QED BY <2>1, <2>3, <2>4, ConcatEmpty
<1>6. Says(val, f) \o <<"]">> = all
  BY <1>3, <1>5, UpToFacts
<1> HIDE DEF all, p
<1>7. CASE stack = <<f>>
  <2>1. printed = Says(val, f)
    <3>1. printed = Now(val, f)
      BY <1>7, Alone
    <3> QED BY <1>2, <3>1 DEF Now
  <2>2. printed' = all
    BY <1>1, <1>6, <2>1
  <2>3. MadeResumed(val, Top) = {}
    BY <1>1, MakesNothing
  <2>4. Return(Top.l2, Top.in)
    BY <1>1, <1>3 DEF ReturnNode
  <2>5. AnswerInv' /\ Answers("print", Top.in, Top.in, all, {}) /\ Asked(V0, Top)
    BY <1>1, <1>7, <2>2, <2>3, <2>4, TopReturns
  <2>6. all = ListValuesOf!Text(Top.ty, Top.in)
    BY Zenon DEF all, ListValuesOf!Text, Texts
  <2>7. ListValuesOf!PrintList(Top.ty, Top.in)
    <3>1. Answers("print", Top.in, Top.in, ListValuesOf!Text(Top.ty, Top.in), {})
      BY <2>5, <2>6, Zenon
    <3> QED BY <3>1 DEF ListValuesOf!PrintList, Answers, ListValuesOf!Evaluates, V0, ValuesOf
  <2>8. Top.in \in ListValuesOf!Of(Top.ty)
    BY <1>1, <2>5, OfIs DEF Asked
  <2>9. Top.ty \in ListValuesOf!ListTypes
    BY <1>3 DEF ListTypes, ListValuesOf!ListTypes
  <2>10. ListValuesOf!Next
    BY <2>7, <2>8, <2>9 DEF ListValuesOf!Next
  <2> QED BY <2>5, <2>10 DEF Refines
<1>8. CASE \E e : stack = <<e, f>>
  <2>1. PICK e : stack = <<e, f>>
    BY <1>8
  <2>2. e.fn = "print" /\ e.ty = "lists" /\ f.ty = "chars" /\ e.at = "next"
    BY <1>1, <2>1, InnerRuns
  <2>3. /\ Does(heap, val, e) /\ WaitsFor(heap, val, e, f) /\ FrameFits(heap, e)
        /\ printed = Says(val, e) \o Says(val, f)
    BY <2>1, Pair
  <2>4. printed' = Says(val, e) \o all
    <3>1. IsSeq(Says(val, e))
      BY <2>3, SaysSeq
    <3>2. Cat(Cat(Says(val, e), Says(val, f)), <<"]">>) = Cat(Says(val, e), Cat(Says(val, f), <<"]">>))
      BY <1>5, <3>1, OneIsSeq, CatFacts
    <3>3. printed' = Cat(Says(val, e), Cat(Says(val, f), <<"]">>))
      BY <1>1, <2>3, <3>2, Zenon DEF Cat
    <3> QED BY <1>6, <3>3, Zenon DEF Cat
  <2>5. all = ListValuesOf!ElementText(e.ty, e.in[Passed(val, e) + 1])
    <3>1. f.in = Value1(heap, val, e)
      BY <2>2, <2>3 DEF WaitsFor
    <3>2. heap[e.l1].length # 0
      BY <2>2, <2>3 DEF FrameFits, PrintFits
    <3>3. e.in[Passed(val, e) + 1] = StandsFor(val, e.ty, heap[e.l1].value)
      BY <2>2, <2>3, <3>2, PrintFacts
    <3>4. f.in = e.in[Passed(val, e) + 1]
      BY <2>2, <3>1, <3>3 DEF Value1, StandsFor
    <3>5. \A x : ListValuesOf!ElementText("chars", x) = ListValuesOf!CharText(x)
      BY Zenon DEF ListValuesOf!ElementText
    <3>6. Texts(f) = [k \in DOMAIN f.in |-> ListValuesOf!CharText(f.in[k])]
      <4>1. f.ty = "chars"
        BY <2>2
      <4> HIDE DEF f
      <4> QED BY <3>5, <4>1, Zenon DEF Texts
    <3>7. "lists" # "chars" /\ "lists" # "strings"
      OBVIOUS
    <3>8. ListValuesOf!ElementText(e.ty, f.in) = ListValuesOf!Listed([k \in DOMAIN f.in |-> ListValuesOf!CharText(f.in[k])])
      BY <2>2, <3>7, Zenon DEF ListValuesOf!ElementText
    <3> HIDE DEF f
    <3> QED BY <3>4, <3>6, <3>8, Zenon DEF all
  <2>6. ReturnNode(f.l2) /\ UNCHANGED exited
    BY <1>1
  <2> HIDE DEF f
  <2> QED BY <1>1, <2>1, <2>2, <2>4, <2>5, <2>6, TextReturned
<1> QED BY <1>2, <1>7, <1>8

\* gprint_tuple looks at one tuple.
LEMMA PrintTupleFacts ==
  ASSUME ListInv, NEW f, FrameFits(heap, f), Does(heap, val, f), f.fn = "print_tuple"
  PROVE  /\ f.l1 \in Chain(heap, "tuple") /\ f.i \in 1 .. 2 /\ f.in = val[f.l1] /\ IsFrame(f)
         /\ f.in[1] = heap[f.l1].value[1] /\ f.in[2] = val[heap[f.l1].value[2]]
         /\ heap[f.l1].value[2] \in Chain(heap, "chars") /\ IsSeq(f.in[2])
         /\ f.in = <<f.in[1], f.in[2]>>
         /\ f.at \in {"entry", "loop"} \/ (f.at = "next" /\ f.i = 2)
         /\ f.at = "entry" => f.i = 1
<1>1. f.l1 \in Chain(heap, "tuple") /\ f.i \in 1 .. 2 /\ IsFrame(f) /\ Memory(heap, val)
  BY DEF FrameFits, TuplesFit, ListInv
<1>2. /\ f.in = val[f.l1] /\ (f.at \in {"entry", "loop"} \/ (f.at = "next" /\ f.i = 2))
      /\ f.at = "entry" => f.i = 1
  BY DEF Does, PrintTupleDoes
<1>3. /\ heap[f.l1].value[2] \in Chain(heap, "chars")
      /\ val[f.l1] = <<heap[f.l1].value[1], val[heap[f.l1].value[2]]>>
      /\ val[f.l1][1] = heap[f.l1].value[1] /\ val[f.l1][2] = val[heap[f.l1].value[2]]
  BY <1>1, TupleIs
<1>4. IsSeq(val[heap[f.l1].value[2]])
  BY <1>1, <1>3, Listed DEF ListTypes
<1>5. f.in = <<f.in[1], f.in[2]>>
  BY <1>2, <1>3, Zenon
<1>6. f.in[1] = heap[f.l1].value[1] /\ f.in[2] = val[heap[f.l1].value[2]] /\ IsSeq(f.in[2])
  BY <1>2, <1>3, <1>4, Zenon
<1> QED BY <1>1, <1>2, <1>3, <1>5, <1>6

LEMMA PrintTupleOpenAnswers ==
  ASSUME ListInv, AnswerInv, PrintTupleOpen
  PROVE  Refines
<1>1. stack # <<>> /\ Top.fn = "print_tuple" /\ Top.at = "entry" /\ UNCHANGED memory /\ printed' = printed \o <<"(">>
      /\ UNCHANGED exited
  BY DEF PrintTupleOpen, Running, Prints
<1>2. FrameFits(heap, Top) /\ Does(heap, val, Top) /\ IsFrame(Top) /\ PrintTupleDoes(val, Top)
  BY <1>1, OnTop DEF FrameFits, Does
<1> DEFINE g == [Top EXCEPT !.at = "loop"]
<1>3. Goto(g)
  BY DEF PrintTupleOpen
<1>4. g.fn = "print_tuple" /\ g.at = "loop" /\ g.ty = Top.ty /\ g.l1 = Top.l1 /\ g.i = 1 /\ g.in = Top.in
  BY <1>1, <1>2 DEF IsFrame, PrintTupleDoes
<1> HIDE DEF g
<1>5. PrintTupleDoes(val, g)
  BY <1>2, <1>4 DEF PrintTupleDoes
<1>6. Does(heap, val, g) /\ ~Waiting(g) /\ SameCall(Top, g) /\ ~Waiting(Top)
  BY <1>1, <1>4, <1>5 DEF Does, Functions, Waiting, SameCall
<1>7. Says(val, g) = Says(val, Top) \o <<"(">>
  <2>1. Says(val, Top) = PrintTupleSays(Top) /\ Says(val, g) = PrintTupleSays(g)
    BY <1>1, <1>4 DEF Says
  <2>2. PrintTupleSays(Top) = <<>>
    BY <1>1, Zenon DEF PrintTupleSays
  <2>3. g.at # "entry" /\ g.i = 1
    BY <1>4
  <2>4. PrintTupleSays(g) = <<"(">>
    BY <2>3, Zenon DEF PrintTupleSays
  <2> QED BY <2>1, <2>2, <2>4, OneIsSeq, ConcatEmpty
<1>8. Made(val, g) = {} /\ Made(val, Top) = {}
  BY <1>1, <1>4, MakesNothing
<1>9. Stutters
  BY <1>1, <1>3, <1>6, <1>7, <1>8, OneIsSeq, GoesOnSame
<1> QED BY <1>9 DEF Refines, Stutters

LEMMA PrintTupleItemAnswers ==
  ASSUME ListInv, AnswerInv, PrintTupleItem
  PROVE  Refines
<1>1. stack # <<>> /\ Top.fn = "print_tuple" /\ Top.at = "loop" /\ UNCHANGED memory
  BY DEF PrintTupleItem, Running
<1>2. FrameFits(heap, Top) /\ Does(heap, val, Top) /\ IsFrame(Top) /\ stack = <<Top>> /\ Memory(heap, val)
      /\ PrintTupleDoes(val, Top) /\ ~Waiting(Top)
  BY <1>1, OnTop, OnlyOne DEF FrameFits, ListInv, Does, Waiting
<1>3. /\ Top.i \in 1 .. 2 /\ Top.in[1] = heap[Top.l1].value[1] /\ Top.in[2] = val[heap[Top.l1].value[2]]
      /\ heap[Top.l1].value[2] \in Chain(heap, "chars")
  BY <1>1, <1>2, PrintTupleFacts, Zenon
<1> DEFINE x == heap[Top.l1].value[Top.i]
           item == TupleItems[Top.i]
           more == Top.i < Len(TupleItems)
           e == [Top EXCEPT !.at = "next"]
           f == [Top EXCEPT !.i = @ + 1, !.at = "loop"]
<1>4. IF item = "STRING"
      THEN Call(e, PrintStringFrame(x, FALSE, val[x])) /\ Silent
      ELSE PrintTupleNext(CharText(x, FALSE))
  BY DEF PrintTupleItem
<1>5. (Top.i = 2 => item = "STRING") /\ (Top.i = 1 => item = "CHAR" /\ more)
  BY <1>3 DEF TupleItems
<1>6. Grown({}) /\ heap' = heap /\ val' = val
  BY <1>1, SameMemory
<1>7. Says(val, Top) = PrintTupleSays(Top) /\ Now(val, Top) = Says(val, Top)
  BY <1>1, <1>2 DEF Says, Now
<1> HIDE DEF item
<1>8. CASE Top.i = 2
  <2> DEFINE v == heap[Top.l1].value[2]
             g == PrintStringFrame(v, FALSE, val[v])
  <2>1. Call(e, g) /\ Silent
    BY <1>4, <1>5, <1>8
  <2>2. Does(heap, val, g) /\ g.fn = "print_string" /\ g.l2 = FALSE /\ g.in = val[v]
    <3>1. v \in Chain(heap, "chars")
      BY <1>3
    <3> HIDE DEF v
    <3> QED BY <1>2, <3>1, PrintStringFrameDoes
  <2>3. e.fn = "print_tuple" /\ e.at = "next" /\ e.ty = Top.ty /\ e.l1 = Top.l1 /\ e.in = Top.in /\ e.i = 2
    BY <1>1, <1>2, <1>8 DEF IsFrame
  <2> HIDE DEF e, g
  <2>4. PrintTupleDoes(val, e)
    BY <1>2, <2>3 DEF PrintTupleDoes
  <2>5. Does(heap, val, e) /\ Waiting(e) /\ SameCall(Top, e)
    BY <1>1, <2>3, <2>4 DEF Does, Functions, Waiting, SameCall
  <2>6. g.in = e.in[2]
    BY <1>3, <2>2, <2>3, Zenon
  <2>7. WaitsFor(heap, val, e, g)
    BY <2>2, <2>3, <2>6 DEF WaitsFor
  <2>8. Says(val, g) = <<>> /\ Made(val, e) = {} /\ Made(val, g) = {} /\ MadeResumed(val, Top) = {}
    BY <1>1, <2>2, <2>3, Quiet, MakesNothing
  <2>9. Says(val, e) = Says(val, Top)
    <3>1. e.at # "entry" /\ Top.at # "entry" /\ e.i # 1 /\ Top.i # 1
      BY <1>1, <1>8, <2>3
    <3>2. PrintTupleSays(e) = PrintTupleSays(Top)
      BY <2>3, <3>1, Zenon DEF PrintTupleSays
    <3>3. Says(val, e) = PrintTupleSays(e)
      BY <2>3 DEF Says
    <3> QED BY <1>7, <3>2, <3>3
  <2>10. Says(val, e) \o Says(val, g) = Now(val, Top)
    BY <1>2, <1>7, <2>8, <2>9, SaysSeq, ConcatEmpty
  <2>11. Stutters
    BY <1>1, <1>2, <1>6, <2>1, <2>2, <2>5, <2>7, <2>8, <2>10, AloneCalls
  <2> QED BY <2>11 DEF Refines, Stutters
<1>9. CASE Top.i = 1
  <2> DEFINE v == heap[Top.l1].value[1]
             text == CharText(v, FALSE)
  <2>1. PrintTupleNext(text)
    <3>1. item # "STRING" /\ x = v
      BY <1>5, <1>9
    <3> HIDE DEF x, v
    <3> QED BY <1>4, <3>1
  <2>2. Goto(f) /\ printed' = printed \o (text \o <<", ">>) /\ UNCHANGED exited
    <3>1. Top.i < Len(TupleItems)
      BY <1>5, <1>9
    <3> QED BY <2>1, <3>1, Zenon DEF PrintTupleNext, Prints
  <2>3. f.fn = "print_tuple" /\ f.at = "loop" /\ f.ty = Top.ty /\ f.l1 = Top.l1 /\ f.in = Top.in /\ f.i = 2
    BY <1>1, <1>2, <1>9 DEF IsFrame
  <2> HIDE DEF f
  <2>4. PrintTupleDoes(val, f)
    BY <1>2, <2>3 DEF PrintTupleDoes
  <2>5. Does(heap, val, f) /\ ~Waiting(f) /\ SameCall(Top, f)
    BY <1>1, <2>3, <2>4 DEF Does, Functions, Waiting, SameCall
  <2>6. Made(val, f) = {} /\ Made(val, Top) = {}
    BY <1>1, <2>3, MakesNothing
  <2>7. text = CharText(f.in[1], FALSE) /\ IsSeq(text)
    <3>1. v = f.in[1]
      BY <1>3, <2>3
    <3>2. text = <<"'", v, "'">>
      BY Zenon DEF CharText
    <3>3. IsSeq(text)
      BY <3>2, ThreeIsSeq, Zenon
    <3> HIDE DEF v
    <3> QED BY <3>1, <3>3
  <2> HIDE DEF text
  <2>8. Says(val, f) = Says(val, Top) \o (text \o <<", ">>)
    <3>1. f.at # "entry" /\ f.i # 1 /\ Top.at # "entry"
      BY <1>1, <2>3
    <3>2. PrintTupleSays(f) = <<"(">> \o CharText(f.in[1], FALSE) \o <<", ">>
      BY <3>1, Zenon DEF PrintTupleSays
    <3>3. PrintTupleSays(Top) = <<"(">>
      BY <1>9, <3>1, Zenon DEF PrintTupleSays
    <3>4. Says(val, f) = PrintTupleSays(f)
      BY <2>3 DEF Says
    <3>5. Cat(Cat(<<"(">>, text), <<", ">>) = Cat(<<"(">>, Cat(text, <<", ">>))
      <4> DEFINE o == <<"(">>
                 m == <<", ">>
      <4>1. IsSeq(o) /\ IsSeq(m) /\ IsSeq(text)
        BY <2>7, OneIsSeq
      <4> HIDE DEF o, m
      <4>2. Cat(Cat(o, text), m) = Cat(o, Cat(text, m))
        BY <4>1, CatFacts
      <4> QED BY <4>2 DEF o, m
    <3>6. Says(val, f) = (<<"(">> \o text) \o <<", ">>
      BY <2>7, <3>2, <3>4, Zenon
    <3>7. (<<"(">> \o text) \o <<", ">> = <<"(">> \o (text \o <<", ">>)
      BY <3>5, Zenon DEF Cat
    <3> QED BY <1>7, <3>3, <3>6, <3>7, Zenon
  <2>9. IsSeq(text \o <<", ">>)
    BY <2>7, OneIsSeq, ConcatSeq
  <2>10. Made(val, f) = Made(val, Top)
    BY <2>6
  <2>11. Stutters
    BY <1>1, <1>2, <2>2, <2>5, <2>8, <2>9, <2>10, GoesOnSame
  <2> QED BY <2>11 DEF Refines, Stutters
<1> QED BY <1>3, <1>8, <1>9

LEMMA Appended ==
  ASSUME NEW x, NEW y
  PROVE  <<x>> \o <<y>> = <<x, y>>
<1> DEFINE r == <<x>> \o <<y>>
           t == <<y>>
<1>1. IsSeq(t) /\ Len(t) = 1 /\ t[1] = y
  BY OneIsSeq
<1>2. IsCons(r, x, t)
  <2>1. IsCons(<<x>> \o t, x, t)
    BY <1>1, ConsIs
  <2> QED BY <2>1
<1> HIDE DEF r, t
<1>3. IsSeq(r) /\ Len(r) = 2 /\ r[1] = x /\ r[2] = y
  BY <1>1, <1>2 DEF IsCons
<1> QED BY <1>3, AsTwo DEF r, t

\* The text of a tuple, put together in the two ways.
LEMMA TupleText ==
  ASSUME NEW c, IsSeq(c), NEW s, IsSeq(s)
  PROVE  (((<<"(">> \o c) \o <<", ">>) \o ((<<"\"">> \o s) \o <<"\"">>)) \o <<")">>
         = ((<<"(">> \o c) \o <<", ", "\"">>) \o s \o <<"\"", ")">>
<1> DEFINE o == <<"(">>
           m == <<", ">>
           q == <<"\"">>
           z == <<")">>
           mq == <<", ", "\"">>
           qz == <<"\"", ")">>
<1>1. IsSeq(o) /\ IsSeq(m) /\ IsSeq(q) /\ IsSeq(z)
  BY OneIsSeq
<1>2. Cat(m, q) = mq /\ Cat(q, z) = qz
  BY Appended, Zenon DEF Cat
<1> HIDE DEF o, m, q, z, mq, qz
<1> DEFINE a == Cat(o, c)
<1>3. IsSeq(a)
  BY <1>1, CatFacts
<1> HIDE DEF a
<1>4. Cat(Cat(a, m), q) = Cat(a, mq) /\ IsSeq(Cat(a, m)) /\ IsSeq(Cat(a, mq)) /\ IsSeq(mq) /\ IsSeq(qz)
  <2>1. Cat(Cat(a, m), q) = Cat(a, Cat(m, q))
    BY <1>1, <1>3, CatFacts
  <2>2. IsSeq(mq) /\ IsSeq(qz)
    <3>1. IsSeq(Cat(m, q)) /\ IsSeq(Cat(q, z))
      BY <1>1, CatFacts
    <3> QED BY <1>2, <3>1
  <2>3. IsSeq(Cat(a, m)) /\ IsSeq(Cat(a, mq))
    BY <1>1, <1>3, <2>2, CatFacts
  <2> QED BY <1>2, <2>1, <2>2, <2>3
<1> DEFINE b == Cat(a, m)
<1>5. IsSeq(b) /\ IsSeq(Cat(q, s)) /\ IsSeq(Cat(Cat(q, s), q))
  BY <1>1, <1>4, CatFacts
<1>6. Cat(b, Cat(Cat(q, s), q)) = Cat(Cat(b, Cat(q, s)), q)
  BY <1>1, <1>5, CatFacts
<1>7. Cat(b, Cat(q, s)) = Cat(Cat(b, q), s)
  BY <1>1, <1>5, CatFacts
<1>8. Cat(Cat(b, q), s) = Cat(Cat(a, mq), s)
  BY <1>4
<1> DEFINE d == Cat(Cat(a, mq), s)
<1>9. IsSeq(d)
  BY <1>4, CatFacts
<1> HIDE DEF b, d
<1>10. Cat(b, Cat(Cat(q, s), q)) = Cat(d, q)
  BY <1>6, <1>7, <1>8 DEF d
<1>11. Cat(Cat(d, q), z) = Cat(d, Cat(q, z))
  BY <1>1, <1>9, CatFacts
<1>12. Cat(Cat(b, Cat(Cat(q, s), q)), z) = Cat(d, qz)
  BY <1>2, <1>10, <1>11
<1>13. Cat(Cat(Cat(Cat(o, c), m), Cat(Cat(q, s), q)), z) = Cat(Cat(Cat(Cat(o, c), mq), s), qz)
  BY <1>12 DEF a, b, d
<1> QED BY <1>13, Zenon DEF Cat, o, m, q, z, mq, qz

LEMMA PrintedTupleItemAnswers ==
  ASSUME ListInv, AnswerInv, PrintedTupleItem
  PROVE  Refines
<1>1. stack # <<>> /\ Top.fn = "print_tuple" /\ Top.at = "next" /\ UNCHANGED memory /\ PrintTupleNext(<<>>)
  BY DEF PrintedTupleItem, Running
<1>2. FrameFits(heap, Top) /\ Does(heap, val, Top) /\ stack = <<Top>> /\ Waiting(Top)
  BY <1>1, OnTop, OnlyOne DEF Waiting
<1>3. /\ Top.i = 2 /\ Top.in = val[Top.l1] /\ IsSeq(Top.in[2])
  BY <1>1, <1>2, PrintTupleFacts
<1> DEFINE c == CharText(Top.in[1], FALSE)
           s == Top.in[2]
           all == ((<<"(">> \o c) \o <<", ", "\"">>) \o s \o <<"\"", ")">>
<1>4. ReturnNode(Top.l1) /\ printed' = printed \o (<<>> \o <<")">>) /\ UNCHANGED exited
  <2>1. ~(Top.i < Len(TupleItems))
    BY <1>3 DEF TupleItems
  <2> QED BY <1>1, <2>1, Zenon DEF PrintTupleNext, Prints
<1>5. printed = ((<<"(">> \o c) \o <<", ">>) \o ((<<"\"">> \o s) \o <<"\"">>)
  <2>1. printed = Now(val, Top)
    BY <1>2, Alone
  <2>2. Now(val, Top) = PrintTupleSays(Top) \o StringText(s, FALSE)
    BY <1>1, <1>2, Zenon DEF Now, SaysResumed
  <2>3. Top.at # "entry" /\ Top.i # 1
    BY <1>1, <1>3
  <2>4. PrintTupleSays(Top) = <<"(">> \o c \o <<", ">>
    BY <2>3, Zenon DEF PrintTupleSays
  <2>5. StringText(s, FALSE) = <<"\"">> \o s \o <<"\"">>
    BY Zenon DEF StringText
  <2> QED BY <2>1, <2>2, <2>4, <2>5, Zenon
<1>6. c = <<"'", Top.in[1], "'">> /\ IsSeq(c)
  <2>1. c = <<"'", Top.in[1], "'">>
    BY Zenon DEF CharText
  <2> HIDE DEF c
  <2> QED BY <2>1, ThreeIsSeq, Zenon
<1> HIDE DEF c, s
<1>7. <<>> \o <<")">> = <<")">>
  BY OneIsSeq, ConcatEmpty
<1>8. IsSeq(s)
  BY <1>3 DEF s
<1>9. printed' = all
  <2>1. printed' = (((<<"(">> \o c) \o <<", ">>) \o ((<<"\"">> \o s) \o <<"\"">>)) \o <<")">>
    BY <1>4, <1>5, <1>7, Zenon
  <2>2. (((<<"(">> \o c) \o <<", ">>) \o ((<<"\"">> \o s) \o <<"\"">>)) \o <<")">> = all
    BY <1>6, <1>8, TupleText
  <2> HIDE DEF all
  <2> QED BY <2>1, <2>2, Zenon
<1>10. all = <<"(">> \o ListValuesOf!CharText(Top.in[1]) \o <<", ", "\"">> \o Top.in[2] \o <<"\"", ")">>
  BY <1>6, Zenon DEF s, ListValuesOf!CharText
<1> HIDE DEF all
<1>11. MadeResumed(val, Top) = {}
  BY <1>1, MakesNothing
<1>12. Return(Top.l1, Top.in)
  BY <1>3, <1>4 DEF ReturnNode
<1>13. AnswerInv' /\ Answers("print_tuple", Top.in, Top.in, all, {}) /\ Asked(V0, Top)
  BY <1>1, <1>2, <1>4, <1>9, <1>11, <1>12, TopReturns
<1>14. ListValuesOf!PrintTuple(Top.in)
  <2>1. Answers("print_tuple", Top.in, Top.in,
          <<"(">> \o ListValuesOf!CharText(Top.in[1]) \o <<", ", "\"">> \o Top.in[2] \o <<"\"", ")">>, {})
    BY <1>10, <1>13, Zenon
  <2> QED BY <2>1 DEF ListValuesOf!PrintTuple, Answers, ListValuesOf!Evaluates, V0, ValuesOf
<1>15. Top.in \in ListValuesOf!Of("tuple")
  BY <1>1, <1>13, OfIs DEF Asked
<1> QED BY <1>13, <1>14, <1>15 DEF Refines, ListValuesOf!Next

-----------------------------------------------------------------------------
(* Expressions. *)

\* Every value that the program can name is one of its values.
LEMMA NamedValues ==
  ASSUME ListInv
  PROVE  /\ \A l \in Lists : /\ heap[l].ty \in ListTypes /\ l \in Chain(heap, heap[l].ty)
                             /\ <<heap[l].ty, val[l]>> \in V0 /\ val[l] \in ListValuesOf!Of(heap[l].ty)
         /\ \A ty : \A l \in OfType(ty) : /\ l \in Chain(heap, ty)
                                          /\ <<ty, val[l]>> \in V0 /\ val[l] \in ListValuesOf!Of(ty)
<1>1. ASSUME NEW l \in Lists
      PROVE  <<heap[l].ty, val[l]>> \in V0
  BY DEF Lists, V0, ValuesOf
<1>2. ASSUME NEW ty, NEW l \in OfType(ty)
      PROVE  <<ty, val[l]>> \in V0
  BY DEF OfType, V0, ValuesOf
<1> QED BY <1>1, <1>2, Named, OfIs

\* A generated function is called.
LEMMA BeginsAs ==
  ASSUME ListInv, AnswerInv, NEW f, stack = <<>>, answer = NoAnswer, ~exited, Begin(f), NEW new, Grown(new),
         f.fn # "main", ~Waiting(f), Does(heap', val', f), Says(val', f) = <<>>, Made(val', f) = new, Asked(V0, f)
  PROVE  Refines
<1>1. stack' = <<f>> /\ known' = known /\ answer' = answer /\ printed' = printed /\ exited' = exited
  BY DEF Begin, program
<1>2. ValuesOf(heap', val', known') = V0 /\ ValuesOf(heap', val', Len(heap')) = All0 \cup new /\ PartsAreThere(heap', val')
  BY <1>1 DEF Grown, Grows, V0, All0
<1>3. exited = FALSE /\ printed = <<>> /\ known = Len(heap) /\ All0 = V0
  BY DEF AnswerInv, V0, All0
<1>4. Calling(heap', val', stack')
  BY <1>1, OneIs
<1>5. HasSaid(val', stack', printed')
  <2>1. Now(val', f) = <<>>
    BY DEF Now
  <2> QED BY <1>1, <1>3, <2>1, OneIs
<1>6. HasMade(val', stack', V0, All0 \cup new)
  <2>1. MadeResumed(val', f) = new
    BY DEF MadeResumed
  <2> QED BY <1>1, <1>3, <2>1, OneIs
<1>7. stack' # <<>> /\ stack'[1] = f
  BY <1>1, OneCall
<1>8. AnswerInv'
  BY <1>1, <1>2, <1>3, <1>4, <1>5, <1>6, <1>7 DEF AnswerInv
<1>9. UNCHANGED ListValuesOf!vars
  BY <1>1, <1>2 DEF ListValuesOf!vars, V0, ValuesOf
<1> QED BY <1>8, <1>9 DEF Refines

\* An expression is evaluated at once.
LEMMA AtOnce ==
  ASSUME ListInv, AnswerInv, stack = <<>>, ~exited, NEW fn, NEW in, NEW out, Evaluated(fn, in, out), fn # "none",
         NEW new, Grown(new)
  PROVE  AnswerInv' /\ Answers(fn, in, out, <<>>, new)
<1>1. /\ stack' = <<>> /\ known' = Len(heap') /\ exited' = exited /\ printed' = printed
      /\ answer' = [fn |-> fn, in |-> in, out |-> out, text |-> <<>>]
  BY DEF Evaluated
<1>2. ValuesOf(heap', val', known') = All0 \cup new /\ ValuesOf(heap', val', Len(heap')) = All0 \cup new
      /\ PartsAreThere(heap', val')
  BY <1>1 DEF Grown, Grows, All0
<1>3. exited = FALSE /\ known = Len(heap) /\ All0 = V0
  BY DEF AnswerInv, V0, All0
<1>4. answer' # NoAnswer
  BY <1>1 DEF NoAnswer
<1>5. Calling(heap', val', stack')
  BY <1>1 DEF Calling
<1>6. HasSaid(val', stack', printed') /\ HasMade(val', stack', All0 \cup new, All0 \cup new)
  <2>1. \A g : stack' # <<g>>
    BY <1>1
  <2>2. \A g, k : stack' # <<g, k>>
    BY <1>1
  <2> QED BY <2>1, <2>2, <1>1 DEF HasSaid, HasMade
<1>7. AnswerInv'
  BY <1>1, <1>2, <1>3, <1>4, <1>5, <1>6 DEF AnswerInv
<1>8. Answers(fn, in, out, <<>>, new)
  BY <1>1, <1>2, <1>3 DEF Answers
<1> QED BY <1>7, <1>8

LEMMA CallAddAnswers ==
  ASSUME ListInv, AnswerInv, NEW l \in Lists, NEW v \in Values(Element[heap[l].ty]), CallAdd(l, v)
  PROVE  Refines
<1> DEFINE ty == heap[l].ty
           x == StandsFor(val, ty, v)
           r == <<x>> \o val[l]
<1>1. ty \in ListTypes /\ l \in Chain(heap, ty) /\ val[l] \in ListValuesOf!Of(ty)
  BY NamedValues
<1>2. stack = <<>> /\ ~exited /\ Add(ty, l, v) /\ Evaluated("add", <<Denotes(Element[ty], v), val[l]>>, val'[Fresh])
  BY DEF CallAdd, Evaluates
<1> HIDE DEF ty
<1>3. v \in Values(Element[ty])
  BY DEF ty
<1>4. v \in Elements(heap, ty) /\ x \in ListValuesOf!Elements(ty) /\ Denotes(Element[ty], v) = x
  <2>1. CASE ty = "chars"
    <3>1. Element[ty] = "CHAR" /\ v \in Chars
      BY <1>3, <2>1 DEF Element, Values
    <3> QED BY <2>1, <3>1 DEF Elements, ListValuesOf!Elements, StandsFor, Denotes
  <2>2. CASE ty # "chars"
    <3>1. Element[ty] # "CHAR"
      BY <1>1, <2>2 DEF Element, ListTypes
    <3>2. v \in OfType("chars")
      BY <1>3, <3>1 DEF Values
    <3>3. v \in Chain(heap, "chars") /\ val[v] \in ListValuesOf!Of("chars")
      BY <3>2, NamedValues
    <3> QED BY <2>2, <3>1, <3>3 DEF Elements, ListValuesOf!Elements, StandsFor, Denotes
  <2> QED BY <2>1, <2>2
<1>5. Grown({<<ty, val'[Fresh]>>}) /\ val'[Fresh] = r
  BY <1>1, <1>2, <1>4, AddGrows
<1> HIDE DEF x, r
<1>6. AnswerInv' /\ Answers("add", <<x, val[l]>>, r, <<>>, {<<ty, r>>})
  <2>1. Evaluated("add", <<x, val[l]>>, r)
    BY <1>2, <1>4, <1>5 DEF Evaluated
  <2>2. Grown({<<ty, r>>})
    BY <1>5
  <2> QED BY <1>2, <2>1, <2>2, AtOnce
<1>7. ListValuesOf!Add(ty, x, val[l])
  BY <1>6 DEF ListValuesOf!Add, Answers, ListValuesOf!Evaluates, V0, ValuesOf, r
<1>8. ty \in ListValuesOf!ListTypes
  BY <1>1 DEF ListTypes, ListValuesOf!ListTypes
<1> QED BY <1>1, <1>4, <1>6, <1>7, <1>8 DEF Refines, ListValuesOf!Next

LEMMA CallTupleAnswers ==
  ASSUME ListInv, AnswerInv, NEW c \in Chars, NEW s \in OfType("chars"), CallTuple(<<c, s>>)
  PROVE  Refines
<1> DEFINE items == <<c, val[s]>>
<1>1. s \in Chain(heap, "chars") /\ val[s] \in ListValuesOf!Of("chars")
  BY NamedValues
<1>2. stack = <<>> /\ ~exited /\ Tuple(<<c, s>>) /\ Evaluated("tuple", val'[Fresh], val'[Fresh])
  BY DEF CallTuple, Evaluates
<1>3. Grown({<<"tuple", items>>}) /\ val'[Fresh] = items
  BY <1>1, <1>2, TupleGrows
<1>4. AnswerInv' /\ Answers("tuple", items, items, <<>>, {<<"tuple", items>>})
  <2>1. Evaluated("tuple", items, items)
    BY <1>2, <1>3 DEF Evaluated
  <2> HIDE DEF items
  <2> QED BY <1>2, <1>3, <2>1, AtOnce
<1>5. ListValuesOf!MakeTuple(items)
  BY <1>4 DEF ListValuesOf!MakeTuple, Answers, ListValuesOf!Evaluates, V0, ValuesOf
<1> QED BY <1>1, <1>4, <1>5 DEF Refines, ListValuesOf!Next

LEMMA TakeHeadAnswers ==
  ASSUME ListInv, AnswerInv, NEW l \in Lists, TakeHead(l)
  PROVE  Refines
<1> DEFINE ty == heap[l].ty
           v == val[l]
<1>1. ty \in ListTypes /\ l \in Chain(heap, ty) /\ v \in ListValuesOf!Of(ty) /\ Memory(heap, val)
  BY NamedValues, Named
<1>2. stack = <<>> /\ ~exited /\ UNCHANGED memory /\ Evaluated("head", v, val[heap[l].value]) /\ ty \in {"strings", "lists"}
      /\ heap[l].length # 0
  BY DEF TakeHead, Evaluates
<1>3. Grown({})
  BY <1>2, SameMemory
<1>4. AnswerInv' /\ Answers("head", v, val[heap[l].value], <<>>, {})
  BY <1>2, <1>3, AtOnce
<1> HIDE DEF ty
<1>5. IsCons(v, val[heap[l].value], val[heap[l].next])
  <2>1. IsCons(v, StandsFor(val, ty, heap[l].value), val[heap[l].next])
    BY <1>1, <1>2, Listed
  <2>2. ty # "chars"
    BY <1>2
  <2> QED BY <2>1, <2>2 DEF StandsFor
<1>6. v # <<>> /\ v[1] = val[heap[l].value]
  <2>1. Len(v) = Len(val[heap[l].next]) + 1 /\ Len(val[heap[l].next]) \in Nat /\ v[1] = val[heap[l].value]
    BY <1>5, SeqIs DEF IsCons
  <2>2. Len(v) # 0
    BY <2>1
  <2> HIDE DEF v
  <2> QED BY <2>1, <2>2, EmptyIsSeq
<1>7. ListValuesOf!First(ty, v)
  <2>1. Answers("head", v, v[1], <<>>, {})
    BY <1>4, <1>6
  <2> QED BY <1>6, <2>1 DEF ListValuesOf!First, Answers, ListValuesOf!Evaluates, V0, ValuesOf
<1>8. ty \in ListValuesOf!ListTypes /\ ty # "chars"
  BY <1>1, <1>2 DEF ListTypes, ListValuesOf!ListTypes
<1> HIDE DEF v
<1> QED BY <1>1, <1>4, <1>7, <1>8 DEF Refines, ListValuesOf!Next

LEMMA CallAtAnswers ==
  ASSUME ListInv, AnswerInv, NEW l \in Lists, NEW i \in 1 .. MaxIndex, CallAt(l, i)
  PROVE  Refines
<1> DEFINE ty == heap[l].ty
           v == val[l]
<1>1. ty \in ListTypes /\ l \in Chain(heap, ty) /\ v \in ListValuesOf!Of(ty) /\ <<ty, v>> \in V0 /\ Memory(heap, val)
  BY NamedValues, Named
<1>2. stack = <<>> /\ answer = NoAnswer /\ ~exited /\ UNCHANGED memory
  BY DEF CallAt, Evaluates
<1>3. Grown({}) /\ heap' = heap /\ val' = val
  BY <1>2, SameMemory
<1>4. IsSeq(v) /\ heap[l].length = Len(v) /\ Len(v) \in Nat /\ i \in Nat
  BY <1>1, Listed, ListsAssumption
<1>5. CASE heap[l].length < i
  <2>1. exited' = TRUE /\ stack' = stack /\ known' = known /\ answer' = answer /\ printed' = printed
    BY <1>5 DEF CallAt, program
  <2>2. AnswerInv'
    BY <1>2, <1>3, <2>1 DEF AnswerInv
  <2>3. ~(i <= Len(v))
    BY <1>4, <1>5
  <2>4. ListValuesOf!Rest(ty, v, i)
    BY <1>2, <1>3, <2>1, <2>3 DEF ListValuesOf!Rest
  <2>5. ty \in ListValuesOf!ListTypes
    BY <1>1 DEF ListTypes, ListValuesOf!ListTypes
  <2> HIDE DEF ty, v
  <2> QED BY <1>1, <2>2, <2>4, <2>5 DEF Refines, ListValuesOf!Next
<1>6. CASE ~(heap[l].length < i)
  <2> DEFINE f == [Frame("at", "loop", ty, <<v, i>>) EXCEPT !.l1 = l, !.i = i]
  <2>1. Begin(f)
    BY <1>6 DEF CallAt
  <2>2. f.fn = "at" /\ f.at = "loop" /\ f.ty = ty /\ f.l1 = l /\ f.i = i /\ f.in = <<v, i>>
    BY DEF Frame
  <2> HIDE DEF f
  <2>3. f.in[1] = v /\ f.in[2] = i
    BY <2>2
  <2>4. IsRest(val[l], v, i - i) /\ i <= heap[l].length
    <3>1. IsRest(v, v, 0) /\ i - i = 0 /\ i <= heap[l].length
      BY <1>4, <1>6, RestStart
    <3> QED BY <3>1
  <2> HIDE DEF v, ty
  <2>5. AtDoes(heap, val, f)
    BY <1>1, <1>4, <2>2, <2>3, <2>4 DEF AtDoes
  <2>6. Does(heap', val', f) /\ ~Waiting(f)
    BY <1>3, <2>2, <2>5 DEF Does, Functions, Waiting
  <2>7. Says(val', f) = <<>> /\ Made(val', f) = {}
    BY <2>2, Quiet, MakesNothing
  <2>8. Asked(V0, f)
    BY <1>1, <2>2 DEF Asked
  <2> QED BY <1>2, <1>3, <2>1, <2>2, <2>6, <2>7, <2>8, BeginsAs
<1> QED BY <1>5, <1>6

LEMMA CallCreateAnswers ==
  ASSUME ListInv, AnswerInv, NEW ty \in ListTypes, NEW elements \in BoundedSeq(Values(Element[ty]), MaxElements),
         CallCreate(ty, elements)
  PROVE  Refines
<1> DEFINE V == Values(Element[ty])
           args == Reverse(elements)
           in == [k \in DOMAIN elements |-> Denotes(Element[ty], elements[k])]
           f == CreateFrame(ty, args, in)
           X == IF ty = "chars" THEN Chars ELSE {x[2] : x \in {y \in V0 : y[1] = "chars"}}
<1>1. stack = <<>> /\ answer = NoAnswer /\ ~exited /\ Begin(f) /\ Empty(ty)
  BY DEF CallCreate, Evaluates
<1>2. Grown({<<ty, <<>> >>}) /\ val'[Fresh] = <<>> /\ Memory(heap, val)
  BY <1>1, EmptyGrows DEF ListInv
<1>3. f.fn = "create" /\ f.at = "loop" /\ f.ty = ty /\ f.l1 = Fresh /\ f.els = args /\ f.in = in
  BY DEF CreateFrame, Frame
<1>4. PICK m \in 0 .. MaxElements : elements \in [1 .. m -> V]
  BY DEF BoundedSeq, SeqOf
<1>5. m \in Nat /\ m <= MaxElements /\ Len(elements) = m /\ DOMAIN elements = 1 .. m
  BY <1>4, ListsAssumption
<1>6. in = [k \in 1 .. m |-> Denotes(Element[ty], elements[k])]
  BY <1>5
<1>7. args = [k \in 1 .. m |-> elements[(m - k) + 1]]
  BY <1>5 DEF Reverse
<1>8. ASSUME NEW v \in V PROVE v \in Elements(heap, ty) /\ Denotes(Element[ty], v) = StandsFor(val, ty, v)
                                /\ StandsFor(val, ty, v) \in X /\ StandsFor(val', ty, v) = StandsFor(val, ty, v)
  <2>1. v \in Elements(heap, ty) /\ Denotes(Element[ty], v) = StandsFor(val, ty, v) /\ StandsFor(val, ty, v) \in X
    <3>1. CASE ty = "chars"
      <4>1. Element[ty] = "CHAR" /\ v \in Chars
        BY <1>8, <3>1 DEF Element, Values
      <4> QED BY <3>1, <4>1 DEF Elements, StandsFor, Denotes
    <3>2. CASE ty # "chars"
      <4>1. Element[ty] # "CHAR"
        BY <3>2 DEF Element, ListTypes
      <4>2. v \in OfType("chars")
        BY <1>8, <4>1 DEF Values
      <4>3. v \in Chain(heap, "chars") /\ <<"chars", val[v]>> \in V0
        BY <4>2, NamedValues
      <4>4. val[v] \in {x[2] : x \in {y \in V0 : y[1] = "chars"}}
        BY <4>3
      <4> QED BY <3>2, <4>1, <4>3, <4>4 DEF Elements, StandsFor, Denotes
    <3> QED BY <3>1, <3>2
  <2>2. \A n \in 1 .. Len(heap) : val'[n] = val[n]
    BY <1>2 DEF Grown, Grows
  <2> HIDE DEF V, X
  <2> QED BY <1>2, <2>1, <2>2, StandsForKept
<1> HIDE DEF V, X, f, in, args
<1>9. \A k \in 1 .. m : elements[k] \in V
  BY <1>4
<1>10. in \in Seq(X) /\ Len(in) = m /\ IsSeq(in) /\ \A k \in 1 .. m : in[k] = StandsFor(val', ty, elements[k])
  <2>1. ASSUME NEW k \in 1 .. m
        PROVE  in[k] = StandsFor(val', ty, elements[k]) /\ in[k] \in X
    <3>1. elements[k] \in V
      BY <1>9
    <3>2. in[k] = Denotes(Element[ty], elements[k])
      BY <1>6
    <3>3. /\ Denotes(Element[ty], elements[k]) = StandsFor(val, ty, elements[k])
          /\ StandsFor(val, ty, elements[k]) \in X
          /\ StandsFor(val', ty, elements[k]) = StandsFor(val, ty, elements[k])
      BY <1>8, <3>1
    <3> QED BY <3>2, <3>3
  <2>2. in = [k \in 1 .. m |-> in[k]]
    BY <1>6
  <2>3. in \in [1 .. m -> X]
    BY <2>1, <2>2
  <2>4. in \in Seq(X) /\ Len(in) = m
    BY <1>5, <2>3
  <2> QED BY <2>1, <2>4 DEF IsSeq
<1>11. Len(args) = m
  BY <1>5, <1>7
<1>12. ASSUME NEW k \in 1 .. m PROVE StandsFor(val', ty, args[k]) = in[m + 1 - k]
  <2>1. (m - k) + 1 = m + 1 - k /\ m + 1 - k \in 1 .. m
    BY <1>5
  <2>2. args[k] = elements[m + 1 - k]
    BY <1>7, <2>1
  <2> QED BY <1>10, <2>1, <2>2
<1>13. IsRest(<<>>, in, m)
  BY <1>10, RestEnd
<1>14. CreateDoes(val', f)
  <2>1. IsRest(val'[f.l1], f.in, Len(f.els))
    BY <1>2, <1>3, <1>11, <1>13
  <2>2. \A k \in 1 .. Len(f.els) : StandsFor(val', f.ty, f.els[k]) = f.in[Len(f.els) + 1 - k]
    BY <1>3, <1>11, <1>12
  <2> QED BY <1>3, <2>1, <2>2 DEF CreateDoes
<1>15. Does(heap', val', f) /\ ~Waiting(f)
  BY <1>3, <1>14 DEF Does, Functions, Waiting
<1>16. Says(val', f) = <<>>
  BY <1>3, Quiet
<1>17. Made(val', f) = {<<ty, <<>> >>}
  <2>1. Made(val', f) = Tails(ty, <<>>)
    BY <1>2, <1>3, Zenon DEF Made
  <2> QED BY <2>1, TailsEmpty
<1>18. Asked(V0, f)
  <2>1. f.in \in Seq(X) /\ Len(f.in) <= MaxElements
    BY <1>3, <1>5, <1>10
  <2> QED BY <1>3, <2>1 DEF Asked, X
<1> QED BY <1>1, <1>2, <1>3, <1>15, <1>16, <1>17, <1>18, BeginsAs

LEMMA CallCreateStringAnswers ==
  ASSUME ListInv, AnswerInv, NEW text \in Literals, CallCreateString(text)
  PROVE  Refines
<1> DEFINE f == StringFrame(text)
<1>1. stack = <<>> /\ answer = NoAnswer /\ ~exited /\ Begin(f) /\ Empty("chars")
  BY DEF CallCreateString, Evaluates
<1>2. Grown({<<"chars", <<>> >>}) /\ val'[Fresh] = <<>>
  BY <1>1, EmptyGrows DEF ListTypes
<1>3. /\ f.fn = "string" /\ f.at = "loop" /\ f.l1 = Fresh /\ f.els = text /\ f.in = text /\ f.i = Len(text) - 1
  BY DEF StringFrame, Frame
<1> HIDE DEF f
<1>4. IsSeq(text) /\ Len(text) \in Nat
  <2>1. text \in Seq(Chars)
    BY ListsAssumption
  <2> QED BY <2>1 DEF IsSeq
<1>5. StringDoes(val', f)
  <2>1. IsRest(<<>>, text, Len(text)) /\ f.i + 1 = Len(text)
    BY <1>3, <1>4, RestEnd
  <2> QED BY <1>2, <1>3, <2>1 DEF StringDoes
<1>6. Does(heap', val', f) /\ ~Waiting(f)
  BY <1>3, <1>5 DEF Does, Functions, Waiting
<1>7. Says(val', f) = <<>>
  BY <1>3, Quiet
<1>8. Made(val', f) = {<<"chars", <<>> >>}
  <2>1. Made(val', f) = Tails("chars", <<>>)
    BY <1>2, <1>3, Zenon DEF Made
  <2> QED BY <2>1, TailsEmpty
<1>9. Asked(V0, f)
  BY <1>3 DEF Asked
<1> QED BY <1>1, <1>2, <1>3, <1>6, <1>7, <1>8, <1>9, BeginsAs

LEMMA CallCompareAnswers ==
  ASSUME ListInv, AnswerInv, NEW a \in Lists, NEW b \in Lists, CallCompare(a, b)
  PROVE  Refines
<1> DEFINE ty == heap[a].ty
           v == val[a]
           w == val[b]
           f == CompareFrame(ty, a, b, <<v, w>>)
<1>1. stack = <<>> /\ answer = NoAnswer /\ ~exited /\ Begin(f) /\ UNCHANGED memory /\ heap[b].ty = ty /\ ty \in CompareTypes
  BY DEF CallCompare, Evaluates
<1>2. Grown({}) /\ heap' = heap /\ val' = val /\ Memory(heap, val)
  BY <1>1, SameMemory DEF ListInv
<1>3. f.fn = "compare" /\ f.at = "entry" /\ f.ty = ty /\ f.l1 = a /\ f.l2 = b /\ f.in = <<v, w>>
  BY DEF CompareFrame, Frame
<1>4. <<ty, v>> \in V0 /\ <<ty, w>> \in V0 /\ ty \in ListTypes /\ a \in Chain(heap, ty) /\ b \in Chain(heap, ty)
  BY <1>1, NamedValues
<1> HIDE DEF f, ty
<1>5. IsRest(v, v, 0) /\ IsRest(w, w, 0)
  BY <1>2, <1>4, Listed, RestStart
<1>6. f.in[1] = v /\ f.in[2] = w
  BY <1>3
<1>7. CompareDoes(val, f)
  <2>1. IsRest(val[f.l1], f.in[1], 0) /\ IsRest(val[f.l2], f.in[2], 0)
    BY <1>3, <1>5, <1>6
  <2> QED BY <1>3, <2>1 DEF CompareDoes
<1> HIDE DEF v, w
<1>8. Does(heap', val', f) /\ ~Waiting(f)
  BY <1>2, <1>3, <1>7 DEF Does, Functions, Waiting
<1>9. Says(val', f) = <<>> /\ Made(val', f) = {}
  BY <1>3, Quiet, MakesNothing
<1>10. Asked(V0, f)
  BY <1>1, <1>3, <1>4 DEF Asked
<1> QED BY <1>1, <1>2, <1>3, <1>8, <1>9, <1>10, BeginsAs

LEMMA CallConcatAnswers ==
  ASSUME ListInv, AnswerInv, NEW a \in Lists, NEW b \in Lists, CallConcat(a, b)
  PROVE  Refines
<1> DEFINE ty == heap[a].ty
           v == val[a]
           w == val[b]
           els == [k \in 1 .. heap[a].length |-> NULL]
           f == [Frame("concat", "loop", ty, <<v, w>>) EXCEPT !.l1 = a, !.l2 = b, !.els = els]
<1>1. stack = <<>> /\ answer = NoAnswer /\ ~exited /\ Begin(f) /\ UNCHANGED memory /\ heap[b].ty = ty
  BY DEF CallConcat, Evaluates
<1>2. Grown({}) /\ heap' = heap /\ val' = val /\ Memory(heap, val)
  BY <1>1, SameMemory DEF ListInv
<1>3. /\ f.fn = "concat" /\ f.at = "loop" /\ f.ty = ty /\ f.l1 = a /\ f.l2 = b /\ f.in = <<v, w>> /\ f.i = 0
      /\ f.els = els
  BY DEF Frame
<1>4. <<ty, v>> \in V0 /\ <<ty, w>> \in V0 /\ ty \in ListTypes /\ a \in Chain(heap, ty) /\ b \in Chain(heap, ty)
  BY <1>1, NamedValues
<1> HIDE DEF f, ty
<1>5. IsRest(v, v, 0) /\ IsSeq(v) /\ IsSeq(w) /\ heap[a].length = Len(v) /\ Len(v) \in Nat
  BY <1>2, <1>4, Listed, RestStart
<1>6. Len(els) = Len(v)
  BY <1>5
<1> HIDE DEF els
<1>7. f.in[1] = v /\ f.in[2] = w
  BY <1>3
<1>8. ConcatDoes(heap, val, f)
  <2>1. Len(f.els) = Len(f.in[1]) /\ IsSeq(f.in[1]) /\ IsSeq(f.in[2])
    BY <1>3, <1>5, <1>6, <1>7
  <2>2. IsRest(val[f.l1], f.in[1], f.i) /\ val[f.l2] = f.in[2]
    BY <1>3, <1>5, <1>7
  <2>3. \A k \in 1 .. f.i : StandsFor(val, f.ty, heap[f.els[k]].value) = f.in[1][k]
    BY <1>3
  <2> QED BY <1>3, <2>1, <2>2, <2>3 DEF ConcatDoes
<1> HIDE DEF v, w
<1>9. Does(heap', val', f) /\ ~Waiting(f)
  BY <1>2, <1>3, <1>8 DEF Does, Functions, Waiting
<1>10. Says(val', f) = <<>> /\ Made(val', f) = {}
  <2>1. f.fn # "main" /\ f.fn # "create" /\ f.fn # "string" /\ ~(f.fn = "concat" /\ f.at = "add")
    BY <1>3
  <2>2. Made(val', f) = {}
    BY <2>1, Zenon DEF Made
  <2> QED BY <1>3, <2>2, Quiet
<1>11. Asked(V0, f)
  BY <1>3, <1>4 DEF Asked
<1> QED BY <1>1, <1>2, <1>3, <1>9, <1>10, <1>11, BeginsAs

LEMMA CallCompareTupleAnswers ==
  ASSUME ListInv, AnswerInv, NEW a \in OfType("tuple"), NEW b \in OfType("tuple"), CallCompareTuple(a, b)
  PROVE  Refines
<1> DEFINE f == [Frame("compare_tuple", "loop", "tuple", <<val[a], val[b]>>) EXCEPT !.l1 = a, !.l2 = b, !.i = 1]
<1>1. stack = <<>> /\ answer = NoAnswer /\ ~exited /\ Begin(f) /\ UNCHANGED memory
  BY DEF CallCompareTuple, Evaluates
<1>2. Grown({}) /\ heap' = heap /\ val' = val
  BY <1>1, SameMemory
<1>3. f.fn = "compare_tuple" /\ f.at = "loop" /\ f.l1 = a /\ f.l2 = b /\ f.in = <<val[a], val[b]>> /\ f.i = 1
  BY DEF Frame
<1> HIDE DEF f
<1>4. <<"tuple", val[a]>> \in V0 /\ <<"tuple", val[b]>> \in V0
  BY NamedValues
<1>5. CompareTupleDoes(val, f)
  BY <1>3 DEF CompareTupleDoes
<1>6. Does(heap', val', f) /\ ~Waiting(f)
  BY <1>2, <1>3, <1>5 DEF Does, Functions, Waiting
<1>7. Says(val', f) = <<>> /\ Made(val', f) = {}
  BY <1>3, Quiet, MakesNothing
<1>8. Asked(V0, f)
  BY <1>3, <1>4 DEF Asked
<1> QED BY <1>1, <1>2, <1>3, <1>6, <1>7, <1>8, BeginsAs

LEMMA CallPrintAnswers ==
  ASSUME ListInv, AnswerInv, NEW l \in Lists, CallPrint(l)
  PROVE  Refines
<1> DEFINE ty == heap[l].ty
           f == PrintFrame(ty, l, val[l])
<1>1. stack = <<>> /\ answer = NoAnswer /\ ~exited /\ Begin(f) /\ UNCHANGED memory
  BY DEF CallPrint, Evaluates
<1>2. Grown({}) /\ heap' = heap /\ val' = val /\ Memory(heap, val)
  BY <1>1, SameMemory DEF ListInv
<1>3. <<ty, val[l]>> \in V0 /\ ty \in ListTypes /\ l \in Chain(heap, ty)
  BY NamedValues
<1> HIDE DEF ty
<1>4. Does(heap, val, f) /\ f.fn = "print" /\ f.at = "entry" /\ f.ty = ty /\ f.in = val[l] /\ Says(val, f) = <<>>
  BY <1>2, <1>3, PrintFrameDoes
<1> HIDE DEF f
<1>5. Made(val, f) = {} /\ ~Waiting(f)
  BY <1>4, MakesNothing DEF Waiting
<1>6. Asked(V0, f)
  BY <1>3, <1>4 DEF Asked
<1>7. f.fn # "main" /\ Does(heap', val', f) /\ Says(val', f) = <<>> /\ Made(val', f) = {}
  BY <1>2, <1>4, <1>5
<1> QED BY <1>1, <1>2, <1>5, <1>6, <1>7, BeginsAs

LEMMA CallPrintStringAnswers ==
  ASSUME ListInv, AnswerInv, NEW l \in OfType("chars"), CallPrintString(l)
  PROVE  Refines
<1> DEFINE f == PrintStringFrame(l, TRUE, val[l])
<1>1. stack = <<>> /\ answer = NoAnswer /\ ~exited /\ Begin(f) /\ UNCHANGED memory
  BY DEF CallPrintString, Evaluates
<1>2. Grown({}) /\ heap' = heap /\ val' = val /\ Memory(heap, val)
  BY <1>1, SameMemory DEF ListInv
<1>3. <<"chars", val[l]>> \in V0 /\ l \in Chain(heap, "chars")
  BY NamedValues
<1>4. Does(heap, val, f) /\ f.fn = "print_string" /\ f.l2 = TRUE /\ f.in = val[l]
  BY <1>2, <1>3, PrintStringFrameDoes
<1>5. f.at = "loop"
  BY DEF PrintStringFrame, Frame
<1> HIDE DEF f
<1>6. Made(val, f) = {} /\ Says(val, f) = <<>> /\ ~Waiting(f)
  BY <1>4, <1>5, MakesNothing, Quiet DEF Waiting
<1>7. Asked(V0, f)
  BY <1>3, <1>4 DEF Asked
<1>8. f.fn # "main" /\ Does(heap', val', f) /\ Says(val', f) = <<>> /\ Made(val', f) = {}
  BY <1>2, <1>4, <1>6
<1> QED BY <1>1, <1>2, <1>6, <1>7, <1>8, BeginsAs

LEMMA CallPrintTupleAnswers ==
  ASSUME ListInv, AnswerInv, NEW t \in OfType("tuple"), CallPrintTuple(t)
  PROVE  Refines
<1> DEFINE f == [Frame("print_tuple", "entry", "tuple", val[t]) EXCEPT !.l1 = t, !.i = 1]
<1>1. stack = <<>> /\ answer = NoAnswer /\ ~exited /\ Begin(f) /\ UNCHANGED memory
  BY DEF CallPrintTuple, Evaluates
<1>2. Grown({}) /\ heap' = heap /\ val' = val
  BY <1>1, SameMemory
<1>3. <<"tuple", val[t]>> \in V0
  BY NamedValues
<1>4. f.fn = "print_tuple" /\ f.at = "entry" /\ f.l1 = t /\ f.in = val[t] /\ f.i = 1
  BY DEF Frame
<1> HIDE DEF f
<1>5. PrintTupleDoes(val, f)
  BY <1>4 DEF PrintTupleDoes
<1>6. Does(heap', val', f) /\ ~Waiting(f)
  BY <1>2, <1>4, <1>5 DEF Does, Functions, Waiting
<1>7. Says(val', f) = <<>>
  <2>1. PrintTupleSays(f) = <<>>
    BY <1>4, Zenon DEF PrintTupleSays
  <2> QED BY <1>4, <2>1 DEF Says
<1>8. Made(val', f) = {} /\ Asked(V0, f)
  BY <1>3, <1>4, MakesNothing DEF Asked
<1> QED BY <1>1, <1>2, <1>4, <1>6, <1>7, <1>8, BeginsAs

LEMMA GoOnAnswers ==
  ASSUME ListInv, AnswerInv, GoOn
  PROVE  Refines
<1>1. /\ answer # NoAnswer /\ answer' = NoAnswer /\ printed' = <<>> /\ heap' = heap /\ val' = val /\ known' = known
      /\ stack' = stack /\ exited' = exited
  BY DEF GoOn, memory
<1>2. stack = <<>> /\ known = Len(heap)
  BY <1>1 DEF AnswerInv
<1>3. HasSaid(val', stack', printed')
  <2>1. \A g : stack' # <<g>>
    BY <1>1, <1>2
  <2>2. \A g, k : stack' # <<g, k>>
    BY <1>1, <1>2
  <2> QED BY <2>1, <2>2 DEF HasSaid
<1>4. AnswerInv'
  BY <1>1, <1>2, <1>3 DEF AnswerInv
<1>5. exited = FALSE
  BY <1>1 DEF AnswerInv
<1>6. ListValuesOf!Ask
  BY <1>1, <1>5 DEF ListValuesOf!Ask, NoAnswer, ListValuesOf!NoAnswer
<1> QED BY <1>4, <1>6 DEF Refines, ListValuesOf!Next

-----------------------------------------------------------------------------
(* Types. *)

LEMMA LengthsAre ==
  ASSUME NEW h, NEW w, Memory(h, w), NEW n \in 1 .. Len(h)
  PROVE  h[n].length \in Nat /\ h[n].ty \in ListTypes \cup {"tuple"} /\ h[n].next \in {NULL} \cup 1 .. Len(h)
<1>1. CASE h[n].ty = "tuple" /\ TupleNode(h, w, n)
  BY <1>1 DEF TupleNode
<1>2. CASE h[n].ty \in ListTypes /\ ListNode(h, w, n)
  <2>1. Len(w[n]) \in Nat
    BY <1>2, SeqIs DEF ListNode
  <2>2. h[n].next \in {NULL} \cup 1 .. Len(h)
    BY <1>2 DEF ListNode, EmptyNode, Chain
  <2> QED BY <1>2, <2>1, <2>2 DEF ListNode
<1> QED BY <1>1, <1>2 DEF Memory

LEMMA FrameTypes ==
  ASSUME NEW h, NEW w, Memory(h, w), NEW f, FrameFits(h, f), Does(h, w, f)
  PROVE  f.fn \in Functions /\ f.l1 \in 1 .. Len(h) /\ f.i \in Nat \cup {-1}
<1>1. f.fn \in Functions
  BY DEF Does
<1>2. CASE f.fn = "main"
  <2>1. MainFits(h, f) BY <1>2 DEF FrameFits
  <2>2. f.i \in -1 .. Len(f.els) - 1 /\ Len(f.els) \in Nat BY <2>1 DEF MainFits
  <2> QED BY <1>1, <2>1, <2>2 DEF MainFits, Chain
<1>3. CASE f.fn = "create"
  BY <1>1, <1>3 DEF FrameFits, CreateFits, Chain
<1>4. CASE f.fn = "string"
  <2>1. StringFits(h, f) BY <1>4 DEF FrameFits
  <2>2. f.i \in -1 .. Len(f.els) - 1 /\ Len(f.els) \in Nat BY <2>1 DEF StringFits
  <2> QED BY <1>1, <2>1, <2>2 DEF StringFits, Chain
<1>5. CASE f.fn = "at"
  BY <1>1, <1>5 DEF Does, AtDoes, Chain
<1>6. CASE f.fn = "compare"
  BY <1>1, <1>6 DEF FrameFits, CompareFits, Chain
<1>7. CASE f.fn = "compare_tuple"
  BY <1>1, <1>7 DEF FrameFits, TuplesFit, Chain
<1>8. CASE f.fn = "concat"
  <2>1. ConcatFits(h, f) BY <1>8 DEF FrameFits
  <2>2. f.at \in {"loop", "add"} BY <1>8 DEF Does, ConcatDoes
  <2>3. Len(f.els) \in Nat BY <2>1, SeqIs DEF ConcatFits
  <2> QED BY <1>1, <2>1, <2>2, <2>3 DEF ConcatFits, Chain
<1>9. CASE f.fn = "print"
  BY <1>1, <1>9 DEF FrameFits, PrintFits, Chain
<1>10. CASE f.fn = "print_string"
  <2>1. PrintStringFits(h, f) BY <1>10 DEF FrameFits
  <2>2. Len(f.els) \in Nat /\ f.l1 \in 1 .. Len(h) BY <2>1 DEF PrintStringFits, Chain
  <2>3. h[f.l1].length \in Nat BY <2>1, LengthsAre DEF PrintStringFits, Chain, ListTypes
  <2> QED BY <1>1, <2>1, <2>2, <2>3 DEF PrintStringFits
<1>11. CASE f.fn = "print_tuple"
  BY <1>1, <1>11 DEF FrameFits, TuplesFit, Chain
<1> QED
  BY <1>1, <1>2, <1>3, <1>4, <1>5, <1>6, <1>7, <1>8, <1>9, <1>10, <1>11 DEF Functions

LEMMA TypesFollow ==
  ASSUME ListInv, AnswerInv
  PROVE  TypeOK
<1>1. Memory(heap, val) /\ Len(heap) \in Nat
  BY SeqIs DEF ListInv, Memory
<1>2. DOMAIN val = Addresses
  BY <1>1, SeqIs DEF Memory, Addresses
<1>3. ASSUME NEW n \in Addresses
      PROVE  /\ heap[n].ty \in ListTypes \cup {"tuple"}
             /\ heap[n].next \in {NULL} \cup Addresses
             /\ heap[n].length \in Nat
  BY <1>1, <1>3, LengthsAre DEF Addresses
<1>4. known \in {0} \cup Addresses
  BY <1>1 DEF ListInv, Addresses
<1>5. ASSUME NEW k \in DOMAIN stack
      PROVE  stack[k].fn \in Functions /\ stack[k].l1 \in Addresses /\ stack[k].i \in Nat \cup {-1}
  <2>1. k \in 1 .. Len(stack) /\ FrameFits(heap, stack[k])
    BY <1>5, SeqIs DEF ListInv, Frames
  <2>2. Does(heap, val, stack[k])
    <3>1. CASE stack = <<>>
      BY <2>1, <3>1
    <3>2. ASSUME NEW f, stack = <<f>>, Does(heap, val, f)
          PROVE  Does(heap, val, stack[k])
      <4>1. k = 1 /\ stack[1] = f
        BY <2>1, <3>2, OneCall
      <4> QED BY <3>2, <4>1
    <3>3. ASSUME NEW f, NEW g, stack = <<f, g>>, Does(heap, val, f), Does(heap, val, g)
          PROVE  Does(heap, val, stack[k])
      <4>1. k \in 1 .. 2 /\ stack[1] = f /\ stack[2] = g
        BY <2>1, <3>3, TwoCalls
      <4> QED BY <3>3, <4>1
    <3> QED BY <3>1, <3>2, <3>3 DEF AnswerInv, Calling
  <2> QED BY <1>1, <2>1, <2>2, FrameTypes DEF Addresses
<1>6. exited \in BOOLEAN /\ undefined \in BOOLEAN
  BY DEF ListInv, AnswerInv
<1> QED BY <1>2, <1>3, <1>4, <1>5, <1>6 DEF TypeOK

-----------------------------------------------------------------------------
(* The theorems. *)

LEMMA ExpressionAnswers ==
  ASSUME ListInv, AnswerInv, Expression
  PROVE  Refines
<1>1. CASE \E ty \in ListTypes : \E elements \in BoundedSeq(Values(Element[ty]), MaxElements) :
             CallCreate(ty, elements)
  BY <1>1, CallCreateAnswers
<1>2. CASE \E text \in Literals : CallCreateString(text)
  BY <1>2, CallCreateStringAnswers
<1>3. CASE \E l \in Lists : \E v \in Values(Element[heap[l].ty]) : CallAdd(l, v)
  BY <1>3, CallAddAnswers
<1>4. CASE \E c \in Chars, s \in OfType("chars") : CallTuple(<<c, s>>)
  BY <1>4, CallTupleAnswers
<1>5. CASE \E l \in Lists : TakeHead(l) \/ CallPrint(l)
  BY <1>5, TakeHeadAnswers, CallPrintAnswers
<1>6. CASE \E l \in OfType("chars") : CallPrintString(l)
  BY <1>6, CallPrintStringAnswers
<1>7. CASE \E l \in Lists, i \in 1 .. MaxIndex : CallAt(l, i)
  BY <1>7, CallAtAnswers
<1>8. CASE \E a, b \in Lists : CallCompare(a, b) \/ CallConcat(a, b)
  BY <1>8, CallCompareAnswers, CallConcatAnswers
<1>9. CASE \E a, b \in OfType("tuple") : CallCompareTuple(a, b)
  BY <1>9, CallCompareTupleAnswers
<1>10. CASE \E t \in OfType("tuple") : CallPrintTuple(t)
  BY <1>10, CallPrintTupleAnswers
<1> QED
  BY <1>1, <1>2, <1>3, <1>4, <1>5, <1>6, <1>7, <1>8, <1>9, <1>10 DEF Expression

LEMMA AnswerInvInit == Init => AnswerInv /\ ListValuesOf!Init
<1> SUFFICES ASSUME Init PROVE AnswerInv /\ ListValuesOf!Init
  OBVIOUS
<1> DEFINE f == [Frame("main", "loop", "strings", Argv) EXCEPT !.l1 = 1, !.els = Argv, !.i = Len(Argv) - 1]
           one == {<<"strings", <<>> >>}
<1>1. /\ heap = <<EmptyNode("strings")>> /\ val = <<(<<>>)>> /\ stack = <<f>> /\ known = 0 /\ printed = <<>>
      /\ answer = NoAnswer /\ exited = FALSE
  BY DEF Init
<1>2. Len(heap) = 1 /\ heap[1].ty = "strings" /\ val[1] = <<>>
  BY <1>1 DEF EmptyNode
<1>3. /\ f.fn = "main" /\ f.at = "loop" /\ f.l1 = 1 /\ f.els = Argv /\ f.in = Argv /\ f.i = Len(Argv) - 1
  BY DEF Frame
<1> HIDE DEF f
<1>4. IsSeq(Argv) /\ Len(Argv) \in Nat /\ IsSeq(<<>>)
  BY ListsAssumption, EmptyIsSeq DEF IsSeq
<1>5. MainDoes(val, f)
  <2>1. f.i + 1 = Len(Argv)
    BY <1>3, <1>4
  <2>2. IsRest(val[f.l1], Argv, f.i + 1)
    BY <1>2, <1>3, <1>4, <2>1, RestEnd
  <2> QED BY <1>3, <2>2 DEF MainDoes
<1>6. Does(heap, val, f) /\ ~Waiting(f)
  BY <1>3, <1>5 DEF Does, Functions, Waiting
<1>7. MadeResumed(val, f) = one
  <2>1. Made(val, f) = Tails("strings", val[f.l1]) \cup UNION {Tails("chars", Argv[k]) : k \in f.i + 2 .. Len(Argv)}
        /\ MadeResumed(val, f) = Made(val, f)
    BY <1>3, MainMakes
  <2>2. Tails("strings", val[f.l1]) = one
    BY <1>2, <1>3, TailsEmpty
  <2>3. f.i + 2 .. Len(Argv) = {}
    BY <1>3, <1>4
  <2> QED BY <2>1, <2>2, <2>3
<1>8. ValuesOf(heap, val, known) = {} /\ ValuesOf(heap, val, Len(heap)) = one
  BY <1>1, <1>2 DEF ValuesOf
<1>9. Calling(heap, val, stack)
  BY <1>1, <1>6, OneIs
<1>10. HasSaid(val, stack, printed)
  <2>1. Now(val, f) = <<>>
    BY <1>3, Quiet
  <2> QED BY <1>1, <2>1, OneIs
<1>11. HasMade(val, stack, ValuesOf(heap, val, known), ValuesOf(heap, val, Len(heap)))
  <2> HIDE DEF one
  <2>1. one = {} \cup MadeResumed(val, f)
    BY <1>7
  <2>2. HasMade(val, <<f>>, {}, one)
    BY <2>1, OneIs
  <2> QED BY <1>1, <1>8, <2>2
<1>12. PartsAreThere(heap, val)
  <2>1. ASSUME NEW n \in 1 .. Len(heap)
        PROVE  /\ Tails(heap[n].ty, val[n]) \subseteq ValuesOf(heap, val, n)
               /\ \A k \in 1 .. Len(val[n]) : <<"chars", val[n][k]>> \in ValuesOf(heap, val, n)
    <3>1. n = 1
      BY <1>2
    <3>2. Tails(heap[1].ty, val[1]) = one /\ 1 .. Len(val[1]) = {}
      BY <1>2, TailsEmpty
    <3>3. ValuesOf(heap, val, 1) = one
      BY <1>2, <1>8
    <3> QED BY <3>1, <3>2, <3>3
  <2> QED BY <2>1 DEF PartsAreThere
<1>13. stack # <<>> /\ stack[1] = f
  BY <1>1, OneCall
<1>14. Asked(ValuesOf(heap, val, known), f)
  BY <1>3 DEF Asked
<1>15. AnswerInv
  BY <1>1, <1>9, <1>10, <1>11, <1>12, <1>13, <1>14 DEF AnswerInv
<1>16. ListValuesOf!Init
  BY <1>1, <1>8 DEF ListValuesOf!Init, ValuesOf, NoAnswer, ListValuesOf!NoAnswer
<1> QED BY <1>15, <1>16

LEMMA AnswerInvNext ==
  ASSUME ListInv, AnswerInv, [Next]_vars
  PROVE  Refines
<1>1. CASE Expression
  BY <1>1, ExpressionAnswers
<1>2. CASE GoOn
  BY <1>2, GoOnAnswers
<1>3. CASE Step
  <2>1. CASE Create \/ CreateString \/ Main \/ MainAdd \/ At
    BY <2>1, CreateAnswers, CreateStringAnswers, MainAnswers, MainAddAnswers, AtAnswers
  <2>2. CASE CompareLength \/ Compare \/ CompareTest \/ CompareTuple \/ CompareTupleTest
    BY <2>2, CompareLengthAnswers, CompareAnswers, CompareTestAnswers, CompareTupleAnswers, CompareTupleTestAnswers
  <2>3. CASE ConcatCollect \/ ConcatAdd
    BY <2>3, ConcatCollectAnswers, ConcatAddAnswers
  <2>4. CASE PrintOpen \/ PrintElement \/ PrintedElement \/ PrintClose \/ PrintString
    BY <2>4, PrintOpenAnswers, PrintElementAnswers, PrintedElementAnswers, PrintCloseAnswers, PrintStringAnswers
  <2>5. CASE PrintTupleOpen \/ PrintTupleItem \/ PrintedTupleItem
    BY <2>5, PrintTupleOpenAnswers, PrintTupleItemAnswers, PrintedTupleItemAnswers
  <2> QED
    BY <1>3, <2>1, <2>2, <2>3, <2>4, <2>5 DEF Step
<1>4. CASE Done \/ UNCHANGED vars
  <2>1. UNCHANGED vars
    BY <1>4 DEF Done
  <2>2. AnswerInv'
    BY <2>1 DEF vars, AnswerInv
  <2>3. UNCHANGED ListValuesOf!vars
    BY <2>1 DEF vars, ListValuesOf!vars
  <2> QED BY <2>2, <2>3 DEF Refines
<1> QED
  BY <1>1, <1>2, <1>3, <1>4 DEF Next

\* Every call of a generated list function is as far as its counters and nodes
\* say: what it has compared, collected, added and printed is exactly the part
\* of its operands that lies behind it, for lists of any length, any program
\* and any command line.
THEOREM AnswerInvariant == Spec => []AnswerInv
<1>1. Init => AnswerInv
  BY AnswerInvInit
<1>2. ListInv /\ AnswerInv /\ [Next]_vars => AnswerInv'
  BY AnswerInvNext DEF Refines
<1> QED
  BY <1>1, <1>2, ListInvariant, PTL DEF Spec

\* Every address that a node or a call in progress holds is one of a node, and
\* no counter goes below -1, where the loops that count down end.
THEOREM ListTypesCorrect == Spec => []TypeOK
<1> QED
  BY TypesFollow, ListInvariant, AnswerInvariant, PTL

\* The generated functions implement operations on sequences: what an
\* expression yields and prints, what the program can name afterwards and when
\* gat_list ends it, depends on the sequences its operands stand for and never
\* on the nodes that they share.
THEOREM ListsImplementSequences == Spec => ImplementsListValues
<1>1. Init => ListValuesOf!Init
  BY AnswerInvInit
<1>2. ListInv /\ AnswerInv /\ [Next]_vars => [ListValuesOf!Next]_(ListValuesOf!vars)
  BY AnswerInvNext DEF Refines
<1> QED
  BY <1>1, <1>2, ListInvariant, AnswerInvariant, PTL DEF Spec, ImplementsListValues, ListValuesOf!Spec

==============================================================================
