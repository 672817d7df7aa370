----------------------------- MODULE GenListProofs -----------------------------
(***************************************************************************)
(* The lists that the generated functions make are what they were made to  *)
(* be, for good, and no function reads what nobody has written: for any    *)
(* program, with any number of nodes.                                      *)
(*                                                                         *)
(* The invariant has two halves.  Memory says of every node what it points *)
(* to.  Frames says of every call in progress where its pointers are and   *)
(* how its counters relate to the lists behind them; a function is only    *)
(* safe because of the second, and only what the first allows to be added  *)
(* to the heap keeps the lists as they are.  Both speak of a heap h and of *)
(* what its nodes stand for, w, so that they can be asserted before and    *)
(* after a step.                                                           *)
(***************************************************************************)
EXTENDS GenList, SequenceTheorems, TLAPS

IsSeq(s) == \E S : s \in Seq(S)

Chain(h, ty) == {n \in 1 .. Len(h) : h[n].ty = ty}
\* The values that the elements of a list type have.
Elements(h, ty) == IF ty = "chars" THEN Chars ELSE Chain(h, "chars")
StandsFor(w, ty, v) == IF ty = "chars" THEN v ELSE w[v]

ListNode(h, w, n) ==
  /\ IsSeq(w[n]) /\ h[n].length = Len(w[n])
  /\ h[n].length = 0 => h[n] = EmptyNode(h[n].ty)
  /\ h[n].length # 0 =>
       /\ h[n].next \in Chain(h, h[n].ty) /\ h[n].next < n
       /\ h[n].value \in Elements(h, h[n].ty)
       /\ h[n].ty # "chars" => h[n].value < n
       /\ w[n] = <<StandsFor(w, h[n].ty, h[n].value)>> \o w[h[n].next]

TupleNode(h, w, n) ==
  /\ h[n].next = NULL /\ h[n].length = 0
  /\ h[n].value[2] \in Chain(h, "chars")
  /\ w[n] = <<h[n].value[1], w[h[n].value[2]]>>

Memory(h, w) ==
  /\ IsSeq(h) /\ IsSeq(w) /\ Len(w) = Len(h)
  /\ \A n \in 1 .. Len(h) :
       \/ h[n].ty \in ListTypes /\ ListNode(h, w, n)
       \/ h[n].ty = "tuple" /\ TupleNode(h, w, n)

-----------------------------------------------------------------------------
\* What a call in progress relies on, by function.
IsFrame(f) == DOMAIN f = {"fn", "at", "ty", "l1", "l2", "i", "els", "got", "in"}

MainFits(h, f) ==
  /\ f.l1 \in Chain(h, "strings")
  /\ f.els \in Seq(Seq(Chars)) /\ f.i \in -1 .. Len(f.els) - 1
  /\ f.at = "add" => f.i >= 0

CreateFits(h, f) ==
  /\ f.ty \in ListTypes /\ f.l1 \in Chain(h, f.ty) /\ f.i = 0
  /\ f.els \in Seq(Elements(h, f.ty))

StringFits(h, f) ==
  /\ f.l1 \in Chain(h, "chars")
  /\ f.els \in Seq(Chars) /\ f.i \in -1 .. Len(f.els) - 1

\* Past its entry the two lists are equally long.
CompareFits(h, f) ==
  /\ f.ty \in ListTypes /\ f.l1 \in Chain(h, f.ty) /\ f.l2 \in Chain(h, f.ty) /\ f.i = 0
  /\ f.at \in {"loop", "test"} => h[f.l1].length = h[f.l2].length
  /\ f.at = "test" => h[f.l1].length # 0

\* els has room for the nodes that are still to come, and then holds one for
\* each element.
ConcatFits(h, f) ==
  /\ f.ty \in ListTypes /\ f.l1 \in Chain(h, f.ty) /\ f.l2 \in Chain(h, f.ty)
  /\ IsSeq(f.els)
  /\ f.at = "loop" => /\ f.i \in Nat /\ f.i + h[f.l1].length = Len(f.els)
                      /\ \A k \in 1 .. f.i : f.els[k] \in Chain(h, f.ty) /\ h[f.els[k]].length # 0
  /\ f.at = "add" => /\ f.i \in -1 .. Len(f.els) - 1
                     /\ \A k \in 1 .. Len(f.els) : f.els[k] \in Chain(h, f.ty) /\ h[f.els[k]].length # 0

PrintFits(h, f) ==
  /\ f.ty \in ListTypes /\ f.l1 \in Chain(h, f.ty) /\ f.i = 0
  /\ f.at = "next" => h[f.l1].length # 0

\* The buffer has room for the characters that are left and the last 0.
PrintStringFits(h, f) ==
  /\ f.l1 \in Chain(h, "chars")
  /\ f.els \in Seq(Chars) /\ f.i = Len(f.els) + h[f.l1].length + 1

TuplesFit(h, f, most) ==
  /\ f.l1 \in Chain(h, "tuple") /\ f.i \in 1 .. most

FrameFits(h, f) ==
  /\ IsFrame(f)
  /\ f.fn = "main" => MainFits(h, f)
  /\ f.fn = "create" => CreateFits(h, f)
  /\ f.fn = "string" => StringFits(h, f)
  /\ f.fn = "compare" => CompareFits(h, f)
  /\ f.fn = "compare_tuple" => TuplesFit(h, f, IF f.at = "test" THEN 2 ELSE 3) /\ f.l2 \in Chain(h, "tuple")
  /\ f.fn = "concat" => ConcatFits(h, f)
  /\ f.fn = "print" => PrintFits(h, f)
  /\ f.fn = "print_string" => PrintStringFits(h, f)
  /\ f.fn = "print_tuple" => TuplesFit(h, f, 2)

\* main adds a string to its list once gcrt_string has returned it.
WaitsForString(h, s) ==
  \A k \in 1 .. Len(s) : s[k].fn = "main" /\ s[k].at = "add" =>
     IF k = Len(s) THEN s[k].got \in Chain(h, "chars") ELSE s[k + 1].fn = "string"

Frames(h, s) ==
  /\ IsSeq(s)
  /\ \A k \in 1 .. Len(s) : FrameFits(h, s[k])
  /\ WaitsForString(h, s)

ListInv ==
  /\ Memory(heap, val)
  /\ Frames(heap, stack)
  /\ known \in 0 .. Len(heap)
  /\ undefined = FALSE

-----------------------------------------------------------------------------
(* Stacks and heaps are sequences. *)

LEMMA AppendSeq ==
  ASSUME NEW s, IsSeq(s), NEW x
  PROVE  /\ IsSeq(Append(s, x))
         /\ Len(Append(s, x)) = Len(s) + 1
         /\ \A k \in 1 .. Len(s) : Append(s, x)[k] = s[k]
         /\ Append(s, x)[Len(s) + 1] = x
         /\ Len(s) \in Nat
<1>1. PICK S : s \in Seq(S)
  BY DEF IsSeq
<1>2. s \in Seq(S \cup {x}) /\ x \in S \cup {x}
  BY <1>1
<1>3. Append(s, x) \in Seq(S \cup {x})
  BY <1>2
<1> QED
  BY <1>2, <1>3 DEF IsSeq

LEMMA FrontSeq ==
  ASSUME NEW s, IsSeq(s), s # <<>>
  PROVE  /\ IsSeq(Front(s))
         /\ Len(Front(s)) = Len(s) - 1
         /\ \A k \in 1 .. Len(s) - 1 : Front(s)[k] = s[k]
         /\ Len(s) \in Nat \ {0}
<1>1. PICK S : s \in Seq(S)
  BY DEF IsSeq
<1>2. Len(s) \in Nat \ {0}
  BY <1>1
<1>3. /\ SubSeq(s, 1, Len(s) - 1) \in Seq(S)
      /\ Len(SubSeq(s, 1, Len(s) - 1)) = Len(s) - 1
  <2> DEFINE n == Len(s) - 1
  <2>1. n \in Nat /\ \A i \in 1 .. n : s[i] \in S
    BY <1>1, <1>2
  <2> HIDE DEF n
  <2>2. SubSeq(s, 1, n) \in Seq(S)
    BY <2>1, SubSeqProperties
  <2>3. Len(SubSeq(s, 1, n)) = n
    BY <2>1
  <2>4. QED
    BY <2>2, <2>3 DEF n
<1>4. \A k \in 1 .. Len(s) - 1 : SubSeq(s, 1, Len(s) - 1)[k] = s[k]
  BY <1>1, <1>2
<1> QED
  BY <1>2, <1>3, <1>4 DEF Front, IsSeq

\* The top frame is replaced.
LEMMA GotoSeq ==
  ASSUME NEW s, IsSeq(s), s # <<>>, NEW f
  PROVE  /\ IsSeq(Append(Front(s), f))
         /\ Len(Append(Front(s), f)) = Len(s)
         /\ \A k \in 1 .. Len(s) - 1 : Append(Front(s), f)[k] = s[k]
         /\ Append(Front(s), f)[Len(s)] = f
         /\ Len(s) \in Nat \ {0}
<1> DEFINE r == Front(s)
<1>1. IsSeq(r) /\ Len(r) = Len(s) - 1 /\ Len(s) \in Nat \ {0} /\ \A k \in 1 .. Len(s) - 1 : r[k] = s[k]
  BY FrontSeq
<1> HIDE DEF r
<1>2. /\ IsSeq(Append(r, f))
      /\ Len(Append(r, f)) = Len(r) + 1
      /\ \A k \in 1 .. Len(r) : Append(r, f)[k] = r[k]
      /\ Append(r, f)[Len(r) + 1] = f
  BY <1>1, AppendSeq
<1>3. Len(r) + 1 = Len(s)
  BY <1>1
<1>4. \A k \in 1 .. Len(s) - 1 : Append(r, f)[k] = s[k]
  BY <1>1, <1>2
<1> QED
  BY <1>1, <1>2, <1>3, <1>4 DEF r

\* The top frame is replaced and another one put on it.
LEMMA CallSeq ==
  ASSUME NEW s, IsSeq(s), s # <<>>, NEW f, NEW g
  PROVE  LET t == Append(Front(s), f) \o <<g>>
         IN /\ IsSeq(t)
            /\ Len(t) = Len(s) + 1
            /\ \A k \in 1 .. Len(s) - 1 : t[k] = s[k]
            /\ t[Len(s)] = f
            /\ t[Len(s) + 1] = g
            /\ Len(s) \in Nat \ {0}
<1> DEFINE r == Append(Front(s), f)
<1>1. IsSeq(r) /\ Len(r) = Len(s) /\ r[Len(s)] = f /\ Len(s) \in Nat \ {0}
      /\ \A k \in 1 .. Len(s) - 1 : r[k] = s[k]
  BY GotoSeq
<1>2. PICK S : r \in Seq(S)
  BY <1>1 DEF IsSeq
<1>3. r \in Seq(S \cup {g}) /\ <<g>> \in Seq(S \cup {g})
  BY <1>2
<1>4. r \o <<g>> \in Seq(S \cup {g})
  BY <1>3
<1>5. /\ Len(r \o <<g>>) = Len(r) + 1
      /\ \A k \in 1 .. Len(r) : (r \o <<g>>)[k] = r[k]
      /\ (r \o <<g>>)[Len(r) + 1] = g
  BY <1>3
<1> HIDE DEF r
<1>6. IsSeq(r \o <<g>>)
  BY <1>4 DEF IsSeq
<1> QED
  BY <1>1, <1>5, <1>6 DEF r

\* The top frame is left and the one below it replaced.
LEMMA ReturnSeq ==
  ASSUME NEW s, IsSeq(s), Len(s) > 1, NEW f
  PROVE  LET t == Append(Front(Front(s)), f)
         IN /\ IsSeq(t)
            /\ Len(t) = Len(s) - 1
            /\ \A k \in 1 .. Len(s) - 2 : t[k] = s[k]
            /\ t[Len(s) - 1] = f
            /\ Len(s) \in Nat
<1> DEFINE r == Front(s)
<1>1. s # <<>>
  BY DEF IsSeq
<1>2. IsSeq(r) /\ Len(r) = Len(s) - 1 /\ Len(s) \in Nat \ {0} /\ \A k \in 1 .. Len(s) - 1 : r[k] = s[k]
  BY <1>1, FrontSeq
<1> HIDE DEF r
<1>3. r # <<>>
  BY <1>2
<1>4. /\ IsSeq(Append(Front(r), f))
      /\ Len(Append(Front(r), f)) = Len(r)
      /\ \A k \in 1 .. Len(r) - 1 : Append(Front(r), f)[k] = r[k]
      /\ Append(Front(r), f)[Len(r)] = f
      /\ Len(r) \in Nat \ {0}
  BY <1>2, <1>3, GotoSeq, Zenon
<1>5. Len(r) = Len(s) - 1 /\ Len(r) - 1 = Len(s) - 2
  BY <1>2
<1>6. \A k \in 1 .. Len(s) - 2 : Append(Front(r), f)[k] = s[k]
  BY <1>2, <1>4, <1>5
<1>7. Append(Front(r), f)[Len(s) - 1] = f /\ Len(Append(Front(r), f)) = Len(s) - 1
  BY <1>4, <1>5
<1> QED
  BY <1>2, <1>4, <1>6, <1>7 DEF r

-----------------------------------------------------------------------------
(* A heap that grows. *)

Extends(h, g) ==
  /\ Len(h) \in Nat /\ Len(g) \in Nat /\ Len(h) <= Len(g)
  /\ \A n \in 1 .. Len(h) : g[n] = h[n]

LEMMA ChainsGrow ==
  ASSUME NEW h, NEW g, Extends(h, g), NEW ty
  PROVE  /\ \A n \in Chain(h, ty) : n \in Chain(g, ty) /\ g[n] = h[n]
         /\ \A v \in Elements(h, ty) : v \in Elements(g, ty)
BY DEF Extends, Chain, Elements

\* What a call relies on stays true of a heap that grows.
LEMMA FrameKept ==
  ASSUME NEW h, NEW g, Extends(h, g), NEW f, FrameFits(h, f)
  PROVE  FrameFits(g, f)
<1>1. \A ty : \A n \in Chain(h, ty) : n \in Chain(g, ty) /\ g[n] = h[n]
  BY ChainsGrow
<1>2. \A ty : Elements(h, ty) \subseteq Elements(g, ty)
  BY ChainsGrow
<1>3. f.fn = "main" => MainFits(g, f)
  BY <1>1 DEF FrameFits, MainFits
<1>4. f.fn = "create" => CreateFits(g, f)
  <2> SUFFICES ASSUME CreateFits(h, f) PROVE CreateFits(g, f)
    BY DEF FrameFits
  <2>1. Elements(h, f.ty) \subseteq Elements(g, f.ty) /\ f.els \in Seq(Elements(h, f.ty))
    BY <1>2 DEF CreateFits
  <2>2. f.els \in Seq(Elements(g, f.ty))
    BY <2>1
  <2> QED
    BY <1>1, <2>2 DEF CreateFits
<1>5. f.fn = "string" => StringFits(g, f)
  BY <1>1 DEF FrameFits, StringFits
<1>6. f.fn = "compare" => CompareFits(g, f)
  BY <1>1 DEF FrameFits, CompareFits
<1>7. f.fn = "concat" => ConcatFits(g, f)
  BY <1>1 DEF FrameFits, ConcatFits
<1>8. f.fn = "print" => PrintFits(g, f)
  BY <1>1 DEF FrameFits, PrintFits
<1>9. f.fn = "print_string" => PrintStringFits(g, f)
  BY <1>1 DEF FrameFits, PrintStringFits
<1>10. /\ f.fn = "compare_tuple" => TuplesFit(g, f, IF f.at = "test" THEN 2 ELSE 3) /\ f.l2 \in Chain(g, "tuple")
       /\ f.fn = "print_tuple" => TuplesFit(g, f, 2)
  BY <1>1 DEF FrameFits, TuplesFit
<1> QED
  BY <1>3, <1>4, <1>5, <1>6, <1>7, <1>8, <1>9, <1>10 DEF FrameFits

LEMMA FramesKept ==
  ASSUME NEW h, NEW g, Extends(h, g), NEW s, Frames(h, s)
  PROVE  Frames(g, s)
<1>1. \A k \in 1 .. Len(s) : FrameFits(g, s[k])
  BY FrameKept DEF Frames
<1>2. WaitsForString(g, s)
  BY ChainsGrow DEF Frames, WaitsForString
<1> QED
  BY <1>1, <1>2 DEF Frames

\* The nodes that are there do not change with one that is added.
LEMMA MemoryGrows ==
  ASSUME NEW h, NEW w, Memory(h, w), NEW node, NEW m,
         LET g == Append(h, node)
             x == Append(w, m)
         IN \/ node.ty \in ListTypes /\ ListNode(g, x, Len(h) + 1)
            \/ node.ty = "tuple" /\ TupleNode(g, x, Len(h) + 1)
  PROVE  Memory(Append(h, node), Append(w, m)) /\ Extends(h, Append(h, node))
<1> DEFINE g == Append(h, node)
           x == Append(w, m)
<1>1. /\ IsSeq(g) /\ Len(g) = Len(h) + 1 /\ \A k \in 1 .. Len(h) : g[k] = h[k]
      /\ g[Len(h) + 1] = node /\ Len(h) \in Nat
  BY AppendSeq DEF Memory
<1>2. /\ IsSeq(x) /\ Len(x) = Len(h) + 1 /\ \A k \in 1 .. Len(h) : x[k] = w[k]
  BY AppendSeq DEF Memory
<1>3. \/ node.ty \in ListTypes /\ ListNode(g, x, Len(h) + 1)
      \/ node.ty = "tuple" /\ TupleNode(g, x, Len(h) + 1)
  OBVIOUS
<1> HIDE DEF g, x
<1>4. Extends(h, g)
  BY <1>1 DEF Extends
<1>5. ASSUME NEW n \in 1 .. Len(h)
      PROVE  \/ g[n].ty \in ListTypes /\ ListNode(g, x, n)
             \/ g[n].ty = "tuple" /\ TupleNode(g, x, n)
  <2>1. g[n] = h[n] /\ x[n] = w[n]
    BY <1>1, <1>2
  <2>2. CASE h[n].ty \in ListTypes /\ ListNode(h, w, n)
    <3>1. ASSUME h[n].length # 0
          PROVE  /\ g[n].next \in Chain(g, g[n].ty) /\ g[n].next < n
                 /\ g[n].value \in Elements(g, g[n].ty)
                 /\ g[n].ty # "chars" => g[n].value < n
                 /\ x[n] = <<StandsFor(x, g[n].ty, g[n].value)>> \o x[g[n].next]
      <4>1. /\ h[n].next \in Chain(h, h[n].ty) /\ h[n].next < n
            /\ h[n].value \in Elements(h, h[n].ty)
            /\ h[n].ty # "chars" => h[n].value < n
            /\ w[n] = <<StandsFor(w, h[n].ty, h[n].value)>> \o w[h[n].next]
        BY <2>2, <3>1 DEF ListNode
      <4>2. StandsFor(x, h[n].ty, h[n].value) = StandsFor(w, h[n].ty, h[n].value)
        BY <4>1, <1>2 DEF StandsFor, Elements, Chain
      <4>3. x[h[n].next] = w[h[n].next]
        BY <4>1, <1>2 DEF Chain
      <4> QED
        BY <1>4, <2>1, <4>1, <4>2, <4>3, ChainsGrow
    <3> QED
      BY <2>1, <2>2, <3>1 DEF ListNode
  <2>3. CASE h[n].ty = "tuple" /\ TupleNode(h, w, n)
    <3>1. h[n].value[2] \in Chain(g, "chars") /\ x[h[n].value[2]] = w[h[n].value[2]]
      <4>1. h[n].value[2] \in Chain(h, "chars")
        BY <2>3 DEF TupleNode
      <4>2. h[n].value[2] \in Chain(g, "chars")
        BY <4>1, <1>4, ChainsGrow
      <4> QED
        BY <4>1, <4>2, <1>2 DEF Chain
    <3> QED
      BY <2>1, <2>3, <3>1 DEF TupleNode
  <2> QED
    BY <2>2, <2>3 DEF Memory
<1>6. Memory(g, x)
  <2> SUFFICES ASSUME NEW n \in 1 .. Len(g)
               PROVE  \/ g[n].ty \in ListTypes /\ ListNode(g, x, n)
                      \/ g[n].ty = "tuple" /\ TupleNode(g, x, n)
    BY <1>1, <1>2 DEF Memory
  <2>1. n \in 1 .. Len(h) \/ n = Len(h) + 1
    BY <1>1
  <2> QED
    BY <1>1, <1>3, <1>5, <2>1
<1> QED
  BY <1>4, <1>6 DEF g, x

\* gcrt_list(0): an empty node may be added.
LEMMA EmptyAdded ==
  ASSUME NEW h, NEW w, Memory(h, w), NEW ty \in ListTypes
  PROVE  LET g == Append(h, EmptyNode(ty))
         IN Memory(g, Append(w, <<>>)) /\ Extends(h, g) /\ Len(h) + 1 \in Chain(g, ty)
<1> DEFINE g == Append(h, EmptyNode(ty))
           x == Append(w, <<>>)
<1>1. Len(h) \in Nat /\ Len(g) = Len(h) + 1 /\ g[Len(h) + 1] = EmptyNode(ty)
  BY AppendSeq DEF Memory
<1>2. Len(w) = Len(h) /\ x[Len(h) + 1] = <<>>
  BY AppendSeq DEF Memory
<1> HIDE DEF g, x
<1>3. ListNode(g, x, Len(h) + 1)
  BY <1>1, <1>2 DEF ListNode, EmptyNode, IsSeq
<1> QED
  BY <1>1, <1>3, MemoryGrows DEF EmptyNode, Chain, g, x

\* gadd_list: a node may be put in front of a list.
LEMMA NodeAdded ==
  ASSUME NEW h, NEW w, Memory(h, w), NEW ty \in ListTypes, NEW l \in Chain(h, ty), NEW v \in Elements(h, ty)
  PROVE  LET g == Append(h, [ty |-> ty, next |-> l, length |-> h[l].length + 1, value |-> v])
             x == Append(w, <<StandsFor(w, ty, v)>> \o w[l])
         IN Memory(g, x) /\ Extends(h, g) /\ Len(h) + 1 \in Chain(g, ty)
<1> DEFINE node == [ty |-> ty, next |-> l, length |-> h[l].length + 1, value |-> v]
           m == <<StandsFor(w, ty, v)>> \o w[l]
           g == Append(h, node)
           x == Append(w, m)
<1>1. /\ Len(h) \in Nat /\ Len(g) = Len(h) + 1 /\ g[Len(h) + 1] = node
      /\ \A k \in 1 .. Len(h) : g[k] = h[k]
  BY AppendSeq DEF Memory
<1>2. /\ Len(w) = Len(h) /\ x[Len(h) + 1] = m
      /\ \A k \in 1 .. Len(h) : x[k] = w[k]
  BY AppendSeq DEF Memory
<1>3. l \in 1 .. Len(h) /\ ListNode(h, w, l)
  BY DEF Chain, Memory, ListTypes
<1>4. IsSeq(w[l]) /\ Len(w[l]) = h[l].length
  BY <1>3 DEF ListNode
<1>5. IsSeq(m) /\ Len(m) = Len(w[l]) + 1 /\ Len(w[l]) \in Nat
  <2>1. PICK S : w[l] \in Seq(S)
    BY <1>4 DEF IsSeq
  <2> DEFINE y == StandsFor(w, ty, v)
  <2> HIDE DEF y
  <2>2. w[l] \in Seq(S \cup {y}) /\ <<y>> \in Seq(S \cup {y})
    BY <2>1
  <2>3. <<y>> \o w[l] \in Seq(S \cup {y}) /\ Len(<<y>> \o w[l]) = Len(w[l]) + 1
    BY <2>2
  <2>4. Len(w[l]) \in Nat
    BY <2>1
  <2> QED
    BY <2>3, <2>4 DEF IsSeq, y
<1>6. Extends(h, g)
  BY <1>1 DEF Extends
<1>7. l \in Chain(g, ty) /\ v \in Elements(g, ty)
  BY <1>6, ChainsGrow
<1>8. StandsFor(x, ty, v) = StandsFor(w, ty, v) /\ x[l] = w[l]
  BY <1>2, <1>3 DEF StandsFor, Elements, Chain
<1>9. ty # "chars" => v \in 1 .. Len(h)
  BY DEF Elements, Chain
<1>10. node.ty = ty /\ node.next = l /\ node.length = Len(w[l]) + 1 /\ node.value = v
  BY <1>4
<1> HIDE DEF node, g, x
<1>11. ListNode(g, x, Len(h) + 1)
  <2>1. g[Len(h) + 1] = node /\ x[Len(h) + 1] = m
    BY <1>1, <1>2
  <2>2. node.length # 0 /\ IsSeq(m) /\ node.length = Len(m)
    BY <1>5, <1>10
  <2>3. node.next < Len(h) + 1 /\ (ty # "chars" => node.value < Len(h) + 1)
    BY <1>1, <1>3, <1>9, <1>10
  <2>4. m = <<StandsFor(x, ty, v)>> \o x[l]
    BY <1>8
  <2> HIDE DEF m
  <2> QED
    BY <1>7, <1>10, <2>1, <2>2, <2>3, <2>4 DEF ListNode
<1>12. node.ty \in ListTypes
  BY <1>10
<1> HIDE DEF m
<1>13. Memory(g, x) /\ Extends(h, g)
  BY <1>11, <1>12, MemoryGrows DEF g, x
<1>14. Len(h) + 1 \in Chain(g, ty)
  BY <1>1, <1>10 DEF Chain
<1> QED
  BY <1>13, <1>14 DEF g, x, m, node

\* gcrt_tuple.
LEMMA TupleAdded ==
  ASSUME NEW h, NEW w, Memory(h, w), NEW c, NEW v \in Chain(h, "chars")
  PROVE  LET g == Append(h, [EmptyNode("tuple") EXCEPT !.value = <<c, v>>])
         IN Memory(g, Append(w, <<c, w[v]>>)) /\ Extends(h, g)
<1> DEFINE node == [EmptyNode("tuple") EXCEPT !.value = <<c, v>>]
           m == <<c, w[v]>>
           g == Append(h, node)
           x == Append(w, m)
<1>1. /\ Len(h) \in Nat /\ Len(g) = Len(h) + 1 /\ g[Len(h) + 1] = node
      /\ \A k \in 1 .. Len(h) : g[k] = h[k]
  BY AppendSeq DEF Memory
<1>2. /\ Len(w) = Len(h) /\ x[Len(h) + 1] = m
      /\ \A k \in 1 .. Len(h) : x[k] = w[k]
  BY AppendSeq DEF Memory
<1>3. Extends(h, g)
  BY <1>1 DEF Extends
<1>4. node.ty = "tuple" /\ node.value = <<c, v>> /\ node.next = NULL /\ node.length = 0
  BY DEF EmptyNode
<1>5. x[v] = w[v] /\ v \in Chain(g, "chars")
  BY <1>2, <1>3, ChainsGrow DEF Chain
<1> HIDE DEF node, g, x
<1>6. TupleNode(g, x, Len(h) + 1)
  BY <1>1, <1>2, <1>4, <1>5 DEF TupleNode
<1> HIDE DEF m
<1>7. Memory(g, x) /\ Extends(h, g)
  BY <1>4, <1>6, MemoryGrows DEF g, x
<1> QED
  BY <1>7 DEF g, x, m, node

-----------------------------------------------------------------------------
(* Calls, and what they leave on the stack. *)

LEMMA BeginFits ==
  ASSUME NEW h, NEW f, FrameFits(h, f), f.fn # "main"
  PROVE  Frames(h, <<f>>)
<1>1. IsSeq(<<f>>) /\ Len(<<f>>) = 1 /\ <<f>>[1] = f
  <2>1. <<f>> \in Seq({f})
    OBVIOUS
  <2> QED
    BY <2>1 DEF IsSeq
<1> QED
  BY <1>1 DEF Frames, WaitsForString

LEMMA GotoFits ==
  ASSUME NEW h, NEW s, Frames(h, s), s # <<>>,
         NEW f, FrameFits(h, f), f.fn = Last(s).fn, ~(f.fn = "main" /\ f.at = "add")
  PROVE  Frames(h, Append(Front(s), f))
<1> DEFINE t == Append(Front(s), f)
<1>1. /\ IsSeq(t) /\ Len(t) = Len(s) /\ Len(s) \in Nat \ {0}
      /\ \A k \in 1 .. Len(s) - 1 : t[k] = s[k]
      /\ t[Len(s)] = f
  BY GotoSeq DEF Frames
<1> HIDE DEF t
<1>2. \A k \in 1 .. Len(t) : FrameFits(h, t[k])
  <2> SUFFICES ASSUME NEW k \in 1 .. Len(t) PROVE FrameFits(h, t[k])
    OBVIOUS
  <2>1. k = Len(s) \/ k \in 1 .. Len(s) - 1
    BY <1>1
  <2> QED
    BY <1>1, <2>1 DEF Frames
<1>3. WaitsForString(h, t)
  <2> SUFFICES ASSUME NEW k \in 1 .. Len(t), t[k].fn = "main", t[k].at = "add"
               PROVE  IF k = Len(t) THEN t[k].got \in Chain(h, "chars") ELSE t[k + 1].fn = "string"
    BY DEF WaitsForString
  <2>1. k \in 1 .. Len(s) - 1 /\ t[k] = s[k]
    BY <1>1
  <2>2. s[k + 1].fn = "string"
    BY <1>1, <2>1 DEF Frames, WaitsForString
  <2>3. t[k + 1].fn = s[k + 1].fn
    <3>1. k + 1 \in 1 .. Len(s) - 1 \/ k + 1 = Len(s)
      BY <1>1, <2>1
    <3> QED
      BY <1>1, <3>1 DEF Last
  <2> QED
    BY <1>1, <2>1, <2>2, <2>3
<1> QED
  BY <1>1, <1>2, <1>3 DEF Frames, t

LEMMA CallFits ==
  ASSUME NEW h, NEW s, Frames(h, s), s # <<>>,
         NEW f, FrameFits(h, f), f.fn = Last(s).fn,
         NEW g, FrameFits(h, g), g.fn # "main",
         (f.fn = "main" /\ f.at = "add") => g.fn = "string"
  PROVE  Frames(h, Append(Front(s), f) \o <<g>>)
<1> DEFINE t == Append(Front(s), f) \o <<g>>
<1>1. /\ IsSeq(t) /\ Len(t) = Len(s) + 1 /\ Len(s) \in Nat \ {0}
      /\ \A k \in 1 .. Len(s) - 1 : t[k] = s[k]
      /\ t[Len(s)] = f /\ t[Len(s) + 1] = g
  BY CallSeq DEF Frames
<1> HIDE DEF t
<1>2. \A k \in 1 .. Len(t) : FrameFits(h, t[k])
  <2> SUFFICES ASSUME NEW k \in 1 .. Len(t) PROVE FrameFits(h, t[k])
    OBVIOUS
  <2>1. k = Len(s) + 1 \/ k = Len(s) \/ k \in 1 .. Len(s) - 1
    BY <1>1
  <2> QED
    BY <1>1, <2>1 DEF Frames
<1>3. WaitsForString(h, t)
  <2> SUFFICES ASSUME NEW k \in 1 .. Len(t), t[k].fn = "main", t[k].at = "add"
               PROVE  IF k = Len(t) THEN t[k].got \in Chain(h, "chars") ELSE t[k + 1].fn = "string"
    BY DEF WaitsForString
  <2>1. k = Len(s) \/ k \in 1 .. Len(s) - 1
    BY <1>1
  <2>2. CASE k = Len(s)
    BY <1>1, <2>2
  <2>3. CASE k \in 1 .. Len(s) - 1
    <3>1. s[k + 1].fn = "string"
      BY <1>1, <2>3 DEF Frames, WaitsForString
    <3>2. t[k + 1].fn = s[k + 1].fn
      <4>1. k + 1 \in 1 .. Len(s) - 1 \/ k + 1 = Len(s)
        BY <1>1, <2>3
      <4> QED
        BY <1>1, <4>1 DEF Last
    <3> QED
      BY <1>1, <2>3, <3>1, <3>2
  <2> QED
    BY <2>1, <2>2, <2>3
<1> QED
  BY <1>1, <1>2, <1>3 DEF Frames, t

\* A result is no part of what a function relies on, but for main.
LEMMA ResultFits ==
  ASSUME NEW h, NEW f, FrameFits(h, f), NEW v, NEW g, g = [f EXCEPT !.got = v]
  PROVE  FrameFits(h, g) /\ g.fn = f.fn /\ g.at = f.at /\ g.got = v
<1>1. /\ IsFrame(g) /\ g.got = v
      /\ g.fn = f.fn /\ g.at = f.at /\ g.ty = f.ty /\ g.l1 = f.l1 /\ g.l2 = f.l2 /\ g.i = f.i /\ g.els = f.els
  BY DEF FrameFits, IsFrame
<1>2. /\ MainFits(h, g) <=> MainFits(h, f)
      /\ CreateFits(h, g) <=> CreateFits(h, f)
      /\ StringFits(h, g) <=> StringFits(h, f)
      /\ CompareFits(h, g) <=> CompareFits(h, f)
      /\ ConcatFits(h, g) <=> ConcatFits(h, f)
      /\ PrintFits(h, g) <=> PrintFits(h, f)
      /\ PrintStringFits(h, g) <=> PrintStringFits(h, f)
      /\ \A most : TuplesFit(h, g, most) <=> TuplesFit(h, f, most)
  BY <1>1 DEF MainFits, CreateFits, StringFits, CompareFits, ConcatFits, PrintFits, PrintStringFits, TuplesFit
<1>3. FrameFits(h, g)
  BY <1>1, <1>2 DEF FrameFits
<1> QED
  BY <1>1, <1>3

LEMMA ReturnFits ==
  ASSUME NEW h, NEW s, Frames(h, s), Len(s) > 1,
         NEW v, Last(s).fn = "string" => v \in Chain(h, "chars")
  PROVE  Frames(h, Append(Front(Front(s)), [s[Len(s) - 1] EXCEPT !.got = v]))
<1> DEFINE f == [s[Len(s) - 1] EXCEPT !.got = v]
           t == Append(Front(Front(s)), f)
<1>1. /\ IsSeq(t) /\ Len(t) = Len(s) - 1 /\ Len(s) \in Nat
      /\ \A k \in 1 .. Len(s) - 2 : t[k] = s[k]
      /\ t[Len(s) - 1] = f
  BY ReturnSeq DEF Frames
<1>2. FrameFits(h, s[Len(s) - 1])
  BY <1>1 DEF Frames
<1>3. FrameFits(h, f) /\ f.fn = s[Len(s) - 1].fn /\ f.at = s[Len(s) - 1].at /\ f.got = v
  <2> DEFINE b == s[Len(s) - 1]
  <2> HIDE DEF b
  <2>1. FrameFits(h, b)
    BY <1>2 DEF b
  <2>2. f = [b EXCEPT !.got = v]
    BY DEF b
  <2> HIDE DEF f
  <2>3. FrameFits(h, f) /\ f.fn = b.fn /\ f.at = b.at /\ f.got = v
    BY <2>1, <2>2, ResultFits
  <2> QED
    BY <2>3 DEF b
<1> HIDE DEF f, t
<1>4. \A k \in 1 .. Len(t) : FrameFits(h, t[k])
  <2> SUFFICES ASSUME NEW k \in 1 .. Len(t) PROVE FrameFits(h, t[k])
    OBVIOUS
  <2>1. k = Len(s) - 1 \/ k \in 1 .. Len(s) - 2
    BY <1>1
  <2> QED
    BY <1>1, <1>3, <2>1 DEF Frames
<1>5. WaitsForString(h, t)
  <2> SUFFICES ASSUME NEW k \in 1 .. Len(t), t[k].fn = "main", t[k].at = "add"
               PROVE  IF k = Len(t) THEN t[k].got \in Chain(h, "chars") ELSE t[k + 1].fn = "string"
    BY DEF WaitsForString
  <2>1. k \in 1 .. Len(s) - 1 /\ t[k].fn = s[k].fn /\ t[k].at = s[k].at
    <3>1. k = Len(s) - 1 \/ k \in 1 .. Len(s) - 2
      BY <1>1
    <3> QED
      BY <1>1, <1>3, <3>1
  <2>2. s[k + 1].fn = "string"
    BY <1>1, <2>1 DEF Frames, WaitsForString
  <2>3. CASE k = Len(s) - 1
    BY <1>1, <1>3, <2>2, <2>3 DEF Last
  <2>4. CASE k # Len(s) - 1
    <3>1. k + 1 \in 1 .. Len(s) - 2 \/ k + 1 = Len(s) - 1
      BY <1>1, <2>1, <2>4
    <3> QED
      BY <1>1, <1>3, <2>2, <2>4, <3>1
  <2> QED
    BY <2>3, <2>4
<1> QED
  BY <1>1, <1>4, <1>5 DEF Frames, t, f

-----------------------------------------------------------------------------
(* Steps. *)

\* The running function's call is as it should be.
LEMMA TopFits ==
  ASSUME ListInv, NEW fn, NEW at, Running(fn, at)
  PROVE  /\ FrameFits(heap, Top) /\ Top.fn = fn /\ Top.at = at /\ stack # <<>>
         /\ Memory(heap, val) /\ Frames(heap, stack) /\ Extends(heap, heap)
         /\ Len(heap) \in Nat /\ known \in 0 .. Len(heap) /\ undefined = FALSE
<1>1. PICK S : stack \in Seq(S)
  BY DEF ListInv, Frames, IsSeq
<1>2. stack # <<>>
  BY DEF Running
<1>3. Len(stack) \in 1 .. Len(stack)
  BY <1>1, <1>2
<1>4. FrameFits(heap, Top)
  BY <1>3 DEF ListInv, Frames, Top, Last
<1>5. PICK H : heap \in Seq(H)
  BY DEF ListInv, Memory, IsSeq
<1>6. Len(heap) \in Nat
  BY <1>5
<1> QED
  BY <1>4, <1>6 DEF ListInv, Running, Extends

LEMMA GoesOn ==
  ASSUME ListInv, stack # <<>>, NEW f, Goto(f),
         FrameFits(heap', f), f.fn = Top.fn, ~(f.fn = "main" /\ f.at = "add"),
         Memory(heap', val'), Extends(heap, heap'), undefined' = FALSE
  PROVE  ListInv'
<1>1. Frames(heap', stack)
  BY FramesKept DEF ListInv
<1>2. Frames(heap', stack')
  BY <1>1, GotoFits DEF Goto, Top
<1>3. known' \in 0 .. Len(heap')
  BY DEF Goto, program, ListInv, Extends
<1> QED
  BY <1>2, <1>3 DEF ListInv

LEMMA Calls ==
  ASSUME ListInv, stack # <<>>, NEW f, NEW g, Call(f, g),
         FrameFits(heap', f), f.fn = Top.fn, FrameFits(heap', g), g.fn # "main",
         (f.fn = "main" /\ f.at = "add") => g.fn = "string",
         Memory(heap', val'), Extends(heap, heap'), undefined' = FALSE
  PROVE  ListInv'
<1>1. Frames(heap', stack)
  BY FramesKept DEF ListInv
<1>2. Frames(heap', stack')
  BY <1>1, CallFits DEF Call, Top
<1>3. known' \in 0 .. Len(heap')
  BY DEF Call, program, ListInv, Extends
<1> QED
  BY <1>2, <1>3 DEF ListInv

LEMMA Returns ==
  ASSUME ListInv, stack # <<>>, NEW v, NEW out, Return(v, out), UNCHANGED memory,
         Top.fn = "string" => v \in Chain(heap, "chars"), undefined' = FALSE
  PROVE  ListInv'
<1>1. heap' = heap /\ val' = val
  BY DEF memory
<1>2. Len(heap) \in Nat
  BY AppendSeq DEF ListInv, Memory
<1>3. CASE Len(stack) > 1
  <2>1. Frames(heap, stack')
    BY <1>3, ReturnFits DEF Return, ListInv, Top
  <2>2. known' = known
    BY <1>3 DEF Return, program
  <2> QED
    BY <1>1, <2>1, <2>2 DEF ListInv
<1>4. CASE ~(Len(stack) > 1)
  <2>1. stack' = <<>> /\ known' = Len(heap)
    BY <1>4 DEF Return
  <2>2. <<>> \in Seq({}) /\ Len(<<>>) = 0
    OBVIOUS
  <2>3. Frames(heap, <<>>)
    BY <2>2 DEF Frames, WaitsForString, IsSeq
  <2> QED
    BY <1>1, <1>2, <2>1, <2>3 DEF ListInv
<1> QED
  BY <1>3, <1>4

\* What may be read of a list.
LEMMA Reachable ==
  ASSUME NEW h, NEW w, Memory(h, w), NEW ty \in ListTypes, NEW l \in Chain(h, ty)
  PROVE  /\ l \in 1 .. Len(h) /\ h[l].ty = ty /\ h[l].length \in Nat
         /\ h[l].length # 0 => /\ h[l].next \in Chain(h, ty)
                               /\ h[h[l].next].length = h[l].length - 1
                               /\ h[l].value \in Elements(h, ty)
                               /\ h[l].value # NoValue
<1>1. l \in 1 .. Len(h) /\ h[l].ty = ty
  BY DEF Chain
<1>2. ListNode(h, w, l)
  BY <1>1 DEF Memory, ListTypes
<1>3. h[l].length \in Nat
  <2>1. PICK S : w[l] \in Seq(S)
    BY <1>2 DEF ListNode, IsSeq
  <2> QED
    BY <1>2, <2>1 DEF ListNode
<1>4. ASSUME h[l].length # 0
      PROVE  /\ h[l].next \in Chain(h, ty)
             /\ h[h[l].next].length = h[l].length - 1
             /\ h[l].value \in Elements(h, ty)
             /\ h[l].value # NoValue
  <2> DEFINE n == h[l].next
             y == StandsFor(w, h[l].ty, h[l].value)
  <2>1. n \in Chain(h, ty) /\ h[l].value \in Elements(h, ty) /\ w[l] = <<y>> \o w[n]
    BY <1>1, <1>2, <1>4 DEF ListNode
  <2> HIDE DEF n, y
  <2>2. ListNode(h, w, n)
    BY <2>1 DEF Memory, ListTypes, Chain
  <2>3. PICK S : w[n] \in Seq(S)
    BY <2>2 DEF ListNode, IsSeq
  <2>4. w[n] \in Seq(S \cup {y}) /\ <<y>> \in Seq(S \cup {y})
    BY <2>3
  <2>5. Len(<<y>> \o w[n]) = 1 + Len(w[n]) /\ Len(w[n]) \in Nat
    BY <2>4
  <2>6. h[n].length = h[l].length - 1
    BY <1>2, <2>1, <2>2, <2>5 DEF ListNode
  <2>7. h[l].value # NoValue
    BY <2>1, ListsAssumption DEF Elements, Chain
  <2> QED
    BY <2>1, <2>6, <2>7 DEF n
<1> QED
  BY <1>1, <1>3, <1>4

\* A step that allocates nothing, or adds a node to a list of its type.
LEMMA Untouched ==
  ASSUME Memory(heap, val), Extends(heap, heap), UNCHANGED memory
  PROVE  heap' = heap /\ Memory(heap', val') /\ Extends(heap, heap')
BY DEF memory

LEMMA Added ==
  ASSUME Memory(heap, val), NEW ty \in ListTypes, NEW l \in Chain(heap, ty), NEW v \in Elements(heap, ty),
         Add(ty, l, v)
  PROVE  Memory(heap', val') /\ Extends(heap, heap') /\ Fresh \in Chain(heap', ty)
<1>1. Denotes(Element[ty], v) = StandsFor(val, ty, v)
  BY DEF Denotes, StandsFor, Element, ListTypes
<1>2. /\ heap' = Append(heap, [ty |-> ty, next |-> l, length |-> heap[l].length + 1, value |-> v])
      /\ val' = Append(val, <<StandsFor(val, ty, v)>> \o val[l])
  BY <1>1 DEF Add, Allocate
<1> QED
  BY <1>2, NodeAdded, Zenon DEF Fresh

LEMMA Emptied ==
  ASSUME Memory(heap, val), NEW ty \in ListTypes, Empty(ty)
  PROVE  Memory(heap', val') /\ Extends(heap, heap') /\ Fresh \in Chain(heap', ty)
<1>1. heap' = Append(heap, EmptyNode(ty)) /\ val' = Append(val, <<>>)
  BY DEF Empty, Allocate
<1> QED
  BY <1>1, EmptyAdded, Zenon DEF Fresh

-----------------------------------------------------------------------------
(* The functions that make lists. *)

LEMMA CreateKeeps ==
  ASSUME ListInv, Create
  PROVE  ListInv'
<1>1. /\ FrameFits(heap, Top) /\ Top.fn = "create" /\ Top.at = "loop" /\ stack # <<>>
      /\ Memory(heap, val) /\ Extends(heap, heap) /\ undefined = FALSE
  BY TopFits DEF Create
<1>2. IsFrame(Top) /\ CreateFits(heap, Top)
  BY <1>1 DEF FrameFits
<1>3. undefined' = FALSE
  BY <1>1 DEF Create, Safe
<1>4. CASE Top.els # <<>>
  <2> DEFINE f == [Top EXCEPT !.l1 = Fresh, !.els = Tail(@)]
  <2>1. Add(Top.ty, Top.l1, Head(Top.els)) /\ Goto(f)
    BY <1>4 DEF Create
  <2>2. IsFrame(f) /\ f.fn = "create" /\ f.ty = Top.ty /\ f.l1 = Fresh /\ f.els = Tail(Top.els) /\ f.i = Top.i
    BY <1>1, <1>2 DEF IsFrame
  <2> HIDE DEF f
  <2>3. Head(Top.els) \in Elements(heap, Top.ty) /\ Tail(Top.els) \in Seq(Elements(heap, Top.ty))
    <3> DEFINE S == Elements(heap, Top.ty)
               s == Top.els
    <3>1. s \in Seq(S) /\ s # <<>>
      BY <1>2, <1>4 DEF CreateFits
    <3> HIDE DEF S, s
    <3> QED
      BY <3>1, HeadTailProperties DEF S, s
  <2>4. Memory(heap', val') /\ Extends(heap, heap') /\ Fresh \in Chain(heap', Top.ty)
    BY <1>1, <1>2, <2>1, <2>3, Added DEF CreateFits
  <2>5. Tail(Top.els) \in Seq(Elements(heap', Top.ty))
    <3>1. Elements(heap, Top.ty) \subseteq Elements(heap', Top.ty)
      BY <2>4, ChainsGrow
    <3> QED
      BY <2>3, <3>1
  <2>6. FrameFits(heap', f)
    BY <1>2, <2>2, <2>4, <2>5 DEF FrameFits, CreateFits
  <2> QED
    BY <1>1, <1>3, <2>1, <2>2, <2>4, <2>6, GoesOn
<1>5. CASE Top.els = <<>>
  <2>1. Return(Top.l1, val[Top.l1]) /\ UNCHANGED memory
    BY <1>5 DEF Create, ReturnNode
  <2> QED
    BY <1>1, <1>3, <2>1, Returns
<1> QED
  BY <1>4, <1>5

LEMMA CreateStringKeeps ==
  ASSUME ListInv, CreateString
  PROVE  ListInv'
<1>1. /\ FrameFits(heap, Top) /\ Top.fn = "string" /\ Top.at = "loop" /\ stack # <<>>
      /\ Memory(heap, val) /\ Extends(heap, heap) /\ undefined = FALSE
  BY TopFits DEF CreateString
<1>2. IsFrame(Top) /\ StringFits(heap, Top)
  BY <1>1 DEF FrameFits
<1>3. undefined' = FALSE
  BY <1>1 DEF CreateString, Safe
<1>4. CASE Top.i >= 0
  <2> DEFINE f == [Top EXCEPT !.l1 = Fresh, !.i = @ - 1]
  <2>1. Add("chars", Top.l1, Top.els[Top.i + 1]) /\ Goto(f)
    BY <1>4 DEF CreateString
  <2>2. IsFrame(f) /\ f.fn = "string" /\ f.l1 = Fresh /\ f.els = Top.els /\ f.i = Top.i - 1
    BY <1>1, <1>2 DEF IsFrame
  <2> HIDE DEF f
  <2>3. Top.els[Top.i + 1] \in Elements(heap, "chars")
    BY <1>2, <1>4 DEF StringFits, Elements
  <2>4. Memory(heap', val') /\ Extends(heap, heap') /\ Fresh \in Chain(heap', "chars")
    BY <1>1, <1>2, <2>1, <2>3, Added DEF StringFits, ListTypes
  <2>5. FrameFits(heap', f)
    BY <1>2, <1>4, <2>2, <2>4 DEF FrameFits, StringFits
  <2> QED
    BY <1>1, <1>3, <2>1, <2>2, <2>4, <2>5, GoesOn
<1>5. CASE ~(Top.i >= 0)
  <2>1. Return(Top.l1, val[Top.l1]) /\ UNCHANGED memory
    BY <1>5 DEF CreateString, ReturnNode
  <2> QED
    BY <1>1, <1>2, <1>3, <2>1, Returns DEF StringFits
<1> QED
  BY <1>4, <1>5

LEMMA StringFrameFits ==
  ASSUME NEW h, NEW text \in Seq(Chars), Fresh \in Chain(h, "chars")
  PROVE  FrameFits(h, StringFrame(text)) /\ StringFrame(text).fn = "string"
<1> DEFINE f == StringFrame(text)
<1>1. IsFrame(f) /\ f.fn = "string" /\ f.l1 = Fresh /\ f.els = text /\ f.i = Len(text) - 1
  BY DEF StringFrame, Frame, IsFrame
<1> HIDE DEF f
<1>2. FrameFits(h, f)
  BY <1>1 DEF FrameFits, StringFits
<1> QED
  BY <1>1, <1>2 DEF f

LEMMA MainKeeps ==
  ASSUME ListInv, Main
  PROVE  ListInv'
<1>1. /\ FrameFits(heap, Top) /\ Top.fn = "main" /\ Top.at = "loop" /\ stack # <<>>
      /\ Memory(heap, val) /\ Extends(heap, heap) /\ undefined = FALSE
  BY TopFits DEF Main
<1>2. IsFrame(Top) /\ MainFits(heap, Top)
  BY <1>1 DEF FrameFits
<1>3. undefined' = FALSE
  BY <1>1 DEF Main, Safe
<1>4. CASE Top.i >= 0
  <2> DEFINE f == [Top EXCEPT !.at = "add"]
             g == StringFrame(Top.els[Top.i + 1])
  <2>1. Empty("chars") /\ Call(f, g)
    BY <1>4 DEF Main
  <2>2. IsFrame(f) /\ f.fn = "main" /\ f.l1 = Top.l1 /\ f.els = Top.els /\ f.i = Top.i
    BY <1>1, <1>2 DEF IsFrame
  <2>3. Top.els[Top.i + 1] \in Seq(Chars)
    BY <1>2, <1>4 DEF MainFits
  <2>4. Memory(heap', val') /\ Extends(heap, heap') /\ Fresh \in Chain(heap', "chars")
    BY <1>1, <2>1, Emptied DEF ListTypes
  <2>5. FrameFits(heap', g) /\ g.fn = "string"
    BY <2>3, <2>4, StringFrameFits
  <2> HIDE DEF f, g
  <2>6. Top.l1 \in Chain(heap', "strings")
    BY <1>2, <2>4, ChainsGrow DEF MainFits
  <2>7. FrameFits(heap', f)
    BY <1>2, <1>4, <2>2, <2>6 DEF FrameFits, MainFits
  <2> QED
    BY <1>1, <1>3, <2>1, <2>2, <2>4, <2>5, <2>7, Calls
<1>5. CASE ~(Top.i >= 0)
  <2>1. Return(Top.l1, val[Top.l1]) /\ UNCHANGED memory
    BY <1>5 DEF Main, ReturnNode
  <2> QED
    BY <1>1, <1>3, <2>1, Returns
<1> QED
  BY <1>4, <1>5

LEMMA MainAddKeeps ==
  ASSUME ListInv, MainAdd
  PROVE  ListInv'
<1>1. /\ FrameFits(heap, Top) /\ Top.fn = "main" /\ Top.at = "add" /\ stack # <<>>
      /\ Memory(heap, val) /\ Extends(heap, heap) /\ undefined = FALSE
  BY TopFits DEF MainAdd
<1>2. IsFrame(Top) /\ MainFits(heap, Top)
  BY <1>1 DEF FrameFits
<1>3. Top.got \in Chain(heap, "chars")
  <2>1. PICK S : stack \in Seq(S)
    BY DEF ListInv, Frames, IsSeq
  <2>2. Len(stack) \in 1 .. Len(stack)
    BY <1>1, <2>1
  <2> QED
    BY <1>1, <2>2 DEF ListInv, Frames, WaitsForString, Top, Last
<1> DEFINE f == [Top EXCEPT !.l1 = Fresh, !.i = @ - 1, !.at = "loop"]
<1>4. Add("strings", Top.l1, Top.got) /\ Goto(f) /\ undefined' = FALSE
  BY <1>1 DEF MainAdd, Safe
<1>5. IsFrame(f) /\ f.fn = "main" /\ f.at = "loop" /\ f.l1 = Fresh /\ f.els = Top.els /\ f.i = Top.i - 1
  BY <1>1, <1>2 DEF IsFrame
<1> HIDE DEF f
<1>6. Memory(heap', val') /\ Extends(heap, heap') /\ Fresh \in Chain(heap', "strings")
  BY <1>1, <1>2, <1>3, <1>4, Added DEF MainFits, ListTypes, Elements
<1>7. FrameFits(heap', f)
  BY <1>1, <1>2, <1>5, <1>6 DEF FrameFits, MainFits
<1> QED
  BY <1>1, <1>4, <1>5, <1>6, <1>7, GoesOn

-----------------------------------------------------------------------------
(* gat_list and the comparisons. *)

LEMMA AtKeeps ==
  ASSUME ListInv, At
  PROVE  ListInv'
<1>1. /\ FrameFits(heap, Top) /\ Top.fn = "at" /\ stack # <<>>
      /\ Memory(heap, val) /\ Extends(heap, heap) /\ undefined = FALSE
  BY TopFits DEF At
<1>2. undefined' = FALSE /\ UNCHANGED memory
  BY <1>1 DEF At, Safe
<1>3. heap' = heap /\ Memory(heap', val') /\ Extends(heap, heap')
  BY <1>1, <1>2, Untouched
<1>4. CASE Top.i > 0
  <2> DEFINE f == [Top EXCEPT !.l1 = heap[@].next, !.i = @ - 1]
  <2>1. Goto(f)
    BY <1>4 DEF At
  <2>2. IsFrame(f) /\ f.fn = "at"
    BY <1>1 DEF FrameFits, IsFrame
  <2> HIDE DEF f
  <2>3. FrameFits(heap', f)
    BY <2>2 DEF FrameFits
  <2> QED
    BY <1>1, <1>2, <1>3, <2>1, <2>2, <2>3, GoesOn
<1>5. CASE ~(Top.i > 0)
  <2>1. Return(Top.l1, val[Top.l1])
    BY <1>5 DEF At, ReturnNode
  <2> QED
    BY <1>1, <1>2, <2>1, Returns
<1> QED
  BY <1>4, <1>5

LEMMA CompareLengthKeeps ==
  ASSUME ListInv, CompareLength
  PROVE  ListInv'
<1>1. /\ FrameFits(heap, Top) /\ Top.fn = "compare" /\ stack # <<>>
      /\ Memory(heap, val) /\ Extends(heap, heap) /\ undefined = FALSE
  BY TopFits DEF CompareLength
<1>2. undefined' = FALSE /\ UNCHANGED memory
  BY <1>1 DEF CompareLength, Safe
<1>3. heap' = heap /\ Memory(heap', val') /\ Extends(heap, heap')
  BY <1>1, <1>2, Untouched
<1>4. CASE heap[Top.l1].length = heap[Top.l2].length
  <2> DEFINE f == [Top EXCEPT !.at = "loop"]
  <2>1. Goto(f)
    BY <1>4 DEF CompareLength
  <2>2. IsFrame(f) /\ f.fn = "compare" /\ f.at = "loop" /\ f.ty = Top.ty /\ f.l1 = Top.l1 /\ f.l2 = Top.l2 /\ f.i = Top.i
    BY <1>1 DEF FrameFits, IsFrame
  <2> HIDE DEF f
  <2>3. FrameFits(heap', f)
    BY <1>1, <1>3, <1>4, <2>2 DEF FrameFits, CompareFits
  <2> QED
    BY <1>1, <1>2, <1>3, <2>1, <2>2, <2>3, GoesOn
<1>5. CASE heap[Top.l1].length # heap[Top.l2].length
  <2>1. Return(FALSE, FALSE)
    BY <1>5 DEF CompareLength, ReturnInt
  <2> QED
    BY <1>1, <1>2, <2>1, Returns
<1> QED
  BY <1>4, <1>5

\* The end of an iteration of the loop, after which the rests are compared.
LEMMA CompareBodyKeeps ==
  ASSUME ListInv, stack # <<>>, Top.fn = "compare", Top.at \in {"loop", "test"}, FrameFits(heap, Top),
         heap[Top.l1].length # 0, UNCHANGED memory, undefined' = FALSE,
         NEW unequal, CompareBody(unequal)
  PROVE  ListInv'
<1>1. heap' = heap /\ Memory(heap', val') /\ Extends(heap, heap') /\ Memory(heap, val)
  <2>1. Len(heap) \in Nat
    BY AppendSeq DEF ListInv, Memory
  <2> QED
    BY <2>1, Untouched DEF ListInv, Extends
<1>2. IsFrame(Top) /\ CompareFits(heap, Top)
  BY DEF FrameFits
<1>3. CASE ~unequal
  <2> DEFINE f == [Top EXCEPT !.l1 = heap[@].next, !.l2 = heap[@].next, !.at = "loop"]
  <2>1. Goto(f)
    BY <1>3 DEF CompareBody
  <2>2. /\ IsFrame(f) /\ f.fn = "compare" /\ f.at = "loop" /\ f.ty = Top.ty
        /\ f.l1 = heap[Top.l1].next /\ f.l2 = heap[Top.l2].next /\ f.i = Top.i
    BY <1>2 DEF IsFrame
  <2> HIDE DEF f
  <2>3. f.l1 \in Chain(heap, Top.ty) /\ heap[f.l1].length = heap[Top.l1].length - 1
    BY <1>1, <1>2, <2>2, Reachable DEF CompareFits
  <2>4. f.l2 \in Chain(heap, Top.ty) /\ heap[f.l2].length = heap[Top.l2].length - 1
    BY <1>1, <1>2, <2>2, Reachable DEF CompareFits
  <2>5. FrameFits(heap', f)
    BY <1>1, <1>2, <2>2, <2>3, <2>4 DEF FrameFits, CompareFits
  <2> QED
    BY <1>1, <2>1, <2>2, <2>5, GoesOn
<1>4. CASE unequal
  <2>1. Return(FALSE, FALSE)
    BY <1>4 DEF CompareBody, ReturnInt
  <2> QED
    BY <2>1, Returns
<1> QED
  BY <1>3, <1>4

LEMMA CompareFrameFits ==
  ASSUME NEW h, NEW ty \in ListTypes, NEW a \in Chain(h, ty), NEW b \in Chain(h, ty), NEW in
  PROVE  FrameFits(h, CompareFrame(ty, a, b, in)) /\ CompareFrame(ty, a, b, in).fn = "compare"
<1> DEFINE f == CompareFrame(ty, a, b, in)
<1>1. IsFrame(f) /\ f.fn = "compare" /\ f.at = "entry" /\ f.ty = ty /\ f.l1 = a /\ f.l2 = b /\ f.i = 0
  BY DEF CompareFrame, Frame, IsFrame
<1> HIDE DEF f
<1>2. FrameFits(h, f)
  BY <1>1 DEF FrameFits, CompareFits
<1> QED
  BY <1>1, <1>2 DEF f

LEMMA CompareKeeps ==
  ASSUME ListInv, Compare
  PROVE  ListInv'
<1>1. /\ FrameFits(heap, Top) /\ Top.fn = "compare" /\ Top.at = "loop" /\ stack # <<>>
      /\ Memory(heap, val) /\ Extends(heap, heap) /\ undefined = FALSE
  BY TopFits DEF Compare
<1>2. heap' = heap /\ Memory(heap', val') /\ Extends(heap, heap') /\ UNCHANGED memory
  BY <1>1, Untouched DEF Compare
<1>3. IsFrame(Top) /\ CompareFits(heap, Top)
  BY <1>1 DEF FrameFits
<1>4. CASE heap[Top.l1].length = 0
  <2>1. Return(TRUE, TRUE) /\ undefined' = FALSE
    BY <1>1, <1>4 DEF Compare, ReturnInt, Safe
  <2> QED
    BY <1>1, <1>2, <2>1, Returns
<1>5. CASE heap[Top.l1].length # 0
  <2> DEFINE v1 == heap[Top.l1].value
             v2 == heap[Top.l2].value
  <2>1. v1 \in Elements(heap, Top.ty) /\ v1 # NoValue
    BY <1>1, <1>3, <1>5, Reachable DEF CompareFits
  <2>2. v2 \in Elements(heap, Top.ty) /\ v2 # NoValue
    <3>1. heap[Top.l2].length # 0
      BY <1>1, <1>3, <1>5 DEF CompareFits
    <3> QED
      BY <1>1, <1>3, <3>1, Reachable DEF CompareFits
  <2>3. undefined' = FALSE
    BY <1>5, <2>1, <2>2 DEF Compare, Reads
  <2>4. CASE Element[Top.ty] = "LIST"
    <3> DEFINE f == [Top EXCEPT !.at = "test"]
               g == CompareFrame("chars", v1, v2, <<val[v1], val[v2]>>)
    <3>1. Call(f, g)
      BY <1>5, <2>4 DEF Compare
    <3>2. v1 \in Chain(heap', "chars") /\ v2 \in Chain(heap', "chars")
      BY <1>2, <2>1, <2>2, <2>4 DEF Elements, Element
    <3>3. FrameFits(heap', g) /\ g.fn = "compare"
      BY <3>2, CompareFrameFits DEF ListTypes
    <3>4. IsFrame(f) /\ f.fn = "compare" /\ f.at = "test" /\ f.ty = Top.ty /\ f.l1 = Top.l1 /\ f.l2 = Top.l2 /\ f.i = Top.i
      BY <1>1, <1>3 DEF IsFrame
    <3> HIDE DEF f, g
    <3>5. FrameFits(heap', f)
      BY <1>1, <1>2, <1>3, <1>5, <3>4 DEF FrameFits, CompareFits
    <3> QED
      BY <1>1, <1>2, <2>3, <3>1, <3>3, <3>4, <3>5, Calls
  <2>5. CASE Element[Top.ty] # "LIST"
    <3>1. CompareBody(v1 # v2)
      BY <1>5, <2>5 DEF Compare
    <3> QED
      BY <1>1, <1>2, <1>5, <2>3, <3>1, CompareBodyKeeps
  <2> QED
    BY <2>4, <2>5
<1> QED
  BY <1>4, <1>5

LEMMA CompareTestKeeps ==
  ASSUME ListInv, CompareTest
  PROVE  ListInv'
<1>1. /\ FrameFits(heap, Top) /\ Top.fn = "compare" /\ Top.at = "test" /\ stack # <<>> /\ undefined = FALSE
  BY TopFits DEF CompareTest
<1>2. heap[Top.l1].length # 0
  BY <1>1 DEF FrameFits, CompareFits
<1>3. UNCHANGED memory /\ undefined' = FALSE /\ CompareBody(Top.got)
  BY <1>1 DEF CompareTest, Safe
<1> QED
  BY <1>1, <1>2, <1>3, CompareBodyKeeps

LEMMA CompareTupleKeeps ==
  ASSUME ListInv, CompareTuple
  PROVE  ListInv'
<1>1. /\ FrameFits(heap, Top) /\ Top.fn = "compare_tuple" /\ Top.at = "loop" /\ stack # <<>>
      /\ Memory(heap, val) /\ Extends(heap, heap) /\ undefined = FALSE
  BY TopFits DEF CompareTuple
<1>2. undefined' = FALSE /\ UNCHANGED memory
  BY <1>1 DEF CompareTuple, Safe
<1>3. heap' = heap /\ Memory(heap', val') /\ Extends(heap, heap')
  BY <1>1, <1>2, Untouched
<1>4. /\ IsFrame(Top) /\ Top.l1 \in Chain(heap, "tuple") /\ Top.l2 \in Chain(heap, "tuple")
      /\ Top.i \in 1 .. 3
  BY <1>1 DEF FrameFits, TuplesFit
<1> DEFINE v1 == heap[Top.l1].value[Top.i]
           v2 == heap[Top.l2].value[Top.i]
           item == TupleItems[Top.i]
           over == Top.i > Len(TupleItems)
<1>5. over <=> Top.i = 3
  BY <1>4 DEF TupleItems
<1>6. IF over THEN Return(TRUE, TRUE)
      ELSE IF item = "STRING"
           THEN Call([Top EXCEPT !.at = "test"], CompareFrame("chars", v1, v2, <<val[v1], val[v2]>>))
           ELSE IF v1 # v2 THEN Return(FALSE, FALSE) ELSE Goto([Top EXCEPT !.i = @ + 1])
  BY DEF CompareTuple, ReturnInt
<1> HIDE DEF over
<1>7. CASE over
  BY <1>1, <1>2, <1>6, <1>7, Returns
<1>8. CASE ~over /\ item = "STRING"
  <2> DEFINE f == [Top EXCEPT !.at = "test"]
             g == CompareFrame("chars", v1, v2, <<val[v1], val[v2]>>)
  <2>1. Top.i = 2
    BY <1>4, <1>5, <1>8 DEF TupleItems
  <2>2. v1 \in Chain(heap, "chars") /\ v2 \in Chain(heap, "chars")
    BY <1>1, <1>4, <2>1 DEF Memory, TupleNode, Chain, ListTypes
  <2>3. FrameFits(heap', g) /\ g.fn = "compare"
    BY <1>3, <2>2, CompareFrameFits DEF ListTypes
  <2>4. Call(f, g)
    BY <1>6, <1>8
  <2>5. IsFrame(f) /\ f.fn = "compare_tuple" /\ f.at = "test" /\ f.l1 = Top.l1 /\ f.l2 = Top.l2 /\ f.i = Top.i
    BY <1>1, <1>4 DEF IsFrame
  <2> HIDE DEF f, g
  <2>6. FrameFits(heap', f)
    BY <1>3, <1>4, <2>1, <2>5 DEF FrameFits, TuplesFit
  <2> QED
    BY <1>1, <1>2, <1>3, <2>3, <2>4, <2>5, <2>6, Calls
<1>9. CASE ~over /\ item # "STRING"
  <2> DEFINE f == [Top EXCEPT !.i = @ + 1]
  <2>1. CASE v1 # v2
    BY <1>1, <1>2, <1>6, <1>9, <2>1, Returns
  <2>2. CASE v1 = v2
    <3>1. Goto(f)
      BY <1>6, <1>9, <2>2
    <3>2. IsFrame(f) /\ f.fn = "compare_tuple" /\ f.at = "loop" /\ f.l1 = Top.l1 /\ f.l2 = Top.l2 /\ f.i = Top.i + 1
      BY <1>1, <1>4 DEF IsFrame
    <3> HIDE DEF f
    <3>3. FrameFits(heap', f)
      BY <1>3, <1>4, <1>5, <1>9, <3>2 DEF FrameFits, TuplesFit
    <3> QED
      BY <1>1, <1>2, <1>3, <3>1, <3>2, <3>3, GoesOn
  <2> QED
    BY <2>1, <2>2
<1> QED
  BY <1>7, <1>8, <1>9

LEMMA CompareTupleTestKeeps ==
  ASSUME ListInv, CompareTupleTest
  PROVE  ListInv'
<1>1. /\ FrameFits(heap, Top) /\ Top.fn = "compare_tuple" /\ Top.at = "test" /\ stack # <<>>
      /\ Memory(heap, val) /\ Extends(heap, heap) /\ undefined = FALSE
  BY TopFits DEF CompareTupleTest
<1>2. undefined' = FALSE /\ UNCHANGED memory
  BY <1>1 DEF CompareTupleTest, Safe
<1>3. heap' = heap /\ Memory(heap', val') /\ Extends(heap, heap')
  BY <1>1, <1>2, Untouched
<1>4. /\ IsFrame(Top) /\ Top.l1 \in Chain(heap, "tuple") /\ Top.l2 \in Chain(heap, "tuple")
      /\ Top.i \in 1 .. 2
  BY <1>1 DEF FrameFits, TuplesFit
<1>5. CASE ~Top.got
  <2>1. Return(FALSE, FALSE)
    BY <1>5 DEF CompareTupleTest, ReturnInt
  <2> QED
    BY <1>1, <1>2, <2>1, Returns
<1>6. CASE Top.got
  <2> DEFINE f == [Top EXCEPT !.i = @ + 1, !.at = "loop"]
  <2>1. Goto(f)
    BY <1>6 DEF CompareTupleTest
  <2>2. IsFrame(f) /\ f.fn = "compare_tuple" /\ f.at = "loop" /\ f.l1 = Top.l1 /\ f.l2 = Top.l2 /\ f.i = Top.i + 1
    BY <1>1, <1>4 DEF IsFrame
  <2> HIDE DEF f
  <2>3. FrameFits(heap', f)
    BY <1>3, <1>4, <2>2 DEF FrameFits, TuplesFit
  <2> QED
    BY <1>1, <1>2, <1>3, <2>1, <2>2, <2>3, GoesOn
<1> QED
  BY <1>5, <1>6

-----------------------------------------------------------------------------
(* gconcat_list. *)

\* A node goes into the array that has room for it.
LEMMA Collected ==
  ASSUME NEW C, NEW els, IsSeq(els), NEW i \in Nat, i < Len(els),
         \A k \in 1 .. i : els[k] \in C, NEW l \in C
  PROVE  LET t == [els EXCEPT ![i + 1] = l]
         IN /\ IsSeq(t) /\ Len(t) = Len(els)
            /\ \A k \in 1 .. i + 1 : t[k] \in C
<1> DEFINE t == [els EXCEPT ![i + 1] = l]
<1>1. PICK S : els \in Seq(S)
  BY DEF IsSeq
<1>2. els \in Seq(S \cup {l}) /\ i + 1 \in 1 .. Len(els)
  BY <1>1
<1>3. t \in Seq(S \cup {l}) /\ Len(t) = Len(els)
  BY <1>2
<1>4. ASSUME NEW k \in 1 .. i + 1 PROVE t[k] \in C
  <2>1. k \in 1 .. i \/ k = i + 1
    OBVIOUS
  <2>2. k \in DOMAIN els
    BY <1>2
  <2> QED
    BY <2>1, <2>2
<1> QED
  BY <1>3, <1>4 DEF IsSeq

LEMMA ConcatCollectKeeps ==
  ASSUME ListInv, ConcatCollect
  PROVE  ListInv'
<1>1. /\ FrameFits(heap, Top) /\ Top.fn = "concat" /\ Top.at = "loop" /\ stack # <<>>
      /\ Memory(heap, val) /\ Extends(heap, heap) /\ undefined = FALSE
  BY TopFits DEF ConcatCollect
<1>2. heap' = heap /\ Memory(heap', val') /\ Extends(heap, heap')
  BY <1>1, Untouched DEF ConcatCollect
<1>3. IsFrame(Top) /\ ConcatFits(heap, Top)
  BY <1>1 DEF FrameFits
<1>4. /\ Top.ty \in ListTypes /\ Top.l1 \in Chain(heap, Top.ty) /\ Top.l2 \in Chain(heap, Top.ty)
      /\ IsSeq(Top.els) /\ Top.i \in Nat /\ Top.i + heap[Top.l1].length = Len(Top.els)
      /\ \A k \in 1 .. Top.i : Top.els[k] \in {n \in Chain(heap, Top.ty) : heap[n].length # 0}
  BY <1>1, <1>3 DEF ConcatFits
<1>5. heap[Top.l1].length \in Nat
  BY <1>1, <1>4, Reachable
<1>6. CASE heap[Top.l1].length > 0
  <2> DEFINE f == [Top EXCEPT !.els = [@ EXCEPT ![Top.i + 1] = Top.l1], !.l1 = heap[@].next, !.i = @ + 1]
             t == [Top.els EXCEPT ![Top.i + 1] = Top.l1]
             C == {n \in Chain(heap, Top.ty) : heap[n].length # 0}
  <2>1. Goto(f) /\ undefined' = FALSE
    <3>1. Goto(f) /\ undefined' = (Top.i >= Len(Top.els))
      BY <1>6 DEF ConcatCollect
    <3>2. (Top.i >= Len(Top.els)) = FALSE
      BY <1>4, <1>5, <1>6
    <3> QED
      BY <3>1, <3>2
  <2>2. /\ IsFrame(f) /\ f.fn = "concat" /\ f.at = "loop" /\ f.ty = Top.ty /\ f.l1 = heap[Top.l1].next
        /\ f.l2 = Top.l2 /\ f.i = Top.i + 1 /\ f.els = t
    BY <1>1, <1>3 DEF IsFrame
  <2> HIDE DEF f
  <2>3. heap[Top.l1].next \in Chain(heap, Top.ty) /\ heap[heap[Top.l1].next].length = heap[Top.l1].length - 1
    BY <1>1, <1>4, <1>6, Reachable
  <2>4. Top.l1 \in C /\ Top.i < Len(Top.els)
    BY <1>4, <1>5, <1>6
  <2>5. IsSeq(t) /\ Len(t) = Len(Top.els) /\ \A k \in 1 .. Top.i + 1 : t[k] \in C
    <3> HIDE DEF C
    <3>1. \A k \in 1 .. Top.i : Top.els[k] \in C
      BY <1>4 DEF C
    <3> QED
      BY <1>4, <2>4, <3>1, Collected
  <2> HIDE DEF t
  <2>6. FrameFits(heap', f)
    BY <1>2, <1>4, <1>5, <2>2, <2>3, <2>5 DEF FrameFits, ConcatFits
  <2> QED
    BY <1>1, <1>2, <2>1, <2>2, <2>6, GoesOn
<1>7. CASE heap[Top.l1].length = 0
  <2> DEFINE f == [Top EXCEPT !.i = @ - 1, !.at = "add"]
  <2>1. Goto(f) /\ undefined' = FALSE
    BY <1>1, <1>7 DEF ConcatCollect, Safe
  <2>2. /\ IsFrame(f) /\ f.fn = "concat" /\ f.at = "add" /\ f.ty = Top.ty
        /\ f.l1 = Top.l1 /\ f.l2 = Top.l2 /\ f.i = Top.i - 1 /\ f.els = Top.els
    BY <1>1, <1>3 DEF IsFrame
  <2> HIDE DEF f
  <2>3. FrameFits(heap', f)
    BY <1>2, <1>4, <1>7, <2>2 DEF FrameFits, ConcatFits
  <2> QED
    BY <1>1, <1>2, <2>1, <2>2, <2>3, GoesOn
<1> QED
  BY <1>5, <1>6, <1>7

LEMMA ConcatAddKeeps ==
  ASSUME ListInv, ConcatAdd
  PROVE  ListInv'
<1>1. /\ FrameFits(heap, Top) /\ Top.fn = "concat" /\ Top.at = "add" /\ stack # <<>>
      /\ Memory(heap, val) /\ Extends(heap, heap) /\ undefined = FALSE
  BY TopFits DEF ConcatAdd
<1>2. IsFrame(Top) /\ ConcatFits(heap, Top)
  BY <1>1 DEF FrameFits
<1>3. CASE Top.i >= 0
  <2> DEFINE n == Top.els[Top.i + 1]
             f == [Top EXCEPT !.l2 = Fresh, !.i = @ - 1]
  <2>1. Top.ty \in ListTypes /\ n \in Chain(heap, Top.ty) /\ heap[n].length # 0
    <3>1. Len(Top.els) \in Nat
      BY <1>2, AppendSeq DEF ConcatFits
    <3>2. Top.i + 1 \in 1 .. Len(Top.els)
      BY <1>1, <1>2, <1>3, <3>1 DEF ConcatFits
    <3> QED
      BY <1>1, <1>2, <3>2 DEF ConcatFits
  <2>2. /\ undefined' = (\E m \in {n} : heap[m].value = NoValue)
        /\ Add(Top.ty, Top.l2, heap[n].value) /\ Goto(f)
    BY <1>3 DEF ConcatAdd, Reads
  <2>3. /\ IsFrame(f) /\ f.fn = "concat" /\ f.at = "add" /\ f.ty = Top.ty
        /\ f.l1 = Top.l1 /\ f.l2 = Fresh /\ f.i = Top.i - 1 /\ f.els = Top.els
    BY <1>1, <1>2 DEF IsFrame
  <2> HIDE DEF n, f
  <2>4. heap[n].value \in Elements(heap, Top.ty) /\ heap[n].value # NoValue
    BY <1>1, <2>1, Reachable
  <2>5. undefined' = FALSE
    BY <2>2, <2>4
  <2>6. Memory(heap', val') /\ Extends(heap, heap') /\ Fresh \in Chain(heap', Top.ty)
    BY <1>1, <1>2, <2>1, <2>2, <2>4, Added DEF ConcatFits
  <2>7. \A k \in 1 .. Len(f.els) : f.els[k] \in Chain(heap', f.ty) /\ heap'[f.els[k]].length # 0
    BY <1>1, <1>2, <2>3, <2>6, ChainsGrow DEF ConcatFits
  <2>8. f.l1 \in Chain(heap', f.ty)
    BY <1>2, <2>3, <2>6, ChainsGrow DEF ConcatFits
  <2>9. FrameFits(heap', f)
    BY <1>1, <1>2, <1>3, <2>3, <2>6, <2>7, <2>8 DEF FrameFits, ConcatFits
  <2> QED
    BY <1>1, <2>2, <2>3, <2>5, <2>6, <2>9, GoesOn
<1>4. CASE ~(Top.i >= 0)
  <2>1. Return(Top.l2, val[Top.l2]) /\ UNCHANGED memory /\ undefined' = FALSE
    BY <1>1, <1>4 DEF ConcatAdd, ReturnNode, Safe
  <2> QED
    BY <1>1, <2>1, Returns
<1> QED
  BY <1>3, <1>4

-----------------------------------------------------------------------------
(* Printing. *)

LEMMA PrintFrameFits ==
  ASSUME NEW h, NEW ty \in ListTypes, NEW l \in Chain(h, ty), NEW in
  PROVE  FrameFits(h, PrintFrame(ty, l, in)) /\ PrintFrame(ty, l, in).fn = "print"
<1> DEFINE f == PrintFrame(ty, l, in)
<1>1. IsFrame(f) /\ f.fn = "print" /\ f.at = "entry" /\ f.ty = ty /\ f.l1 = l /\ f.i = 0
  BY DEF PrintFrame, Frame, IsFrame
<1> HIDE DEF f
<1>2. FrameFits(h, f)
  BY <1>1 DEF FrameFits, PrintFits
<1> QED
  BY <1>1, <1>2 DEF f

LEMMA PrintStringFrameFits ==
  ASSUME Memory(heap, val), NEW l \in Chain(heap, "chars"), NEW is_top, NEW in
  PROVE  /\ FrameFits(heap, PrintStringFrame(l, is_top, in))
         /\ PrintStringFrame(l, is_top, in).fn = "print_string"
<1> DEFINE f == PrintStringFrame(l, is_top, in)
<1>1. IsFrame(f) /\ f.fn = "print_string" /\ f.l1 = l /\ f.els = <<>> /\ f.i = heap[l].length + 1
  BY DEF PrintStringFrame, Frame, IsFrame
<1>2. heap[l].length \in Nat
  BY Reachable DEF ListTypes
<1>3. <<>> \in Seq(Chars) /\ Len(<<>>) = 0
  OBVIOUS
<1> HIDE DEF f
<1>4. FrameFits(heap, f)
  BY <1>1, <1>2, <1>3 DEF FrameFits, PrintStringFits
<1> QED
  BY <1>1, <1>4 DEF f

LEMMA PrintOpenKeeps ==
  ASSUME ListInv, PrintOpen
  PROVE  ListInv'
<1>1. /\ FrameFits(heap, Top) /\ Top.fn = "print" /\ stack # <<>>
      /\ Memory(heap, val) /\ Extends(heap, heap) /\ undefined = FALSE
  BY TopFits DEF PrintOpen
<1>2. heap' = heap /\ Memory(heap', val') /\ Extends(heap, heap') /\ undefined' = FALSE
  BY <1>1, Untouched DEF PrintOpen, Safe
<1> DEFINE f == [Top EXCEPT !.at = "loop"]
<1>3. Goto(f)
  BY DEF PrintOpen
<1>4. IsFrame(f) /\ f.fn = "print" /\ f.at = "loop" /\ f.ty = Top.ty /\ f.l1 = Top.l1 /\ f.i = Top.i
  BY <1>1 DEF FrameFits, IsFrame
<1> HIDE DEF f
<1>5. FrameFits(heap', f)
  BY <1>1, <1>2, <1>4 DEF FrameFits, PrintFits
<1> QED
  BY <1>1, <1>2, <1>3, <1>4, <1>5, GoesOn

\* After an element, the print of the rest.
LEMMA PrintNextKeeps ==
  ASSUME ListInv, stack # <<>>, Top.fn = "print", FrameFits(heap, Top),
         heap[Top.l1].length # 0, UNCHANGED memory, undefined' = FALSE,
         NEW text, PrintNext(Top.l1, text)
  PROVE  ListInv'
<1>1. heap' = heap /\ Memory(heap', val') /\ Extends(heap, heap') /\ Memory(heap, val)
  <2>1. Len(heap) \in Nat
    BY AppendSeq DEF ListInv, Memory
  <2> QED
    BY <2>1, Untouched DEF ListInv, Extends
<1>2. IsFrame(Top) /\ PrintFits(heap, Top)
  BY DEF FrameFits
<1> DEFINE f == [Top EXCEPT !.l1 = heap[Top.l1].next, !.at = "loop"]
<1>3. Goto(f)
  BY DEF PrintNext
<1>4. IsFrame(f) /\ f.fn = "print" /\ f.at = "loop" /\ f.ty = Top.ty /\ f.l1 = heap[Top.l1].next /\ f.i = Top.i
  BY <1>2 DEF IsFrame
<1> HIDE DEF f
<1>5. heap[Top.l1].next \in Chain(heap, Top.ty)
  BY <1>1, <1>2, Reachable DEF PrintFits
<1>6. FrameFits(heap', f)
  BY <1>1, <1>2, <1>4, <1>5 DEF FrameFits, PrintFits
<1> QED
  BY <1>1, <1>3, <1>4, <1>6, GoesOn

LEMMA PrintElementKeeps ==
  ASSUME ListInv, PrintElement
  PROVE  ListInv'
<1>1. /\ FrameFits(heap, Top) /\ Top.fn = "print" /\ Top.at = "loop" /\ stack # <<>>
      /\ Memory(heap, val) /\ Extends(heap, heap) /\ undefined = FALSE
  BY TopFits DEF PrintElement
<1>2. heap' = heap /\ Memory(heap', val') /\ Extends(heap, heap') /\ UNCHANGED memory
  BY <1>1, Untouched DEF PrintElement
<1>3. IsFrame(Top) /\ PrintFits(heap, Top)
  BY <1>1 DEF FrameFits
<1>4. heap[Top.l1].length # 0
  BY DEF PrintElement
<1> DEFINE v == heap[Top.l1].value
           f == [Top EXCEPT !.at = "next"]
<1>5. v \in Elements(heap, Top.ty) /\ v # NoValue
  BY <1>1, <1>3, <1>4, Reachable DEF PrintFits
<1>6. undefined' = FALSE
  BY <1>5 DEF PrintElement, Reads
<1>7. IsFrame(f) /\ f.fn = "print" /\ f.at = "next" /\ f.ty = Top.ty /\ f.l1 = Top.l1 /\ f.i = Top.i
  BY <1>1, <1>3 DEF IsFrame
<1>8. /\ Element[Top.ty] = "CHAR" => PrintNext(Top.l1, CharText(v, FALSE))
      /\ Element[Top.ty] = "STRING" => Call(f, PrintStringFrame(v, FALSE, val[v]))
      /\ Element[Top.ty] = "LIST" => Call(f, PrintFrame("chars", v, val[v]))
  BY DEF PrintElement
<1> HIDE DEF f
<1>9. FrameFits(heap', f)
  BY <1>2, <1>3, <1>4, <1>7 DEF FrameFits, PrintFits
<1>10. CASE Top.ty = "chars"
  <2>1. Element[Top.ty] = "CHAR"
    BY <1>10 DEF Element
  <2>2. PrintNext(Top.l1, CharText(v, FALSE))
    BY <1>8, <2>1
  <2> QED
    BY <1>1, <1>2, <1>4, <1>6, <2>2, PrintNextKeeps
<1>11. CASE Top.ty = "strings"
  <2> DEFINE g == PrintStringFrame(v, FALSE, val[v])
  <2>1. v \in Chain(heap, "chars") /\ Call(f, g)
    <3>1. Element[Top.ty] = "STRING" /\ Top.ty # "chars"
      BY <1>11 DEF Element
    <3> HIDE DEF v
    <3> QED
      BY <1>5, <1>8, <3>1 DEF Elements
  <2>2. FrameFits(heap, g) /\ g.fn = "print_string"
    BY <1>1, <2>1, PrintStringFrameFits
  <2> HIDE DEF g
  <2>3. FrameFits(heap', g)
    BY <1>2, <2>2
  <2> QED
    BY <1>1, <1>2, <1>6, <1>7, <1>9, <2>1, <2>2, <2>3, Calls
<1>12. CASE Top.ty = "lists"
  <2> DEFINE g == PrintFrame("chars", v, val[v])
  <2>1. v \in Chain(heap, "chars") /\ Call(f, g)
    <3>1. Element[Top.ty] = "LIST" /\ Top.ty # "chars"
      BY <1>12 DEF Element
    <3> HIDE DEF v
    <3> QED
      BY <1>5, <1>8, <3>1 DEF Elements
  <2>2. FrameFits(heap, g) /\ g.fn = "print"
    BY <1>1, <2>1, PrintFrameFits DEF ListTypes
  <2> HIDE DEF g
  <2>3. FrameFits(heap', g)
    BY <1>2, <2>2
  <2> QED
    BY <1>1, <1>2, <1>6, <1>7, <1>9, <2>1, <2>2, <2>3, Calls
<1> QED
  BY <1>3, <1>10, <1>11, <1>12 DEF PrintFits, ListTypes

LEMMA PrintedElementKeeps ==
  ASSUME ListInv, PrintedElement
  PROVE  ListInv'
<1>1. /\ FrameFits(heap, Top) /\ Top.fn = "print" /\ Top.at = "next" /\ stack # <<>> /\ undefined = FALSE
  BY TopFits DEF PrintedElement
<1>2. heap[Top.l1].length # 0
  BY <1>1 DEF FrameFits, PrintFits
<1>3. UNCHANGED memory /\ undefined' = FALSE /\ PrintNext(Top.l1, <<>>)
  BY <1>1 DEF PrintedElement, Safe
<1> QED
  BY <1>1, <1>2, <1>3, PrintNextKeeps

LEMMA PrintCloseKeeps ==
  ASSUME ListInv, PrintClose
  PROVE  ListInv'
<1>1. Top.fn = "print" /\ stack # <<>> /\ undefined = FALSE
  BY TopFits DEF PrintClose
<1>2. Return(Top.l2, val[Top.l2]) /\ UNCHANGED memory /\ undefined' = FALSE
  BY <1>1 DEF PrintClose, ReturnNode, Safe
<1> QED
  BY <1>1, <1>2, Returns

LEMMA PrintStringKeeps ==
  ASSUME ListInv, PrintString
  PROVE  ListInv'
<1>1. /\ FrameFits(heap, Top) /\ Top.fn = "print_string" /\ stack # <<>>
      /\ Memory(heap, val) /\ Extends(heap, heap)
  BY TopFits DEF PrintString
<1>2. heap' = heap /\ Memory(heap', val') /\ Extends(heap, heap') /\ UNCHANGED memory
  BY <1>1, Untouched DEF PrintString
<1>3. IsFrame(Top) /\ PrintStringFits(heap, Top)
  BY <1>1 DEF FrameFits
<1>4. /\ Len(Top.els) \in Nat /\ heap[Top.l1].length \in Nat
      /\ Top.i = Len(Top.els) + heap[Top.l1].length + 1 /\ (Len(Top.els) >= Top.i) = FALSE
  <2>1. heap[Top.l1].length \in Nat
    BY <1>1, <1>3, Reachable DEF PrintStringFits, ListTypes
  <2>2. Top.els \in Seq(Chars) /\ Top.i = Len(Top.els) + heap[Top.l1].length + 1
    BY <1>3 DEF PrintStringFits
  <2>3. Len(Top.els) \in Nat
    BY <2>2
  <2> QED
    BY <2>1, <2>2, <2>3
<1>5. CASE heap[Top.l1].length > 0
  <2> DEFINE v == heap[Top.l1].value
             next == heap[Top.l1].next
             f == [Top EXCEPT !.els = Append(@, v), !.l1 = next]
  <2>1. /\ next \in Chain(heap, "chars") /\ heap[next].length = heap[Top.l1].length - 1
        /\ v \in Elements(heap, "chars") /\ v # NoValue
    BY <1>1, <1>3, <1>5, Reachable DEF PrintStringFits, ListTypes
  <2>2. undefined' = (v = NoValue \/ Len(Top.els) >= Top.i)
    BY <1>5 DEF PrintString
  <2>3. Goto([Top EXCEPT !.els = Append(@, heap[Top.l1].value), !.l1 = heap[@].next])
    BY <1>5 DEF PrintString
  <2>4. Goto(f)
    BY <2>3
  <2>5. IsFrame(f) /\ f.fn = "print_string" /\ f.l1 = next /\ f.i = Top.i /\ f.els = Append(Top.els, v)
    BY <1>1, <1>3 DEF IsFrame
  <2> HIDE DEF f, v, next
  <2>6. undefined' = FALSE
    BY <1>4, <2>1, <2>2
  <2>7. Append(Top.els, v) \in Seq(Chars) /\ Len(Append(Top.els, v)) = Len(Top.els) + 1
    BY <1>3, <2>1 DEF PrintStringFits, Elements
  <2>8. FrameFits(heap', f)
    <3>1. Top.i = Len(Append(Top.els, v)) + heap[next].length + 1
      BY <1>4, <2>1, <2>7
    <3> QED
      BY <1>2, <2>1, <2>5, <2>7, <3>1 DEF FrameFits, PrintStringFits
  <2> QED
    BY <1>1, <1>2, <2>4, <2>5, <2>6, <2>8, GoesOn
<1>6. CASE heap[Top.l1].length = 0
  <2>1. Return(Top.l1, val[Top.l1]) /\ undefined' = (Len(Top.els) >= Top.i)
    BY <1>6 DEF PrintString, ReturnNode
  <2>2. undefined' = FALSE
    BY <1>4, <2>1
  <2> QED
    BY <1>1, <1>2, <2>1, <2>2, Returns
<1> QED
  BY <1>4, <1>5, <1>6

LEMMA PrintTupleOpenKeeps ==
  ASSUME ListInv, PrintTupleOpen
  PROVE  ListInv'
<1>1. /\ FrameFits(heap, Top) /\ Top.fn = "print_tuple" /\ stack # <<>>
      /\ Memory(heap, val) /\ Extends(heap, heap) /\ undefined = FALSE
  BY TopFits DEF PrintTupleOpen
<1>2. heap' = heap /\ Memory(heap', val') /\ Extends(heap, heap') /\ undefined' = FALSE
  BY <1>1, Untouched DEF PrintTupleOpen, Safe
<1> DEFINE f == [Top EXCEPT !.at = "loop"]
<1>3. Goto(f)
  BY DEF PrintTupleOpen
<1>4. IsFrame(f) /\ f.fn = "print_tuple" /\ f.l1 = Top.l1 /\ f.i = Top.i
  BY <1>1 DEF FrameFits, IsFrame
<1> HIDE DEF f
<1>5. FrameFits(heap', f)
  BY <1>1, <1>2, <1>4 DEF FrameFits, TuplesFit
<1> QED
  BY <1>1, <1>2, <1>3, <1>4, <1>5, GoesOn

\* After an item, the next one or the end.
LEMMA PrintTupleNextKeeps ==
  ASSUME ListInv, stack # <<>>, Top.fn = "print_tuple", FrameFits(heap, Top),
         UNCHANGED memory, undefined' = FALSE, NEW text, PrintTupleNext(text)
  PROVE  ListInv'
<1>1. heap' = heap /\ Memory(heap', val') /\ Extends(heap, heap')
  <2>1. Len(heap) \in Nat
    BY AppendSeq DEF ListInv, Memory
  <2> QED
    BY <2>1, Untouched DEF ListInv, Extends
<1>2. IsFrame(Top) /\ Top.l1 \in Chain(heap, "tuple") /\ Top.i \in 1 .. 2
  BY DEF FrameFits, TuplesFit
<1>3. CASE Top.i < Len(TupleItems)
  <2> DEFINE f == [Top EXCEPT !.i = @ + 1, !.at = "loop"]
  <2>1. Goto(f)
    BY <1>3 DEF PrintTupleNext
  <2>2. IsFrame(f) /\ f.fn = "print_tuple" /\ f.l1 = Top.l1 /\ f.i = Top.i + 1
    BY <1>2 DEF IsFrame
  <2> HIDE DEF f
  <2>3. Top.i = 1
    BY <1>2, <1>3 DEF TupleItems
  <2>4. FrameFits(heap', f)
    BY <1>1, <1>2, <2>2, <2>3 DEF FrameFits, TuplesFit
  <2> QED
    BY <1>1, <2>1, <2>2, <2>4, GoesOn
<1>4. CASE ~(Top.i < Len(TupleItems))
  <2>1. Return(Top.l1, val[Top.l1])
    BY <1>4 DEF PrintTupleNext, ReturnNode
  <2> QED
    BY <2>1, Returns
<1> QED
  BY <1>3, <1>4

LEMMA PrintTupleItemKeeps ==
  ASSUME ListInv, PrintTupleItem
  PROVE  ListInv'
<1>1. /\ FrameFits(heap, Top) /\ Top.fn = "print_tuple" /\ stack # <<>>
      /\ Memory(heap, val) /\ Extends(heap, heap) /\ undefined = FALSE
  BY TopFits DEF PrintTupleItem
<1>2. /\ heap' = heap /\ Memory(heap', val') /\ Extends(heap, heap') /\ UNCHANGED memory
      /\ undefined' = FALSE
  BY <1>1, Untouched DEF PrintTupleItem, Safe
<1>3. IsFrame(Top) /\ Top.l1 \in Chain(heap, "tuple") /\ Top.i \in 1 .. 2
  BY <1>1 DEF FrameFits, TuplesFit
<1> DEFINE v == heap[Top.l1].value[Top.i]
           f == [Top EXCEPT !.at = "next"]
           g == PrintStringFrame(v, FALSE, val[v])
<1>4. IF TupleItems[Top.i] = "STRING" THEN Call(f, g) ELSE PrintTupleNext(CharText(v, FALSE))
  BY DEF PrintTupleItem
<1>5. CASE TupleItems[Top.i] = "STRING"
  <2>1. Top.i = 2
    BY <1>3, <1>5 DEF TupleItems
  <2>2. v \in Chain(heap, "chars")
    BY <1>1, <1>3, <2>1 DEF Memory, TupleNode, Chain, ListTypes
  <2>3. FrameFits(heap, g) /\ g.fn = "print_string"
    BY <1>1, <2>2, PrintStringFrameFits
  <2>4. IsFrame(f) /\ f.fn = "print_tuple" /\ f.l1 = Top.l1 /\ f.i = Top.i
    BY <1>1, <1>3 DEF IsFrame
  <2> HIDE DEF f, g, v
  <2>5. FrameFits(heap', f) /\ FrameFits(heap', g)
    BY <1>2, <1>3, <2>3, <2>4 DEF FrameFits, TuplesFit
  <2> QED
    BY <1>1, <1>2, <1>4, <1>5, <2>3, <2>4, <2>5, Calls
<1>6. CASE TupleItems[Top.i] # "STRING"
  BY <1>1, <1>2, <1>4, <1>6, PrintTupleNextKeeps
<1> QED
  BY <1>5, <1>6

LEMMA PrintedTupleItemKeeps ==
  ASSUME ListInv, PrintedTupleItem
  PROVE  ListInv'
<1>1. FrameFits(heap, Top) /\ Top.fn = "print_tuple" /\ stack # <<>> /\ undefined = FALSE
  BY TopFits DEF PrintedTupleItem
<1>2. UNCHANGED memory /\ undefined' = FALSE /\ PrintTupleNext(<<>>)
  BY <1>1 DEF PrintedTupleItem, Safe
<1> QED
  BY <1>1, <1>2, PrintTupleNextKeeps

-----------------------------------------------------------------------------
(* The expressions of the program. *)

\* What the program can name is on the heap.
LEMMA Named ==
  ASSUME ListInv
  PROVE  /\ Memory(heap, val) /\ Extends(heap, heap) /\ undefined = FALSE
         /\ \A ty : OfType(ty) \subseteq Chain(heap, ty)
         /\ \A l \in Lists : heap[l].ty \in ListTypes /\ l \in Chain(heap, heap[l].ty)
<1>1. Len(heap) \in Nat
  BY AppendSeq DEF ListInv, Memory
<1>2. \A n \in 1 .. known : n \in 1 .. Len(heap)
  BY <1>1 DEF ListInv
<1> QED
  BY <1>1, <1>2 DEF ListInv, Extends, OfType, Lists, Chain

LEMMA Begins ==
  ASSUME ListInv, NEW f, Begin(f), FrameFits(heap', f), f.fn # "main",
         Memory(heap', val'), Extends(heap, heap')
  PROVE  ListInv'
<1>1. Frames(heap', stack')
  BY BeginFits DEF Begin
<1>2. known' \in 0 .. Len(heap') /\ undefined' = FALSE
  BY DEF Begin, program, ListInv, Extends
<1> QED
  BY <1>1, <1>2 DEF ListInv

LEMMA EvaluatedAtOnce ==
  ASSUME ListInv, NEW fn, NEW in, NEW out, Evaluated(fn, in, out),
         Memory(heap', val'), Extends(heap, heap')
  PROVE  ListInv'
<1>1. Frames(heap', stack')
  BY FramesKept DEF Evaluated, ListInv
<1>2. known' \in 0 .. Len(heap') /\ undefined' = FALSE
  BY DEF Evaluated, ListInv, Extends
<1> QED
  BY <1>1, <1>2 DEF ListInv

LEMMA CallCreateKeeps ==
  ASSUME ListInv, NEW ty \in ListTypes, NEW elements \in BoundedSeq(Values(Element[ty]), MaxElements),
         CallCreate(ty, elements)
  PROVE  ListInv'
<1> DEFINE S == Elements(heap, ty)
           args == Reverse(elements)
           f == CreateFrame(ty, args, [k \in DOMAIN elements |-> Denotes(Element[ty], elements[k])])
<1>1. Begin(f) /\ Empty(ty)
  BY DEF CallCreate
<1>2. Memory(heap', val') /\ Extends(heap, heap') /\ Fresh \in Chain(heap', ty)
  BY <1>1, Named, Emptied
<1>3. Values(Element[ty]) \subseteq S
  BY Named DEF Values, Elements, Element, ListTypes
<1>4. PICK m \in 0 .. MaxElements : elements \in [1 .. m -> Values(Element[ty])]
  BY DEF BoundedSeq, SeqOf
<1>5. args \in Seq(S)
  <2>1. elements \in Seq(S) /\ Len(elements) = m /\ m \in Nat
    BY <1>3, <1>4, ListsAssumption
  <2> HIDE DEF S
  <2>2. \A k \in 1 .. m : elements[(m - k) + 1] \in S
    BY <2>1
  <2>3. args = [k \in 1 .. m |-> elements[(m - k) + 1]]
    BY <2>1 DEF Reverse
  <2> HIDE DEF args
  <2> QED
    BY <2>1, <2>2, <2>3
<1>6. args \in Seq(Elements(heap', ty))
  <2>1. S \subseteq Elements(heap', ty)
    BY <1>2, ChainsGrow
  <2> HIDE DEF S, args
  <2> QED
    BY <1>5, <2>1
<1>7. IsFrame(f) /\ f.fn = "create" /\ f.ty = ty /\ f.l1 = Fresh /\ f.i = 0 /\ f.els = args
  BY DEF CreateFrame, Frame, IsFrame
<1> HIDE DEF args, f
<1>8. FrameFits(heap', f)
  BY <1>2, <1>6, <1>7 DEF FrameFits, CreateFits
<1> QED
  BY <1>1, <1>2, <1>7, <1>8, Begins

LEMMA CallCreateStringKeeps ==
  ASSUME ListInv, NEW text \in Literals, CallCreateString(text)
  PROVE  ListInv'
<1>1. Begin(StringFrame(text)) /\ Empty("chars")
  BY DEF CallCreateString
<1>2. Memory(heap', val') /\ Extends(heap, heap') /\ Fresh \in Chain(heap', "chars")
  BY <1>1, Named, Emptied DEF ListTypes
<1>3. FrameFits(heap', StringFrame(text)) /\ StringFrame(text).fn = "string"
  BY <1>2, StringFrameFits, ListsAssumption
<1> QED
  BY <1>1, <1>2, <1>3, Begins

LEMMA CallAddKeeps ==
  ASSUME ListInv, NEW l \in Lists, NEW v \in Values(Element[heap[l].ty]), CallAdd(l, v)
  PROVE  ListInv'
<1> DEFINE ty == heap[l].ty
<1>1. ty \in ListTypes /\ l \in Chain(heap, ty) /\ Memory(heap, val)
  BY Named
<1> HIDE DEF ty
<1>2. v \in Elements(heap, ty)
  <2>1. v \in Values(Element[ty])
    BY DEF ty
  <2> QED
    BY <1>1, <2>1, Named DEF Values, Elements, Element, ListTypes
<1>3. Add(ty, l, v)
  BY DEF CallAdd, ty
<1>4. Memory(heap', val') /\ Extends(heap, heap')
  BY <1>1, <1>2, <1>3, Added
<1>5. Evaluated("add", <<Denotes(Element[heap[l].ty], v), val[l]>>, val'[Fresh])
  BY DEF CallAdd
<1> QED
  BY <1>4, <1>5, EvaluatedAtOnce

LEMMA CallTupleKeeps ==
  ASSUME ListInv, NEW c \in Chars, NEW s \in OfType("chars"), CallTuple(<<c, s>>)
  PROVE  ListInv'
<1>1. s \in Chain(heap, "chars") /\ Memory(heap, val)
  BY Named
<1> DEFINE m == [k \in DOMAIN <<c, s>> |-> Denotes(TupleItems[k], <<c, s>>[k])]
<1>2. heap' = Append(heap, [EmptyNode("tuple") EXCEPT !.value = <<c, s>>]) /\ val' = Append(val, m)
  BY DEF CallTuple, Tuple, Allocate
<1>3. m = <<c, val[s]>>
  BY DEF TupleItems, Denotes
<1> HIDE DEF m
<1>4. val' = Append(val, <<c, val[s]>>)
  BY <1>2, <1>3
<1>5. Memory(heap', val') /\ Extends(heap, heap')
  BY <1>1, <1>2, <1>4, TupleAdded, Zenon
<1>6. Evaluated("tuple", val'[Fresh], val'[Fresh])
  BY DEF CallTuple
<1> QED
  BY <1>5, <1>6, EvaluatedAtOnce

LEMMA TakeHeadKeeps ==
  ASSUME ListInv, NEW l \in Lists, TakeHead(l)
  PROVE  ListInv'
<1>1. Memory(heap', val') /\ Extends(heap, heap')
  BY Named, Untouched DEF TakeHead
<1>2. Evaluated("head", val[l], val[heap[l].value])
  BY DEF TakeHead
<1> QED
  BY <1>1, <1>2, EvaluatedAtOnce

LEMMA CallAtKeeps ==
  ASSUME ListInv, NEW l \in Lists, NEW i \in 1 .. MaxIndex, CallAt(l, i)
  PROVE  ListInv'
<1>1. heap' = heap /\ val' = val /\ Memory(heap', val') /\ Extends(heap, heap')
  BY Named, Untouched DEF CallAt, memory
<1>2. CASE heap[l].length < i
  BY <1>1, <1>2 DEF CallAt, program, ListInv
<1>3. CASE ~(heap[l].length < i)
  <2> DEFINE f == [Frame("at", "loop", heap[l].ty, <<val[l], i>>) EXCEPT !.l1 = l, !.i = i]
  <2>1. Begin(f)
    BY <1>3 DEF CallAt
  <2>2. IsFrame(f) /\ f.fn = "at"
    BY DEF Frame, IsFrame
  <2> HIDE DEF f
  <2>3. FrameFits(heap', f)
    BY <2>2 DEF FrameFits
  <2> QED
    BY <1>1, <2>1, <2>2, <2>3, Begins
<1> QED
  BY <1>2, <1>3

LEMMA CallCompareKeeps ==
  ASSUME ListInv, NEW a \in Lists, NEW b \in Lists, CallCompare(a, b)
  PROVE  ListInv'
<1> DEFINE ty == heap[a].ty
           f == CompareFrame(ty, a, b, <<val[a], val[b]>>)
<1>1. heap' = heap /\ Memory(heap', val') /\ Extends(heap, heap')
  BY Named, Untouched DEF CallCompare
<1>2. Begin(f) /\ heap[a].ty = heap[b].ty
  BY DEF CallCompare
<1>3. ty \in ListTypes /\ a \in Chain(heap, ty) /\ b \in Chain(heap, ty)
  BY <1>2, Named
<1> HIDE DEF ty
<1>4. FrameFits(heap, f) /\ f.fn = "compare"
  BY <1>3, CompareFrameFits
<1> HIDE DEF f
<1>5. FrameFits(heap', f)
  BY <1>1, <1>4
<1> QED
  BY <1>1, <1>2, <1>4, <1>5, Begins

LEMMA CallConcatKeeps ==
  ASSUME ListInv, NEW a \in Lists, NEW b \in Lists, CallConcat(a, b)
  PROVE  ListInv'
<1> DEFINE ty == heap[a].ty
           els == [k \in 1 .. heap[a].length |-> NULL]
           f == [Frame("concat", "loop", ty, <<val[a], val[b]>>) EXCEPT !.l1 = a, !.l2 = b, !.els = els]
<1>1. heap' = heap /\ Memory(heap', val') /\ Extends(heap, heap')
  BY Named, Untouched DEF CallConcat
<1>2. Begin(f) /\ heap[a].ty = heap[b].ty
  BY DEF CallConcat
<1>3. ty \in ListTypes /\ a \in Chain(heap, ty) /\ b \in Chain(heap, ty)
  BY <1>2, Named
<1>4. heap[a].length \in Nat
  BY <1>3, Named, Reachable
<1>5. els \in Seq({NULL}) /\ Len(els) = heap[a].length
  BY <1>4
<1>6. /\ IsFrame(f) /\ f.fn = "concat" /\ f.at = "loop" /\ f.ty = ty /\ f.l1 = a /\ f.l2 = b
      /\ f.i = 0 /\ f.els = els
  BY DEF Frame, IsFrame
<1> HIDE DEF ty, els, f
<1>7. FrameFits(heap', f)
  BY <1>1, <1>3, <1>4, <1>5, <1>6 DEF FrameFits, ConcatFits, IsSeq
<1> QED
  BY <1>1, <1>2, <1>6, <1>7, Begins

LEMMA CallCompareTupleKeeps ==
  ASSUME ListInv, NEW a \in OfType("tuple"), NEW b \in OfType("tuple"), CallCompareTuple(a, b)
  PROVE  ListInv'
<1> DEFINE f == [Frame("compare_tuple", "loop", "tuple", <<val[a], val[b]>>) EXCEPT
                   !.l1 = a, !.l2 = b, !.i = 1]
<1>1. heap' = heap /\ Memory(heap', val') /\ Extends(heap, heap')
  BY Named, Untouched DEF CallCompareTuple
<1>2. Begin(f) /\ a \in Chain(heap, "tuple") /\ b \in Chain(heap, "tuple")
  BY Named DEF CallCompareTuple
<1>3. IsFrame(f) /\ f.fn = "compare_tuple" /\ f.at = "loop" /\ f.l1 = a /\ f.l2 = b /\ f.i = 1
  BY DEF Frame, IsFrame
<1> HIDE DEF f
<1>4. FrameFits(heap', f)
  BY <1>1, <1>2, <1>3 DEF FrameFits, TuplesFit
<1> QED
  BY <1>1, <1>2, <1>3, <1>4, Begins

LEMMA CallPrintKeeps ==
  ASSUME ListInv, NEW l \in Lists, CallPrint(l)
  PROVE  ListInv'
<1> DEFINE f == PrintFrame(heap[l].ty, l, val[l])
<1>1. heap' = heap /\ Memory(heap', val') /\ Extends(heap, heap')
  BY Named, Untouched DEF CallPrint
<1>2. FrameFits(heap, f) /\ f.fn = "print" /\ Begin(f)
  BY Named, PrintFrameFits DEF CallPrint
<1> HIDE DEF f
<1>3. FrameFits(heap', f)
  BY <1>1, <1>2
<1> QED
  BY <1>1, <1>2, <1>3, Begins

LEMMA CallPrintStringKeeps ==
  ASSUME ListInv, NEW l \in OfType("chars"), CallPrintString(l)
  PROVE  ListInv'
<1> DEFINE f == PrintStringFrame(l, TRUE, val[l])
<1>1. heap' = heap /\ Memory(heap', val') /\ Extends(heap, heap')
  BY Named, Untouched DEF CallPrintString
<1>2. FrameFits(heap, f) /\ f.fn = "print_string"
  <2>1. l \in Chain(heap, "chars") /\ Memory(heap, val)
    BY Named
  <2> QED
    BY <2>1, PrintStringFrameFits
<1>3. Begin(f)
  BY DEF CallPrintString
<1> HIDE DEF f
<1>4. FrameFits(heap', f)
  BY <1>1, <1>2
<1> QED
  BY <1>1, <1>2, <1>3, <1>4, Begins

LEMMA CallPrintTupleKeeps ==
  ASSUME ListInv, NEW t \in OfType("tuple"), CallPrintTuple(t)
  PROVE  ListInv'
<1> DEFINE f == [Frame("print_tuple", "entry", "tuple", val[t]) EXCEPT !.l1 = t, !.i = 1]
<1>1. heap' = heap /\ Memory(heap', val') /\ Extends(heap, heap')
  BY Named, Untouched DEF CallPrintTuple
<1>2. Begin(f) /\ t \in Chain(heap, "tuple")
  BY Named DEF CallPrintTuple
<1>3. IsFrame(f) /\ f.fn = "print_tuple" /\ f.l1 = t /\ f.i = 1
  BY DEF Frame, IsFrame
<1> HIDE DEF f
<1>4. FrameFits(heap', f)
  BY <1>1, <1>2, <1>3 DEF FrameFits, TuplesFit
<1> QED
  BY <1>1, <1>2, <1>3, <1>4, Begins

LEMMA ExpressionKeeps ==
  ASSUME ListInv, Expression
  PROVE  ListInv'
<1>1. CASE \E ty \in ListTypes : \E elements \in BoundedSeq(Values(Element[ty]), MaxElements) :
             CallCreate(ty, elements)
  BY <1>1, CallCreateKeeps
<1>2. CASE \E text \in Literals : CallCreateString(text)
  BY <1>2, CallCreateStringKeeps
<1>3. CASE \E l \in Lists : \E v \in Values(Element[heap[l].ty]) : CallAdd(l, v)
  BY <1>3, CallAddKeeps
<1>4. CASE \E c \in Chars, s \in OfType("chars") : CallTuple(<<c, s>>)
  BY <1>4, CallTupleKeeps
<1>5. CASE \E l \in Lists : TakeHead(l) \/ CallPrint(l)
  BY <1>5, TakeHeadKeeps, CallPrintKeeps
<1>6. CASE \E l \in OfType("chars") : CallPrintString(l)
  BY <1>6, CallPrintStringKeeps
<1>7. CASE \E l \in Lists, i \in 1 .. MaxIndex : CallAt(l, i)
  BY <1>7, CallAtKeeps
<1>8. CASE \E a, b \in Lists : CallCompare(a, b) \/ CallConcat(a, b)
  BY <1>8, CallCompareKeeps, CallConcatKeeps
<1>9. CASE \E a, b \in OfType("tuple") : CallCompareTuple(a, b)
  BY <1>9, CallCompareTupleKeeps
<1>10. CASE \E t \in OfType("tuple") : CallPrintTuple(t)
  BY <1>10, CallPrintTupleKeeps
<1> QED
  BY <1>1, <1>2, <1>3, <1>4, <1>5, <1>6, <1>7, <1>8, <1>9, <1>10 DEF Expression

-----------------------------------------------------------------------------
(* The invariant. *)

LEMMA ListInvInit == Init => ListInv
<1> SUFFICES ASSUME Init PROVE ListInv
  OBVIOUS
<1> DEFINE f == [Frame("main", "loop", "strings", Argv) EXCEPT !.l1 = 1, !.els = Argv, !.i = Len(Argv) - 1]
<1>1. heap = <<EmptyNode("strings")>> /\ val = <<(<<>>)>> /\ stack = <<f>> /\ known = 0 /\ undefined = FALSE
  BY DEF Init
<1>2. /\ IsSeq(heap) /\ Len(heap) = 1 /\ heap[1] = EmptyNode("strings")
      /\ IsSeq(val) /\ Len(val) = 1 /\ val[1] = <<>>
  <2>1. <<EmptyNode("strings")>> \in Seq({EmptyNode("strings")}) /\ <<(<<>>)>> \in Seq({<<>>})
    OBVIOUS
  <2> QED
    BY <1>1, <2>1 DEF IsSeq
<1>3. ListNode(heap, val, 1)
  <2>1. <<>> \in Seq({}) /\ Len(<<>>) = 0
    OBVIOUS
  <2> QED
    BY <1>2, <2>1 DEF ListNode, EmptyNode, IsSeq
<1>4. Memory(heap, val)
  BY <1>2, <1>3 DEF Memory, EmptyNode, ListTypes
<1>5. /\ IsFrame(f) /\ f.fn = "main" /\ f.at = "loop" /\ f.l1 = 1 /\ f.els = Argv /\ f.i = Len(Argv) - 1
  BY DEF Frame, IsFrame
<1> HIDE DEF f
<1>6. FrameFits(heap, f)
  BY <1>2, <1>5, ListsAssumption DEF FrameFits, MainFits, Chain, EmptyNode
<1>7. IsSeq(stack) /\ Len(stack) = 1 /\ stack[1] = f
  <2>1. <<f>> \in Seq({f})
    OBVIOUS
  <2> QED
    BY <1>1, <2>1 DEF IsSeq
<1>8. Frames(heap, stack)
  BY <1>5, <1>6, <1>7 DEF Frames, WaitsForString
<1> QED
  BY <1>1, <1>2, <1>4, <1>8 DEF ListInv

LEMMA ListInvNext == ListInv /\ [Next]_vars => ListInv'
<1> SUFFICES ASSUME ListInv, [Next]_vars PROVE ListInv'
  OBVIOUS
<1>1. CASE Expression
  BY <1>1, ExpressionKeeps
<1>2. CASE GoOn
  BY <1>2 DEF GoOn, memory, ListInv
<1>3. CASE Step
  <2>1. CASE Create \/ CreateString \/ Main \/ MainAdd \/ At
    BY <2>1, CreateKeeps, CreateStringKeeps, MainKeeps, MainAddKeeps, AtKeeps
  <2>2. CASE CompareLength \/ Compare \/ CompareTest \/ CompareTuple \/ CompareTupleTest
    BY <2>2, CompareLengthKeeps, CompareKeeps, CompareTestKeeps, CompareTupleKeeps, CompareTupleTestKeeps
  <2>3. CASE ConcatCollect \/ ConcatAdd
    BY <2>3, ConcatCollectKeeps, ConcatAddKeeps
  <2>4. CASE PrintOpen \/ PrintElement \/ PrintedElement \/ PrintClose \/ PrintString
    BY <2>4, PrintOpenKeeps, PrintElementKeeps, PrintedElementKeeps, PrintCloseKeeps, PrintStringKeeps
  <2>5. CASE PrintTupleOpen \/ PrintTupleItem \/ PrintedTupleItem
    BY <2>5, PrintTupleOpenKeeps, PrintTupleItemKeeps, PrintedTupleItemKeeps
  <2> QED
    BY <1>3, <2>1, <2>2, <2>3, <2>4, <2>5 DEF Step
<1>4. CASE Done \/ UNCHANGED vars
  BY <1>4 DEF Done, vars, ListInv
<1> QED
  BY <1>1, <1>2, <1>3, <1>4 DEF Next

LEMMA MemoryIsWellFormed == Memory(heap, val) => ListsWellFormed
<1> SUFFICES ASSUME Memory(heap, val), NEW n \in 1 .. Len(heap)
             PROVE  IF heap[n].ty = "tuple"
                    THEN val[n] = [k \in DOMAIN TupleItems |-> Denotes(TupleItems[k], heap[n].value[k])]
                    ELSE /\ heap[n].length = Len(val[n])
                         /\ IF heap[n].length = 0
                            THEN heap[n] = EmptyNode(heap[n].ty)
                            ELSE /\ heap[n].next \in 1 .. n - 1
                                 /\ heap[heap[n].next].ty = heap[n].ty
                                 /\ Element[heap[n].ty] # "CHAR" => heap[n].value \in 1 .. n - 1
                                 /\ val[n] = <<Denotes(Element[heap[n].ty], heap[n].value)>> \o val[heap[n].next]
  BY DEF ListsWellFormed, Addresses
<1>1. CASE heap[n].ty = "tuple"
  <2> DEFINE a == heap[n].value[1]
             b == heap[n].value[2]
             t == [k \in DOMAIN TupleItems |-> Denotes(TupleItems[k], heap[n].value[k])]
  <2>1. val[n] = <<a, val[b]>>
    BY <1>1 DEF Memory, TupleNode, ListTypes
  <2>2. t = <<a, val[b]>>
    BY DEF TupleItems, Denotes
  <2> QED
    BY <1>1, <2>1, <2>2
<1>2. CASE heap[n].ty # "tuple"
  <2>1. heap[n].ty \in ListTypes /\ ListNode(heap, val, n)
    BY <1>2 DEF Memory
  <2>2. ASSUME heap[n].length # 0
        PROVE  /\ heap[n].next \in 1 .. n - 1
               /\ heap[heap[n].next].ty = heap[n].ty
               /\ Element[heap[n].ty] # "CHAR" => heap[n].value \in 1 .. n - 1
    BY <2>1, <2>2 DEF ListNode, Chain, Elements, Element, ListTypes
  <2>3. StandsFor(val, heap[n].ty, heap[n].value) = Denotes(Element[heap[n].ty], heap[n].value)
    BY <2>1 DEF StandsFor, Denotes, Element, ListTypes
  <2> QED
    BY <1>2, <2>1, <2>2, <2>3 DEF ListNode
<1> QED
  BY <1>1, <1>2

\* In every program, whatever lists it makes and however many: each pointer is
\* to a node of the type that the function behind it reads, each counter
\* agrees with the lists it counts.
THEOREM ListInvariant == Spec => []ListInv
<1> QED
  BY ListInvInit, ListInvNext, PTL DEF Spec

\* Every list and every tuple the generated functions make is, for good, what
\* it was made to be (generateList, generateTuple): no length is wrong, no
\* chain has a cycle or ends in a node that holds a value.
THEOREM ListsStayWellFormed == Spec => []ListsWellFormed
<1>1. ListInv => ListsWellFormed
  BY MemoryIsWellFormed DEF ListInv
<1> QED
  BY <1>1, ListInvariant, PTL

\* No generated function reads the value of a list's last node, and the array
\* of gconcat_list and the buffer of gprint_string are large enough for lists
\* of any length.
THEOREM NothingUndefined == Spec => []NoUndefinedBehaviour
<1>1. ListInv => NoUndefinedBehaviour
  BY DEF ListInv, NoUndefinedBehaviour
<1> QED
  BY <1>1, ListInvariant, PTL
===============================================================================
