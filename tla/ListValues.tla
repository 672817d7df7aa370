------------------------------ MODULE ListValues ------------------------------
(***************************************************************************)
(* What the generated list functions promise the program: lists, strings   *)
(* and tuples are sequences, and every expression on them is evaluated at  *)
(* once.  Nothing is said of memory.                                       *)
(***************************************************************************)
EXTENDS Naturals, Sequences, SequencesExt

CONSTANTS Chars, Argv, Literals, MaxElements, MaxIndex, CompareTypes

ListTypes == {"chars", "strings", "lists"}

VARIABLES
  values,  \* the values of the program, each with its type
  answer,  \* the last expression evaluated
  exited

vars == <<values, answer, exited>>

NoAnswer == [fn |-> "none", in |-> <<>>, out |-> <<>>, text |-> <<>>]

Of(ty) == {x[2] : x \in {y \in values : y[1] = ty}}
Elements(ty) == IF ty = "chars" THEN Chars ELSE Of("chars")

\* The lists a list ends in, and with them the elements it has.
Tails(ty, v) == {<<ty, SubSeq(v, k, Len(v))>> : k \in 1 .. Len(v) + 1}
Parts(ty, v) ==
  CASE ty = "tuple" -> {<<"tuple", v>>} \cup Tails("chars", v[2])
    [] ty = "chars" -> Tails(ty, v)
    [] OTHER -> Tails(ty, v) \cup UNION {Tails("chars", v[k]) : k \in DOMAIN v}

\* The text of a printed list, its elements with texts between brackets.
Listed(texts) ==
  <<"[">> \o FlattenSeq([k \in DOMAIN texts |-> IF k = 1 THEN texts[k] ELSE <<", ">> \o texts[k]]) \o <<"]">>
CharText(c) == <<"'", c, "'">>
ElementText(ty, x) ==
  CASE ty = "chars" -> CharText(x)
    [] ty = "strings" -> <<"\"">> \o x \o <<"\"">>
    [] ty = "lists" -> Listed([k \in DOMAIN x |-> CharText(x[k])])
Text(ty, v) == Listed([k \in DOMAIN v |-> ElementText(ty, v[k])])

-----------------------------------------------------------------------------

Evaluates(fn, in, out, text, new) ==
  /\ ~exited
  /\ answer' = [fn |-> fn, in |-> in, out |-> out, text |-> text]
  /\ values' = values \cup new
  /\ UNCHANGED exited

\* An evaluation begins: the last answer has been used.
Ask == ~exited /\ answer' = NoAnswer /\ UNCHANGED <<values, exited>>

Main == values = {} /\ Evaluates("main", Argv, Argv, <<>>, Parts("strings", Argv))

Create(ty, v) == Evaluates("create", v, v, <<>>, Parts(ty, v))
String(text) == Evaluates("string", text, text, <<>>, Parts("chars", text))
Add(ty, x, v) == Evaluates("add", <<x, v>>, <<x>> \o v, <<>>, {<<ty, <<x>> \o v>>})
MakeTuple(items) == Evaluates("tuple", items, items, <<>>, {<<"tuple", items>>})

First(ty, v) == v # <<>> /\ Evaluates("head", v, v[1], <<>>, {})
Rest(ty, v, i) ==
  IF i <= Len(v)
  THEN Evaluates("at", <<v, i>>, SubSeq(v, i + 1, Len(v)), <<>>, {})
  ELSE ~exited /\ exited' = TRUE /\ UNCHANGED <<values, answer>>

\* Strings in a list are compared by identity: equal ones may count as
\* different, and different ones never as equal.  Lists in a list have to be
\* different for their lists to count as equal.
ComparesTo(ty, v, w, out) ==
  CASE ty = "chars" -> out = (v = w)
    [] ty = "strings" -> out => v = w
    [] ty = "lists" -> out = (Len(v) = Len(w) /\ \A k \in DOMAIN v : v[k] # w[k])
Compare(ty, v, w) ==
  \E out \in BOOLEAN : ComparesTo(ty, v, w, out) /\ Evaluates("compare", <<v, w>>, out, <<>>, {})
CompareTuple(v, w) == Evaluates("compare_tuple", <<v, w>>, v = w, <<>>, {})

Concat(ty, v, w) == Evaluates("concat", <<v, w>>, v \o w, <<>>, Parts(ty, v \o w))

\* A printed list is its own result; that of a printed string is empty.
PrintList(ty, v) == Evaluates("print", v, v, Text(ty, v), {})
PrintTuple(v) ==
  Evaluates("print_tuple", v, v, <<"(">> \o CharText(v[1]) \o <<", ", "\"">> \o v[2] \o <<"\"", ")">>, {})
PrintString(v) == Evaluates("print_string", v, <<>>, v, {})

Init == values = {} /\ answer = NoAnswer /\ exited = FALSE

Next ==
  \/ Ask \/ Main
  \/ \E text \in Literals : String(text)
  \/ \E ty \in ListTypes :
       \/ \E v \in BoundedSeq(Elements(ty), MaxElements) : Create(ty, v)
       \/ \E v \in Of(ty) :
            \/ \E x \in Elements(ty) : Add(ty, x, v)
            \/ \E i \in 1 .. MaxIndex : Rest(ty, v, i)
            \/ PrintList(ty, v) \/ (ty # "chars" /\ First(ty, v))
            \/ \E w \in Of(ty) : Concat(ty, v, w) \/ (ty \in CompareTypes /\ Compare(ty, v, w))
  \/ \E c \in Chars, s \in Of("chars") : MakeTuple(<<c, s>>)
  \/ \E v, w \in Of("tuple") : CompareTuple(v, w)
  \/ \E v \in Of("chars") : PrintString(v)
  \/ \E v \in Of("tuple") : PrintTuple(v)

Spec == Init /\ [][Next]_vars

=============================================================================
