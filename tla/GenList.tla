------------------------------- MODULE GenList -------------------------------
(***************************************************************************)
(* The C functions that CCodeGen writes for lists, strings and tuples, and *)
(* the expressions of a program that call them.                            *)
(*                                                                         *)
(* A list is a chain of nodes [next, length, value] that ends in a node of *)
(* length 0, whose value is never set.  Nodes are shared and never freed.  *)
(* A call is a frame on `stack'; one action is one iteration of a loop, or *)
(* the statements between two calls.  val is a history variable: val[n] is *)
(* the sequence that node n stood for when it was made.                    *)
(***************************************************************************)
EXTENDS Integers, Sequences, SequencesExt

CONSTANTS
  Chars,         \* characters of literals
  Argv,          \* the command line, a sequence of strings
  Sources,       \* programs: the kinds of their expressions and, as a bound,
                 \* the number of nodes they allocate
  Literals,      \* strings that occur in the program text
  MaxElements,   \* bound: elements of a list expression
  MaxIndex,      \* bound: offsets in patterns
  CompareTypes,  \* the types of list whose values the program compares
  NoValue        \* no value

\* The program text is made of characters, and so is the command line.
ASSUME ListsAssumption ==
  /\ Argv \in Seq(Seq(Chars)) /\ Literals \subseteq Seq(Chars)
  /\ MaxElements \in Nat /\ MaxIndex \in Nat
  /\ NoValue \notin Chars /\ NoValue \notin Nat

\* list_0, list of STRING and list of LIST; a STRING is itself a list_0.
ListTypes == {"chars", "strings", "lists"}
Element == [chars |-> "CHAR", strings |-> "STRING", lists |-> "LIST"]

\* The tuple type of the program: (Char, String).
TupleItems == <<"CHAR", "STRING">>

NULL == 0

VARIABLES
  source,     \* the program
  heap,       \* the nodes allocated so far; an address is an index
  val,        \* history: what every node stands for
  known,      \* nodes 1 .. known make up the values of the program
  stack,      \* the generated functions being executed, innermost last
  printed,    \* what the current expression has printed
  answer,     \* the last expression evaluated: its operands and its result
  exited,     \* exit(1) was called
  undefined   \* memory was read that was never written

memory == <<source, heap, val>>
program == <<known, answer>>
vars == <<source, heap, val, known, stack, printed, answer, exited, undefined>>

-----------------------------------------------------------------------------
(* Memory *)

Fresh == Len(heap) + 1
Fits(count) == Len(heap) + count <= source.nodes

\* What a value of an element's type stands for.
Denotes(kind, v) == IF kind = "CHAR" THEN v ELSE val[v]

Allocate(node, meaning) ==
  /\ heap' = Append(heap, node)
  /\ val' = Append(val, meaning)
  /\ UNCHANGED source

EmptyNode(ty) == [ty |-> ty, next |-> NULL, length |-> 0, value |-> NoValue]

\* gcrt_list(0)
Empty(ty) == Allocate(EmptyNode(ty), <<>>)

\* Mutant: the length is not counted up.
Add_SameLength(ty, l, v) ==
  Allocate([ty |-> ty, next |-> l, length |-> IF heap[l].length = 0 THEN 1 ELSE heap[l].length, value |-> v],
           <<Denotes(Element[ty], v)>> \o val[l])

\* gadd_list(l, v)
Add(ty, l, v) ==
  Allocate([ty |-> ty, next |-> l, length |-> heap[l].length + 1, value |-> v],
           <<Denotes(Element[ty], v)>> \o val[l])

\* gcrt_tuple(items)
Tuple(items) ==
  Allocate([EmptyNode("tuple") EXCEPT !.value = items],
           [k \in DOMAIN items |-> Denotes(TupleItems[k], items[k])])

-----------------------------------------------------------------------------
(* Calls *)

Frame(fn, at, ty, in) ==
  [fn |-> fn, at |-> at, ty |-> ty, l1 |-> NULL, l2 |-> NULL, i |-> 0, els |-> <<>>,
   got |-> NoValue, in |-> in]

NoAnswer == [fn |-> "none", in |-> <<>>, out |-> <<>>, text |-> <<>>]

Top == Last(stack)
Evaluates(fn) == fn \in source.kinds /\ stack = <<>> /\ answer = NoAnswer /\ ~exited /\ ~undefined
Running(fn, at) == stack # <<>> /\ Top.fn = fn /\ Top.at = at /\ ~undefined

\* The program evaluates an expression that calls a generated function.
Begin(f) ==
  /\ stack' = <<f>>
  /\ UNCHANGED <<program, printed, exited, undefined>>

\* The running function goes on as f, or as f once its call of g returns.
Goto(f) == stack' = Append(Front(stack), f) /\ UNCHANGED program
Call(f, g) == stack' = Append(Front(stack), f) \o <<g>> /\ UNCHANGED program

\* It returns v, which stands for out.
Return(v, out) ==
  IF Len(stack) > 1
  THEN /\ stack' = Append(Front(Front(stack)), [stack[Len(stack) - 1] EXCEPT !.got = v])
       /\ UNCHANGED program
  ELSE /\ stack' = <<>>
       /\ known' = Len(heap)
       /\ answer' = [fn |-> Top.fn, in |-> Top.in, out |-> out, text |-> printed']

ReturnNode(n) == Return(n, val[n])
ReturnInt(b) == Return(b, b)

Silent == UNCHANGED <<printed, exited>>
Safe == UNCHANGED undefined

\* The statement reads the values of the nodes ns.
Reads(ns) == undefined' = (\E n \in ns : heap[n].value = NoValue)

\* What the program can name.  Patterns reach every part of a value, so any
\* node of a complete value is one.
OfType(ty) == {n \in 1 .. known : heap[n].ty = ty}
Lists == {n \in 1 .. known : heap[n].ty \in ListTypes}

\* Values of an element's type that the program can name.
Values(kind) == IF kind = "CHAR" THEN Chars ELSE OfType("chars")

-----------------------------------------------------------------------------
(* Making lists: gcrt_list, gcrt_string, gadd_list, gcrt_tuple.  The        *)
(* elements of a list expression are passed last one first.                 *)

\* Mutant: the last list has no address yet.
CreateFrame_NoResult(ty, args, in) == [Frame("create", "loop", ty, in) EXCEPT !.els = args]

CreateFrame(ty, args, in) ==
  [Frame("create", "loop", ty, in) EXCEPT !.l1 = Fresh, !.els = args]

CallCreate(ty, elements) ==
  /\ Evaluates("create") /\ Fits(Len(elements) + 1)
  /\ Begin(CreateFrame(ty, Reverse(elements), [k \in DOMAIN elements |-> Denotes(Element[ty], elements[k])]))
  /\ Empty(ty)

Create ==
  /\ Running("create", "loop")
  /\ Silent /\ Safe
  /\ IF Top.els # <<>>
     THEN Add(Top.ty, Top.l1, Head(Top.els)) /\ Goto([Top EXCEPT !.l1 = Fresh, !.els = Tail(@)])
     ELSE ReturnNode(Top.l1) /\ UNCHANGED memory

StringFrame(text) ==
  [Frame("string", "loop", "chars", text) EXCEPT !.l1 = Fresh, !.els = text, !.i = Len(text) - 1]

CallCreateString(text) ==
  /\ Evaluates("string") /\ Fits(Len(text) + 1)
  /\ Begin(StringFrame(text))
  /\ Empty("chars")

CreateString ==
  /\ Running("string", "loop")
  /\ Silent /\ Safe
  /\ IF Top.i >= 0
     THEN Add("chars", Top.l1, Top.els[Top.i + 1]) /\ Goto([Top EXCEPT !.l1 = Fresh, !.i = @ - 1])
     ELSE ReturnNode(Top.l1) /\ UNCHANGED memory

\* An expression that is evaluated in one step.
Evaluated(fn, in, out) ==
  /\ known' = Len(heap')
  /\ answer' = [fn |-> fn, in |-> in, out |-> out, text |-> <<>>]
  /\ UNCHANGED <<stack, printed, exited, undefined>>

CallAdd(l, v) ==
  /\ Evaluates("add") /\ Fits(1)
  /\ Add(heap[l].ty, l, v)
  /\ Evaluated("add", <<Denotes(Element[heap[l].ty], v), val[l]>>, val'[Fresh])

CallTuple(items) ==
  /\ Evaluates("tuple") /\ Fits(1)
  /\ Tuple(items)
  /\ Evaluated("tuple", val'[Fresh], val'[Fresh])

\* main: the list of the arguments, made from its end.
Main ==
  /\ Running("main", "loop")
  /\ Silent /\ Safe
  /\ IF Top.i >= 0
     THEN /\ Empty("chars")
          /\ Call([Top EXCEPT !.at = "add"], StringFrame(Top.els[Top.i + 1]))
     ELSE ReturnNode(Top.l1) /\ UNCHANGED memory

MainAdd ==
  /\ Running("main", "add")
  /\ Silent /\ Safe
  /\ Add("strings", Top.l1, Top.got)
  /\ Goto([Top EXCEPT !.l1 = Fresh, !.i = @ - 1, !.at = "loop"])

-----------------------------------------------------------------------------
(* Taking lists apart: l->value, and gat_list *)

TakeHead(l) ==
  /\ Evaluates("head")
  /\ heap[l].ty \in {"strings", "lists"} /\ heap[l].length > 0
  /\ UNCHANGED memory
  /\ Evaluated("head", val[l], val[heap[l].value])

CallAt(l, i) ==
  /\ Evaluates("at")
  /\ IF heap[l].length < i
     THEN exited' = TRUE /\ UNCHANGED <<stack, program, printed, undefined>>
     ELSE Begin([Frame("at", "loop", heap[l].ty, <<val[l], i>>) EXCEPT !.l1 = l, !.i = i])
  /\ UNCHANGED memory

\* Mutant: i-- >= 0.
At_OneMore ==
  /\ Running("at", "loop")
  /\ Silent /\ Safe
  /\ IF Top.i >= 0 /\ heap[Top.l1].next # NULL
     THEN Goto([Top EXCEPT !.l1 = heap[@].next, !.i = @ - 1])
     ELSE ReturnNode(Top.l1)
  /\ UNCHANGED memory

\* Mutant: l stays where it is.
At_NoStep ==
  /\ Running("at", "loop")
  /\ Silent /\ Safe
  /\ IF Top.i > 0 THEN UNCHANGED <<stack, program>> ELSE ReturnNode(Top.l1)
  /\ UNCHANGED memory

At ==
  /\ Running("at", "loop")
  /\ Silent /\ Safe
  /\ IF Top.i > 0
     THEN Goto([Top EXCEPT !.l1 = heap[@].next, !.i = @ - 1])
     ELSE ReturnNode(Top.l1)
  /\ UNCHANGED memory

-----------------------------------------------------------------------------
(* Comparing: gcompare_list, gcompare_tuple *)

CompareFrame(ty, a, b, in) == [Frame("compare", "entry", ty, in) EXCEPT !.l1 = a, !.l2 = b]

CallCompare(a, b) ==
  /\ Evaluates("compare")
  /\ heap[a].ty = heap[b].ty /\ heap[a].ty \in CompareTypes
  /\ Begin(CompareFrame(heap[a].ty, a, b, <<val[a], val[b]>>))
  /\ UNCHANGED memory

CompareLength ==
  /\ Running("compare", "entry")
  /\ Silent /\ Safe
  /\ IF heap[Top.l1].length # heap[Top.l2].length
     THEN ReturnInt(FALSE)
     ELSE Goto([Top EXCEPT !.at = "loop"])
  /\ UNCHANGED memory

\* The body of the loop once the condition of its `if' is known.
CompareBody(unequal) ==
  IF unequal
  THEN ReturnInt(FALSE)
  ELSE Goto([Top EXCEPT !.l1 = heap[@].next, !.l2 = heap[@].next, !.at = "loop"])

Compare ==
  /\ Running("compare", "loop")
  /\ Silent
  /\ IF heap[Top.l1].length = 0
     THEN ReturnInt(TRUE) /\ Safe
     ELSE LET v1 == heap[Top.l1].value
              v2 == heap[Top.l2].value
          IN /\ Reads({Top.l1, Top.l2})
             /\ IF Element[Top.ty] = "LIST"
                THEN Call([Top EXCEPT !.at = "test"], CompareFrame("chars", v1, v2, <<val[v1], val[v2]>>))
                ELSE CompareBody(v1 # v2)
  /\ UNCHANGED memory

\* The `if' takes what gcompare_list returns for the values as it is.
CompareTest ==
  /\ Running("compare", "test")
  /\ Silent /\ Safe
  /\ CompareBody(Top.got)
  /\ UNCHANGED memory

CallCompareTuple(a, b) ==
  /\ Evaluates("compare_tuple")
  /\ Begin([Frame("compare_tuple", "loop", "tuple", <<val[a], val[b]>>) EXCEPT !.l1 = a, !.l2 = b, !.i = 1])
  /\ UNCHANGED memory

CompareTuple ==
  /\ Running("compare_tuple", "loop")
  /\ Silent /\ Safe
  /\ IF Top.i > Len(TupleItems)
     THEN ReturnInt(TRUE)
     ELSE LET v1 == heap[Top.l1].value[Top.i]
              v2 == heap[Top.l2].value[Top.i]
          IN IF TupleItems[Top.i] = "STRING"
             THEN Call([Top EXCEPT !.at = "test"], CompareFrame("chars", v1, v2, <<val[v1], val[v2]>>))
             ELSE IF v1 # v2 THEN ReturnInt(FALSE) ELSE Goto([Top EXCEPT !.i = @ + 1])
  /\ UNCHANGED memory

CompareTupleTest ==
  /\ Running("compare_tuple", "test")
  /\ Silent /\ Safe
  /\ IF ~Top.got THEN ReturnInt(FALSE) ELSE Goto([Top EXCEPT !.i = @ + 1, !.at = "loop"])
  /\ UNCHANGED memory

-----------------------------------------------------------------------------
(* gconcat_list: remember the nodes of l1, then add their values to l2 from *)
(* the last to the first.                                                   *)

CallConcat(a, b) ==
  /\ Evaluates("concat") /\ Fits(heap[a].length)
  /\ heap[a].ty = heap[b].ty
  /\ Begin([Frame("concat", "loop", heap[a].ty, <<val[a], val[b]>>) EXCEPT
              !.l1 = a, !.l2 = b, !.els = [k \in 1 .. heap[a].length |-> NULL]])
  /\ UNCHANGED memory

ConcatCollect ==
  /\ Running("concat", "loop")
  /\ Silent
  /\ IF heap[Top.l1].length > 0
     THEN /\ undefined' = (Top.i >= Len(Top.els))
          /\ Goto([Top EXCEPT !.els = [@ EXCEPT ![Top.i + 1] = Top.l1], !.l1 = heap[@].next, !.i = @ + 1])
     ELSE Goto([Top EXCEPT !.i = @ - 1, !.at = "add"]) /\ Safe
  /\ UNCHANGED memory

ConcatAdd ==
  /\ Running("concat", "add")
  /\ Silent
  /\ IF Top.i >= 0
     THEN /\ Reads({Top.els[Top.i + 1]})
          /\ Add(Top.ty, Top.l2, heap[Top.els[Top.i + 1]].value)
          /\ Goto([Top EXCEPT !.l2 = Fresh, !.i = @ - 1])
     ELSE ReturnNode(Top.l2) /\ UNCHANGED memory /\ Safe

-----------------------------------------------------------------------------
(* Printing: gprint_list, gprint_tuple, gprint_string, gprint_char *)

Prints(text) == printed' = printed \o text /\ UNCHANGED exited

CharText(c, is_top) == IF is_top THEN <<c>> ELSE <<"'", c, "'">>
StringText(chars, is_top) == IF is_top THEN chars ELSE <<"\"">> \o chars \o <<"\"">>

PrintFrame(ty, l, in) == [Frame("print", "entry", ty, in) EXCEPT !.l1 = l, !.l2 = l]

\* Mutant: no room for the terminating 0.
PrintStringFrame_NoZero(l, is_top, in) ==
  [Frame("print_string", "loop", "chars", in) EXCEPT !.l1 = l, !.l2 = is_top, !.i = heap[l].length]

\* els is the buffer as far as it is written; l2 holds is_top.
PrintStringFrame(l, is_top, in) ==
  [Frame("print_string", "loop", "chars", in) EXCEPT !.l1 = l, !.l2 = is_top, !.i = heap[l].length + 1]

CallPrint(l) ==
  /\ Evaluates("print")
  /\ Begin(PrintFrame(heap[l].ty, l, val[l]))
  /\ UNCHANGED memory

CallPrintString(l) ==
  /\ Evaluates("print_string")
  /\ Begin(PrintStringFrame(l, TRUE, val[l]))
  /\ UNCHANGED memory

PrintOpen ==
  /\ Running("print", "entry")
  /\ Prints(<<"[">>)
  /\ Goto([Top EXCEPT !.at = "loop"])
  /\ UNCHANGED memory /\ Safe

\* l = l->next; if (l->length) print(", ");
PrintNext(l, text) ==
  LET next == heap[l].next IN
  /\ Prints(text \o IF heap[next].length > 0 THEN <<", ">> ELSE <<>>)
  /\ Goto([Top EXCEPT !.l1 = next, !.at = "loop"])

PrintElement ==
  /\ Running("print", "loop")
  /\ heap[Top.l1].length > 0
  /\ Reads({Top.l1})
  /\ LET v == heap[Top.l1].value IN
     CASE Element[Top.ty] = "CHAR" -> PrintNext(Top.l1, CharText(v, FALSE))
       [] Element[Top.ty] = "STRING" ->
            Call([Top EXCEPT !.at = "next"], PrintStringFrame(v, FALSE, val[v])) /\ Silent
       [] Element[Top.ty] = "LIST" ->
            Call([Top EXCEPT !.at = "next"], PrintFrame("chars", v, val[v])) /\ Silent
  /\ UNCHANGED memory

PrintedElement ==
  /\ Running("print", "next")
  /\ PrintNext(Top.l1, <<>>)
  /\ UNCHANGED memory /\ Safe

PrintClose ==
  /\ Running("print", "loop")
  /\ heap[Top.l1].length = 0
  /\ Prints(<<"]">>)
  /\ ReturnNode(Top.l2)
  /\ UNCHANGED memory /\ Safe

\* gprint_tuple
CallPrintTuple(t) ==
  /\ Evaluates("print_tuple")
  /\ Begin([Frame("print_tuple", "entry", "tuple", val[t]) EXCEPT !.l1 = t, !.i = 1])
  /\ UNCHANGED memory

PrintTupleOpen ==
  /\ Running("print_tuple", "entry")
  /\ Prints(<<"(">>)
  /\ Goto([Top EXCEPT !.at = "loop"])
  /\ UNCHANGED memory /\ Safe

\* if (i < SubTypes.size() - 1), decided when the code is generated
PrintTupleNext(text) ==
  /\ Prints(text \o IF Top.i < Len(TupleItems) THEN <<", ">> ELSE <<")">>)
  /\ IF Top.i < Len(TupleItems) THEN Goto([Top EXCEPT !.i = @ + 1, !.at = "loop"]) ELSE ReturnNode(Top.l1)

PrintTupleItem ==
  /\ Running("print_tuple", "loop")
  /\ LET v == heap[Top.l1].value[Top.i] IN
     IF TupleItems[Top.i] = "STRING"
     THEN Call([Top EXCEPT !.at = "next"], PrintStringFrame(v, FALSE, val[v])) /\ Silent
     ELSE PrintTupleNext(CharText(v, FALSE))
  /\ UNCHANGED memory /\ Safe

PrintedTupleItem ==
  /\ Running("print_tuple", "next")
  /\ PrintTupleNext(<<>>)
  /\ UNCHANGED memory /\ Safe

PrintString ==
  /\ Running("print_string", "loop")
  /\ IF heap[Top.l1].length > 0
     THEN /\ undefined' = (heap[Top.l1].value = NoValue \/ Len(Top.els) >= Top.i)
          /\ Goto([Top EXCEPT !.els = Append(@, heap[Top.l1].value), !.l1 = heap[@].next])
          /\ Silent
     ELSE /\ undefined' = (Len(Top.els) >= Top.i)  \* buffer[i] = '\0'
          /\ Prints(StringText(Top.els, Top.l2))
          /\ ReturnNode(Top.l1)
  /\ UNCHANGED memory

-----------------------------------------------------------------------------

Init ==
  /\ source \in Sources
  /\ heap = <<EmptyNode("strings")>>
  /\ val = <<(<<>>)>>
  /\ known = 0
  /\ stack = <<[Frame("main", "loop", "strings", Argv) EXCEPT !.l1 = 1, !.els = Argv, !.i = Len(Argv) - 1]>>
  /\ printed = <<>>
  /\ answer = NoAnswer
  /\ exited = FALSE
  /\ undefined = FALSE

\* The program evaluates its next expression.
Expression ==
  \/ \E ty \in ListTypes : \E elements \in BoundedSeq(Values(Element[ty]), MaxElements) : CallCreate(ty, elements)
  \/ \E text \in Literals : CallCreateString(text)
  \/ \E l \in Lists : \E v \in Values(Element[heap[l].ty]) : CallAdd(l, v)
  \/ \E c \in Chars, s \in OfType("chars") : CallTuple(<<c, s>>)
  \/ \E l \in Lists : TakeHead(l) \/ CallPrint(l)
  \/ \E l \in OfType("chars") : CallPrintString(l)
  \/ \E l \in Lists, i \in 1 .. MaxIndex : CallAt(l, i)
  \/ \E a, b \in Lists : CallCompare(a, b) \/ CallConcat(a, b)
  \/ \E a, b \in OfType("tuple") : CallCompareTuple(a, b)
  \/ \E t \in OfType("tuple") : CallPrintTuple(t)

\* The program has used the last answer and goes on.
GoOn ==
  /\ answer # NoAnswer
  /\ answer' = NoAnswer
  /\ printed' = <<>>
  /\ UNCHANGED <<memory, known, stack, exited, undefined>>

\* The generated function that runs takes a step.
Step ==
  \/ Create \/ CreateString \/ Main \/ MainAdd \/ At
  \/ CompareLength \/ Compare \/ CompareTest \/ CompareTuple \/ CompareTupleTest
  \/ ConcatCollect \/ ConcatAdd
  \/ PrintOpen \/ PrintElement \/ PrintedElement \/ PrintClose \/ PrintString
  \/ PrintTupleOpen \/ PrintTupleItem \/ PrintedTupleItem

\* The program ends on its own, or has been ended.
Done == stack = <<>> /\ UNCHANGED vars

Next == Expression \/ GoOn \/ Step \/ Done

Spec == Init /\ [][Next]_vars /\ WF_vars(Step)

-----------------------------------------------------------------------------
(* Properties *)

Addresses == 1 .. Len(heap)
Functions == {"main", "create", "string", "at", "compare", "compare_tuple", "concat", "print", "print_string", "print_tuple"}

TypeOK ==
  /\ DOMAIN val = Addresses
  /\ \A n \in Addresses :
       /\ heap[n].ty \in ListTypes \cup {"tuple"}
       /\ heap[n].next \in {NULL} \cup Addresses
       /\ heap[n].length \in Nat
  /\ known \in {0} \cup Addresses
  /\ \A k \in DOMAIN stack :
       /\ stack[k].fn \in Functions
       /\ stack[k].l1 \in Addresses
       /\ stack[k].i \in Nat \cup {-1}
  /\ exited \in BOOLEAN /\ undefined \in BOOLEAN

\* Every chain of nodes (generateList, generateTuple) is the list it was made
\* to be, for good: its length is the number of its elements, next leads to
\* an older node that is the rest, and it ends in an empty node.  gat_list,
\* gcompare_list, gconcat_list and the prints all run until length is 0.
ListsWellFormed ==
  \A n \in Addresses : LET node == heap[n] IN
    IF node.ty = "tuple"
    THEN val[n] = [k \in DOMAIN TupleItems |-> Denotes(TupleItems[k], node.value[k])]
    ELSE /\ node.length = Len(val[n])
         /\ IF node.length = 0
            THEN node = EmptyNode(node.ty)
            ELSE /\ node.next \in 1 .. n - 1
                 /\ heap[node.next].ty = node.ty
                 /\ Element[node.ty] # "CHAR" => node.value \in 1 .. n - 1
                 /\ val[n] = <<Denotes(Element[node.ty], node.value)>> \o val[node.next]

\* No generated function reads the value of a list's last node, which no one
\* has written, or writes past the array of gconcat_list or the buffer of
\* gprint_string.
NoUndefinedBehaviour == ~undefined

\* Two lists that gcompare_list finds equal are equal, and the other way
\* round (the comment above gcompare_list: values that differ return 0).
CompareIsEquality == answer.fn = "compare" => answer.out = (answer.in[1] = answer.in[2])

\* Every call of a generated function returns: each of its loops ends.
EveryCallReturns == stack # <<>> ~> stack = <<>>

\* The generated functions implement operations on sequences: what an
\* expression yields and prints depends on the sequences only, not on which
\* nodes its operands share, and gat_list ends the program only beyond the
\* end of a list.
ListValuesOf == INSTANCE ListValues WITH values <- {<<heap[n].ty, val[n]>> : n \in 1 .. known}
ImplementsListValues == ListValuesOf!Spec

=============================================================================
