------------------------------- MODULE JitOutput -------------------------------
(***************************************************************************)
(* How the interpreter prints a result: the machine word that the compiled *)
(* function returns, and the blocks of words it points to, read along its  *)
(* type.  Every member of a list or tuple takes one word.                  *)
(*                                                                         *)
(* A type is [id, sub].  A word is [is, val, at]: a number, or a pointer   *)
(* to the at-th word of the block val, where the block of a list node is   *)
(* <<value, next>>.  The text is a sequence of strings, and <<"?">> where  *)
(* what is read is nowhere, or not what was stored.                        *)
(***************************************************************************)
EXTENDS Integers, Sequences, TLC

JitType(id, sub) == [id |-> id, sub |-> sub]
Number(n) == [is |-> "number", val |-> n, at |-> 1]
Pointer(block) == [is |-> "pointer", val |-> block, at |-> 1]
Null == [is |-> "null", val |-> <<>>, at |-> 1]
Garbage == [is |-> "garbage", val |-> <<>>, at |-> 1]
Nowhere == <<"?">>

\* The word for a value, in code that LLVM generates.
RECURSIVE Stored(_, _)
Stored(v, ty) ==
    CASE ty.id \in {"INT", "CHAR", "BOOL", "FLOAT"} -> Number(v)
      [] ty.id = "TUPLE" -> Pointer([i \in DOMAIN v |-> Stored(v[i], ty.sub[i])])
      [] ty.id \in {"EMPTYLIST", "SIGNATURE"} -> Null
      [] ty.id \in {"VOID", "UNKNOWN"} -> Garbage
      [] v = <<>> -> Null
      [] OTHER -> Pointer(<<Stored(Head(v), ty.sub[1]), Stored(Tail(v), ty)>>)

\* *Addr.Ptr, and Addr with its address moved on by one word.
Deref(w) == IF w.is = "pointer" /\ w.at \in DOMAIN w.val THEN w.val[w.at] ELSE Garbage
Moved(w) == [w EXCEPT !.at = @ + 1]

Read(w) == IF w.is = "number" THEN <<ToString(w.val)>> ELSE Nowhere

RECURSIVE GetOutput(_, _), GetOutputTuple(_, _, _), GetOutputList(_, _), GetOutputString(_)
\* A float is read through the word; a function does not return it in one.
GetOutput(w, ty) ==
    CASE ty.id = "INT" -> Read(w)
      [] ty.id = "FLOAT" -> Read(Deref(w))
      [] ty.id = "CHAR" -> <<"'">> \o Read(w) \o <<"'">>
      [] ty.id = "BOOL" -> IF w.is = "number" THEN <<IF w.val = 0 THEN "False" ELSE "True">> ELSE Nowhere
      [] ty.id = "STRING" -> <<"\"">> \o GetOutputString(w) \o <<"\"">>
      [] ty.id = "TUPLE" -> <<"(">> \o GetOutputTuple(w, ty.sub, 1) \o <<")">>
      [] ty.id = "LIST" -> <<"[">> \o GetOutputList(w, ty.sub[1]) \o <<"]">>
      [] ty.id = "EMPTYLIST" -> <<"[]">>
      [] ty.id = "SIGNATURE" -> <<"signature">>
      [] ty.id = "VOID" -> <<>>
      [] OTHER -> Nowhere

\* Every size and alignment is that of a word, so that nothing is padded.  For
\* the types that are not among a tuple's the process ends.
InTuples == {"INT", "FLOAT", "CHAR", "BOOL", "STRING", "TUPLE", "LIST"}
GetOutputTuple(w, tys, i) ==
    IF i > Len(tys) THEN <<>>
    ELSE (IF tys[i].id \in InTuples THEN GetOutput(IF tys[i].id = "FLOAT" THEN w ELSE Deref(w), tys[i]) ELSE Nowhere)
         \o (IF i < Len(tys) THEN <<", ">> ELSE <<>>)
         \o GetOutputTuple(Moved(w), tys, i + 1)

\* The first node is read before it is known to be there.
GetOutputList(w, ty) ==
    LET rest(next) == IF next.is = "pointer" THEN <<", ">> \o GetOutputList(next, ty) ELSE <<>>
    IN GetOutput(IF ty.id = "FLOAT" THEN w ELSE Deref(w), ty) \o rest(Deref(Moved(w)))

GetOutputString(w) ==
    LET rest(next) == IF next.is = "pointer" THEN GetOutputString(next) ELSE <<>>
    IN Read(Deref(w)) \o rest(Deref(Moved(w)))

\* What stands on the screen for a value that a function has returned.
PrintResult(v, ty) == GetOutput(Stored(v, ty), ty)

---------------------------------------------------------------------------
\* The text of a value, and the values whose text is printed.
RECURSIVE TextOf(_, _), Printable(_, _)
Listed(texts, between) ==
    LET RECURSIVE all(_)
        all(i) == IF i > Len(texts) THEN <<>>
                  ELSE (IF i > 1 THEN between ELSE <<>>) \o texts[i] \o all(i + 1)
    IN all(1)
TextOf(v, ty) ==
    CASE ty.id \in {"INT", "FLOAT"} -> <<ToString(v)>>
      [] ty.id = "CHAR" -> <<"'", ToString(v), "'">>
      [] ty.id = "BOOL" -> <<IF v = 1 THEN "True" ELSE "False">>
      [] ty.id = "STRING" -> <<"\"">> \o [i \in DOMAIN v |-> ToString(v[i])] \o <<"\"">>
      [] ty.id = "TUPLE" -> <<"(">> \o Listed([i \in DOMAIN v |-> TextOf(v[i], ty.sub[i])], <<", ">>) \o <<")">>
      [] ty.id = "LIST" -> <<"[">> \o Listed([i \in DOMAIN v |-> TextOf(v[i], ty.sub[1])], <<", ">>) \o <<"]">>
      [] ty.id = "EMPTYLIST" -> <<"[]">>
      [] ty.id = "SIGNATURE" -> <<"signature">>
      [] OTHER -> <<>>

\* An empty list inside a value or alone, unless its type is that of "[]",
\* and a float alone are read from a place where nothing is; "[]", a function
\* and nothing at all are not printed as members of a tuple.
Printable(v, ty) ==
    CASE ty.id \in {"LIST", "STRING"} -> v # <<>> /\ \A i \in DOMAIN v : ty.sub[1].id = "FLOAT" \/ Printable(v[i], ty.sub[1])
      [] ty.id = "TUPLE" ->
            \A i \in DOMAIN v : ty.sub[i].id = "FLOAT" \/ (ty.sub[i].id \in InTuples /\ Printable(v[i], ty.sub[i]))
      [] OTHER -> ty.id \notin {"FLOAT", "UNKNOWN"}
===============================================================================
