-------------------------------- MODULE Types --------------------------------
(***************************************************************************)
(* The types of SPPL (src/src/common/Type.h, Type.cpp) and the two         *)
(* operations of the type checker on types that contain the type of "[]".  *)
(* A type is its id, its subtypes and, for generic and custom types, its   *)
(* name; locations are left out.                                           *)
(***************************************************************************)
EXTENDS Naturals, Sequences

Type(id, sub) == [id |-> id, sub |-> sub, name |-> ""]

INT == Type("INT", <<>>)
FLOAT == Type("FLOAT", <<>>)
CHAR == Type("CHAR", <<>>)
BOOL == Type("BOOL", <<>>)
VOID == Type("VOID", <<>>)
UNKNOWN == Type("UNKNOWN", <<>>)
EMPTYLIST == Type("EMPTYLIST", <<>>)
String == Type("STRING", <<CHAR>>)
List(t) == Type("LIST", <<t>>)
Tuple(ts) == Type("TUPLE", ts)
Signature(ts) == Type("SIGNATURE", ts)

Front(s) == s[1]
Back(s) == s[Len(s)]

\* operator==: the subtypes count for lists, tuples, signatures and custom
\* types only, the name for generic and custom types only.
RECURSIVE TypeEq(_, _)
TypeEq(a, b) ==
    /\ a.id = b.id
    /\ a.id \in {"GENERIC", "CUSTOM"} => a.name = b.name
    /\ a.id = "LIST" => TypeEq(a.sub[1], b.sub[1])
    /\ a.id \in {"SIGNATURE", "TUPLE", "CUSTOM"} =>
          /\ Len(a.sub) = Len(b.sub)
          /\ \A i \in 1..Len(a.sub) : TypeEq(a.sub[i], b.sub[i])

RECURSIVE ContainsEmptyList(_)
ContainsEmptyList(t) ==
    \/ t.id = "EMPTYLIST"
    \/ /\ t.id \in {"LIST", "TUPLE"}
       /\ \E i \in 1..Len(t.sub) : ContainsEmptyList(t.sub[i])

\* The type t with the places that hold the type of "[]" filled from the
\* resolver, as far as the two have the same shape.
RECURSIVE ResolveEmptyList(_, _)
ResolveEmptyList(t, resolver) ==
    IF t.id = "EMPTYLIST"
    THEN IF resolver.id \in {"LIST", "STRING"} THEN resolver ELSE t
    ELSE IF t.id \in {"LIST", "TUPLE"}
    THEN [t EXCEPT !.sub =
            [i \in 1..Len(t.sub) |-> IF i <= Len(resolver.sub)
                                     THEN ResolveEmptyList(t.sub[i], resolver.sub[i])
                                     ELSE t.sub[i]]]
    ELSE t

\* A type a value can have: nothing in it was left open by the type checker.
RECURSIVE Concrete(_)
Concrete(t) ==
    /\ t.id \notin {"UNKNOWN", "EMPTYLIST"}
    /\ t.id = "LIST" => Len(t.sub) = 1
    /\ \A i \in 1..Len(t.sub) : Concrete(t.sub[i])
=============================================================================
