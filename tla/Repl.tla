--------------------------------- MODULE Repl ---------------------------------
(***************************************************************************)
(* What an interpreter promises: a text is either refused, and then as if  *)
(* it had never been typed, or it adds its functions to those defined, or  *)
(* it is an expression, whose value is computed with the functions as they *)
(* were defined and printed.                                               *)
(***************************************************************************)
EXTENDS Naturals, Sequences

CONSTANT Text(_, _)     \* the text of a value of a type

VARIABLES defs,         \* the functions defined: [name, sig, calls]
          text,         \* what has been typed
          answer

Pending == [kind |-> "pending"]
Refused == [kind |-> "refused"]
Defined == [kind |-> "defined"]
Value(used, shown) == [kind |-> "value", used |-> used, shown |-> shown]

Headers == {i \in DOMAIN text : text[i].k = "header"}
\* The cases that follow a header.
CasesOf(i) == {text[j] : j \in {h \in DOMAIN text : h > i /\ \A l \in i + 1..h : text[l].k = "case"}}
Def(i) == [name |-> text[i].name, sig |-> text[i].sig, calls |-> UNION {c.calls : c \in CasesOf(i)}]
New == {Def(i) : i \in Headers}
Fits(call, ds) == \E d \in ds : d.name = call.name /\ d.sig = call.sig
Sound(p, ds) ==
    /\ p.bad = ""
    /\ \A call \in p.calls : Fits(call, ds)
    /\ \A d \in ds : d.name \notin p.binds

\* The functions that a computation that begins with some calls can come to.
Used(calls) == {d \in defs : \A S \in SUBSET defs :
                   (/\ \A call \in calls : \A e \in defs : e.name = call.name => e \in S
                    /\ \A f \in S : \A call \in f.calls : \A e \in defs : e.name = call.name => e \in S)
                   => d \in S}

IsDefinition ==
    /\ text # <<>>
    /\ \A i \in DOMAIN text : text[i].k \in {"header", "case"}
    /\ text[1].k = "header"
    /\ \A i \in Headers : /\ CasesOf(i) # {}
                          /\ \A c \in CasesOf(i) : Sound(c, defs \cup New)
                          /\ \A d \in defs : d.name # text[i].name
                          /\ \A j \in Headers : text[j].name = text[i].name => j = i

IsExpression ==
    /\ text # <<>>
    /\ \A i \in DOMAIN text : text[i].k = "expr" /\ Sound(text[i], defs)

Init == defs = {} /\ answer = Pending

Ask == answer' = Pending /\ UNCHANGED defs

Define ==
    /\ answer = Pending /\ IsDefinition
    /\ defs' = defs \cup New /\ answer' = Defined
    /\ UNCHANGED text

Evaluate ==
    /\ answer = Pending /\ IsExpression
    /\ answer' = Value(Used(UNION {text[i].calls : i \in DOMAIN text}),
                       Text(text[Len(text)].val, text[Len(text)].ty))
    /\ UNCHANGED <<defs, text>>

Refuse ==
    /\ answer = Pending /\ ~IsDefinition /\ ~IsExpression
    /\ answer' = Refused
    /\ UNCHANGED <<defs, text>>

Next == Ask \/ Define \/ Evaluate \/ Refuse
===============================================================================
