------------------------------ MODULE MCFrontEnds ------------------------------
(***************************************************************************)
(* Small projects of files and command lines for the compiler, and a few   *)
(* lines to type for the interpreter.                                      *)
(***************************************************************************)
EXTENDS FrontEnds, JitOutput, SequencesExt

Header(name, sig) == [k |-> "header", name |-> name, sig |-> sig]
Body(calls, bad) == [k |-> "case", calls |-> calls, binds |-> {"x"}, bad |-> bad]
Binding(names) == [k |-> "case", calls |-> {}, binds |-> names, bad |-> ""]
Call(name, sig) == [name |-> name, sig |-> sig]
Expression(calls, val, ty) == [k |-> "expr", calls |-> calls, binds |-> {}, bad |-> "", val |-> val, ty |-> ty]
Include(f) == [k |-> "include", name |-> f]
TypeDecl(n, constructors) == [k |-> "type", name |-> n, constructors |-> constructors]

\* Files of the compiler's projects: b may hold the rest of what a begins.
Mains == {<<Header("main", "M"), Body({}, "")>>,
          <<Header("main", "M"), Body({Call("f", "A")}, "")>>,
          <<Header("main", "M"), Body({Call("f", "A")}, ""), Include("b")>>,
          <<Include("b"), Include("c"), Header("main", "M"), Body({Call("f", "A")}, "")>>,
          <<Header("main", "M"), Body({}, ""), Header("f", "A")>>,
          <<Expression({}, 1, JitType("INT", <<>>))>>}
Others == {<<Header("f", "A"), Body({Call("f", "A")}, "")>>,
           <<Header("f", "B"), Body({}, "")>>,
           <<Header("f", "A"), Body({}, ""), Include("c")>>,
           <<Header("f", "A"), Body({}, "code")>>,
           <<Body({Call("main", "M")}, "")>>,
           <<TypeDecl("T", <<"C", "C">>)>>,
           <<TypeDecl("T", <<"C">>), TypeDecl("U", <<"D", "C">>)>>,
           <<Header("f", "A"), Binding({"f"})>>,
           <<>>}
Lasts == {<<Header("g", "A"), Body({Call("f", "A")}, ""), Body({Call("g", "A")}, "")>>, <<Header("f", "A"), Body({}, "")>>, <<>>}
Disks == {[f \in {"a", "b", "c"} |-> IF f = "a" THEN a ELSE IF f = "b" THEN b ELSE c] :
             a \in Mains, b \in Others, c \in Lasts}
         \cup {[f \in {"a", "b", "x"} |-> IF f = "a" THEN a ELSE IF f = "b" THEN b ELSE <<[k |-> "code", by |-> "C", of |-> <<>>]>>] :
                  a \in Mains, b \in Others}
Argvs == {<<"a">>, <<"a", "b">>, <<"b", "a">>, <<"--c", "a", "-o", "x", "b">>, <<"--llvm", "-o", "x", "a", "-ho", "y">>,
          <<"--cpar", "--output", "x", "b">>, <<"a", "b", "c">>, <<"-ola", "7", "--c", "-o", "b", "a">>, <<"c", "a">>}
BadArgvs == {<<>>, <<"a", "-o">>, <<"-ho">>, <<"-ol">>, <<"-ol", "a">>, <<"--colour", "a">>, <<"--c">>, <<"a", "-h">>}
OneDisk == CHOOSE d \in Disks : d["a"] = <<Header("main", "M"), Body({}, "")>>
MCCommands == [argv : Argvs, disk : Disks] \cup [argv : BadArgvs, disk : {OneDisk}]
MCUnknownOptions == {"--colour"}
MCLevelWords == {"-ola"}

Ints == JitType("INT", <<>>)
Strings == JitType("STRING", <<JitType("CHAR", <<>>)>>)
Nested == JitType("TUPLE", <<JitType("FLOAT", <<>>), JitType("LIST", <<JitType("TUPLE", <<Ints, Strings>>)>>), JitType("BOOL", <<>>)>>)

MCLines == {Blank, Quit, Header("f", "A"), Header("f", "B"), Header("g", "A"),
            Body({}, ""), Body({Call("f", "A")}, ""), Body({}, "code"),
            [Expression({Call("f", "A")}, 3, Ints) EXCEPT !.binds = {"g"}],
            Expression({Call("g", "A")}, <<2, <<<<1, <<4, 5>>>>, <<7, <<6>>>>>>, 0>>, Nested),
            Expression({Call("f", "B")}, <<1, <<>>>>, JitType("TUPLE", <<Ints, JitType("EMPTYLIST", <<>>)>>)),
            [Expression({}, <<>>, JitType("UNKNOWN", <<>>)) EXCEPT !.binds = {"x"}],
            TypeDecl("T", <<"C">>), Include("b")}
MCMaxLines == 7
===============================================================================
