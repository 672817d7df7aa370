-------------------------------- MODULE Driver --------------------------------
(***************************************************************************)
(* The driver that the compiler and the interpreter share: it feeds texts  *)
(* to the parser, one after the other as if they were one, keeps the names *)
(* declared so far, and passes the parsed program from visitor to visitor  *)
(* until one of them has errors.                                           *)
(*                                                                         *)
(* A text is a sequence of pieces, [k |-> "header", name, sig] and then    *)
(* [k |-> "case", calls, binds, bad] for a function, "type", "include",    *)
(* "expr", and "junk" for anything else.  calls holds the functions        *)
(* called, each with the signature that the caller needs; binds the names  *)
(* that patterns and := give to values; bad names the pass that finds an   *)
(* error in the piece itself ("types", "code"), or is "".  A type has the  *)
(* sequence of its constructors.                                           *)
(***************************************************************************)
EXTENDS Naturals, Sequences, FiniteSets

VARIABLES disk,          \* the files, by name
          inFiles, curInFile, srcType,
          in,            \* what is left of the text being scanned
          last,          \* what kind of piece the parser has read last
          prog,          \* the declarations parsed, in order
          decls,         \* Global: the signatures declared,
          types,         \* and the types and constructors, [kind, name]
          stage,         \* the pass under way, or "idle"
          result,        \* what compile or eval returns; 0 until then
          jit,           \* the driver's JIT flag, which also makes it talk
          shown          \* the messages written since the text was given

parserVars == <<inFiles, curInFile, srcType, in, last, prog>>
driverVars == <<disk, parserVars, decls, types, stage, result, jit, shown>>

AnonName == "__anon_func"

\* The pieces of a text; of a header there is its name and its signature and no
\* more, so that a declaration is told by them.
IsText(t) ==
    /\ t \in Seq({t[i] : i \in DOMAIN t})
    /\ \A i \in DOMAIN t : t[i].k = "header" => t[i] = [k |-> "header", name |-> t[i].name, sig |-> t[i].sig]

\* The constructor and the command line set Silent, and only the interpreter
\* sets JIT and clears it again.
DriverInit(isJit) ==
    /\ inFiles = <<>> /\ curInFile = 0 /\ srcType = "UNKNOWN"
    /\ in = <<>> /\ last = "none" /\ prog = <<>>
    /\ decls = [n \in {} |-> ""] /\ types = {}
    /\ stage = "idle" /\ result = 0
    /\ jit = isJit /\ shown = 0

Show(n) == shown' = IF jit THEN shown + n ELSE shown

Return(code) == stage' = "idle" /\ result' = code

---------------------------------------------------------------------------
(* Texts. *)

MoreFiles_OffByOne == srcType = "FILES" /\ curInFile + 1 < Len(inFiles)
MoreFiles == srcType = "FILES" /\ curInFile < Len(inFiles)
NextFile == inFiles[curInFile + 1]

\* nextInput, where the file can be opened.
NextInput == in' = disk[NextFile] /\ curInFile' = curInFile + 1

\* parseFiles; the position in the list is not set back.
ParseFiles(names) ==
    /\ srcType' = "FILES" /\ inFiles' = names
    /\ last' = "none" /\ prog' = <<>>
    /\ IF curInFile < Len(names) /\ names[curInFile + 1] \in DOMAIN disk
       THEN /\ in' = disk[names[curInFile + 1]] /\ curInFile' = curInFile + 1
            /\ stage' = "parse" /\ result' = 0 /\ shown' = 0
       ELSE /\ Return(1)
            /\ shown' = IF jit THEN 1 ELSE 0
            /\ UNCHANGED <<in, curInFile>>
    /\ UNCHANGED <<disk, decls, types, jit>>

\* parseString, by way of parseStream.
ParseString(text) ==
    /\ srcType' = "STREAM" /\ in' = text
    /\ last' = "none" /\ prog' = <<>>
    /\ stage' = "parse" /\ result' = 0 /\ shown' = 0
    /\ UNCHANGED <<disk, inFiles, curInFile, decls, types, jit>>

---------------------------------------------------------------------------
(* The grammar: declarations, or expressions. *)

After == [header |-> {"none", "case", "decl"}, type |-> {"none", "case", "decl"},
          include |-> {"none", "case", "decl"}, case |-> {"header", "case"}, expr |-> {"none", "expr"}]

Fits(p) == p.k \in DOMAIN After /\ last \in After[p.k]

Function(p) == [k |-> "function", name |-> p.name, sig |-> p.sig, anon |-> FALSE, cases |-> <<>>]
AnonFunction == [k |-> "function", name |-> AnonName, sig |-> "unknown", anon |-> TRUE, cases |-> <<>>]

AddCase(ds, p) == [ds EXCEPT ![Len(ds)].cases = Append(@, p)]

Reduce(p) ==
    CASE p.k = "header" -> Append(prog, Function(p))
      [] p.k = "type" -> Append(prog, p)
      [] p.k = "case" -> AddCase(prog, p)
      [] p.k = "expr" -> AddCase(IF prog = <<>> THEN <<AnonFunction>> ELSE prog, p)
      [] OTHER -> prog

Shift ==
    /\ stage = "parse" /\ in # <<>>
    /\ Fits(Head(in))
    /\ LET p == Head(in)
       IN /\ prog' = Reduce(p)
          /\ last' = IF p.k \in {"type", "include"} THEN "decl" ELSE p.k
          /\ inFiles' = IF p.k = "include" THEN Append(inFiles, p.name) ELSE inFiles
    /\ in' = Tail(in)
    /\ UNCHANGED <<disk, curInFile, srcType, decls, types, stage, result, jit, shown>>

SyntaxError ==
    /\ stage = "parse"
    /\ \/ in # <<>> /\ ~Fits(Head(in))
       \/ in = <<>> /\ ~MoreFiles /\ last = "header"
    /\ Return(1) /\ Show(1)
    /\ UNCHANGED <<disk, parserVars, decls, types, jit>>

\* yywrap, with a file that can be opened.
NextSource ==
    /\ stage = "parse" /\ in = <<>>
    /\ MoreFiles /\ NextFile \in DOMAIN disk
    /\ NextInput
    /\ UNCHANGED <<disk, inFiles, srcType, last, prog, decls, types, stage, result, jit, shown>>

\* yywrap, with a file that cannot: to the parser, the input ends here.
MissingFile_TriesAgain ==
    /\ stage = "parse" /\ in = <<>>
    /\ MoreFiles /\ NextFile \notin DOMAIN disk
    /\ UNCHANGED driverVars
MissingFile ==
    /\ stage = "parse" /\ in = <<>>
    /\ MoreFiles /\ NextFile \notin DOMAIN disk
    /\ IF last = "header" THEN Return(1) /\ Show(2)
       ELSE stage' = "scope" /\ Show(1) /\ UNCHANGED result
    /\ UNCHANGED <<disk, parserVars, decls, types, jit>>

Parsed ==
    /\ stage = "parse" /\ in = <<>> /\ ~MoreFiles /\ last # "header"
    /\ stage' = "scope"
    /\ UNCHANGED <<disk, parserVars, decls, types, result, jit, shown>>

---------------------------------------------------------------------------
(* The visitors; each starts without errors. *)

Functions == {i \in DOMAIN prog : prog[i].k = "function"}
TypeDecls == {i \in DOMAIN prog : prog[i].k = "type"}
Above(i) == {j \in 1..i - 1 : prog[j].k = prog[i].k /\ prog[j].name = prog[i].name}
NewTypes == {i \in TypeDecls : [kind |-> "type", name |-> prog[i].name] \notin types /\ Above(i) = {}}
\* The constructors; those of a type that is not new are not looked at.
NewCons == UNION {{<<i, h>> : h \in DOMAIN prog[i].constructors} : i \in NewTypes}
ConName(c) == prog[c[1]].constructors[c[2]]
ConsAbove(c) == {d \in NewCons : (d[1] < c[1] \/ (d[1] = c[1] /\ d[2] < c[2])) /\ ConName(d) = ConName(c)}
RedeclaredCons ==
    {c \in NewCons : [kind |-> "constructor", name |-> ConName(c)] \in types \/ ConsAbove(c) # {}}
\* The declarations, and the constructors of new types, whose name is taken,
\* before the program or further up in it.
Redeclared_InTheProgram ==
    {<<i, 0>> : i \in {f \in Functions : ~prog[f].anon /\ Above(f) # {}} \cup (TypeDecls \ NewTypes)}
        \cup RedeclaredCons
Redeclared ==
    {<<i, 0>> : i \in {f \in Functions : ~prog[f].anon /\ (prog[f].name \in DOMAIN decls \/ Above(f) # {})}
                        \cup (TypeDecls \ NewTypes)}
        \cup RedeclaredCons

\* The signature that stands first; insert leaves a name that is there as it is.
FirstSig(n) == prog[CHOOSE i \in Functions : prog[i].name = n /\ Above(i) = {}].sig
Names == {prog[i].name : i \in Functions}
Declared_Overwrite == [n \in DOMAIN decls \cup Names |-> IF n \in Names THEN FirstSig(n) ELSE decls[n]]
Declared == [n \in DOMAIN decls \cup Names |-> IF n \in DOMAIN decls THEN decls[n] ELSE FirstSig(n)]

\* A name of a value must not be declared, and the scopes around a case are
\* the case and Global.
WellTyped(c) ==
    /\ c.bad # "types"
    /\ \A f \in c.calls : f.name \in DOMAIN decls /\ decls[f.name] = f.sig
    /\ c.binds \cap DOMAIN decls = {}
\* "grown" is a signature that ends in a name that no type has.
IllTyped ==
    UNION {{<<i, j>> : j \in {h \in DOMAIN prog[i].cases : prog[i].sig = "grown" \/ ~WellTyped(prog[i].cases[h])}} :
              i \in Functions}

\* accept: a pass with errors shows them and is the last.
Accept(pass, next, code, errors) ==
    /\ stage = pass
    /\ IF errors = {} THEN stage' = next /\ UNCHANGED <<result, shown>>
       ELSE Return(code) /\ Show(Cardinality(errors))

\* What has been declared stays declared if this pass or a later one fails.
AcceptScopeGen ==
    /\ Accept("scope", "types", 2, Redeclared)
    /\ decls' = Declared
    /\ types' = types \cup {[kind |-> "type", name |-> prog[i].name] : i \in NewTypes}
                    \cup {[kind |-> "constructor", name |-> ConName(c)] : c \in NewCons}
    /\ UNCHANGED <<disk, parserVars, jit>>

AcceptTypeChecker ==
    /\ Accept("types", "optimize", 3, IllTyped)
    /\ UNCHANGED <<disk, parserVars, decls, types, jit>>

\* The optimizer has no visit of its own for a type, and inherits the error.
AcceptOptimizer ==
    /\ Accept("optimize", "generate", 4, TypeDecls)
    /\ UNCHANGED <<disk, parserVars, decls, types, jit>>

Parse == Shift \/ SyntaxError \/ Parsed
ReadOn == NextSource \/ MissingFile
Check == AcceptScopeGen \/ AcceptTypeChecker \/ AcceptOptimizer
===============================================================================
