------------------------------ MODULE Interpreter ------------------------------
(***************************************************************************)
(* The interpreter: the loop that collects the lines of an input, and      *)
(* eval, which takes it through the driver's passes, adds the code to the  *)
(* JIT as a module of its own, and runs and removes it if it was an        *)
(* expression.                                                             *)
(***************************************************************************)
EXTENDS Driver

CONSTANTS Lines,              \* what the user types: pieces, "blank" and "quit"
          MaxLines,           \* how often
          Printed(_, _),      \* what getOutput makes of the value of a type
          Text(_, _), HasText(_, _)

Blank == [k |-> "blank"]
Quit == [k |-> "quit"]

\* The scanner's names begin with a letter, which AnonName does not.
ASSUME LinesAssumption ==
    \A line \in Lines :
        /\ line.k = "header" =>
              /\ line \in [k : {"header"}, name : STRING, sig : STRING]
              /\ line.name # AnonName /\ line.sig # "grown"
        /\ line.k \in {"case", "expr"} =>
              /\ line.bad \in {"", "types", "code"} /\ AnonName \notin line.binds
              /\ \A call \in line.calls : call.name # AnonName

VARIABLES ipc,                \* where the loop and eval are
          typed,              \* how many lines were typed
          eof,                \* cin is no longer good
          input, inputCase,   \* the loop's two strings; the last line is kept
          text,               \* the lines typed for this input
          modules,            \* the modules in the JIT, oldest first: sets of
                              \* functions [name, sig, calls]
          answer,
          before              \* the names declared when the input was taken up

replVars == <<ipc, typed, eof, input, inputCase, text, modules, answer, before>>

IInit ==
    /\ DriverInit(TRUE) /\ disk = [f \in {} |-> <<>>]
    /\ ipc = "prompt" /\ typed = 0 /\ eof = FALSE
    /\ input = <<>> /\ inputCase = Blank /\ text = <<>>
    /\ modules = <<>> /\ answer = [kind |-> "pending"] /\ before = {}

\* getline, with a line to read; the last one may end where the input ends.
Type == typed < MaxLines /\ typed' = typed + 1 /\ eof' \in {FALSE, typed' = MaxLines}

\* Input += InputCase, on the line of the header.  quit is one word with the
\* type that ends the line; anything else makes the line one that does not parse.
Glue(header, rest) ==
    CASE rest = Blank -> <<header>>
      [] rest = Quit -> <<[header EXCEPT !.sig = "grown"]>>
      [] OTHER -> <<header, [k |-> "junk"]>>

\* How much Input and the names of included files may grow by while nothing is
\* typed any more.
MaxAgain == 2

\* Input += InputCase, on a line of its own.
Longer(old, line) ==
    CASE line = Blank \/ Len(old) >= Len(text) + MaxAgain -> old
      [] line = Quit -> Append(old, [k |-> "junk"])
      [] OTHER -> Append(old, line)

TypeQuit ==
    /\ ipc = "prompt" /\ Type
    /\ ipc' = "end"
    /\ UNCHANGED <<driverVars, input, inputCase, text, modules, answer, before>>

\* A line without as much as its end is none.
TypeBlank ==
    /\ ipc = "prompt" /\ Type /\ ~eof'
    /\ input' = <<>> /\ text' = <<>>
    /\ UNCHANGED <<driverVars, ipc, inputCase, modules, answer, before>>

TypeHeader ==
    /\ ipc = "prompt" /\ Type
    /\ \E line \in Lines :
          /\ line.k = "header"
          /\ input' = Glue(line, inputCase) /\ text' = <<line>>
    /\ ipc' = "cases" /\ answer' = [kind |-> "pending"]
    /\ UNCHANGED <<driverVars, inputCase, modules, before>>

TypeLine ==
    /\ ipc = "prompt" /\ Type
    /\ \E line \in Lines :
          /\ line.k \notin {"header", "blank", "quit"}
          /\ input' = <<line>> /\ text' = <<line>>
    /\ ipc' = "eval" /\ answer' = [kind |-> "pending"]
    /\ UNCHANGED <<driverVars, inputCase, modules, before>>

\* A line that begins with | goes on with the definition.
TypeCase ==
    /\ ipc = "cases" /\ Type
    /\ \E line \in Lines :
          /\ line.k = "case"
          /\ input' = Append(input, line) /\ text' = Append(text, line)
          /\ inputCase' = line
    /\ UNCHANGED <<driverVars, ipc, modules, answer, before>>

\* Any other ends it, and stays in InputCase until the next definition.
TypeAfterCases ==
    /\ ipc = "cases" /\ Type
    /\ \E line \in Lines : line.k # "case" /\ (line = Blank => ~eof') /\ inputCase' = line
    /\ ipc' = "eval"
    /\ UNCHANGED <<driverVars, input, text, modules, answer, before>>

\* Nothing more to read: the first time that is an empty line.
EndAtPrompt ==
    /\ ipc = "prompt" /\ typed = MaxLines /\ ~eof
    /\ eof' = TRUE /\ input' = <<>> /\ text' = <<>>
    /\ UNCHANGED <<driverVars, ipc, typed, inputCase, modules, answer, before>>
EndInCases ==
    /\ ipc = "cases" /\ typed = MaxLines /\ ~eof
    /\ eof' = TRUE /\ inputCase' = Blank /\ ipc' = "eval"
    /\ UNCHANGED <<driverVars, typed, input, text, modules, answer, before>>

\* From then on getline leaves its string as it is.  An empty one is answered
\* with how to leave, again and again.
Full == Len(inFiles) > MaxAgain
PromptForever ==
    /\ ipc = "prompt" /\ eof /\ (input = <<>> \/ Full)
    /\ UNCHANGED <<driverVars, replVars>>

\* Any other is evaluated again, a definition with InputCase after it.
EvalAgain ==
    /\ ipc = "prompt" /\ eof /\ input # <<>> /\ ~Full
    /\ input' = IF input[1].k = "header" THEN Longer(input, inputCase) ELSE input
    /\ ipc' = "eval" /\ answer' = [kind |-> "pending"]
    /\ UNCHANGED <<driverVars, typed, eof, inputCase, text, modules, before>>

\* A case in InputCase is read without end; what is there since the last
\* definition is not one.
CaseForever ==
    /\ ipc = "cases" /\ eof /\ inputCase.k = "case"
    /\ input' = Longer(input, inputCase)
    /\ UNCHANGED <<driverVars, ipc, typed, eof, inputCase, text, modules, answer, before>>
NoCases ==
    /\ ipc = "cases" /\ eof /\ inputCase.k # "case"
    /\ ipc' = "eval"
    /\ UNCHANGED <<driverVars, typed, eof, input, inputCase, text, modules, answer, before>>

---------------------------------------------------------------------------
(* eval *)

EvalParse ==
    /\ ipc = "eval"
    /\ ParseString(input)
    /\ ipc' = "passes" /\ before' = DOMAIN decls
    /\ UNCHANGED <<typed, eof, input, inputCase, text, modules, answer>>

EvalPasses ==
    /\ ipc = "passes"
    /\ Parse \/ Check
    /\ UNCHANGED replVars

\* A pass failed: its number is returned, and nobody looks at it.
EvalFails ==
    /\ ipc = "passes" /\ stage = "idle"
    /\ ipc' = "prompt" /\ answer' = [kind |-> "refused"]
    /\ UNCHANGED <<driverVars, typed, eof, input, inputCase, text, modules, before>>

CodeOf(f) == [name |-> f.name, sig |-> f.sig, calls |-> UNION {f.cases[j].calls : j \in DOMAIN f.cases}]
Ungenerable == {i \in Functions : \E j \in DOMAIN prog[i].cases : prog[i].cases[j].bad = "code"}

\* An expression that ends in := has no type, and LLVM's have no place for that.
Untyped == prog # <<>> /\ prog[1].anon /\ prog[1].cases[Len(prog[1].cases)].ty.id = "UNKNOWN"
EvalUntyped ==
    /\ ipc = "passes" /\ stage = "generate" /\ Untyped
    /\ ipc' = "end" /\ answer' = [kind |-> "undefined"]
    /\ UNCHANGED <<driverVars, typed, eof, input, inputCase, text, modules, before>>

\* accept(CodeGen), with errors.
EvalGenerateFails ==
    /\ ipc = "passes" /\ Ungenerable # {} /\ ~Untyped
    /\ Accept("generate", "idle", 5, Ungenerable)
    /\ UNCHANGED <<disk, parserVars, decls, types, jit, replVars>>

\* The first declaration is looked at, although there may be none.
EvalEmpty ==
    /\ ipc = "passes" /\ stage = "generate" /\ prog = <<>>
    /\ ipc' = "end" /\ answer' = [kind |-> "undefined"]
    /\ UNCHANGED <<driverVars, typed, eof, input, inputCase, text, modules, before>>

AddModule ==
    /\ ipc = "passes" /\ stage = "generate" /\ prog # <<>> /\ ~Untyped /\ Ungenerable = {}
    /\ stage' = "idle"
    /\ modules' = Append(modules, {CodeOf(prog[i]) : i \in Functions})
    /\ IF prog[1].anon THEN ipc' = "run" /\ UNCHANGED answer
       ELSE ipc' = "prompt" /\ answer' = [kind |-> "defined"]
    /\ UNCHANGED <<disk, parserVars, decls, types, result, jit, shown, typed, eof, input, inputCase, text, before>>

\* findMangledSymbol: the newest module that has the name.
Has(m, n) == \E d \in modules[m] : d.name = n
FindSymbol(n) ==
    {d \in UNION {modules[m] : m \in {l \in DOMAIN modules : Has(l, n) /\ \A h \in DOMAIN modules : h > l => ~Has(h, n)}} :
        d.name = n}

\* What is linked when the function is run, and the names that are not found.
Code == UNION {modules[m] : m \in DOMAIN modules}
ClosedUnderCalls(S) == \A d \in S : \A call \in d.calls : FindSymbol(call.name) \subseteq S
Linked == {d \in Code : \A S \in SUBSET Code : (FindSymbol(AnonName) \subseteq S /\ ClosedUnderCalls(S)) => d \in S}
Unresolved == {call \in UNION {d.calls : d \in Linked} : FindSymbol(call.name) = {}}

\* A name without code ends the interpreter, or is one of the process's own.
EvalUnresolved ==
    /\ ipc = "run" /\ Unresolved # {}
    /\ ipc' = "end" /\ answer' = [kind |-> "undefined"]
    /\ UNCHANGED <<driverVars, typed, eof, input, inputCase, text, modules, before>>

\* FuncJIT(), getOutput, removeModule.
EvalRun ==
    /\ ipc = "run" /\ Unresolved = {}
    /\ LET e == prog[1].cases[Len(prog[1].cases)]
       IN answer' = [kind |-> "value", used |-> {d \in Linked : d.name # AnonName},
                     shown |-> Printed(e.val, e.ty)]
    /\ modules' = SubSeq(modules, 1, Len(modules) - 1)
    /\ ipc' = "prompt"
    /\ UNCHANGED <<driverVars, typed, eof, input, inputCase, text, before>>

\* The process has ended.
Ended == ipc = "end" /\ UNCHANGED <<driverVars, replVars>>

Reader == TypeQuit \/ TypeBlank \/ TypeHeader \/ TypeLine \/ TypeCase \/ TypeAfterCases
          \/ EndAtPrompt \/ EndInCases \/ PromptForever \/ EvalAgain \/ CaseForever \/ NoCases
Eval == EvalParse \/ EvalPasses \/ EvalFails \/ EvalUntyped \/ EvalGenerateFails \/ EvalEmpty
        \/ AddModule \/ EvalUnresolved \/ EvalRun

INext == Reader \/ Eval \/ Ended

ISpec == IInit /\ [][INext]_<<driverVars, replVars>>

---------------------------------------------------------------------------
Functioning == {d \in Code : d.name # AnonName}

\* Names are declared for good and code is added for good, in different steps,
\* with failures in between; yet no call is linked to code of another signature
\* than the one it was compiled for (ScopeGenerator::visit(Function),
\* LLVMCodeGen::visit(IdExpr), SpplJit::findMangledSymbol).
LinkedAsCompiled ==
    \A d, e \in Code : \A call \in d.calls : call.name = e.name => call.sig = e.sig

\* What the promise needs: what is evaluated is what was typed, and the names
\* that were declared are those with code.  A definition that is not closed by
\* an empty line breaks the first, at the next one; a definition that is
\* refused after the scope pass breaks the second, for the rest of the session.
\* An input without declarations, one without a type, and a value without a text
\* on the screen, are not what eval expects.
Ready ==
    /\ input = text
    /\ before \subseteq {d.name : d \in Functioning} \cup {AnonName}
    /\ stage = "generate" => prog # <<>> /\ ~Untyped
    /\ ipc = "run" => HasText(text[Len(text)].val, text[Len(text)].ty)

\* The functions that are defined, seen from outside.
Promise == INSTANCE Repl WITH defs <- Functioning

\* While the interpreter is Ready it answers as promised: an input is refused
\* without a trace, or defines its functions, or has its value printed, which
\* is computed with the functions the names stood for (SpplJit::eval, main).
AnswersAsPromised == Promise!Init /\ [][Ready => Promise!Next]_<<Functioning, answer>>
===============================================================================
