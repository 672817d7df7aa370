-------------------------------- MODULE Compile --------------------------------
(***************************************************************************)
(* The compiler's main program: it reads its options, opens the output,    *)
(* and has the driver take the input files through the passes.             *)
(***************************************************************************)
EXTENDS Driver

CONSTANTS Commands,       \* what it is called with: [argv, disk]
          LevelWords,     \* words that begin with "-ol", which is as good as it
          UnknownOptions  \* words that begin with "--" and are no option

ASSUME CommandsAssumption ==
    \A c \in Commands : c.argv \in Seq(STRING) /\ \A f \in DOMAIN c.disk : IsText(c.disk[f])

VARIABLES command,        \* the call
          pc, at,         \* where main is, and the argument it looks at
          be, output, headerOutput, inputs,
          exitCode

mainVars == <<command, pc, at, be, output, headerOutput, inputs, exitCode>>

BackendOf == [o \in {"--c", "--cpar", "--llvm", "--pprinter"} |->
                 CASE o = "--c" -> "C" [] o = "--cpar" -> "CPAR" [] o = "--llvm" -> "LLVM" [] OTHER -> "PPRINTER"]
Help == {"--help", "-h"}
Output == {"--output", "-o"}
HeaderOutput == {"--header-output", "-ho"}
Level == {"--optimizaton-level", "-ol"} \cup LevelWords
Digits == {"0", "1", "2", "3", "4", "5", "6", "7", "8", "9"}
Options == DOMAIN BackendOf \cup Help \cup Output \cup HeaderOutput \cup Level \cup UnknownOptions

CInit ==
    /\ command \in Commands
    /\ DriverInit(FALSE) /\ disk = command.disk
    /\ pc = "args" /\ at = 1
    /\ be = "PPRINTER" /\ output = "a.out" /\ headerOutput = "a.h" /\ inputs = <<>>
    /\ exitCode = 0

\* main returns.
Exit(code) == pc' = "exit" /\ exitCode' = code

arg == command.argv[at]
HasNext == at < Len(command.argv)
InArgs == pc = "args" /\ at <= Len(command.argv)

ShowHelp ==
    /\ \/ command.argv = <<>> /\ pc = "args"
       \/ InArgs /\ arg \in Help
    /\ Exit(0)
    /\ UNCHANGED <<driverVars, command, at, be, output, headerOutput, inputs>>

ChooseBackend ==
    /\ InArgs /\ arg \in DOMAIN BackendOf
    /\ be' = BackendOf[arg] /\ at' = at + 1
    /\ UNCHANGED <<driverVars, command, pc, output, headerOutput, inputs, exitCode>>

ChooseOutput ==
    /\ InArgs /\ arg \in Output
    /\ IF HasNext THEN output' = command.argv[at + 1] /\ at' = at + 2 /\ UNCHANGED <<pc, exitCode>>
       ELSE Exit(2) /\ UNCHANGED <<output, at>>
    /\ UNCHANGED <<driverVars, command, be, headerOutput, inputs>>

ChooseHeader ==
    /\ InArgs /\ arg \in HeaderOutput
    /\ IF HasNext THEN headerOutput' = command.argv[at + 1] /\ at' = at + 2 /\ UNCHANGED <<pc, exitCode>>
       ELSE Exit(3) /\ UNCHANGED <<headerOutput, at>>
    /\ UNCHANGED <<driverVars, command, be, output, inputs>>

ChooseLevel ==
    /\ InArgs /\ arg \in Level
    /\ IF HasNext /\ command.argv[at + 1] \in Digits THEN at' = at + 2 /\ UNCHANGED <<pc, exitCode>>
       ELSE Exit(4) /\ UNCHANGED at
    /\ UNCHANGED <<driverVars, command, be, output, headerOutput, inputs>>

NoSuchOption ==
    /\ InArgs /\ arg \in UnknownOptions
    /\ Exit(5)
    /\ UNCHANGED <<driverVars, command, at, be, output, headerOutput, inputs>>

AddInput ==
    /\ InArgs /\ arg \notin Options
    /\ inputs' = Append(inputs, arg) /\ at' = at + 1
    /\ UNCHANGED <<driverVars, command, pc, be, output, headerOutput, exitCode>>

NoInputs ==
    /\ pc = "args" /\ at > Len(command.argv) /\ command.argv # <<>> /\ inputs = <<>>
    /\ Exit(1)
    /\ UNCHANGED <<driverVars, command, at, be, output, headerOutput, inputs>>

\* setOutput and setHeaderOutput: what the files held is lost here.
OpenOutputs_Appending ==
    /\ pc = "args" /\ at > Len(command.argv) /\ inputs # <<>>
    /\ disk' = [f \in DOMAIN disk \cup {output, headerOutput} |-> IF f \in DOMAIN disk THEN disk[f] ELSE <<>>]
    /\ pc' = "compile"
    /\ UNCHANGED <<parserVars, decls, types, stage, result, jit, shown,
                   command, at, be, output, headerOutput, inputs, exitCode>>
OpenOutputs ==
    /\ pc = "args" /\ at > Len(command.argv) /\ inputs # <<>>
    /\ disk' = [f \in DOMAIN disk \cup {output, headerOutput} |->
                   IF f \in {output, headerOutput} THEN <<>> ELSE disk[f]]
    /\ pc' = "compile"
    /\ UNCHANGED <<parserVars, decls, types, stage, result, jit, shown,
                   command, at, be, output, headerOutput, inputs, exitCode>>

CompileFiles ==
    /\ pc = "compile"
    /\ ParseFiles(inputs)
    /\ pc' = "passes"
    /\ UNCHANGED <<command, at, be, output, headerOutput, inputs, exitCode>>

Passes ==
    /\ pc = "passes"
    /\ Parse \/ ReadOn \/ Check
    /\ UNCHANGED mainVars

\* A code generator writes what it has even if it has found errors, except
\* for the parallel one where there is no main to start from.
NoMain == be = "CPAR" /\ \A i \in Functions : prog[i].name # "main"
Ungenerated ==
    {i \in Functions : NoMain \/ \E j \in DOMAIN prog[i].cases : prog[i].cases[j].bad = "code"}
        \cup (IF NoMain THEN {0} ELSE {})
Generated == [k |-> "code", by |-> be, of |-> prog]
Written(f) == \/ f = output /\ ~NoMain
              \/ f = headerOutput /\ be = "LLVM"
Generate ==
    /\ pc = "passes"
    /\ Accept("generate", "idle", 5, Ungenerated)
    /\ disk' = [f \in DOMAIN disk |-> IF Written(f) THEN <<IF f = output THEN Generated ELSE [k |-> "std"]>> ELSE disk[f]]
    /\ UNCHANGED <<parserVars, decls, types, jit, mainVars>>

ReturnResult ==
    /\ pc = "passes" /\ stage = "idle"
    /\ Exit(result)
    /\ UNCHANGED <<driverVars, command, at, be, output, headerOutput, inputs>>

CNext == \/ ShowHelp \/ ChooseBackend \/ ChooseOutput \/ ChooseHeader \/ ChooseLevel
         \/ NoSuchOption \/ AddInput \/ NoInputs \/ OpenOutputs \/ CompileFiles
         \/ Passes \/ Generate \/ ReturnResult

CSpec == CInit /\ [][CNext]_<<driverVars, mainVars>>

---------------------------------------------------------------------------
\* The files that belong to the program: those named, and those they include,
\* as they are once the outputs have been opened.
Includes(f) == {disk[f][i].name : i \in {j \in DOMAIN disk[f] : disk[f][j].k = "include"}}
Sources == (UNION {Includes(f) : f \in DOMAIN disk}) \cup {inputs[i] : i \in DOMAIN inputs}
Closed(S) == /\ \A i \in DOMAIN inputs : inputs[i] \in S
             /\ \A f \in S \cap DOMAIN disk : Includes(f) \subseteq S
Reachable == {f \in Sources : \A S \in SUBSET Sources : Closed(S) => f \in S}

Parts(text) == {text[i] : i \in {j \in DOMAIN text : text[j].k \in {"header", "case", "expr"}}}
\* What was generated, as the pieces it came from.
PartsOf(ds) ==
    (UNION {{ds[i].cases[j] : j \in DOMAIN ds[i].cases} : i \in DOMAIN ds})
        \cup {[k |-> "header", name |-> ds[i].name, sig |-> ds[i].sig] : i \in {h \in DOMAIN ds : ~ds[h].anon}}

Opened == pc \in {"compile", "passes", "exit"} /\ at > Len(command.argv) /\ inputs # <<>>

\* A result of 0 means that the output is the code of the program: of all the
\* files named on the command line and all they include, whatever the order in
\* which they are queued and wherever a file ends (Driver::nextInput,
\* Scanner::yywrap, the include rule, Compiler::compile).  A file that does not
\* exist is not missed, and an output that is also an input is empty when read:
\* both are excluded.
ZeroMeansWholeProgram ==
    (pc = "exit" /\ Opened /\ exitCode = 0 /\ Reachable \subseteq DOMAIN command.disk \ {output, headerOutput}) =>
        /\ Len(disk[output]) = 1
        /\ disk[output][1].by = be
        /\ PartsOf(disk[output][1].of) = UNION {Parts(disk[f]) : f \in Reachable}

\* After an error of the parser or of the checks the output holds no code, not
\* the one an earlier compilation left there either; and no call of the
\* compiler changes any other file (setOutput, Compiler::compile).
ErrorLeavesNoCode ==
    pc = "exit" =>
        /\ \A f \in DOMAIN command.disk :
              (f \in {output, headerOutput} /\ Opened) \/ disk[f] = command.disk[f]
        /\ (Opened /\ exitCode \in 1..4) => disk[output] = <<>>

\* The compiler ends, if no file includes itself by way of others: the list of
\* files grows while it is read, and a file is read as often as it is included.
CompilerExits == (pc = "args") ~> (pc = "exit")
===============================================================================
