---------------------------- MODULE FrontEndProofs ----------------------------
(***************************************************************************)
(* The compiler and the interpreter, each for any command line, any files  *)
(* and any lines typed, in any number.                                     *)
(*                                                                         *)
(* What the compiler does to files: the outputs are emptied when they are  *)
(* opened and written once, in the last pass, after which no result below  *)
(* 5 can be an error.  What is written then is the whole program: each     *)
(* text is read once, the queue holds what its includes name, and a queue  *)
(* that runs empty without an error has had every file that the includes   *)
(* reach (WholeInv).                                                       *)
(*                                                                         *)
(* What the interpreter keeps: code is linked as it was compiled.  LinkInv *)
(* says what the names declared, the code in the JIT and the program       *)
(* between the passes have to do with each other: the table only grows,    *)
(* whatever passes fail, so what was true of a call when its module was    *)
(* added stays true.                                                       *)
(*                                                                         *)
(* What the interpreter answers: what the passes have found out about the  *)
(* text agrees with what the text means (PromiseInv), so that a session    *)
(* that is Ready is one of the interpreter promised in Repl.               *)
(***************************************************************************)
EXTENDS Compile, Interpreter, TLAPS

---------------------------------------------------------------------------
(* The compiler. *)

\* Which arguments have been read.
Arguments ==
    /\ command \in Commands
    /\ at \in Nat \ {0}
    /\ pc \in {"args", "compile", "passes", "exit"}
    /\ command.argv = <<>> => inputs = <<>>
    /\ pc \in {"compile", "passes"} => at > Len(command.argv) /\ inputs # <<>>

\* Until the outputs are opened nothing is touched, and then nothing else.
Touched ==
    /\ (pc = "args" \/ (pc = "exit" /\ ~Opened)) => disk = command.disk
    /\ Opened => /\ output \in DOMAIN disk
                 /\ DOMAIN command.disk \subseteq DOMAIN disk
                 /\ \A f \in DOMAIN command.disk :
                       f \in {output, headerOutput} \/ disk[f] = command.disk[f]

\* The output is empty while a pass may still fail with a result below 5.
Empty ==
    /\ pc = "compile" => disk[output] = <<>>
    /\ pc = "passes" /\ stage # "idle" => result = 0 /\ disk[output] = <<>>
    /\ pc = "passes" /\ stage = "idle" /\ result \in 1..4 => disk[output] = <<>>
    /\ pc = "exit" /\ Opened /\ exitCode \in 1..4 => disk[output] = <<>>

OutputInv == Arguments /\ Touched /\ Empty

---------------------------------------------------------------------------
LEMMA OutputInit == CInit => OutputInv
BY DEF CInit, DriverInit, OutputInv, Arguments, Touched, Empty, Opened

\* Reading an argument, and ending while arguments are read, touches no file.
LEMMA ArgumentStep ==
    ASSUME OutputInv,
           \/ ShowHelp \/ ChooseBackend \/ ChooseOutput \/ ChooseHeader \/ ChooseLevel
           \/ NoSuchOption \/ AddInput \/ NoInputs
    PROVE  OutputInv'
<1>1. command \in Commands /\ command.argv \in Seq(STRING) /\ at \in Nat \ {0} /\ pc = "args"
  BY CommandsAssumption
  DEF OutputInv, Arguments, ShowHelp, InArgs, ChooseBackend, ChooseOutput, ChooseHeader, ChooseLevel,
      NoSuchOption, AddInput, NoInputs
<1>2. disk = command.disk /\ (command.argv = <<>> => inputs = <<>>)
  BY <1>1 DEF OutputInv, Arguments, Touched
<1>3. UNCHANGED <<driverVars, command>>
  BY DEF ShowHelp, ChooseBackend, ChooseOutput, ChooseHeader, ChooseLevel, NoSuchOption, AddInput, NoInputs
<1>4. disk' = disk /\ command' = command
  BY <1>3 DEF driverVars
<1>5. /\ at' \in Nat \ {0} /\ pc' \in {"args", "exit"}
      /\ command.argv = <<>> => inputs' = <<>>
  BY <1>1, <1>2
  DEF ShowHelp, InArgs, HasNext, Exit, ChooseBackend, ChooseOutput, ChooseHeader, ChooseLevel,
      NoSuchOption, AddInput, NoInputs
<1>6. pc' = "exit" => at' <= Len(command.argv) \/ inputs' = <<>>
  BY <1>1, <1>2
  DEF ShowHelp, InArgs, HasNext, Exit, ChooseBackend, ChooseOutput, ChooseHeader, ChooseLevel,
      NoSuchOption, AddInput, NoInputs
<1>7. ~Opened'
  BY <1>1, <1>4, <1>5, <1>6 DEF Opened
<1>8. Arguments'
  BY <1>1, <1>4, <1>5 DEF Arguments
<1>9. Touched' /\ Empty'
  BY <1>2, <1>4, <1>5, <1>7 DEF Touched, Empty
<1> QED BY <1>8, <1>9 DEF OutputInv

\* The outputs are opened.
LEMMA OpenStep ==
    ASSUME OutputInv, OpenOutputs
    PROVE  OutputInv'
<1>1. /\ command' = command /\ at' = at /\ inputs' = inputs
      /\ output' = output /\ headerOutput' = headerOutput
      /\ pc' = "compile" /\ at > Len(command.argv) /\ inputs # <<>>
  BY DEF OpenOutputs
<1>2. disk = command.disk
  BY DEF OpenOutputs, OutputInv, Touched
<1>3. disk' = [f \in DOMAIN disk \cup {output, headerOutput} |->
                  IF f \in {output, headerOutput} THEN <<>> ELSE disk[f]]
  BY DEF OpenOutputs
<1>4. Arguments'
  BY <1>1 DEF OutputInv, Arguments
<1>5. Touched' /\ Empty'
  BY <1>1, <1>2, <1>3 DEF Touched, Empty
<1> QED BY <1>4, <1>5 DEF OutputInv

\* No pass before the last touches a file.
LEMMA PassesStep ==
    ASSUME OutputInv, Passes
    PROVE  OutputInv'
<1>1. stage # "idle"
  BY DEF Passes, Parse, ReadOn, Check, Shift, SyntaxError, Parsed, NextSource, MissingFile,
         AcceptScopeGen, AcceptTypeChecker, AcceptOptimizer, Accept
<1>2. pc = "passes" /\ UNCHANGED mainVars
  BY DEF Passes
<1>3. disk' = disk
  BY DEF Passes, Parse, ReadOn, Check, Shift, SyntaxError, Parsed, NextSource, MissingFile,
         AcceptScopeGen, AcceptTypeChecker, AcceptOptimizer, parserVars
<1>4. result' = result \/ stage' = "idle"
  BY DEF Passes, Parse, ReadOn, Check, Shift, SyntaxError, Parsed, NextSource, MissingFile,
         AcceptScopeGen, AcceptTypeChecker, AcceptOptimizer, Accept, Return
<1>5. result = 0 /\ disk[output] = <<>>
  BY <1>1, <1>2 DEF OutputInv, Empty
<1>6. Arguments' /\ Touched'
  BY <1>2, <1>3 DEF OutputInv, Arguments, Touched, Opened, mainVars
<1>7. Empty'
  BY <1>2, <1>3, <1>4, <1>5 DEF Empty, Opened, mainVars
<1> QED BY <1>6, <1>7 DEF OutputInv

\* The last pass writes to the outputs only, and its errors have the result 5.
LEMMA GenerateStep ==
    ASSUME OutputInv, Generate
    PROVE  OutputInv'
<1>1. pc = "passes" /\ stage = "generate" /\ UNCHANGED mainVars
  BY DEF Generate, Accept
<1>2. stage' = "idle" /\ result' \in {result, 5}
  BY DEF Generate, Accept, Return
<1>3. /\ DOMAIN disk' = DOMAIN disk
      /\ \A f \in DOMAIN disk : f \in {output, headerOutput} \/ disk'[f] = disk[f]
  BY DEF Generate, Written
<1>4. result = 0
  BY <1>1 DEF OutputInv, Empty
<1>5. Arguments'
  BY <1>1 DEF OutputInv, Arguments, mainVars
<1>6. Opened /\ Opened' /\ pc' = "passes" /\ output' = output /\ headerOutput' = headerOutput /\ command' = command
  BY <1>1 DEF OutputInv, Arguments, Opened, mainVars
<1>7. Touched'
  <2>1. ASSUME NEW f \in DOMAIN command.disk, f \notin {output, headerOutput}
        PROVE  disk'[f] = command.disk[f]
    BY <1>3, <1>6, <2>1 DEF OutputInv, Touched, Generate, Written
  <2> QED BY <1>3, <1>6, <2>1 DEF OutputInv, Touched
<1>8. Empty'
  BY <1>2, <1>4, <1>6 DEF Empty
<1> QED BY <1>5, <1>7, <1>8 DEF OutputInv

LEMMA OutputNext == OutputInv /\ [CNext]_<<driverVars, mainVars>> => OutputInv'
<1> SUFFICES ASSUME OutputInv, [CNext]_<<driverVars, mainVars>> PROVE OutputInv'
  OBVIOUS
<1>1. CASE ShowHelp \/ ChooseBackend \/ ChooseOutput \/ ChooseHeader \/ ChooseLevel
           \/ NoSuchOption \/ AddInput \/ NoInputs
  BY <1>1, ArgumentStep
<1>2. CASE OpenOutputs
  BY <1>2, OpenStep
<1>3. CASE CompileFiles
  <2>1. /\ disk' = disk /\ pc = "compile" /\ pc' = "passes"
        /\ UNCHANGED <<command, at, be, output, headerOutput, inputs, exitCode>>
    BY <1>3 DEF CompileFiles, ParseFiles
  <2>2. (stage' = "parse" /\ result' = 0) \/ (stage' = "idle" /\ result' = 1)
    BY <1>3 DEF CompileFiles, ParseFiles, Return
  <2>3. disk[output] = <<>>
    BY <2>1 DEF OutputInv, Empty
  <2>4. Arguments' /\ Touched'
    BY <2>1 DEF OutputInv, Arguments, Touched, Opened
  <2>5. Empty'
    BY <2>1, <2>2, <2>3 DEF Empty
  <2> QED BY <2>4, <2>5 DEF OutputInv
<1>4. CASE Passes
  BY <1>4, PassesStep
<1>5. CASE Generate
  BY <1>5, GenerateStep
<1>6. CASE ReturnResult
  <2>1. /\ disk' = disk /\ pc = "passes" /\ stage = "idle" /\ pc' = "exit" /\ exitCode' = result
        /\ UNCHANGED <<command, at, output, headerOutput, inputs>>
    BY <1>6 DEF ReturnResult, Exit, driverVars
  <2>2. Opened /\ Opened'
    BY <2>1 DEF OutputInv, Arguments, Opened
  <2>3. Arguments' /\ Touched'
    BY <2>1, <2>2 DEF OutputInv, Arguments, Touched
  <2>4. Empty'
    BY <2>1 DEF OutputInv, Empty
  <2> QED BY <2>3, <2>4 DEF OutputInv
<1>7. CASE UNCHANGED <<driverVars, mainVars>>
  BY <1>7 DEF OutputInv, Arguments, Touched, Empty, Opened, driverVars, mainVars
<1> QED BY <1>1, <1>2, <1>3, <1>4, <1>5, <1>6, <1>7 DEF CNext

---------------------------------------------------------------------------
\* The compiler changes no file but its outputs, and an error of the parser or
\* of the checks leaves no code in the output (setOutput, Driver::compile).
THEOREM LeavesNoCode == CSpec => []ErrorLeavesNoCode
<1>1. CSpec => []OutputInv
  BY OutputInit, OutputNext, PTL DEF CSpec
<1>2. OutputInv => ErrorLeavesNoCode
  BY DEF OutputInv, Touched, Empty, ErrorLeavesNoCode
<1> QED BY <1>1, <1>2, PTL

---------------------------------------------------------------------------
(* Texts, declarations, and what they are made of.                         *)

PiecesOf(t) == {t[i] : i \in DOMAIN t}

\* What the files can hold, and the declarations made of it.
FilePieces == UNION {PiecesOf(command.disk[f]) : f \in DOMAIN command.disk}
FileHeaders == {p \in FilePieces : p.k = "header"}
FileFunctions == [k : {"function"}, name : {p.name : p \in FileHeaders} \cup {AnonName},
                  sig : {p.sig : p \in FileHeaders} \cup {"unknown"}, anon : BOOLEAN, cases : Seq(FilePieces)]
TypePieces == {p \in FilePieces : p.k = "type"}
FileDeclarations == FileFunctions \cup TypePieces

PartsOfDecl(d) ==
    IF d.k = "function"
    THEN PiecesOf(d.cases) \cup (IF d.anon THEN {} ELSE {[k |-> "header", name |-> d.name, sig |-> d.sig]})
    ELSE {}
DeclParts(ds) == UNION {PartsOfDecl(ds[i]) : i \in DOMAIN ds}

IncludesIn(t) == {t[i].name : i \in {j \in DOMAIN t : t[j].k = "include"}}

LEMMA WiderSeq ==
  ASSUME NEW S, NEW T, S \subseteq T, NEW t \in Seq(S)
  PROVE  t \in Seq(T)
<1>1. Len(t) \in Nat /\ t = [i \in 1 .. Len(t) |-> t[i]] /\ \A i \in 1 .. Len(t) : t[i] \in S
  OBVIOUS
<1> QED BY <1>1

LEMMA SeqOf ==
  ASSUME NEW S, NEW T, NEW t \in Seq(S), \A i \in 1 .. Len(t) : t[i] \in T
  PROVE  t \in Seq(T)
<1>1. Len(t) \in Nat /\ t = [i \in 1 .. Len(t) |-> t[i]]
  OBVIOUS
<1> QED BY <1>1

LEMMA TextFacts ==
  ASSUME command \in Commands
  PROVE  /\ \A f \in DOMAIN command.disk : command.disk[f] \in Seq(FilePieces)
         /\ \A p \in FileHeaders : p = [k |-> "header", name |-> p.name, sig |-> p.sig]
<1>1. ASSUME NEW f \in DOMAIN command.disk PROVE command.disk[f] \in Seq(FilePieces)
  <2>1. command.disk[f] \in Seq(PiecesOf(command.disk[f]))
    BY CommandsAssumption DEF IsText, PiecesOf
  <2>2. PiecesOf(command.disk[f]) \subseteq FilePieces
    BY DEF FilePieces
  <2> QED BY <2>1, <2>2, WiderSeq
<1>2. ASSUME NEW p \in FileHeaders PROVE p = [k |-> "header", name |-> p.name, sig |-> p.sig]
  <2>1. PICK f \in DOMAIN command.disk : p \in PiecesOf(command.disk[f])
    BY DEF FileHeaders, FilePieces
  <2>2. IsText(command.disk[f])
    BY CommandsAssumption
  <2>3. PICK i \in DOMAIN command.disk[f] : p = command.disk[f][i]
    BY <2>1 DEF PiecesOf
  <2>4. p.k = "header"
    BY DEF FileHeaders
  <2> QED BY <2>2, <2>3, <2>4 DEF IsText
<1> QED BY <1>1, <1>2

\* The first piece of a text and the rest of it.
LEMMA HeadAndTail ==
  ASSUME NEW S, NEW t \in Seq(S), t # <<>>
  PROVE  /\ Head(t) \in S /\ Tail(t) \in Seq(S)
         /\ PiecesOf(t) = {Head(t)} \cup PiecesOf(Tail(t))
<1>1. /\ Head(t) = t[1] /\ Head(t) \in S /\ Tail(t) \in Seq(S)
      /\ Len(t) \in Nat /\ Len(t) >= 1 /\ DOMAIN t = 1 .. Len(t)
      /\ Len(Tail(t)) = Len(t) - 1 /\ DOMAIN Tail(t) = 1 .. Len(t) - 1
      /\ \A i \in 1 .. Len(t) - 1 : Tail(t)[i] = t[i + 1]
  OBVIOUS
<1>2. ASSUME NEW x \in PiecesOf(t) PROVE x \in {Head(t)} \cup PiecesOf(Tail(t))
  <2>1. PICK i \in 1 .. Len(t) : x = t[i]
    BY <1>1, <1>2 DEF PiecesOf
  <2>2. CASE i = 1
    BY <1>1, <2>1, <2>2
  <2>3. CASE i # 1
    <3>1. i - 1 \in DOMAIN Tail(t) /\ Tail(t)[i - 1] = x
      BY <1>1, <2>1, <2>3
    <3> QED BY <3>1 DEF PiecesOf
  <2> QED BY <2>2, <2>3
<1>3. ASSUME NEW x \in PiecesOf(Tail(t)) PROVE x \in PiecesOf(t)
  <2>1. PICK i \in DOMAIN Tail(t) : x = Tail(t)[i]
    BY <1>3 DEF PiecesOf
  <2>2. i + 1 \in DOMAIN t /\ t[i + 1] = x
    BY <1>1, <2>1
  <2> QED BY <2>2 DEF PiecesOf
<1>4. Head(t) \in PiecesOf(t)
  BY <1>1 DEF PiecesOf
<1> QED BY <1>1, <1>2, <1>3, <1>4

\* Parts and includes are determined by the pieces.
LEMMA PartsAre ==
  ASSUME NEW t
  PROVE  /\ Parts(t) = {p \in PiecesOf(t) : p.k \in {"header", "case", "expr"}}
         /\ IncludesIn(t) = {p.name : p \in {q \in PiecesOf(t) : q.k = "include"}}
BY DEF Parts, IncludesIn, PiecesOf

LEMMA AppendPieces ==
  ASSUME NEW S, NEW t \in Seq(S), NEW p
  PROVE  PiecesOf(Append(t, p)) = PiecesOf(t) \cup {p}
<1>1. /\ Len(t) \in Nat /\ DOMAIN t = 1 .. Len(t) /\ DOMAIN Append(t, p) = 1 .. Len(t) + 1
      /\ Append(t, p)[Len(t) + 1] = p /\ \A i \in 1 .. Len(t) : Append(t, p)[i] = t[i]
  OBVIOUS
<1> DEFINE u == Append(t, p)
<1> HIDE DEF u
<1>2. ASSUME NEW x \in PiecesOf(u) PROVE x \in PiecesOf(t) \cup {p}
  <2>1. PICK i \in 1 .. Len(t) + 1 : x = u[i]
    BY <1>1, <1>2 DEF PiecesOf, u
  <2>2. i = Len(t) + 1 \/ i \in 1 .. Len(t)
    BY <1>1
  <2> QED BY <1>1, <2>1, <2>2 DEF PiecesOf, u
<1>3. ASSUME NEW x \in PiecesOf(t) PROVE x \in PiecesOf(u)
  <2>1. PICK i \in 1 .. Len(t) : x = t[i]
    BY <1>1, <1>3 DEF PiecesOf
  <2>2. i \in DOMAIN u /\ u[i] = x
    BY <1>1, <2>1 DEF u
  <2> QED BY <2>2 DEF PiecesOf
<1>4. p \in PiecesOf(u)
  BY <1>1 DEF PiecesOf, u
<1> QED BY <1>2, <1>3, <1>4 DEF u

LEMMA AppendDecl ==
  ASSUME NEW ds \in Seq(FileDeclarations), NEW d \in FileDeclarations, NEW new, new = Append(ds, d)
  PROVE  /\ new \in Seq(FileDeclarations) /\ new # <<>> /\ new[Len(new)] = d
         /\ DeclParts(new) = DeclParts(ds) \cup PartsOfDecl(d)
<1>1. new \in Seq(FileDeclarations) /\ new # <<>> /\ new[Len(new)] = d
  OBVIOUS
<1>2. PiecesOf(new) = PiecesOf(ds) \cup {d}
  BY AppendPieces
<1>3. \A s : DeclParts(s) = UNION {PartsOfDecl(e) : e \in PiecesOf(s)}
  BY DEF DeclParts, PiecesOf
<1> QED BY <1>1, <1>2, <1>3

\* A case goes to the function declared last.
LEMMA AddedCase ==
  ASSUME NEW ds \in Seq(FileDeclarations), ds # <<>>, ds[Len(ds)].k = "function",
         NEW p \in FilePieces, NEW new, new = AddCase(ds, p)
  PROVE  /\ new \in Seq(FileDeclarations) /\ new # <<>> /\ new[Len(new)].k = "function"
         /\ DeclParts(new) = DeclParts(ds) \cup {p}
<1> DEFINE n == Len(ds)
           d == ds[n]
           e == [d EXCEPT !.cases = Append(@, p)]
<1>1. n \in Nat /\ n >= 1 /\ DOMAIN ds = 1 .. n /\ d \in FileDeclarations
  OBVIOUS
<1>2. d \in FileFunctions
  BY <1>1 DEF FileDeclarations, TypePieces
<1>3. new = [ds EXCEPT ![n] = e]
  BY DEF AddCase
<1>4. d.cases \in Seq(FilePieces) /\ d.k = "function"
  BY <1>2 DEF FileFunctions
<1>5. Append(d.cases, p) \in Seq(FilePieces)
  BY <1>4
<1>6. e \in FileFunctions /\ e.k = "function" /\ e.cases = Append(d.cases, p)
      /\ e.anon = d.anon /\ e.name = d.name /\ e.sig = d.sig
  BY <1>2, <1>5 DEF FileFunctions
<1>7. e \in FileDeclarations
  BY <1>6 DEF FileDeclarations
<1> HIDE DEF n, d, e
<1>8. /\ new \in Seq(FileDeclarations) /\ Len(new) = n /\ DOMAIN new = 1 .. n /\ new[n] = e
      /\ \A i \in 1 .. n : i # n => new[i] = ds[i]
  BY <1>1, <1>3, <1>7
<1>9. PartsOfDecl(e) = PartsOfDecl(d) \cup {p}
  BY <1>4, <1>6, AppendPieces DEF PartsOfDecl
<1>10. ASSUME NEW x \in DeclParts(new) PROVE x \in DeclParts(ds) \cup {p}
  <2>1. PICK i \in 1 .. n : x \in PartsOfDecl(new[i])
    BY <1>8, <1>10 DEF DeclParts
  <2>2. x \in PartsOfDecl(ds[i]) \cup {p}
    BY <1>8, <1>9, <2>1 DEF d
  <2> QED BY <1>1, <2>2 DEF DeclParts
<1>11. ASSUME NEW x \in DeclParts(ds) \cup {p} PROVE x \in DeclParts(new)
  <2>1. CASE x = p
    BY <1>1, <1>8, <1>9, <2>1 DEF DeclParts
  <2>2. CASE x \in DeclParts(ds)
    <3>1. PICK i \in 1 .. n : x \in PartsOfDecl(ds[i])
      BY <1>1, <2>2 DEF DeclParts
    <3>2. x \in PartsOfDecl(new[i])
      BY <1>8, <1>9, <3>1 DEF d
    <3> QED BY <1>8, <3>2 DEF DeclParts
  <2> QED BY <1>11, <2>1, <2>2
<1>12. new # <<>>
  BY <1>1, <1>8
<1> QED BY <1>6, <1>8, <1>10, <1>11, <1>12

---------------------------------------------------------------------------
(* The program is whole: while the files are read, every piece of those    *)
(* read so far is in the program or still to be read, and every file that  *)
(* they include is in the list.                                            *)

\* The files as they are once the outputs have been opened.
Emptied == [f \in DOMAIN command.disk \cup {output, headerOutput} |->
               IF f \in {output, headerOutput} THEN <<>> ELSE command.disk[f]]

ReadTypes ==
    /\ inFiles \in Seq(Sources) /\ curInFile \in 1 .. Len(inFiles) /\ srcType = "FILES"
    /\ in \in Seq(FilePieces) /\ prog \in Seq(FileDeclarations)

\* What the parser has read last is where it will add a case.
LastDecl ==
    /\ last \in {"header", "case", "expr"} => prog # <<>> /\ prog[Len(prog)].k = "function"
    /\ last = "none" => prog = <<>>

\* The list holds the inputs, and nothing that they do not lead to.
Queued ==
    /\ \A i \in DOMAIN inputs : inputs[i] \in PiecesOf(inFiles)
    /\ \A S \in SUBSET Sources : Closed(S) => PiecesOf(inFiles) \subseteq S

FilesRead == {inFiles[j] : j \in 1 .. curInFile}
IncludesRead == UNION {Includes(f) : f \in FilesRead}
Gathered ==
    /\ FilesRead \subseteq DOMAIN disk
    /\ IncludesRead \subseteq PiecesOf(inFiles) \cup IncludesIn(in)
    /\ IncludesIn(in) \subseteq IncludesRead
    /\ DeclParts(prog) \cup Parts(in) = UNION {Parts(disk[f]) : f \in FilesRead}

\* The parser stops where the list ends, or at a file that is missing.
AfterParsing ==
    /\ stage \in {"parse", "scope", "types", "optimize", "generate"}
    /\ stage # "parse" => in = <<>> /\ (curInFile = Len(inFiles) \/ NextFile \notin DOMAIN disk)
    /\ stage = "generate" => TypeDecls = {}

Reading == ReadTypes /\ LastDecl /\ Queued /\ Gathered /\ AfterParsing

WholeProgram ==
    Reachable \subseteq DOMAIN command.disk \ {output, headerOutput} =>
        /\ Len(disk[output]) = 1
        /\ disk[output][1].by = be
        /\ PartsOf(disk[output][1].of) = UNION {Parts(disk[f]) : f \in Reachable}

WholeInv ==
    /\ OutputInv
    /\ inputs \in Seq(STRING)
    /\ pc \in {"args", "compile"} => curInFile = 0
    /\ pc = "compile" \/ (pc = "passes" /\ stage # "idle") => disk = Emptied
    /\ pc = "passes" /\ stage # "idle" => Reading
    /\ (pc = "passes" /\ stage = "idle" /\ result = 0) \/ (pc = "exit" /\ Opened /\ exitCode = 0) => WholeProgram

\* The files and what they include stay as they are.
LEMMA SameFiles ==
  ASSUME disk' = disk, inputs' = inputs, command' = command, output' = output, headerOutput' = headerOutput
  PROVE  /\ Sources' = Sources /\ FilePieces' = FilePieces /\ FileDeclarations' = FileDeclarations /\ Emptied' = Emptied
         /\ Reachable' = Reachable
         /\ \A f : Includes(f)' = Includes(f)
         /\ \A S : Closed(S)' <=> Closed(S)
<1>1. \A f : Includes(f)' = Includes(f)
  BY DEF Includes
<1>2. Sources' = Sources
  BY <1>1 DEF Sources
<1>3. \A S : Closed(S)' <=> Closed(S)
  BY <1>1 DEF Closed
<1>4. Reachable' = Reachable
  BY <1>2, <1>3 DEF Reachable
<1>5. FilePieces' = FilePieces
  BY DEF FilePieces
<1>6. FileDeclarations' = FileDeclarations
  BY <1>5 DEF FileDeclarations, FileFunctions, TypePieces, FileHeaders
<1>7. Emptied' = Emptied
  BY DEF Emptied
<1> QED BY <1>1, <1>2, <1>3, <1>4, <1>5, <1>6, <1>7

\* What the files hold, once the outputs have been opened.
LEMMA EmptiedFacts ==
  ASSUME command \in Commands, disk = Emptied
  PROVE  /\ output \in DOMAIN disk /\ headerOutput \in DOMAIN disk
         /\ disk[output] = <<>> /\ disk[headerOutput] = <<>>
         /\ \A f \in DOMAIN disk : disk[f] \in Seq(FilePieces)
         /\ \A f \in DOMAIN command.disk : f \in DOMAIN disk
<1>1. <<>> \in Seq(FilePieces)
  OBVIOUS
<1> QED BY <1>1, TextFacts DEF Emptied

\* The parser starts with the first of the inputs.
LEMMA StartReading ==
  ASSUME WholeInv, CompileFiles
  PROVE  WholeInv'
<1>1. /\ disk' = disk /\ pc = "compile" /\ pc' = "passes"
      /\ UNCHANGED <<command, at, be, output, headerOutput, inputs, exitCode>>
      /\ srcType' = "FILES" /\ inFiles' = inputs /\ last' = "none" /\ prog' = <<>>
  BY DEF CompileFiles, ParseFiles
<1>2. OutputInv'
  BY OutputNext DEF WholeInv, CNext
<1>3. disk = Emptied /\ curInFile = 0 /\ inputs \in Seq(STRING) /\ command \in Commands
  BY <1>1 DEF WholeInv, OutputInv, Arguments
<1>4. CASE 0 < Len(inputs) /\ inputs[1] \in DOMAIN disk
  <2>1. in' = disk[inputs[1]] /\ curInFile' = 1 /\ stage' = "parse"
    BY <1>1, <1>3, <1>4 DEF CompileFiles, ParseFiles
  <2>2. inputs \in Seq(Sources)
    <3>1. DOMAIN inputs = 1 .. Len(inputs)
      BY <1>3
    <3>2. {inputs[i] : i \in DOMAIN inputs} \subseteq Sources
      BY DEF Sources
    <3>3. \A i \in 1 .. Len(inputs) : inputs[i] \in Sources
      BY <3>1, <3>2
    <3> QED BY <1>3, <3>3, SeqOf
  <2>3. ReadTypes'
    <3>1. in' \in Seq(FilePieces)
      BY <1>3, <1>4, <2>1, EmptiedFacts
    <3>2. curInFile' \in 1 .. Len(inFiles')
      BY <1>1, <1>3, <1>4, <2>1
    <3>3. <<>> \in Seq(FileDeclarations)
      OBVIOUS
    <3> QED BY <1>1, <2>2, <3>1, <3>2, <3>3, SameFiles DEF ReadTypes
  <2>4. LastDecl'
    BY <1>1 DEF LastDecl
  <2>5. Queued'
    <3>1. \A i \in DOMAIN inputs : inputs[i] \in PiecesOf(inputs)
      BY DEF PiecesOf
    <3>2. \A S \in SUBSET Sources : Closed(S) => PiecesOf(inputs) \subseteq S
      BY DEF PiecesOf, Closed
    <3> QED BY <1>1, <3>1, <3>2, SameFiles DEF Queued, PiecesOf
  <2>6. Gathered'
    <3>1. FilesRead' = {inputs[1]}
      BY <1>1, <2>1 DEF FilesRead
    <3>2. IncludesRead' = Includes(inputs[1])
      BY <1>1, <3>1, SameFiles DEF IncludesRead
    <3>3. Includes(inputs[1]) = IncludesIn(disk[inputs[1]])
      BY DEF Includes, IncludesIn
    <3>4. DeclParts(<<>>) = {}
      BY DEF DeclParts
    <3>5. IncludesIn(in)' = IncludesIn(disk[inputs[1]]) /\ Parts(in)' = Parts(disk[inputs[1]])
      BY <2>1 DEF IncludesIn, Parts
    <3>6. DeclParts(prog)' = {}
      BY <1>1, <3>4 DEF DeclParts
    <3>7. UNION {Parts(disk[f]) : f \in FilesRead}' = Parts(disk[inputs[1]])
      BY <1>1, <3>1 DEF Parts
    <3> QED BY <1>1, <1>4, <3>1, <3>2, <3>3, <3>5, <3>6, <3>7 DEF Gathered
  <2>7. AfterParsing'
    BY <2>1 DEF AfterParsing
  <2> QED BY <1>1, <1>2, <1>3, <2>1, <2>3, <2>4, <2>5, <2>6, <2>7, SameFiles DEF WholeInv, Reading
<1>5. CASE ~(0 < Len(inputs) /\ inputs[1] \in DOMAIN disk)
  <2>1. stage' = "idle" /\ result' = 1
    BY <1>1, <1>3, <1>5 DEF CompileFiles, ParseFiles, Return
  <2> QED BY <1>1, <1>2, <1>3, <2>1 DEF WholeInv
<1> QED BY <1>4, <1>5

\* A pass that ends with an error ends the compilation.
LEMMA Failing ==
  ASSUME WholeInv, [CNext]_<<driverVars, mainVars>>, pc = "passes", UNCHANGED mainVars,
         stage' = "idle", result' # 0
  PROVE  WholeInv'
<1>1. OutputInv'
  BY OutputNext DEF WholeInv
<1>2. pc' = "passes" /\ inputs' = inputs
  BY DEF mainVars
<1> QED BY <1>1, <1>2 DEF WholeInv

\* A pass changes what Reading is about, and nothing else.
LEMMA Continuing ==
  ASSUME WholeInv, [CNext]_<<driverVars, mainVars>>, pc = "passes", UNCHANGED <<mainVars, disk>>,
         stage # "idle", stage' # "idle", Reading'
  PROVE  WholeInv'
<1>1. OutputInv'
  BY OutputNext DEF WholeInv
<1>2. pc' = "passes" /\ inputs' = inputs /\ command' = command /\ output' = output /\ headerOutput' = headerOutput
  BY DEF mainVars
<1> QED BY <1>1, <1>2, SameFiles DEF WholeInv

\* What is read is kept while pieces move from the text to the program.
LEMMA ShiftStep ==
  ASSUME WholeInv, pc = "passes", Shift, UNCHANGED mainVars
  PROVE  Reading'
<1> DEFINE p == Head(in)
<1>1. /\ stage = "parse" /\ in # <<>> /\ Fits(p)
      /\ prog' = Reduce(p) /\ in' = Tail(in)
      /\ last' = IF p.k \in {"type", "include"} THEN "decl" ELSE p.k
      /\ inFiles' = IF p.k = "include" THEN Append(inFiles, p.name) ELSE inFiles
      /\ disk' = disk /\ curInFile' = curInFile /\ srcType' = srcType /\ stage' = stage
  BY DEF Shift
<1>2. /\ inputs' = inputs /\ command' = command /\ output' = output /\ headerOutput' = headerOutput
  BY DEF mainVars
<1>3. ReadTypes /\ LastDecl /\ Queued /\ Gathered /\ command \in Commands
  BY <1>1 DEF WholeInv, Reading, OutputInv, Arguments
<1>4. /\ p \in FilePieces /\ in' \in Seq(FilePieces) /\ PiecesOf(in) = {p} \cup PiecesOf(in')
  BY <1>1, <1>3, HeadAndTail DEF ReadTypes
<1>5. /\ p.k \in {"header", "type", "include", "case", "expr"}
      /\ p.k = "case" => last \in {"header", "case"}
      /\ p.k = "expr" => last \in {"none", "expr"}
  BY <1>1 DEF Fits, After
<1> HIDE DEF p
<1>6. /\ Parts(in) = Parts(in') \cup (IF p.k \in {"header", "case", "expr"} THEN {p} ELSE {})
      /\ IncludesIn(in) = IncludesIn(in') \cup (IF p.k = "include" THEN {p.name} ELSE {})
  BY <1>4, PartsAre
<1>7. /\ prog' \in Seq(FileDeclarations)
      /\ DeclParts(prog') = DeclParts(prog) \cup (IF p.k \in {"header", "case", "expr"} THEN {p} ELSE {})
      /\ p.k \in {"header", "case", "expr"} => prog' # <<>> /\ prog'[Len(prog')].k = "function"
  <2>1. prog \in Seq(FileDeclarations)
    BY <1>3 DEF ReadTypes
  <2>2. <<>> \in Seq(FilePieces)
    OBVIOUS
  <2>3. CASE p.k = "header"
    <3>1. p \in FileHeaders /\ p = [k |-> "header", name |-> p.name, sig |-> p.sig]
      BY <1>3, <1>4, <2>3, TextFacts DEF FileHeaders
    <3>2. Function(p) \in FileDeclarations
      BY <2>2, <3>1 DEF Function, FileDeclarations, FileFunctions
    <3>3. PartsOfDecl(Function(p)) = {p} /\ Function(p).k = "function"
      <4>1. PiecesOf(<<>>) = {}
        BY DEF PiecesOf
      <4> QED BY <3>1, <4>1 DEF Function, PartsOfDecl
    <3>4. prog' = Append(prog, Function(p))
      BY <1>1, <2>3 DEF Reduce
    <3>5. /\ prog' \in Seq(FileDeclarations) /\ prog' # <<>> /\ prog'[Len(prog')] = Function(p)
          /\ DeclParts(prog') = DeclParts(prog) \cup PartsOfDecl(Function(p))
      BY <2>1, <3>2, <3>4, AppendDecl
    <3> QED BY <2>3, <3>3, <3>5
  <2>4. CASE p.k = "type"
    <3>1. p \in FileDeclarations
      BY <1>4, <2>4 DEF FileDeclarations, TypePieces
    <3>2. PartsOfDecl(p) = {}
      BY <2>4 DEF PartsOfDecl
    <3>3. prog' = Append(prog, p)
      BY <1>1, <2>4 DEF Reduce
    <3>4. prog' \in Seq(FileDeclarations) /\ DeclParts(prog') = DeclParts(prog) \cup PartsOfDecl(p)
      BY <2>1, <3>1, <3>3, AppendDecl
    <3> QED BY <2>4, <3>2, <3>4
  <2>5. CASE p.k = "include"
    BY <1>1, <2>1, <2>5 DEF Reduce
  <2>6. CASE p.k = "case"
    <3>1. prog # <<>> /\ prog[Len(prog)].k = "function"
      BY <1>3, <1>5, <2>6 DEF LastDecl
    <3>2. prog' = AddCase(prog, p)
      BY <1>1, <2>6 DEF Reduce
    <3>3. /\ prog' \in Seq(FileDeclarations) /\ prog' # <<>> /\ prog'[Len(prog')].k = "function"
          /\ DeclParts(prog') = DeclParts(prog) \cup {p}
      BY <1>4, <2>1, <3>1, <3>2, AddedCase
    <3> QED BY <2>6, <3>3
  <2>7. CASE p.k = "expr"
    <3>1. prog' = AddCase(IF prog = <<>> THEN <<AnonFunction>> ELSE prog, p)
      BY <1>1, <2>7 DEF Reduce
    <3>2. CASE prog = <<>>
      <4>1. AnonFunction \in FileDeclarations /\ AnonFunction.k = "function" /\ PartsOfDecl(AnonFunction) = {}
        <5>1. PiecesOf(<<>>) = {}
          BY DEF PiecesOf
        <5> QED BY <2>2, <5>1 DEF AnonFunction, FileDeclarations, FileFunctions, PartsOfDecl
      <4>2. /\ <<AnonFunction>> \in Seq(FileDeclarations) /\ <<AnonFunction>> # <<>>
            /\ <<AnonFunction>>[Len(<<AnonFunction>>)].k = "function"
        BY <4>1
      <4>3. DeclParts(<<AnonFunction>>) = {} /\ DeclParts(prog) = {}
        BY <3>2, <4>1 DEF DeclParts
      <4>4. prog' = AddCase(<<AnonFunction>>, p)
        BY <3>1, <3>2
      <4> DEFINE one == <<AnonFunction>>
      <4>5. one \in Seq(FileDeclarations) /\ one # <<>> /\ one[Len(one)].k = "function" /\ DeclParts(one) = {}
        BY <4>2, <4>3
      <4>6. prog' = AddCase(one, p)
        BY <4>4
      <4> HIDE DEF one
      <4>7. /\ prog' \in Seq(FileDeclarations) /\ prog' # <<>> /\ prog'[Len(prog')].k = "function"
            /\ DeclParts(prog') = DeclParts(one) \cup {p}
        BY <1>4, <4>5, <4>6, AddedCase
      <4>8. DeclParts(prog') = DeclParts(prog) \cup {p}
        BY <4>3, <4>5, <4>7
      <4> QED BY <2>7, <4>7, <4>8
    <3>3. CASE prog # <<>>
      <4>1. prog[Len(prog)].k = "function"
        BY <1>3, <1>5, <2>7, <3>3 DEF LastDecl
      <4>2. prog' = AddCase(prog, p)
        BY <3>1, <3>3
      <4>3. /\ prog' \in Seq(FileDeclarations) /\ prog' # <<>> /\ prog'[Len(prog')].k = "function"
            /\ DeclParts(prog') = DeclParts(prog) \cup {p}
        BY <1>4, <2>1, <3>3, <4>1, <4>2, AddedCase
      <4> QED BY <2>7, <4>3
    <3> QED BY <3>2, <3>3
  <2> QED BY <1>5, <2>3, <2>4, <2>5, <2>6, <2>7
<1>8. LastDecl'
  BY <1>1, <1>5, <1>7 DEF LastDecl
<1>9. PICK new : new = IF p.k = "include" THEN {p.name} ELSE {}
  OBVIOUS
<1>10. /\ inFiles' \in Seq(Sources) /\ PiecesOf(inFiles') = PiecesOf(inFiles) \cup new
       /\ Len(inFiles') \in Nat /\ Len(inFiles) \in Nat /\ Len(inFiles') >= Len(inFiles)
       /\ \A j \in 1 .. Len(inFiles) : inFiles'[j] = inFiles[j]
       /\ new \subseteq IncludesRead
  <2>1. inFiles \in Seq(Sources) /\ Len(inFiles) \in Nat
    BY <1>3 DEF ReadTypes
  <2>2. new \subseteq IncludesRead
    BY <1>3, <1>6, <1>9 DEF Gathered
  <2>3. IncludesRead \subseteq Sources
    BY <1>3 DEF IncludesRead, Sources, Gathered
  <2>4. CASE p.k = "include"
    <3>1. p.name \in Sources /\ new = {p.name} /\ inFiles' = Append(inFiles, p.name)
      BY <1>1, <1>9, <2>2, <2>3, <2>4
    <3> QED BY <2>1, <2>2, <3>1, AppendPieces
  <2>5. CASE p.k # "include"
    BY <1>1, <1>9, <2>1, <2>2, <2>5
  <2> QED BY <2>4, <2>5
<1>11. ReadTypes'
  BY <1>1, <1>2, <1>3, <1>4, <1>7, <1>10, SameFiles DEF ReadTypes
<1>12. FilesRead' = FilesRead
  BY <1>1, <1>3, <1>10 DEF FilesRead, ReadTypes
<1>13. IncludesRead' = IncludesRead
  BY <1>1, <1>2, <1>12, SameFiles DEF IncludesRead
<1>14. Queued'
  <2>1. ASSUME NEW S \in SUBSET Sources, Closed(S) PROVE PiecesOf(inFiles') \subseteq S
    <3>1. PiecesOf(inFiles) \subseteq S
      BY <1>3, <2>1 DEF Queued
    <3>2. FilesRead \subseteq PiecesOf(inFiles) /\ FilesRead \subseteq DOMAIN disk
      BY <1>3 DEF FilesRead, PiecesOf, ReadTypes, Gathered
    <3>3. IncludesRead \subseteq S
      BY <2>1, <3>1, <3>2 DEF Closed, IncludesRead
    <3> QED BY <1>10, <3>1, <3>3
  <2>2. \A i \in DOMAIN inputs : inputs[i] \in PiecesOf(inFiles')
    BY <1>3, <1>10 DEF Queued
  <2>3. PiecesOf(inFiles)' = PiecesOf(inFiles')
    BY DEF PiecesOf
  <2> QED BY <1>1, <1>2, <2>1, <2>2, <2>3, SameFiles DEF Queued
<1>15. Gathered'
  <2>1. Parts(in)' = Parts(in') /\ IncludesIn(in)' = IncludesIn(in') /\ DeclParts(prog)' = DeclParts(prog')
        /\ PiecesOf(inFiles)' = PiecesOf(inFiles')
    BY DEF Parts, IncludesIn, DeclParts, PiecesOf
  <2>2. UNION {Parts(disk[f]) : f \in FilesRead}' = UNION {Parts(disk[f]) : f \in FilesRead}
    BY <1>1, <1>12 DEF Parts
  <2>3. DeclParts(prog') \cup Parts(in') = DeclParts(prog) \cup Parts(in)
    BY <1>6, <1>7
  <2>4. IncludesIn(in) = IncludesIn(in') \cup new
    BY <1>6, <1>9
  <2> QED BY <1>1, <1>3, <1>10, <1>12, <1>13, <2>1, <2>2, <2>3, <2>4 DEF Gathered
<1>16. AfterParsing'
  BY <1>1 DEF AfterParsing
<1> QED BY <1>8, <1>11, <1>14, <1>15, <1>16 DEF Reading

\* The next file of the list is read.
LEMMA NextSourceStep ==
  ASSUME WholeInv, pc = "passes", NextSource, UNCHANGED mainVars
  PROVE  Reading'
<1> DEFINE g == NextFile
<1>1. /\ stage = "parse" /\ in = <<>> /\ curInFile < Len(inFiles) /\ g \in DOMAIN disk
      /\ in' = disk[g] /\ curInFile' = curInFile + 1 /\ g = inFiles[curInFile + 1]
      /\ disk' = disk /\ inFiles' = inFiles /\ srcType' = srcType /\ last' = last /\ prog' = prog /\ stage' = stage
  BY DEF NextSource, MoreFiles, NextFile, NextInput
<1> HIDE DEF g
<1>2. /\ inputs' = inputs /\ command' = command /\ output' = output /\ headerOutput' = headerOutput
  BY DEF mainVars
<1>3. ReadTypes /\ LastDecl /\ Queued /\ Gathered /\ command \in Commands /\ disk = Emptied
  BY <1>1 DEF WholeInv, Reading, OutputInv, Arguments
<1>4. in' \in Seq(FilePieces)
  BY <1>1, <1>3, EmptiedFacts
<1>5. ReadTypes'
  <2>1. curInFile' \in 1 .. Len(inFiles)
    BY <1>1, <1>3 DEF ReadTypes
  <2> QED BY <1>1, <1>2, <1>3, <1>4, <2>1, SameFiles DEF ReadTypes
<1>6. LastDecl'
  BY <1>1, <1>3 DEF LastDecl
<1>7. Queued'
  BY <1>1, <1>2, <1>3, SameFiles DEF Queued, PiecesOf
<1>8. FilesRead' = FilesRead \cup {g}
  <2>1. curInFile \in Nat
    BY <1>3 DEF ReadTypes
  <2>2. 1 .. curInFile + 1 = (1 .. curInFile) \cup {curInFile + 1}
    BY <2>1
  <2> QED BY <1>1, <2>2 DEF FilesRead
<1>9. IncludesRead' = IncludesRead \cup Includes(g)
  BY <1>1, <1>2, <1>8, SameFiles DEF IncludesRead
<1>10. IncludesIn(in) = {} /\ Parts(in) = {} /\ Includes(g) = IncludesIn(disk[g])
  BY <1>1 DEF IncludesIn, Parts, Includes
<1>11. /\ IncludesIn(in)' = IncludesIn(disk[g]) /\ Parts(in)' = Parts(disk[g])
       /\ DeclParts(prog)' = DeclParts(prog) /\ PiecesOf(inFiles)' = PiecesOf(inFiles)
  BY <1>1 DEF IncludesIn, Parts, DeclParts, PiecesOf
<1>12. UNION {Parts(disk[f]) : f \in FilesRead}' = Parts(disk[g]) \cup UNION {Parts(disk[f]) : f \in FilesRead}
  <2>1. \A f : Parts(disk[f])' = Parts(disk[f])
    BY <1>1 DEF Parts
  <2>2. UNION {Parts(disk[f]) : f \in FilesRead}' = UNION {Parts(disk[f]) : f \in FilesRead'}
    BY <2>1
  <2>3. UNION {Parts(disk[f]) : f \in FilesRead \cup {g}} = Parts(disk[g]) \cup UNION {Parts(disk[f]) : f \in FilesRead}
    OBVIOUS
  <2> QED BY <1>8, <2>2, <2>3
<1>13. Gathered'
  BY <1>1, <1>3, <1>8, <1>9, <1>10, <1>11, <1>12 DEF Gathered
<1>14. AfterParsing'
  BY <1>1 DEF AfterParsing
<1> QED BY <1>5, <1>6, <1>7, <1>13, <1>14 DEF Reading

\* The later passes leave the program as it was parsed.
LEMMA LaterStep ==
  ASSUME WholeInv, pc = "passes", stage # "idle", UNCHANGED <<mainVars, disk, parserVars>>, AfterParsing'
  PROVE  Reading'
<1>1. /\ inputs' = inputs /\ command' = command /\ output' = output /\ headerOutput' = headerOutput
      /\ disk' = disk /\ inFiles' = inFiles /\ curInFile' = curInFile /\ srcType' = srcType
      /\ in' = in /\ last' = last /\ prog' = prog
  BY DEF mainVars, parserVars
<1>2. ReadTypes /\ LastDecl /\ Queued /\ Gathered
  BY DEF WholeInv, Reading
<1>3. ReadTypes'
  BY <1>1, <1>2, SameFiles DEF ReadTypes
<1>4. LastDecl'
  BY <1>1, <1>2 DEF LastDecl
<1>5. Queued'
  BY <1>1, <1>2, SameFiles DEF Queued, PiecesOf
<1>6. FilesRead' = FilesRead
  BY <1>1 DEF FilesRead
<1>7. IncludesRead' = IncludesRead
  BY <1>1, <1>6, SameFiles DEF IncludesRead
<1>8. /\ IncludesIn(in)' = IncludesIn(in) /\ Parts(in)' = Parts(in)
      /\ DeclParts(prog)' = DeclParts(prog) /\ PiecesOf(inFiles)' = PiecesOf(inFiles)
      /\ UNION {Parts(disk[f]) : f \in FilesRead}' = UNION {Parts(disk[f]) : f \in FilesRead}
  BY <1>1, <1>6 DEF IncludesIn, Parts, DeclParts, PiecesOf
<1>9. Gathered'
  BY <1>1, <1>2, <1>6, <1>7, <1>8 DEF Gathered
<1> QED BY <1>3, <1>4, <1>5, <1>9 DEF Reading

LEMMA PassesKeepWhole ==
  ASSUME WholeInv, Passes
  PROVE  WholeInv'
<1>1. pc = "passes" /\ UNCHANGED mainVars /\ [CNext]_<<driverVars, mainVars>>
  BY DEF Passes, CNext
<1>2. stage # "idle" /\ disk' = disk
  BY DEF Passes, Parse, ReadOn, Check, Shift, SyntaxError, Parsed, NextSource, MissingFile,
         AcceptScopeGen, AcceptTypeChecker, AcceptOptimizer, Accept, parserVars
<1>3. Reading
  BY <1>1, <1>2 DEF WholeInv
<1>4. CASE Shift
  BY <1>1, <1>2, <1>4, ShiftStep, Continuing DEF Shift
<1>5. CASE NextSource
  BY <1>1, <1>2, <1>5, NextSourceStep, Continuing DEF NextSource
<1>6. CASE SyntaxError
  BY <1>1, <1>6, Failing DEF SyntaxError, Return
<1>7. CASE MissingFile
  <2>1. CASE last = "header"
    BY <1>1, <1>7, <2>1, Failing DEF MissingFile, Return
  <2>2. CASE last # "header"
    <3>1. stage' = "scope" /\ in = <<>> /\ NextFile \notin DOMAIN disk /\ UNCHANGED parserVars
      BY <1>7, <2>2 DEF MissingFile
    <3>2. AfterParsing'
      BY <1>2, <3>1 DEF AfterParsing, NextFile, parserVars
    <3> QED BY <1>1, <1>2, <3>1, <3>2, LaterStep, Continuing
  <2> QED BY <2>1, <2>2
<1>8. CASE Parsed
  <2>1. stage' = "scope" /\ in = <<>> /\ ~MoreFiles /\ UNCHANGED parserVars
    BY <1>8 DEF Parsed
  <2>2. curInFile = Len(inFiles)
    BY <1>3, <2>1 DEF Reading, ReadTypes, MoreFiles
  <2>3. AfterParsing'
    BY <2>1, <2>2 DEF AfterParsing, parserVars
  <2> QED BY <1>1, <1>2, <2>1, <2>3, LaterStep, Continuing
<1>9. CASE AcceptScopeGen
  <2>1. /\ stage = "scope" /\ UNCHANGED parserVars
        /\ stage' = "types" \/ (stage' = "idle" /\ result' = 2)
    BY <1>9 DEF AcceptScopeGen, Accept, Return
  <2>2. CASE stage' = "types"
    <3>1. AfterParsing'
      BY <1>2, <1>3, <2>1, <2>2 DEF Reading, AfterParsing, NextFile, parserVars
    <3> QED BY <1>1, <1>2, <2>1, <2>2, <3>1, LaterStep, Continuing
  <2> QED BY <1>1, <2>1, <2>2, Failing
<1>10. CASE AcceptTypeChecker
  <2>1. /\ stage = "types" /\ UNCHANGED parserVars
        /\ stage' = "optimize" \/ (stage' = "idle" /\ result' = 3)
    BY <1>10 DEF AcceptTypeChecker, Accept, Return
  <2>2. CASE stage' = "optimize"
    <3>1. AfterParsing'
      BY <1>2, <1>3, <2>1, <2>2 DEF Reading, AfterParsing, NextFile, parserVars
    <3> QED BY <1>1, <1>2, <2>1, <2>2, <3>1, LaterStep, Continuing
  <2> QED BY <1>1, <2>1, <2>2, Failing
<1>11. CASE AcceptOptimizer
  <2>1. /\ stage = "optimize" /\ UNCHANGED parserVars
        /\ (stage' = "generate" /\ TypeDecls = {}) \/ (stage' = "idle" /\ result' = 4)
    BY <1>11 DEF AcceptOptimizer, Accept, Return
  <2>2. CASE stage' = "generate" /\ TypeDecls = {}
    <3>1. TypeDecls' = {}
      BY <2>1, <2>2 DEF TypeDecls, parserVars
    <3>2. AfterParsing'
      BY <1>2, <1>3, <2>1, <2>2, <3>1 DEF Reading, AfterParsing, NextFile, parserVars
    <3> QED BY <1>1, <1>2, <2>1, <2>2, <3>2, LaterStep, Continuing
  <2> QED BY <1>1, <2>1, <2>2, Failing
<1> QED BY <1>4, <1>5, <1>6, <1>7, <1>8, <1>9, <1>10, <1>11 DEF Passes, Parse, ReadOn, Check

\* Before the files are read.
LEMMA ArgumentsKeepWhole ==
  ASSUME WholeInv,
         \/ ShowHelp \/ ChooseBackend \/ ChooseOutput \/ ChooseHeader \/ ChooseLevel
         \/ NoSuchOption \/ AddInput \/ NoInputs
  PROVE  WholeInv'
<1>1. OutputInv /\ OutputInv'
  BY OutputNext DEF WholeInv, CNext
<1>2. command \in Commands /\ command.argv \in Seq(STRING) /\ at \in Nat \ {0} /\ pc = "args"
  BY <1>1, CommandsAssumption
  DEF OutputInv, Arguments, ShowHelp, InArgs, ChooseBackend, ChooseOutput, ChooseHeader, ChooseLevel,
      NoSuchOption, AddInput, NoInputs
<1>3. /\ pc' \in {"args", "exit"} /\ curInFile' = curInFile
      /\ pc' = "exit" => at' <= Len(command'.argv) \/ inputs' = <<>>
  BY <1>1, <1>2
  DEF ShowHelp, InArgs, HasNext, Exit, ChooseBackend, ChooseOutput, ChooseHeader, ChooseLevel,
      NoSuchOption, AddInput, NoInputs, driverVars, parserVars, OutputInv, Arguments
<1>4. inputs' \in Seq(STRING)
  <2>1. CASE AddInput
    <3>1. arg \in STRING
      BY <1>2, <2>1 DEF AddInput, InArgs, arg
    <3> QED BY <2>1, <3>1 DEF AddInput, WholeInv
  <2>2. CASE ~AddInput
    <3>1. inputs' = inputs
      BY <2>2 DEF ShowHelp, ChooseBackend, ChooseOutput, ChooseHeader, ChooseLevel, NoSuchOption, NoInputs
    <3> QED BY <3>1 DEF WholeInv
  <2> QED BY <2>1, <2>2
<1>5. ~(pc' = "exit" /\ Opened')
  <2>1. at' \in Nat /\ Len(command'.argv) \in Nat
    <3>1. command' \in Commands
      BY <1>1 DEF OutputInv, Arguments
    <3>2. command'.argv \in Seq(STRING)
      BY <3>1, CommandsAssumption
    <3> QED BY <1>1, <3>2 DEF OutputInv, Arguments
  <2> QED BY <1>3, <2>1 DEF Opened
<1> QED BY <1>1, <1>2, <1>3, <1>4, <1>5 DEF WholeInv

LEMMA OpenKeepsWhole ==
  ASSUME WholeInv, OpenOutputs
  PROVE  WholeInv'
<1>1. OutputInv'
  BY OutputNext DEF WholeInv, CNext
<1>2. /\ pc = "args" /\ pc' = "compile" /\ inputs' = inputs /\ command' = command
      /\ output' = output /\ headerOutput' = headerOutput /\ curInFile' = curInFile
      /\ disk' = [f \in DOMAIN disk \cup {output, headerOutput} |->
                     IF f \in {output, headerOutput} THEN <<>> ELSE disk[f]]
  BY DEF OpenOutputs, parserVars
<1>3. disk = command.disk
  BY <1>2 DEF WholeInv, OutputInv, Touched
<1>4. disk' = Emptied'
  BY <1>2, <1>3 DEF Emptied
<1> QED BY <1>1, <1>2, <1>4 DEF WholeInv

\* All that was parsed are functions, and PartsOf yields what they are made of.
LEMMA PartsOfFunctions ==
  ASSUME NEW ds \in Seq(FileDeclarations), \A i \in DOMAIN ds : ds[i].k = "function"
  PROVE  PartsOf(ds) = DeclParts(ds)
<1>1. \A i \in DOMAIN ds : PartsOfDecl(ds[i]) =
          {ds[i].cases[j] : j \in DOMAIN ds[i].cases}
             \cup (IF ds[i].anon THEN {} ELSE {[k |-> "header", name |-> ds[i].name, sig |-> ds[i].sig]})
  BY DEF PartsOfDecl, PiecesOf
<1>2. ASSUME NEW x \in PartsOf(ds) PROVE x \in DeclParts(ds)
  <2>1. \/ \E i \in DOMAIN ds : x \in {ds[i].cases[j] : j \in DOMAIN ds[i].cases}
        \/ \E i \in DOMAIN ds : ~ds[i].anon /\ x = [k |-> "header", name |-> ds[i].name, sig |-> ds[i].sig]
    BY <1>2 DEF PartsOf
  <2>2. \E i \in DOMAIN ds : x \in PartsOfDecl(ds[i])
    BY <1>1, <2>1
  <2> QED BY <2>2 DEF DeclParts
<1>3. ASSUME NEW x \in DeclParts(ds) PROVE x \in PartsOf(ds)
  <2>1. PICK i \in DOMAIN ds : x \in PartsOfDecl(ds[i])
    BY <1>3 DEF DeclParts
  <2>2. CASE x \in {ds[i].cases[j] : j \in DOMAIN ds[i].cases}
    BY <2>2 DEF PartsOf
  <2>3. CASE ~ds[i].anon /\ x = [k |-> "header", name |-> ds[i].name, sig |-> ds[i].sig]
    BY <2>3 DEF PartsOf
  <2> QED BY <1>1, <2>1, <2>2, <2>3
<1> QED BY <1>2, <1>3

\* If no file is missing, the files read are those that belong to the program.
LEMMA AllRead ==
  ASSUME ReadTypes, Queued, Gathered, in = <<>>,
         curInFile = Len(inFiles) \/ NextFile \notin DOMAIN disk,
         Reachable \subseteq DOMAIN disk
  PROVE  FilesRead = Reachable
<1>1. /\ inFiles \in Seq(Sources) /\ curInFile \in 1 .. Len(inFiles) /\ Len(inFiles) \in Nat
      /\ DOMAIN inFiles = 1 .. Len(inFiles)
  BY DEF ReadTypes
<1>2. PiecesOf(inFiles) \subseteq Sources
  BY <1>1 DEF PiecesOf
<1>3. PiecesOf(inFiles) \subseteq Reachable
  BY <1>2 DEF Queued, Reachable
<1>4. curInFile = Len(inFiles)
  <2>1. SUFFICES ASSUME curInFile # Len(inFiles) PROVE FALSE
    OBVIOUS
  <2>2. curInFile + 1 \in DOMAIN inFiles
    <3>1. \A n \in Nat : \A c \in 1 .. n : c # n => c + 1 \in 1 .. n
      OBVIOUS
    <3> QED BY <1>1, <2>1, <3>1
  <2>3. NextFile \in PiecesOf(inFiles)
    BY <2>2 DEF NextFile, PiecesOf
  <2> QED BY <1>3, <2>1, <2>3
<1>5. FilesRead = PiecesOf(inFiles)
  BY <1>1, <1>4 DEF FilesRead, PiecesOf
<1>6. IncludesIn(in) = {}
  BY DEF IncludesIn
<1>7. Closed(PiecesOf(inFiles))
  <2>1. ASSUME NEW f \in PiecesOf(inFiles) PROVE Includes(f) \subseteq PiecesOf(inFiles)
    <3>1. Includes(f) \subseteq IncludesRead
      BY <1>5, <2>1 DEF IncludesRead
    <3> QED BY <1>6, <3>1 DEF Gathered
  <2> QED BY <2>1 DEF Closed, Queued
<1>8. Reachable \subseteq PiecesOf(inFiles)
  BY <1>2, <1>7 DEF Reachable
<1> QED BY <1>3, <1>5, <1>8

LEMMA SameWhole ==
  ASSUME disk' = disk, inputs' = inputs, command' = command, output' = output, headerOutput' = headerOutput,
         be' = be
  PROVE  WholeProgram => WholeProgram'
<1>1. Reachable' = Reachable
  BY SameFiles
<1>2. \A f : Parts(disk[f])' = Parts(disk[f])
  BY DEF Parts
<1>3. UNION {Parts(disk[f]) : f \in Reachable}' = UNION {Parts(disk[f]) : f \in Reachable}
  BY <1>1, <1>2
<1>4. PartsOf(disk[output][1].of)' = PartsOf(disk[output][1].of)
  BY DEF PartsOf
<1> QED BY <1>1, <1>3, <1>4 DEF WholeProgram

LEMMA GenerateKeepsWhole ==
  ASSUME WholeInv, Generate
  PROVE  WholeInv'
<1>1. /\ pc = "passes" /\ stage = "generate" /\ stage' = "idle" /\ result' \in {result, 5}
      /\ Ungenerated # {} => result' = 5
      /\ UNCHANGED <<mainVars, parserVars>>
      /\ disk' = [f \in DOMAIN disk |-> IF Written(f) THEN <<IF f = output THEN Generated ELSE [k |-> "std"]>> ELSE disk[f]]
  BY DEF Generate, Accept, Return
<1>2. /\ pc' = "passes" /\ command' = command /\ inputs' = inputs
      /\ output' = output /\ headerOutput' = headerOutput /\ be' = be /\ prog' = prog
  BY <1>1 DEF mainVars, parserVars
<1>3. OutputInv'
  BY OutputNext DEF WholeInv, CNext
<1>4. /\ command \in Commands /\ disk = Emptied /\ inputs \in Seq(STRING)
      /\ ReadTypes /\ Queued /\ Gathered /\ TypeDecls = {}
      /\ in = <<>> /\ (curInFile = Len(inFiles) \/ NextFile \notin DOMAIN disk)
  BY <1>1 DEF WholeInv, OutputInv, Arguments, Reading, AfterParsing
<1>5. ASSUME result' = 0 PROVE WholeProgram'
  <2>1. ~NoMain
    BY <1>1, <1>5 DEF Ungenerated
  <2>2. /\ DOMAIN disk' = DOMAIN disk /\ output \in DOMAIN disk
        /\ disk'[output] = <<Generated>>
        /\ \A f \in DOMAIN disk : f \notin {output, headerOutput} => disk'[f] = disk[f]
    BY <1>1, <1>4, <2>1, EmptiedFacts DEF Written
  <2>3. \A f \in DOMAIN disk : Includes(f)' = Includes(f)
    <3>1. ASSUME NEW f \in DOMAIN disk, f \in {output, headerOutput}
          PROVE  Includes(f)' = {} /\ Includes(f) = {}
      <4>1. disk[f] = <<>>
        BY <1>4, <3>1, EmptiedFacts
      <4>2. disk'[f] = <<>> \/ (\E x : disk'[f] = <<x>> /\ x.k # "include")
        BY <1>1, <4>1 DEF Generated
      <4> QED BY <4>1, <4>2 DEF Includes
    <3>2. ASSUME NEW f \in DOMAIN disk, f \notin {output, headerOutput}
          PROVE  Includes(f)' = Includes(f)
      BY <2>2, <3>2 DEF Includes
    <3> QED BY <3>1, <3>2
  <2>4. Sources' = Sources /\ \A S : Closed(S)' <=> Closed(S)
    BY <1>2, <2>2, <2>3 DEF Sources, Closed
  <2>5. Reachable' = Reachable
    BY <2>4 DEF Reachable
  <2>6. SUFFICES ASSUME Reachable \subseteq DOMAIN command.disk \ {output, headerOutput}
        PROVE  /\ Len(disk'[output]) = 1
               /\ disk'[output][1].by = be
               /\ PartsOf(disk'[output][1].of) = UNION {Parts(disk'[f]) : f \in Reachable}
    <3>1. \A f : Parts(disk[f])' = Parts(disk'[f])
      BY DEF Parts
    <3>2. UNION {Parts(disk[f]) : f \in Reachable}' = UNION {Parts(disk'[f]) : f \in Reachable}
      BY <2>5, <3>1
    <3>3. PartsOf(disk[output][1].of)' = PartsOf(disk'[output][1].of)
      BY <1>2 DEF PartsOf
    <3> QED BY <1>2, <2>5, <3>2, <3>3 DEF WholeProgram
  <2>7. Reachable \subseteq DOMAIN disk
    BY <1>4, <2>6, EmptiedFacts
  <2>8. FilesRead = Reachable
    BY <1>4, <2>7, AllRead
  <2>9. Parts(in) = {}
    BY <1>4 DEF Parts
  <2>10. DeclParts(prog) = UNION {Parts(disk[f]) : f \in Reachable}
    BY <1>4, <2>8, <2>9 DEF Gathered
  <2>11. \A f \in Reachable : disk'[f] = disk[f]
    BY <2>2, <2>6, <2>7
  <2>12. UNION {Parts(disk'[f]) : f \in Reachable} = UNION {Parts(disk[f]) : f \in Reachable}
    BY <2>11
  <2>13. prog \in Seq(FileDeclarations) /\ \A i \in DOMAIN prog : prog[i].k = "function"
    <3>1. prog \in Seq(FileDeclarations)
      BY <1>4 DEF ReadTypes
    <3>2. \A i \in DOMAIN prog : prog[i].k # "type"
      BY <1>4 DEF TypeDecls
    <3> QED BY <3>1, <3>2 DEF FileDeclarations, FileFunctions, TypePieces
  <2>14. PartsOf(prog) = DeclParts(prog)
    BY <2>13, PartsOfFunctions
  <2> QED BY <2>2, <2>10, <2>12, <2>14 DEF Generated
<1>6. ~(stage' # "idle") /\ inputs' \in Seq(STRING)
  BY <1>1, <1>2, <1>4
<1> QED BY <1>2, <1>3, <1>5, <1>6 DEF WholeInv

LEMMA WholeInit == CInit => WholeInv
<1> SUFFICES ASSUME CInit PROVE WholeInv
  OBVIOUS
<1>1. OutputInv
  BY OutputInit
<1>2. pc = "args" /\ curInFile = 0 /\ inputs = <<>>
  BY DEF CInit, DriverInit
<1> QED BY <1>1, <1>2 DEF WholeInv

LEMMA WholeNext == WholeInv /\ [CNext]_<<driverVars, mainVars>> => WholeInv'
<1> SUFFICES ASSUME WholeInv, [CNext]_<<driverVars, mainVars>> PROVE WholeInv'
  OBVIOUS
<1>1. CASE ShowHelp \/ ChooseBackend \/ ChooseOutput \/ ChooseHeader \/ ChooseLevel
           \/ NoSuchOption \/ AddInput \/ NoInputs
  BY <1>1, ArgumentsKeepWhole
<1>2. CASE OpenOutputs
  BY <1>2, OpenKeepsWhole
<1>3. CASE CompileFiles
  BY <1>3, StartReading
<1>4. CASE Passes
  BY <1>4, PassesKeepWhole
<1>5. CASE Generate
  BY <1>5, GenerateKeepsWhole
<1>6. CASE ReturnResult
  <2>1. /\ disk' = disk /\ pc = "passes" /\ stage = "idle" /\ pc' = "exit" /\ exitCode' = result
        /\ inputs' = inputs /\ command' = command /\ output' = output /\ headerOutput' = headerOutput /\ be' = be
    BY <1>6 DEF ReturnResult, Exit, driverVars
  <2>2. OutputInv'
    BY OutputNext DEF WholeInv
  <2>3. WholeProgram => WholeProgram'
    BY <2>1, SameWhole
  <2> QED BY <2>1, <2>2, <2>3 DEF WholeInv
<1>7. CASE UNCHANGED <<driverVars, mainVars>>
  <2>1. /\ disk' = disk /\ pc' = pc /\ stage' = stage /\ exitCode' = exitCode /\ result' = result
        /\ inputs' = inputs /\ command' = command /\ output' = output /\ headerOutput' = headerOutput /\ be' = be
        /\ at' = at /\ UNCHANGED <<mainVars, parserVars>> /\ curInFile' = curInFile
    BY <1>7 DEF driverVars, mainVars, parserVars
  <2>2. OutputInv'
    BY OutputNext DEF WholeInv
  <2>3. WholeProgram => WholeProgram'
    BY <2>1, SameWhole
  <2>4. Opened' <=> Opened
    BY <2>1 DEF Opened
  <2>5. ASSUME pc = "passes", stage # "idle" PROVE Reading'
    <3>1. AfterParsing'
      BY <2>1, <2>5 DEF WholeInv, Reading, AfterParsing, NextFile, TypeDecls, parserVars
    <3> QED BY <2>1, <2>5, <3>1, LaterStep
  <2> QED BY <2>1, <2>2, <2>3, <2>4, <2>5, SameFiles DEF WholeInv
<1> QED BY <1>1, <1>2, <1>3, <1>4, <1>5, <1>6, <1>7 DEF CNext

\* A result of 0 means that the output is the code of the whole program, for
\* any files, however they include each other (Compiler::compile, Driver::nextInput).
THEOREM WholeProgramCompiled == CSpec => []ZeroMeansWholeProgram
<1>1. CSpec => []WholeInv
  BY WholeInit, WholeNext, PTL DEF CSpec
<1>2. WholeInv => ZeroMeansWholeProgram
  BY DEF WholeInv, WholeProgram, ZeroMeansWholeProgram
<1> QED BY <1>1, <1>2, PTL

---------------------------------------------------------------------------
(* The interpreter. *)

Junk == [k |-> "junk"]
\* The provers do not know that these are strings.
Strings == STRING \cup {AnonName, "unknown", "grown"}
Headers == {h \in [k : {"header"}, name : Strings, sig : Strings] : h.name # AnonName}
Bodies == {line \in Lines : line.k \in {"case", "expr"}}
Pieces == Lines \cup Headers \cup {Junk}

FunctionDecls ==
    {f \in [k : {"function"}, name : Strings, sig : Strings, anon : BOOLEAN, cases : Seq(Bodies)] :
        f.anon <=> f.name = AnonName}
TypeLines == {line \in Lines : line.k = "type"}
Declarations == FunctionDecls \cup TypeLines

Calls == UNION {b.calls : b \in Bodies}
CompiledFunctions == [name : Strings, sig : Strings, calls : SUBSET Calls]

Texts == in \in Seq(Pieces) /\ input \in Seq(Pieces) /\ inputCase \in Lines \cup {Blank}

\* A case goes to the function that stands last, and there is one.
Parsing ==
    /\ prog \in Seq(Declarations)
    /\ last = "none" => prog = <<>>
    /\ last \in {"header", "case", "expr"} => prog # <<>> /\ prog[Len(prog)] \in FunctionDecls

IsDeclared(f) == f.name \in DOMAIN decls /\ decls[f.name] = f.sig

Passed ==
    /\ stage \in {"types", "optimize", "generate"} =>
          \A i \in Functions : ~prog[i].anon => IsDeclared(prog[i])
    /\ stage \in {"optimize", "generate"} =>
          \A i \in Functions : \A j \in DOMAIN prog[i].cases :
              \A call \in prog[i].cases[j].calls : IsDeclared(call)

Jitted ==
    /\ modules \in Seq(SUBSET CompiledFunctions)
    /\ \A d \in Code : d.name # AnonName => IsDeclared(d)
    /\ \A d \in Code : \A call \in d.calls : call.name # AnonName /\ IsDeclared(call)

LinkInv == Texts /\ Parsing /\ Passed /\ Jitted

---------------------------------------------------------------------------
(* Lines and declarations. *)

\* A piece is what its kind says.
LEMMA PieceKinds ==
    ASSUME NEW p \in Pieces
    PROVE  /\ p.k = "header" => p \in Headers
           /\ p.k \in {"case", "expr"} => p \in Bodies
           /\ p.k = "type" => p \in TypeLines
<1>1. p \in Lines /\ p.k = "header" => p \in Headers
  <2>1. p \in Lines /\ p.k = "header" => p \in [k : {"header"}, name : STRING, sig : STRING] /\ p.name # AnonName
    BY LinesAssumption
  <2> QED BY <2>1 DEF Headers, Strings
<1> QED BY <1>1 DEF Pieces, Headers, Bodies, TypeLines, Junk

\* No body calls the anonymous function.
LEMMA CallsHaveNames ==
    ASSUME NEW b \in Bodies, NEW call \in b.calls
    PROVE  call.name # AnonName
BY LinesAssumption DEF Bodies

\* The functions of a program are declarations of functions.
LEMMA FunctionsOf ==
    ASSUME Parsing, NEW i \in Functions
    PROVE  prog[i] \in FunctionDecls /\ i \in 1..Len(prog)
BY DEF Parsing, Functions, Declarations, TypeLines

\* A case can be added to the function that stands last.
LEMMA AddingACase ==
    ASSUME NEW ds \in Seq(Declarations), ds # <<>>, ds[Len(ds)] \in FunctionDecls, NEW p \in Bodies
    PROVE  /\ AddCase(ds, p) \in Seq(Declarations)
           /\ AddCase(ds, p) # <<>>
           /\ AddCase(ds, p)[Len(AddCase(ds, p))] \in FunctionDecls
<1> DEFINE n == Len(ds)
           f == [ds[n] EXCEPT !.cases = Append(@, p)]
<1>1. n \in 1..Len(ds)
  OBVIOUS
<1>2. f \in FunctionDecls
  <2>1. ds[n] \in [k : {"function"}, name : Strings, sig : Strings, anon : BOOLEAN, cases : Seq(Bodies)]
    BY DEF FunctionDecls
  <2>2. f \in [k : {"function"}, name : Strings, sig : Strings, anon : BOOLEAN, cases : Seq(Bodies)]
    BY <2>1
  <2>3. f.anon = ds[n].anon
    BY <2>1
  <2>4. f.name = ds[n].name
    BY <2>1
  <2> HIDE DEF f
  <2> QED BY <2>2, <2>3, <2>4 DEF FunctionDecls
<1>3. AddCase(ds, p) = [ds EXCEPT ![n] = f]
  BY DEF AddCase
<1>4. f \in Declarations
  BY <1>2 DEF Declarations
<1> HIDE DEF f
<1> QED BY <1>1, <1>2, <1>3, <1>4

---------------------------------------------------------------------------
(* The invariant. *)

\* A step that leaves the program, the names and the code alone keeps it, if
\* it leads to no pass that trusts more than the one before.
LEMMA Frame ==
    ASSUME LinkInv,
           /\ in' = in /\ input' = input /\ inputCase' = inputCase /\ prog' = prog /\ last' = last
           /\ decls' = decls /\ modules' = modules,
           \/ stage' = stage
           \/ stage' \notin {"types", "optimize", "generate"}
           \/ stage = "optimize" /\ stage' = "generate"
    PROVE  LinkInv'
<1>1. Texts' /\ Parsing'
  BY DEF LinkInv, Texts, Parsing
<1>2. Jitted'
  BY DEF LinkInv, Jitted, Code, IsDeclared
<1>3. Passed'
  BY DEF LinkInv, Passed, Functions, IsDeclared
<1> QED BY <1>1, <1>2, <1>3 DEF LinkInv

LEMMA LinkInit == IInit => LinkInv
BY DEF IInit, DriverInit, LinkInv, Texts, Parsing, Passed, Jitted, Code

\* What the parser shifts keeps the program one.
LEMMA ShiftParses ==
    ASSUME LinkInv, Shift
    PROVE  Parsing' /\ in' \in Seq(Pieces)
<1> DEFINE p == Head(in)
<1>1. p \in Pieces /\ in' \in Seq(Pieces)
  BY DEF LinkInv, Texts, Shift
<1>2. Fits(p) /\ prog' = Reduce(p) /\ last' = IF p.k \in {"type", "include"} THEN "decl" ELSE p.k
  BY DEF Shift
<1>3. Parsing
  BY DEF LinkInv
<1> HIDE DEF p
<1>4. CASE p.k = "header"
  <2>1. Function(p) \in FunctionDecls
    BY <1>1, <1>4, PieceKinds DEF Function, FunctionDecls, Headers
  <2>2. prog' = Append(prog, Function(p)) /\ last' = "header"
    BY <1>2, <1>4 DEF Reduce
  <2> QED BY <1>1, <1>3, <2>1, <2>2 DEF Parsing, Declarations
<1>5. CASE p.k = "type"
  <2>1. p \in TypeLines
    BY <1>1, <1>5, PieceKinds
  <2>2. prog' = Append(prog, p) /\ last' = "decl"
    BY <1>2, <1>5 DEF Reduce
  <2> QED BY <1>1, <1>3, <2>1, <2>2 DEF Parsing, Declarations
<1>6. CASE p.k = "include"
  <2>1. prog' = prog /\ last' = "decl"
    BY <1>2, <1>6 DEF Reduce
  <2> QED BY <1>1, <1>3, <2>1 DEF Parsing
<1>7. CASE p.k = "case"
  <2>1. p \in Bodies
    BY <1>1, <1>7, PieceKinds
  <2>2. last \in {"header", "case"}
    BY <1>2, <1>7 DEF Fits, After
  <2>3. prog' = AddCase(prog, p) /\ last' = "case"
    BY <1>2, <1>7 DEF Reduce
  <2> QED BY <1>1, <1>3, <2>1, <2>2, <2>3, AddingACase DEF Parsing
<1>8. CASE p.k = "expr"
  <2> DEFINE ds == IF prog = <<>> THEN <<AnonFunction>> ELSE prog
  <2>1. p \in Bodies
    BY <1>1, <1>8, PieceKinds
  <2>2. last \in {"none", "expr"}
    BY <1>2, <1>8 DEF Fits, After
  <2>3. AnonFunction \in FunctionDecls
    <3>1. <<>> \in Seq(Bodies)
      OBVIOUS
    <3>2. AnonFunction \in [k : {"function"}, name : Strings, sig : Strings, anon : BOOLEAN, cases : Seq(Bodies)]
      BY <3>1 DEF AnonFunction, Strings
    <3>3. AnonFunction.name = AnonName /\ AnonFunction.anon
      BY DEF AnonFunction
    <3> QED BY <3>2, <3>3 DEF FunctionDecls
  <2>4. ds \in Seq(Declarations) /\ ds # <<>> /\ ds[Len(ds)] \in FunctionDecls
    <3>1. CASE prog = <<>>
      <4>1. ds = <<AnonFunction>> /\ AnonFunction \in Declarations
        BY <2>3, <3>1 DEF Declarations
      <4>2. Len(ds) = 1 /\ ds[1] = AnonFunction /\ ds # <<>>
        BY <4>1
      <4> HIDE DEF ds
      <4> QED BY <2>3, <4>1, <4>2
    <3>2. CASE prog # <<>>
      <4>1. ds = prog /\ last = "expr"
        BY <1>3, <2>2, <3>2 DEF Parsing
      <4> QED BY <1>3, <3>2, <4>1 DEF Parsing
    <3> QED BY <3>1, <3>2
  <2>5. prog' = AddCase(ds, p) /\ last' = "expr"
    BY <1>2, <1>8 DEF Reduce
  <2> HIDE DEF ds
  <2> QED BY <1>1, <2>1, <2>4, <2>5, AddingACase DEF Parsing
<1> QED BY <1>1, <1>2, <1>4, <1>5, <1>6, <1>7, <1>8 DEF Fits, After

\* If no name is taken, the first of a name is the only one.
LEMMA FirstIsOnly ==
    ASSUME Parsing, Redeclared = {}, NEW i \in Functions, ~prog[i].anon
    PROVE  /\ prog[i].name \notin DOMAIN decls
           /\ FirstSig(prog[i].name) = prog[i].sig
<1> DEFINE n == prog[i].name
           First(h) == prog[h].name = n /\ Above(h) = {}
           c == CHOOSE h \in Functions : First(h)
<1>1. n \notin DOMAIN decls /\ Above(i) = {}
  BY DEF Redeclared
<1>2. c \in Functions /\ First(c)
  BY <1>1
<1>3. c \in Nat /\ i \in Nat /\ c >= 1 /\ i >= 1
  BY <1>2, FunctionsOf DEF Parsing
<1>4. prog[c].k = prog[i].k
  BY <1>2 DEF Functions
<1> HIDE DEF c
<1>5. ~(c < i)
  BY <1>1, <1>2, <1>3, <1>4 DEF Above
<1>6. ~(i < c)
  BY <1>1, <1>2, <1>3, <1>4 DEF Above
<1>7. c = i
  BY <1>3, <1>5, <1>6
<1>8. FirstSig(n) = prog[c].sig
  BY DEF FirstSig, c
<1> QED BY <1>1, <1>7, <1>8

\* What was declared stays declared, with the signature it has.
LEMMA DeclaringKeeps ==
    ASSUME AcceptScopeGen, NEW f, IsDeclared(f)
    PROVE  f.name \in DOMAIN decls' /\ decls'[f.name] = f.sig
BY DEF AcceptScopeGen, Declared, IsDeclared

LEMMA ScopeStep ==
    ASSUME LinkInv, AcceptScopeGen, UNCHANGED replVars
    PROVE  LinkInv'
<1>1. Texts' /\ Parsing'
  BY DEF LinkInv, Texts, Parsing, AcceptScopeGen, parserVars, replVars
<1>2. prog' = prog /\ Functions' = Functions /\ Code' = Code /\ modules' = modules
  BY DEF AcceptScopeGen, parserVars, replVars, Functions, Code
<1>3. Jitted'
  BY <1>2, DeclaringKeeps DEF LinkInv, Jitted, IsDeclared
<1>4. Passed'
  <2>1. CASE Redeclared # {}
    BY <2>1 DEF AcceptScopeGen, Accept, Return, Passed
  <2>2. CASE Redeclared = {}
    <3>1. stage' = "types"
      BY <2>2 DEF AcceptScopeGen, Accept
    <3>2. ASSUME NEW i \in Functions, ~prog[i].anon
          PROVE  prog[i].name \in DOMAIN decls' /\ decls'[prog[i].name] = prog[i].sig
      <4>1. prog[i].name \in Names
        BY DEF Names
      <4>2. prog[i].name \notin DOMAIN decls /\ FirstSig(prog[i].name) = prog[i].sig
        BY <2>2, <3>2, FirstIsOnly DEF LinkInv
      <4> QED BY <4>1, <4>2 DEF AcceptScopeGen, Declared
    <3> QED BY <1>2, <3>1, <3>2 DEF Passed, IsDeclared
  <2> QED BY <2>1, <2>2
<1> QED BY <1>1, <1>3, <1>4 DEF LinkInv

\* The type checker lets only declared calls through.
LEMMA TypeStep ==
    ASSUME LinkInv, AcceptTypeChecker, UNCHANGED replVars
    PROVE  LinkInv'
<1>1. Texts' /\ Parsing' /\ Jitted'
  BY DEF LinkInv, Texts, Parsing, Jitted, Code, IsDeclared, AcceptTypeChecker, parserVars, replVars
<1>2. Passed'
  <2>1. CASE IllTyped # {}
    BY <2>1 DEF AcceptTypeChecker, Accept, Return, Passed
  <2>2. CASE IllTyped = {}
    <3>1. stage = "types" /\ stage' = "optimize" /\ prog' = prog /\ decls' = decls
      BY <2>2 DEF AcceptTypeChecker, Accept, parserVars
    <3>2. ASSUME NEW i \in Functions, NEW j \in DOMAIN prog[i].cases
          PROVE  WellTyped(prog[i].cases[j])
      <4> SUFFICES ASSUME ~WellTyped(prog[i].cases[j]) PROVE FALSE
        OBVIOUS
      <4>1. <<i, j>> \in IllTyped
        BY DEF IllTyped
      <4> QED BY <2>2, <4>1
    <3> QED BY <3>1, <3>2 DEF LinkInv, Passed, WellTyped, IsDeclared, Functions
  <2> QED BY <2>1, <2>2
<1> QED BY <1>1, <1>2 DEF LinkInv

\* The module that is added holds what the passes have let through.
LEMMA ModuleStep ==
    ASSUME LinkInv, AddModule
    PROVE  LinkInv'
<1> DEFINE new == {CodeOf(prog[i]) : i \in Functions}
<1>1. Texts' /\ Parsing' /\ Passed'
  BY DEF LinkInv, Texts, Parsing, Passed, AddModule, parserVars
<1>2. modules' = Append(modules, new) /\ decls' = decls /\ stage = "generate"
  BY DEF AddModule
<1>3. modules \in Seq(SUBSET CompiledFunctions)
  BY DEF LinkInv, Jitted
<1>4. ASSUME NEW i \in Functions, NEW call \in CodeOf(prog[i]).calls
      PROVE  call \in Calls /\ call.name # AnonName /\ IsDeclared(call)
  <2>1. PICK j \in DOMAIN prog[i].cases : call \in prog[i].cases[j].calls
    BY DEF CodeOf
  <2>2. prog[i].cases[j] \in Bodies
    BY FunctionsOf DEF LinkInv, FunctionDecls
  <2>3. IsDeclared(call)
    BY <1>2, <2>1 DEF LinkInv, Passed
  <2> QED BY <2>1, <2>2, <2>3, CallsHaveNames DEF Calls
<1>5. ASSUME NEW i \in Functions
      PROVE  /\ CodeOf(prog[i]) \in CompiledFunctions
             /\ CodeOf(prog[i]).name # AnonName => IsDeclared(CodeOf(prog[i]))
  <2>1. prog[i] \in FunctionDecls
    BY FunctionsOf DEF LinkInv
  <2>2. CodeOf(prog[i]).calls \subseteq Calls
    BY <1>4
  <2>3. CodeOf(prog[i]).name = prog[i].name /\ CodeOf(prog[i]).sig = prog[i].sig
    BY DEF CodeOf
  <2>4. ~prog[i].anon => IsDeclared(prog[i])
    BY <1>2 DEF LinkInv, Passed
  <2>5. CodeOf(prog[i]) = [name |-> prog[i].name, sig |-> prog[i].sig, calls |-> CodeOf(prog[i]).calls]
    BY DEF CodeOf
  <2> QED BY <2>1, <2>2, <2>3, <2>4, <2>5 DEF CompiledFunctions, FunctionDecls, IsDeclared
<1>6. new \in SUBSET CompiledFunctions
  BY <1>5
<1> HIDE DEF new
<1>7. Code' = Code \cup new
  BY <1>2, <1>3, <1>6 DEF Code
<1>8. \A d \in new : /\ d.name # AnonName => IsDeclared(d)
                     /\ \A call \in d.calls : call.name # AnonName /\ IsDeclared(call)
  BY <1>4, <1>5 DEF new
<1>9. Jitted'
  BY <1>2, <1>3, <1>6, <1>7, <1>8 DEF LinkInv, Jitted, IsDeclared
<1> QED BY <1>1, <1>9 DEF LinkInv

\* The code of an expression goes with it; the rest stays.
LEMMA RunStep ==
    ASSUME LinkInv, EvalRun
    PROVE  LinkInv'
<1>1. Texts' /\ Parsing' /\ Passed'
  BY DEF LinkInv, Texts, Parsing, Passed, Functions, IsDeclared, EvalRun, driverVars, parserVars
<1>2. modules \in Seq(SUBSET CompiledFunctions) /\ decls' = decls
  BY DEF LinkInv, Jitted, EvalRun, driverVars
<1>3. modules' = SubSeq(modules, 1, Len(modules) - 1)
  BY DEF EvalRun
<1>4. /\ modules' \in Seq(SUBSET CompiledFunctions)
      /\ \A m \in DOMAIN modules' : m \in DOMAIN modules /\ modules'[m] = modules[m]
  BY <1>2, <1>3
<1>5. Code' \subseteq Code
  BY <1>4 DEF Code
<1>6. Jitted'
  BY <1>2, <1>4, <1>5 DEF LinkInv, Jitted, IsDeclared
<1> QED BY <1>1, <1>6 DEF LinkInv

\* What the loop hands to eval is made of the lines typed.
LEMMA GlueIsText ==
    ASSUME NEW h \in Lines, h.k = "header", NEW rest
    PROVE  Glue(h, rest) \in Seq(Pieces)
<1>1. h \in Headers /\ h \in Pieces
  BY PieceKinds DEF Pieces
<1>2. [h EXCEPT !.sig = "grown"] \in Pieces
  <2>1. h \in [k : {"header"}, name : Strings, sig : Strings] /\ h.name # AnonName
    BY <1>1 DEF Headers
  <2>2. [h EXCEPT !.sig = "grown"] = [k |-> "header", name |-> h.name, sig |-> "grown"]
    BY <2>1
  <2> DEFINE g == [k |-> "header", name |-> h.name, sig |-> "grown"]
  <2>3. g \in [k : {"header"}, name : Strings, sig : Strings] /\ g.name # AnonName
    BY <2>1 DEF Strings
  <2> HIDE DEF g
  <2>4. g \in Headers
    BY <2>3 DEF Headers
  <2> QED BY <2>2, <2>4 DEF Pieces, g
<1>3. Junk \in Pieces
  BY DEF Pieces
<1> QED BY <1>1, <1>2, <1>3 DEF Glue, Junk

LEMMA LongerIsText ==
    ASSUME Texts
    PROVE  Longer(input, inputCase) \in Seq(Pieces)
<1>1. Junk \in Pieces
  BY DEF Pieces
<1>2. inputCase = Blank \/ inputCase \in Pieces
  BY DEF Texts, Pieces
<1> QED BY <1>1, <1>2 DEF Texts, Longer, Junk

LEMMA ReaderStep ==
    ASSUME LinkInv, Reader
    PROVE  LinkInv'
<1>0. Texts
  BY DEF LinkInv
<1>1. input' \in Seq(Pieces)
  <2>0. input \in Seq(Pieces)
    BY <1>0 DEF Texts
  <2>1. CASE TypeHeader
    BY <2>1, GlueIsText DEF TypeHeader
  <2>2. CASE TypeLine
    BY <2>2 DEF TypeLine, Pieces
  <2>3. CASE TypeCase
    BY <2>0, <2>3 DEF TypeCase, Pieces
  <2>4. CASE TypeBlank \/ EndAtPrompt
    <3>1. input' = <<>>
      BY <2>4 DEF TypeBlank, EndAtPrompt
    <3> QED BY <3>1
  <2>5. CASE EvalAgain \/ CaseForever
    BY <1>0, <2>0, <2>5, LongerIsText DEF EvalAgain, CaseForever
  <2>6. CASE UNCHANGED input
    BY <2>0, <2>6
  <2> QED BY <2>1, <2>2, <2>3, <2>4, <2>5, <2>6
       DEF Reader, TypeQuit, TypeAfterCases, EndInCases, PromptForever, NoCases, replVars
<1>2. inputCase' \in Lines \cup {Blank}
  BY <1>0 DEF Texts, Reader, TypeQuit, TypeBlank, TypeHeader, TypeLine, TypeCase, TypeAfterCases,
         EndAtPrompt, EndInCases, PromptForever, EvalAgain, CaseForever, NoCases, replVars
<1>3. UNCHANGED <<driverVars, modules>>
  BY DEF Reader, TypeQuit, TypeBlank, TypeHeader, TypeLine, TypeCase, TypeAfterCases,
         EndAtPrompt, EndInCases, PromptForever, EvalAgain, CaseForever, NoCases, replVars
<1> QED BY <1>1, <1>2, <1>3 DEF LinkInv, Texts, Parsing, Passed, Jitted, Code, Functions, IsDeclared,
                          driverVars, parserVars

LEMMA LinkNext == LinkInv /\ [INext]_<<driverVars, replVars>> => LinkInv'
<1> SUFFICES ASSUME LinkInv, [INext]_<<driverVars, replVars>> PROVE LinkInv'
  OBVIOUS
<1>1. CASE Reader
  BY <1>1, ReaderStep
<1>2. CASE EvalParse
  <2>1. /\ in' = input /\ input' = input /\ inputCase' = inputCase
        /\ last' = "none" /\ prog' = <<>> /\ stage' = "parse"
    BY <1>2 DEF EvalParse, ParseString
  <2>2. UNCHANGED <<decls, modules>>
    BY <1>2 DEF EvalParse, ParseString
  <2>3. Texts' /\ Parsing' /\ Passed'
    BY <2>1 DEF LinkInv, Texts, Parsing, Passed
  <2>4. Jitted'
    BY <2>2 DEF LinkInv, Jitted, Code, IsDeclared
  <2> QED BY <2>3, <2>4 DEF LinkInv
<1>3. CASE EvalPasses
  <2>1. CASE Shift
    <3>1. Parsing' /\ in' \in Seq(Pieces)
      BY <2>1, ShiftParses
    <3>2. UNCHANGED <<decls, modules, input, inputCase>> /\ stage' = "parse"
      BY <1>3, <2>1 DEF EvalPasses, Shift, replVars
    <3>3. Texts' /\ Passed' /\ Jitted'
      BY <3>1, <3>2 DEF LinkInv, Texts, Passed, Jitted, Code, IsDeclared
    <3> QED BY <3>1, <3>3 DEF LinkInv
  <2>2. CASE SyntaxError
    <3>1. /\ in' = in /\ input' = input /\ inputCase' = inputCase /\ prog' = prog /\ last' = last
          /\ decls' = decls /\ modules' = modules /\ stage' = "idle"
      BY <1>3, <2>2 DEF EvalPasses, SyntaxError, Return, parserVars, replVars
    <3> QED BY <3>1, Frame
  <2>3. CASE Parsed
    BY <1>3, <2>3, Frame DEF EvalPasses, Parsed, parserVars, replVars
  <2>4. CASE AcceptScopeGen
    BY <1>3, <2>4, ScopeStep DEF EvalPasses
  <2>5. CASE AcceptTypeChecker
    BY <1>3, <2>5, TypeStep DEF EvalPasses
  <2>6. CASE AcceptOptimizer
    BY <1>3, <2>6, Frame DEF EvalPasses, AcceptOptimizer, Accept, Return, parserVars, replVars
  <2> QED BY <1>3, <2>1, <2>2, <2>3, <2>4, <2>5, <2>6 DEF EvalPasses, Parse, Check
<1>4. CASE EvalFails \/ EvalUntyped \/ EvalEmpty \/ EvalUnresolved
  BY <1>4, Frame DEF EvalFails, EvalUntyped, EvalEmpty, EvalUnresolved, driverVars, parserVars
<1>5. CASE EvalGenerateFails
  <2>1. stage' = "idle"
    BY <1>5 DEF EvalGenerateFails, Accept, Return
  <2> QED BY <1>5, <2>1, Frame DEF EvalGenerateFails, parserVars, replVars
<1>6. CASE AddModule
  BY <1>6, ModuleStep
<1>7. CASE EvalRun
  BY <1>7, RunStep
<1>8. CASE Ended \/ UNCHANGED <<driverVars, replVars>>
  BY <1>8, Frame DEF Ended, driverVars, parserVars, replVars
<1> QED BY <1>1, <1>2, <1>3, <1>4, <1>5, <1>6, <1>7, <1>8 DEF INext, Eval

---------------------------------------------------------------------------
\* The names declared, the program under way and the code in the JIT agree,
\* whatever passes fail (Driver::compile and SpplJit::eval on one Driver).
THEOREM LinkInvariant == ISpec => []LinkInv
<1> QED BY LinkInit, LinkNext, PTL DEF ISpec

\* No call is linked to code of another signature than the one it was compiled
\* for, whatever is typed (SpplJit::findMangledSymbol).
THEOREM LinksAsCompiled == ISpec => []LinkedAsCompiled
<1>1. LinkInv => LinkedAsCompiled
  BY DEF LinkInv, Jitted, LinkedAsCompiled, IsDeclared
<1> QED BY <1>1, LinkInvariant, PTL

---------------------------------------------------------------------------
(* What the interpreter answers. *)

IsDefinitionText(t) == t # <<>> /\ t[1].k = "header" /\ \A i \in 2 .. Len(t) : t[i].k = "case"
IsInput(t) == IsDefinitionText(t) \/ (Len(t) = 1 /\ t[1].k \notin {"header", "blank", "quit"})

\* An input is a definition with its cases, or one line of another kind, and
\* has no answer until eval has gone through all passes.
Typed ==
    /\ text \in Seq(Lines)
    /\ ipc = "cases" => IsDefinitionText(text)
    /\ ipc \in {"eval", "passes", "run"} \/ (ipc = "prompt" /\ input # <<>>) => IsInput(text)
    /\ ipc \in {"cases", "eval", "passes", "run"} => answer = Promise!Pending

\* The last module is that of the expression that is run.
RunsLast ==
    /\ modules # <<>> /\ modules[Len(modules)] = {CodeOf(prog[1])}
    /\ Len(prog) = 1 /\ prog[1].k = "function" /\ prog[1].anon
    /\ \A m \in 1 .. Len(modules) - 1 : \A d \in modules[m] : d.name # AnonName

\* No name has code in two modules, and the anonymous function has some only
\* while it is run.
Separate ==
    /\ \A m, n \in DOMAIN modules : \A d \in modules[m], e \in modules[n] : d.name = e.name => m = n
    /\ ipc \notin {"run", "end"} => \A d \in Code : d.name # AnonName
    /\ ipc = "run" => RunsLast

\* A program is one expression or has none; its functions have no code yet,
\* and no types get past the optimizer.
Anonymous ==
    ipc = "passes" =>
        /\ last = "expr" => Len(prog) = 1 /\ prog[1].k = "function" /\ prog[1].anon
        /\ last # "expr" => \A i \in Functions : ~prog[i].anon
        /\ stage \in {"types", "optimize", "generate"} =>
              \A i \in Functions : ~prog[i].anon => \A d \in Code : d.name # prog[i].name
        /\ stage = "generate" => TypeDecls = {}

\* The program that the parser has made of the first k lines of t.
HoldsCases(f, t, k) == Len(f.cases) = k - 1 /\ \A j \in 1 .. k - 1 : f.cases[j] = t[j + 1]
IsProgramOf(p, l, t, k) ==
    IF k = 0 THEN p = <<>> /\ l = "none"
    ELSE \/ /\ t[1].k = "header"
            /\ Len(p) = 1 /\ p[1].k = "function" /\ ~p[1].anon
            /\ p[1].name = t[1].name /\ p[1].sig = t[1].sig
            /\ HoldsCases(p[1], t, k)
            /\ l = IF k = 1 THEN "header" ELSE "case"
         \/ /\ t[1].k = "expr"
            /\ Len(p) = 1 /\ p[1].k = "function" /\ p[1].anon
            /\ p[1].name = AnonName /\ p[1].sig = "unknown" /\ p[1].cases = <<t[1]>> /\ l = "expr"
         \/ t[1].k = "type" /\ p = <<t[1]>> /\ l = "decl"
         \/ t[1].k = "include" /\ p = <<>> /\ l = "decl"

\* The names that were declared have code.
Known == before \subseteq {d.name : d \in Functioning} \cup {AnonName}

HasRead(k) ==
    /\ Len(in) = Len(text) - k /\ \A j \in 1 .. Len(in) : in[j] = text[k + j]
    /\ IsProgramOf(prog, last, text, k)
Whole == IsProgramOf(prog, last, text, Len(text)) /\ last # "header"

\* What the passes have found out about the text, if it is what eval was given.
\* The last line is why a text is refused.
Understood ==
    /\ ipc = "passes" => stage \in {"parse", "scope", "types", "optimize", "generate", "idle"}
    /\ ipc = "passes" /\ input = text =>
         /\ stage = "parse" => srcType = "STREAM" /\ DOMAIN decls = before /\ \E k \in 0 .. Len(text) : HasRead(k)
         /\ stage = "scope" => DOMAIN decls = before /\ Whole
         /\ stage \in {"types", "optimize", "generate"} =>
              DOMAIN decls = before \cup Names /\ Whole
         /\ stage \in {"optimize", "generate"} => IllTyped = {}
         /\ stage = "idle" /\ Known => ~Promise!IsDefinition /\ ~Promise!IsExpression
    /\ ipc = "run" /\ input = text =>
         /\ DOMAIN decls = before \cup {AnonName}
         /\ text[1].k = "expr" /\ text[1].bad = "" /\ prog[1].cases = <<text[1]>>
         /\ text[1].binds \cap DOMAIN decls = {}

PromiseInv == Typed /\ Separate /\ Anonymous /\ Understood

PrintsTexts ==
    \A line \in Lines : line.k = "expr" /\ HasText(line.val, line.ty) => Printed(line.val, line.ty) = Text(line.val, line.ty)

---------------------------------------------------------------------------
(* What texts mean. *)

\* The function that a definition defines.
Defined == [name |-> text[1].name, sig |-> text[1].sig, calls |-> UNION {text[j].calls : j \in 2 .. Len(text)}]

LEMMA DefinitionMeans ==
    ASSUME text \in Seq(Lines), IsDefinitionText(text)
    PROVE  /\ Promise!New = {Defined}
           /\ ~Promise!IsExpression
           /\ Promise!IsDefinition <=>
                /\ Len(text) >= 2
                /\ \A j \in 2 .. Len(text) : Promise!Sound(text[j], Functioning \cup {Defined})
                /\ \A d \in Functioning : d.name # text[1].name
<1>1. DOMAIN text = 1 .. Len(text) /\ Len(text) \in Nat /\ Len(text) >= 1
  BY DEF IsDefinitionText
<1>2. Promise!Headers = {1}
  BY <1>1 DEF Promise!Headers, IsDefinitionText
<1>3. Promise!CasesOf(1) = {text[j] : j \in 2 .. Len(text)}
  <2>1. ASSUME NEW h \in DOMAIN text
        PROVE  (h > 1 /\ \A l \in 2 .. h : text[l].k = "case") <=> h \in 2 .. Len(text)
    BY <1>1, <2>1 DEF IsDefinitionText
  <2>2. {h \in DOMAIN text : h > 1 /\ \A l \in 1 + 1 .. h : text[l].k = "case"} = 2 .. Len(text)
    BY <1>1, <2>1
  <2> QED BY <2>2 DEF Promise!CasesOf
<1>4. Promise!Def(1) = Defined
  <2>1. UNION {c.calls : c \in Promise!CasesOf(1)} = UNION {text[j].calls : j \in 2 .. Len(text)}
    BY <1>3
  <2> QED BY <2>1 DEF Promise!Def, Defined
<1>5. Promise!New = {Defined}
  BY <1>2, <1>4 DEF Promise!New
<1>6. ~Promise!IsExpression
  BY <1>1 DEF Promise!IsExpression, IsDefinitionText
<1> DEFINE Good(c) == Promise!Sound(c, Functioning \cup {Defined})
<1>7. Promise!IsDefinition <=>
        /\ Promise!CasesOf(1) # {}
        /\ \A c \in Promise!CasesOf(1) : Good(c)
        /\ \A d \in Functioning : d.name # text[1].name
  <2> HIDE DEF Good
  <2>1. Promise!IsDefinition <=>
          /\ text # <<>>
          /\ \A i \in DOMAIN text : text[i].k \in {"header", "case"}
          /\ text[1].k = "header"
          /\ \A i \in {1} : /\ Promise!CasesOf(i) # {}
                            /\ \A c \in Promise!CasesOf(i) : Good(c)
                            /\ \A d \in Functioning : d.name # text[i].name
                            /\ \A j \in {1} : text[j].name = text[i].name => j = i
    BY <1>2, <1>5 DEF Promise!IsDefinition, Good
  <2>2. text # <<>> /\ text[1].k = "header" /\ \A i \in DOMAIN text : text[i].k \in {"header", "case"}
    <3> SUFFICES ASSUME NEW i \in DOMAIN text PROVE text[i].k \in {"header", "case"}
      BY DEF IsDefinitionText
    <3>1. i = 1 \/ i \in 2 .. Len(text)
      BY <1>1
    <3> QED BY <3>1 DEF IsDefinitionText
  <2> QED BY <2>1, <2>2
<1>8. Promise!CasesOf(1) # {} <=> Len(text) >= 2
  <2>1. Len(text) >= 2 => text[2] \in Promise!CasesOf(1)
    BY <1>1, <1>3
  <2>2. Promise!CasesOf(1) # {} => \E j \in 2 .. Len(text) : TRUE
    BY <1>3
  <2> QED BY <1>1, <2>1, <2>2
<1>9. (\A c \in Promise!CasesOf(1) : Good(c)) <=> \A j \in 2 .. Len(text) : Good(text[j])
  <2> HIDE DEF Good
  <2> QED BY <1>3
<1> QED BY <1>5, <1>6, <1>7, <1>8, <1>9

LEMMA LineMeans ==
    ASSUME text \in Seq(Lines), Len(text) = 1, text[1].k # "header"
    PROVE  /\ ~Promise!IsDefinition
           /\ Promise!IsExpression <=> text[1].k = "expr" /\ Promise!Sound(text[1], Functioning)
<1>1. DOMAIN text = {1} /\ text # <<>>
  OBVIOUS
<1> QED BY <1>1 DEF Promise!IsDefinition, Promise!IsExpression

\* The type checker and the generator pass a case if and only if its calls are
\* to functions that are there.
LEMMA SoundIsPassed ==
    ASSUME LinkInv, Known, NEW c \in Lines, c.k \in {"case", "expr"},
           NEW N, \A f \in N : IsDeclared(f),
           DOMAIN decls \subseteq before \cup {f.name : f \in N} \cup {AnonName}
    PROVE  Promise!Sound(c, Functioning \cup N) <=> WellTyped(c) /\ c.bad # "code"
<1>1. c.bad \in {"", "types", "code"} /\ AnonName \notin c.binds /\ \A call \in c.calls : call.name # AnonName
  BY LinesAssumption
<1>2. \A f \in Functioning \cup N : IsDeclared(f)
  BY DEF LinkInv, Jitted, Functioning
<1>3. ASSUME NEW call \in c.calls, Promise!Fits(call, Functioning \cup N)
      PROVE  IsDeclared(call)
  BY <1>2, <1>3 DEF Promise!Fits, IsDeclared
<1>4. ASSUME NEW call \in c.calls, IsDeclared(call)
      PROVE  Promise!Fits(call, Functioning \cup N)
  <2>1. PICK f \in Functioning \cup N : f.name = call.name
    BY <1>1, <1>4 DEF Known, IsDeclared
  <2> QED BY <1>2, <1>4, <2>1 DEF Promise!Fits, IsDeclared
<1>5. (\A call \in c.calls : Promise!Fits(call, Functioning \cup N)) <=> \A call \in c.calls : IsDeclared(call)
  BY <1>3, <1>4
<1>6. (\A d \in Functioning \cup N : d.name \notin c.binds) <=> c.binds \cap DOMAIN decls = {}
  <2>1. \A d \in Functioning \cup N : d.name \in DOMAIN decls
    BY <1>2 DEF IsDeclared
  <2>2. ASSUME NEW n \in c.binds \cap DOMAIN decls
        PROVE  \E d \in Functioning \cup N : d.name = n
    BY <1>1 DEF Known
  <2> QED BY <2>1, <2>2
<1> QED BY <1>1, <1>5, <1>6 DEF Promise!Sound, WellTyped, IsDeclared

---------------------------------------------------------------------------
(* The parser. *)

\* A case that is added to a program of one function.
LEMMA AddingToOne ==
    ASSUME NEW ds \in Seq(Declarations), Len(ds) = 1, ds[1] \in FunctionDecls, NEW p
    PROVE  /\ Len(AddCase(ds, p)) = 1 /\ AddCase(ds, p)[1].cases = Append(ds[1].cases, p)
           /\ AddCase(ds, p)[1].k = "function"
           /\ AddCase(ds, p)[1].name = ds[1].name /\ AddCase(ds, p)[1].sig = ds[1].sig
           /\ AddCase(ds, p)[1].anon = ds[1].anon
<1> DEFINE f == [ds[1] EXCEPT !.cases = Append(@, p)]
<1>1. ds[1] \in [k : {"function"}, name : Strings, sig : Strings, anon : BOOLEAN, cases : Seq(Bodies)]
  BY DEF FunctionDecls
<1>2. /\ f.cases = Append(ds[1].cases, p) /\ f.k = "function" /\ f.name = ds[1].name
      /\ f.sig = ds[1].sig /\ f.anon = ds[1].anon
  BY <1>1
<1>3. AddCase(ds, p) = [ds EXCEPT ![1] = f]
  BY DEF AddCase
<1> HIDE DEF f
<1>4. Len(AddCase(ds, p)) = 1 /\ AddCase(ds, p)[1] = f
  <2> DEFINE T == Declarations \cup {f}
  <2>1. ds \in Seq(T) /\ f \in T /\ 1 \in DOMAIN ds
    OBVIOUS
  <2> HIDE DEF T
  <2> QED BY <1>3, <2>1
<1> QED BY <1>2, <1>4

LEMMA ShiftReads ==
    ASSUME LinkInv, text \in Seq(Lines), IsInput(text), Shift, NEW k \in 0 .. Len(text), HasRead(k)
    PROVE  /\ k + 1 \in 0 .. Len(text)
           /\ Len(in') = Len(text) - (k + 1) /\ \A j \in 1 .. Len(in') : in'[j] = text[(k + 1) + j]
           /\ IsProgramOf(prog', last', text, k + 1)
<1> DEFINE p == Head(in)
<1>1. in \in Seq(Pieces) /\ in # <<>> /\ prog \in Seq(Declarations) /\ Len(text) \in Nat
  BY DEF LinkInv, Texts, Parsing, Shift
<1>2. /\ k + 1 \in 1 .. Len(text) /\ p = text[k + 1]
      /\ Len(in') = Len(text) - (k + 1) /\ \A j \in 1 .. Len(in') : in'[j] = text[(k + 1) + j]
  <2>1. Len(in) > 0 /\ Len(in) = Len(text) - k /\ in[1] = text[k + 1] /\ p = in[1]
    BY <1>1 DEF HasRead
  <2>2. in' = Tail(in)
    BY DEF Shift
  <2>3. Len(in') = Len(in) - 1 /\ \A j \in 1 .. Len(in') : in'[j] = in[j + 1]
    BY <1>1, <2>2
  <2>4. ASSUME NEW j \in 1 .. Len(in') PROVE in'[j] = text[(k + 1) + j]
    <3>1. j + 1 \in 1 .. Len(in) /\ k + (j + 1) = (k + 1) + j
      BY <1>1, <2>1, <2>3
    <3>2. in[j + 1] = text[k + (j + 1)]
      BY <3>1 DEF HasRead
    <3> QED BY <2>3, <3>1, <3>2
  <2> QED BY <1>1, <2>1, <2>3, <2>4
<1>3. Fits(p) /\ prog' = Reduce(p) /\ last' = IF p.k \in {"type", "include"} THEN "decl" ELSE p.k
  BY DEF Shift
<1> HIDE DEF p
<1>4. IsProgramOf(prog, last, text, k)
  BY DEF HasRead
<1>5. CASE k = 0
  <2>1. p = text[1] /\ prog = <<>> /\ last = "none"
    BY <1>2, <1>4, <1>5 DEF IsProgramOf
  <2>2. p.k \in {"header", "type", "include", "expr"}
    BY <1>3, <2>1 DEF Fits, After
  <2>3. CASE p.k = "header"
    <3>1. prog' = <<Function(p)>> /\ last' = "header"
      BY <1>3, <2>1, <2>3 DEF Reduce
    <3>2. Len(prog') = 1 /\ prog'[1] = Function(p)
      BY <3>1
    <3>3. HoldsCases(prog'[1], text, 1)
      BY <3>2 DEF HoldsCases, Function
    <3> QED BY <1>2, <1>5, <2>1, <2>3, <3>1, <3>2, <3>3 DEF IsProgramOf, Function
  <2>4. CASE p.k = "expr"
    <3> DEFINE ds == <<AnonFunction>>
    <3>1. AnonFunction \in FunctionDecls
      <4>1. <<>> \in Seq(Bodies)
        OBVIOUS
      <4>2. AnonFunction \in [k : {"function"}, name : Strings, sig : Strings, anon : BOOLEAN, cases : Seq(Bodies)]
        BY <4>1 DEF AnonFunction, Strings
      <4>3. AnonFunction.name = AnonName /\ AnonFunction.anon
        BY DEF AnonFunction
      <4> QED BY <4>2, <4>3 DEF FunctionDecls
    <3>2. ds \in Seq(Declarations) /\ Len(ds) = 1 /\ ds[1] = AnonFunction
      BY <3>1 DEF Declarations
    <3>3. prog' = AddCase(ds, p) /\ last' = "expr"
      BY <1>3, <2>1, <2>4 DEF Reduce
    <3> HIDE DEF ds
    <3>4. Len(prog') = 1 /\ prog'[1].cases = Append(AnonFunction.cases, p) /\ prog'[1].k = "function"
          /\ prog'[1].name = AnonFunction.name /\ prog'[1].anon = AnonFunction.anon
          /\ prog'[1].sig = AnonFunction.sig
      BY <3>1, <3>2, <3>3, AddingToOne
    <3>5. prog'[1].cases = <<p>> /\ prog'[1].name = AnonName /\ prog'[1].anon /\ prog'[1].sig = "unknown"
      BY <3>4 DEF AnonFunction
    <3> QED BY <1>2, <1>5, <2>1, <2>4, <3>3, <3>4, <3>5 DEF IsProgramOf
  <2>5. CASE p.k = "type"
    <3>1. prog' = <<p>> /\ last' = "decl"
      BY <1>3, <2>1, <2>5 DEF Reduce
    <3> QED BY <1>2, <1>5, <2>1, <2>5, <3>1 DEF IsProgramOf
  <2>6. CASE p.k = "include"
    <3>1. prog' = <<>> /\ last' = "decl"
      BY <1>3, <2>1, <2>6 DEF Reduce
    <3> QED BY <1>2, <1>5, <2>1, <2>6, <3>1 DEF IsProgramOf
  <2> QED BY <1>2, <1>5, <2>2, <2>3, <2>4, <2>5, <2>6
<1>6. CASE k # 0
  <2>1. k + 1 \in 2 .. Len(text)
    BY <1>2, <1>6
  <2>2. text[1].k = "header" /\ p.k = "case"
    BY <1>2, <2>1 DEF IsInput, IsDefinitionText
  <2>3. /\ Len(prog) = 1 /\ prog[1].k = "function" /\ ~prog[1].anon
        /\ prog[1].name = text[1].name /\ prog[1].sig = text[1].sig
        /\ HoldsCases(prog[1], text, k)
    BY <1>4, <1>6, <2>2 DEF IsProgramOf
  <2>4. prog[1] \in FunctionDecls
    <3>1. 1 \in Functions
      BY <1>1, <2>3 DEF Functions
    <3> QED BY <3>1, FunctionsOf DEF LinkInv
  <2>5. prog' = AddCase(prog, p) /\ last' = "case"
    BY <1>3, <2>2 DEF Reduce
  <2>6. /\ Len(prog') = 1 /\ prog'[1].cases = Append(prog[1].cases, p) /\ prog'[1].k = "function"
        /\ prog'[1].name = prog[1].name /\ prog'[1].sig = prog[1].sig /\ prog'[1].anon = prog[1].anon
    BY <1>1, <2>3, <2>4, <2>5, AddingToOne
  <2>7. HoldsCases(prog'[1], text, k + 1)
    <3> DEFINE s == prog[1].cases
    <3>1. s \in Seq(Bodies)
      BY <2>4 DEF FunctionDecls
    <3>2. Len(s) = k - 1 /\ \A j \in 1 .. k - 1 : s[j] = text[j + 1]
      BY <2>3 DEF HoldsCases
    <3> HIDE DEF s
    <3>3. Len(Append(s, p)) = k /\ \A j \in 1 .. k : Append(s, p)[j] = text[j + 1]
      BY <1>2, <1>6, <3>1, <3>2
    <3>4. prog'[1].cases = Append(s, p)
      BY <2>6 DEF s
    <3> QED BY <3>3, <3>4 DEF HoldsCases
  <2> QED BY <1>2, <1>6, <2>2, <2>3, <2>5, <2>6, <2>7 DEF IsProgramOf
<1> QED BY <1>5, <1>6

\* A syntax error is one: in a text of another kind, or a header alone.
LEMMA SyntaxErrorIsOne ==
    ASSUME LinkInv, text \in Seq(Lines), IsInput(text), SyntaxError, srcType = "STREAM",
           NEW k \in 0 .. Len(text), HasRead(k)
    PROVE  ~Promise!IsDefinition /\ ~Promise!IsExpression
<1>1. in \in Seq(Pieces) /\ Len(text) \in Nat /\ Len(text) >= 1
  BY DEF LinkInv, Texts, IsInput, IsDefinitionText
<1>2. Len(in) = Len(text) - k /\ IsProgramOf(prog, last, text, k) /\ \A j \in 1 .. Len(in) : in[j] = text[k + j]
  BY DEF HasRead
<1>3. CASE in # <<>> /\ ~Fits(Head(in))
  <2>1. Head(in) = text[k + 1] /\ k + 1 \in 1 .. Len(text)
    BY <1>1, <1>2, <1>3
  <2>2. CASE k = 0
    <3>1. last = "none" /\ ~Fits(text[1])
      BY <1>2, <1>3, <2>1, <2>2 DEF IsProgramOf
    <3>2. text[1].k \notin {"header", "expr"}
      BY <3>1 DEF Fits, After
    <3>3. Len(text) = 1
      BY <3>2 DEF IsInput, IsDefinitionText
    <3> QED BY <3>2, <3>3, LineMeans
  <2>3. CASE k # 0
    <3>1. k + 1 \in 2 .. Len(text)
      BY <1>1, <2>1, <2>3
    <3>2. text[1].k = "header" /\ text[k + 1].k = "case"
      BY <3>1 DEF IsInput, IsDefinitionText
    <3>3. last \in {"header", "case"}
      BY <1>2, <2>3, <3>2 DEF IsProgramOf
    <3>4. Fits(text[k + 1])
      BY <3>2, <3>3 DEF Fits, After
    <3> QED BY <1>3, <2>1, <3>4
  <2> QED BY <2>2, <2>3
<1>4. CASE in = <<>> /\ last = "header"
  <2>1. k = Len(text)
    BY <1>1, <1>2, <1>4
  <2>2. text[1].k = "header" /\ k = 1
    BY <1>1, <1>2, <1>4, <2>1 DEF IsProgramOf
  <2>3. IsDefinitionText(text) /\ Len(text) = 1
    BY <2>1, <2>2 DEF IsInput
  <2> QED BY <2>3, DefinitionMeans
<1> QED BY <1>3, <1>4 DEF SyntaxError

---------------------------------------------------------------------------
(* The passes. *)

\* A text that may be answered is one function.
LEMMA OneFunction ==
    ASSUME LinkInv, text \in Seq(Lines), IsInput(text), Whole, text[1].k \in {"header", "expr"}
    PROVE  /\ Functions = {1} /\ TypeDecls = {} /\ Names = {prog[1].name} /\ Above(1) = {}
           /\ prog[1] \in FunctionDecls /\ prog # <<>> /\ prog[1].sig # "grown"
           /\ \A j \in DOMAIN prog[1].cases : prog[1].cases[j] \in Lines /\ prog[1].cases[j].k \in {"case", "expr"}
           /\ text[1].k = "header" =>
                /\ IsDefinitionText(text) /\ Len(text) \in Nat /\ Len(text) >= 2
                /\ ~prog[1].anon /\ prog[1].name = text[1].name /\ prog[1].sig = text[1].sig
                /\ DOMAIN prog[1].cases = 1 .. Len(text) - 1 /\ \A j \in 1 .. Len(text) - 1 : prog[1].cases[j] = text[j + 1]
           /\ text[1].k = "expr" => /\ Len(text) = 1
                                    /\ prog[1].anon /\ prog[1].name = AnonName /\ prog[1].cases = <<text[1]>>
<1>1. Len(text) \in Nat /\ Len(text) # 0 /\ text[1] \in Lines
  BY DEF IsInput, IsDefinitionText
<1>2. prog \in Seq(Declarations) /\ Len(prog) = 1 /\ prog[1].k = "function"
  BY <1>1 DEF LinkInv, Parsing, Whole, IsProgramOf
<1>3. DOMAIN prog = {1} /\ prog # <<>>
  <2>1. DOMAIN prog = 1 .. Len(prog) /\ Len(prog) = 1
    BY <1>2
  <2>2. DOMAIN prog = {1}
    BY <2>1
  <2>3. prog # <<>>
    <3> SUFFICES ASSUME prog = <<>> PROVE FALSE
      OBVIOUS
    <3>1. DOMAIN prog = DOMAIN <<>>
      OBVIOUS
    <3>2. 1 \notin DOMAIN <<>>
      OBVIOUS
    <3> QED BY <2>2, <3>1, <3>2
  <2> QED BY <2>2, <2>3
<1>4. Functions = {1} /\ TypeDecls = {}
  BY <1>2, <1>3 DEF Functions, TypeDecls
<1>5. Names = {prog[1].name}
  BY <1>4 DEF Names
<1>6. Above(1) = {}
  BY DEF Above
<1>7. prog[1] \in FunctionDecls
  BY <1>4, FunctionsOf DEF LinkInv
<1>8. CASE text[1].k = "header"
  <2>1. IsDefinitionText(text)
    BY <1>8 DEF IsInput
  <2>2. /\ ~prog[1].anon /\ prog[1].name = text[1].name /\ prog[1].sig = text[1].sig
        /\ HoldsCases(prog[1], text, Len(text)) /\ Len(text) # 1
    BY <1>1, <1>8 DEF Whole, IsProgramOf
  <2> DEFINE s == prog[1].cases
  <2>3. s \in Seq(Bodies)
    BY <1>7 DEF FunctionDecls
  <2>4. Len(s) = Len(text) - 1 /\ \A j \in 1 .. Len(text) - 1 : s[j] = text[j + 1]
    BY <2>2 DEF HoldsCases
  <2> HIDE DEF s
  <2>5. DOMAIN s = 1 .. Len(text) - 1
    BY <2>3, <2>4
  <2>6. ASSUME NEW j \in 1 .. Len(text) - 1 PROVE s[j] \in Lines /\ s[j].k \in {"case", "expr"}
    <3>1. j + 1 \in 2 .. Len(text) /\ j + 1 \in 1 .. Len(text) /\ s[j] = text[j + 1]
      BY <1>1, <2>4
    <3> QED BY <2>1, <3>1 DEF IsDefinitionText
  <2>7. Len(text) >= 2
    <3> DEFINE n == Len(text)
    <3>1. n \in Nat /\ n # 0 /\ n # 1
      BY <1>1, <2>2
    <3> HIDE DEF n
    <3>2. n >= 2
      BY <3>1
    <3> QED BY <3>2 DEF n
  <2>8. \A j \in DOMAIN prog[1].cases : prog[1].cases[j] \in Lines /\ prog[1].cases[j].k \in {"case", "expr"}
    BY <2>5, <2>6 DEF s
  <2>9. DOMAIN prog[1].cases = 1 .. Len(text) - 1 /\ \A j \in 1 .. Len(text) - 1 : prog[1].cases[j] = text[j + 1]
    BY <2>4, <2>5 DEF s
  <2>10. prog[1].sig # "grown"
    BY <1>1, <1>8, <2>2, LinesAssumption
  <2> QED BY <1>1, <1>3, <1>4, <1>5, <1>6, <1>7, <1>8, <2>1, <2>2, <2>7, <2>8, <2>9, <2>10
<1>9. CASE text[1].k = "expr"
  <2>1. prog[1].anon /\ prog[1].name = AnonName /\ prog[1].cases = <<text[1]>>
    BY <1>1, <1>9 DEF Whole, IsProgramOf
  <2>2. Len(text) = 1
    BY <1>9 DEF IsInput, IsDefinitionText
  <2>3. prog[1].sig # "grown"
    BY <1>1, <1>9 DEF Whole, IsProgramOf
  <2> QED BY <1>1, <1>3, <1>4, <1>5, <1>6, <1>7, <1>9, <2>1, <2>2, <2>3
<1> QED BY <1>8, <1>9

\* Texts of other kinds are neither definitions nor expressions.
LEMMA OtherTexts ==
    ASSUME text \in Seq(Lines), IsInput(text), text[1].k \notin {"header", "expr"}
    PROVE  ~Promise!IsDefinition /\ ~Promise!IsExpression
<1>1. Len(text) = 1
  BY DEF IsInput, IsDefinitionText
<1> QED BY <1>1, LineMeans

LEMMA NoErrors ==
    ASSUME Functions = {1}, prog[1].sig # "grown"
    PROVE  /\ IllTyped = {} <=> \A j \in DOMAIN prog[1].cases : WellTyped(prog[1].cases[j])
           /\ Ungenerable = {} <=> \A j \in DOMAIN prog[1].cases : prog[1].cases[j].bad # "code"
<1>1. IllTyped = {<<1, j>> : j \in {h \in DOMAIN prog[1].cases : ~WellTyped(prog[1].cases[h])}}
  BY DEF IllTyped
<1>2. (\E j \in DOMAIN prog[1].cases : ~WellTyped(prog[1].cases[j])) => IllTyped # {}
  <2> SUFFICES ASSUME NEW j \in DOMAIN prog[1].cases, ~WellTyped(prog[1].cases[j]) PROVE IllTyped # {}
    OBVIOUS
  <2>1. <<1, j>> \in IllTyped
    BY <1>1
  <2> QED BY <2>1
<1>3. (\A j \in DOMAIN prog[1].cases : WellTyped(prog[1].cases[j])) => IllTyped = {}
  BY <1>1
<1>4. Ungenerable = {} <=> \A j \in DOMAIN prog[1].cases : prog[1].cases[j].bad # "code"
  BY DEF Ungenerable
<1> QED BY <1>2, <1>3, <1>4

\* What the checker and the generator pass is what the promise asks for.
LEMMA Verdict ==
    ASSUME LinkInv, Known, text \in Seq(Lines), IsInput(text), Whole, text[1].k \in {"header", "expr"},
           stage \in {"types", "optimize", "generate"}, DOMAIN decls = before \cup Names
    PROVE  /\ (Promise!IsDefinition \/ Promise!IsExpression) => IllTyped = {} /\ Ungenerable = {}
           /\ (IllTyped = {} /\ Ungenerable = {} /\ \A d \in Functioning : d.name # prog[1].name) =>
                IF text[1].k = "header" THEN Promise!IsDefinition ELSE Promise!IsExpression
<1> DEFINE Faultless(c) == WellTyped(c) /\ c.bad # "code"
<1>1. /\ Functions = {1} /\ Names = {prog[1].name} /\ prog[1].sig # "grown"
      /\ \A j \in DOMAIN prog[1].cases : prog[1].cases[j] \in Lines /\ prog[1].cases[j].k \in {"case", "expr"}
  BY OneFunction
<1>2. IllTyped = {} /\ Ungenerable = {} <=> \A j \in DOMAIN prog[1].cases : Faultless(prog[1].cases[j])
  BY <1>1, NoErrors
<1>3. CASE text[1].k = "header"
  <2>1. /\ IsDefinitionText(text) /\ Len(text) \in Nat /\ Len(text) >= 2
        /\ ~prog[1].anon /\ prog[1].name = text[1].name /\ prog[1].sig = text[1].sig
        /\ DOMAIN prog[1].cases = 1 .. Len(text) - 1 /\ \A j \in 1 .. Len(text) - 1 : prog[1].cases[j] = text[j + 1]
    BY <1>3, OneFunction
  <2>2. IsDeclared(prog[1])
    BY <1>1, <2>1 DEF LinkInv, Passed
  <2>3. IsDeclared(Defined) /\ Defined.name = text[1].name
    BY <2>1, <2>2 DEF IsDeclared, Defined
  <2>4. DOMAIN decls \subseteq before \cup {f.name : f \in {Defined}} \cup {AnonName}
    BY <1>1, <2>1, <2>3
  <2>5. ASSUME NEW c \in Lines, c.k \in {"case", "expr"}
        PROVE  Promise!Sound(c, Functioning \cup {Defined}) <=> Faultless(c)
    <3>1. \A f \in {Defined} : IsDeclared(f)
      BY <2>3
    <3> QED BY <2>4, <2>5, <3>1, SoundIsPassed
  <2> HIDE DEF Faultless
  <2>6. ASSUME NEW j \in 2 .. Len(text)
        PROVE  Promise!Sound(text[j], Functioning \cup {Defined}) <=> Faultless(prog[1].cases[j - 1])
    <3>1. j - 1 \in 1 .. Len(text) - 1 /\ (j - 1) + 1 = j
      BY <2>1
    <3>2. prog[1].cases[j - 1] = text[j]
      BY <2>1, <3>1
    <3> QED BY <1>1, <2>1, <2>5, <3>1, <3>2
  <2>7. (\A j \in 2 .. Len(text) : Promise!Sound(text[j], Functioning \cup {Defined}))
          <=> \A j \in DOMAIN prog[1].cases : Faultless(prog[1].cases[j])
    <3>1. ASSUME \A j \in 2 .. Len(text) : Promise!Sound(text[j], Functioning \cup {Defined}), NEW j \in DOMAIN prog[1].cases
          PROVE  Faultless(prog[1].cases[j])
      <4>1. j + 1 \in 2 .. Len(text) /\ (j + 1) - 1 = j
        BY <2>1
      <4>2. Promise!Sound(text[j + 1], Functioning \cup {Defined})
        BY <3>1, <4>1
      <4>3. Faultless(prog[1].cases[(j + 1) - 1])
        BY <2>6, <4>1, <4>2
      <4> QED BY <4>1, <4>3
    <3>2. ASSUME \A j \in DOMAIN prog[1].cases : Faultless(prog[1].cases[j]), NEW j \in 2 .. Len(text)
          PROVE  Promise!Sound(text[j], Functioning \cup {Defined})
      <4>1. j - 1 \in DOMAIN prog[1].cases
        BY <2>1
      <4> QED BY <2>6, <3>2, <4>1
    <3> QED BY <3>1, <3>2
  <2>8. Promise!IsDefinition <=> /\ \A j \in DOMAIN prog[1].cases : Faultless(prog[1].cases[j])
                                 /\ \A d \in Functioning : d.name # text[1].name
    BY <2>1, <2>7, DefinitionMeans
  <2>9. ~Promise!IsExpression
    BY <2>1, DefinitionMeans
  <2> QED BY <1>2, <1>3, <2>1, <2>8, <2>9 DEF Faultless
<1>4. CASE text[1].k = "expr"
  <2>1. Len(text) = 1 /\ prog[1].name = AnonName /\ prog[1].cases = <<text[1]>>
    BY <1>4, OneFunction
  <2>2. DOMAIN prog[1].cases = {1} /\ prog[1].cases[1] = text[1]
    BY <2>1
  <2>3. Promise!Sound(text[1], Functioning \cup {}) <=> Faultless(text[1])
    <3>1. DOMAIN decls \subseteq before \cup {f.name : f \in {}} \cup {AnonName}
      BY <1>1, <2>1
    <3>2. text[1] \in Lines
      <4>1. 1 \in 1 .. Len(text)
        BY <2>1
      <4> QED BY <4>1
    <3>3. \A f \in {} : IsDeclared(f)
      OBVIOUS
    <3>4. text[1].k \in {"case", "expr"}
      BY <1>4
    <3> HIDE DEF Faultless
    <3>5. Promise!Sound(text[1], Functioning \cup {}) <=> WellTyped(text[1]) /\ text[1].bad # "code"
      BY <3>1, <3>2, <3>3, <3>4, SoundIsPassed
    <3> QED BY <3>5 DEF Faultless
  <2>4. Functioning \cup {} = Functioning
    OBVIOUS
  <2> HIDE DEF Faultless
  <2>5. Promise!IsExpression <=> \A j \in DOMAIN prog[1].cases : Faultless(prog[1].cases[j])
    BY <1>4, <2>1, <2>2, <2>3, <2>4, LineMeans
  <2>6. ~Promise!IsDefinition
    BY <1>4, <2>1, LineMeans
  <2> QED BY <1>2, <1>4, <2>5, <2>6 DEF Faultless
<1> QED BY <1>3, <1>4

---------------------------------------------------------------------------
(* The invariant is kept. *)

LEMMA PromiseStarts == IInit => PromiseInv
<1> SUFFICES ASSUME IInit PROVE PromiseInv
  OBVIOUS
<1>1. ipc = "prompt" /\ input = <<>> /\ text = <<>> /\ modules = <<>>
  BY DEF IInit
<1>2. Typed /\ Anonymous /\ Understood
  BY <1>1 DEF Typed, Anonymous, Understood
<1>3. Separate
  BY <1>1 DEF Separate, Code
<1> QED BY <1>2, <1>3 DEF PromiseInv

\* Back to the prompt, or to the end.
LEMMA Leaving ==
    ASSUME PromiseInv, UNCHANGED modules, ipc' \in {"prompt", "end"},
           \/ UNCHANGED <<input, text>> /\ ipc \in {"prompt", "eval", "passes", "run"}
           \/ input' = <<>> /\ text' = <<>>
           \/ UNCHANGED text /\ ipc' = "end",
           ipc \in {"run", "end"} => ipc' = "end"
    PROVE  PromiseInv'
<1>1. Anonymous' /\ Understood'
  BY DEF Anonymous, Understood
<1>3. Typed'
  <2>1. text \in Seq(Lines) /\ (ipc \in {"eval", "passes", "run"} \/ (ipc = "prompt" /\ input # <<>>) => IsInput(text))
    BY DEF PromiseInv, Typed
  <2>2. CASE UNCHANGED <<input, text>> /\ ipc \in {"prompt", "eval", "passes", "run"}
    <3>1. text' \in Seq(Lines) /\ (input' # <<>> => IsInput(text'))
      BY <2>1, <2>2 DEF IsInput, IsDefinitionText
    <3> QED BY <3>1 DEF Typed
  <2>3. CASE input' = <<>> /\ text' = <<>>
    BY <2>3 DEF Typed
  <2>4. CASE UNCHANGED text /\ ipc' = "end"
    BY <2>1, <2>4 DEF Typed
  <2> QED BY <2>2, <2>3, <2>4
<1>2. Separate'
  BY DEF PromiseInv, Separate, Code
<1> QED BY <1>1, <1>2, <1>3 DEF PromiseInv

LEMMA ReaderKeeps ==
    ASSUME PromiseInv, Reader
    PROVE  PromiseInv'
<1>1. CASE TypeQuit \/ TypeBlank \/ EndAtPrompt \/ PromptForever
  BY <1>1, Leaving DEF TypeQuit, TypeBlank, EndAtPrompt, PromptForever, replVars
<1>2. CASE TypeHeader \/ TypeLine
  <2>1. PICK line \in Lines : /\ text' = <<line>>
                              /\ TypeHeader => line.k = "header"
                              /\ ~TypeHeader => line.k \notin {"header", "blank", "quit"}
    BY <1>2 DEF TypeHeader, TypeLine
  <2>2. text' \in Seq(Lines) /\ Len(text') = 1 /\ text'[1] = line /\ text' # <<>>
    BY <2>1
  <2>3. ipc = "prompt" /\ answer' = Promise!Pending /\ modules' = modules /\ ipc' = IF TypeHeader THEN "cases" ELSE "eval"
    BY <1>2 DEF TypeHeader, TypeLine, Promise!Pending
  <2>4. Typed'
    BY <2>1, <2>2, <2>3 DEF Typed, IsInput, IsDefinitionText, Promise!Pending
  <2>5. Separate' /\ Anonymous' /\ Understood'
    BY <2>3 DEF PromiseInv, Separate, Code, Anonymous, Understood
  <2> QED BY <2>4, <2>5 DEF PromiseInv
<1>3. CASE TypeCase
  <2>1. PICK line \in Lines : line.k = "case" /\ text' = Append(text, line)
    BY <1>3 DEF TypeCase
  <2>2. ipc = "cases" /\ ipc' = "cases" /\ answer' = answer /\ modules' = modules
    BY <1>3 DEF TypeCase
  <2>3. text \in Seq(Lines) /\ IsDefinitionText(text)
    BY <2>2 DEF PromiseInv, Typed
  <2>4. text' \in Seq(Lines) /\ IsDefinitionText(text')
    BY <2>1, <2>3 DEF IsDefinitionText
  <2>5. Typed'
    BY <2>2, <2>4 DEF PromiseInv, Typed, Promise!Pending
  <2>6. Separate' /\ Anonymous' /\ Understood'
    BY <2>2 DEF PromiseInv, Separate, Code, Anonymous, Understood
  <2> QED BY <2>5, <2>6 DEF PromiseInv
<1>4. CASE TypeAfterCases \/ EndInCases \/ NoCases
  <2>1. ipc = "cases" /\ ipc' = "eval" /\ text' = text /\ answer' = answer /\ modules' = modules
    BY <1>4 DEF TypeAfterCases, EndInCases, NoCases
  <2>2. Typed'
    BY <2>1 DEF PromiseInv, Typed, IsInput, Promise!Pending
  <2>3. Separate' /\ Anonymous' /\ Understood'
    BY <2>1 DEF PromiseInv, Separate, Code, Anonymous, Understood
  <2> QED BY <2>2, <2>3 DEF PromiseInv
<1>5. CASE EvalAgain
  <2>1. /\ ipc = "prompt" /\ input # <<>> /\ ipc' = "eval" /\ text' = text
        /\ answer' = Promise!Pending /\ modules' = modules
    BY <1>5 DEF EvalAgain, Promise!Pending
  <2>2. Typed'
    BY <2>1 DEF PromiseInv, Typed, IsInput, Promise!Pending
  <2>3. Separate' /\ Anonymous' /\ Understood'
    BY <2>1 DEF PromiseInv, Separate, Code, Anonymous, Understood
  <2> QED BY <2>2, <2>3 DEF PromiseInv
<1>6. CASE CaseForever
  <2>1. ipc = "cases" /\ ipc' = "cases" /\ UNCHANGED <<text, answer, modules>>
    BY <1>6 DEF CaseForever
  <2>2. Typed'
    BY <2>1 DEF PromiseInv, Typed, IsDefinitionText, Promise!Pending
  <2>3. Separate' /\ Anonymous' /\ Understood'
    BY <2>1 DEF PromiseInv, Separate, Code, Anonymous, Understood
  <2> QED BY <2>2, <2>3 DEF PromiseInv
<1> QED BY <1>1, <1>2, <1>3, <1>4, <1>5, <1>6 DEF Reader

LEMMA ParseStarts ==
    ASSUME PromiseInv, EvalParse
    PROVE  PromiseInv'
<1>1. /\ ipc = "eval" /\ ipc' = "passes" /\ text' = text /\ answer' = answer /\ modules' = modules /\ input' = input
      /\ srcType' = "STREAM" /\ in' = input /\ last' = "none" /\ prog' = <<>> /\ stage' = "parse"
      /\ decls' = decls /\ before' = DOMAIN decls
  BY DEF EvalParse, ParseString
<1>2. Typed'
  BY <1>1 DEF PromiseInv, Typed, IsInput, Promise!Pending
<1>3. Separate'
  BY <1>1 DEF PromiseInv, Separate, Code
<1>4. Anonymous'
  BY <1>1 DEF Anonymous, Functions
<1>5. Understood'
  <2>1. ASSUME input = text PROVE 0 \in 0 .. Len(text') /\ HasRead(0)'
    <3>1. text \in Seq(Lines) /\ Len(text) \in Nat
      BY DEF PromiseInv, Typed
    <3>2. Len(in') = Len(text') - 0 /\ \A j \in 1 .. Len(in') : in'[j] = text'[0 + j]
      BY <1>1, <2>1, <3>1
    <3>3. IsProgramOf(prog', last', text', 0)
      BY <1>1 DEF IsProgramOf
    <3> QED BY <1>1, <3>1, <3>2, <3>3 DEF HasRead
  <2> QED BY <1>1, <2>1 DEF Understood
<1> QED BY <1>2, <1>3, <1>4, <1>5 DEF PromiseInv

\* A pass leaves what was typed and what is in the JIT alone.
LEMMA PassesLeave ==
    ASSUME PromiseInv, ipc = "passes", UNCHANGED replVars
    PROVE  /\ Typed' /\ Separate'
           /\ ipc' = "passes" /\ text' = text /\ input' = input /\ before' = before
           /\ Functioning' = Functioning /\ Code' = Code /\ Known' = Known
           /\ text \in Seq(Lines) /\ IsInput(text)
<1>1. /\ ipc' = ipc /\ text' = text /\ input' = input /\ before' = before
      /\ answer' = answer /\ modules' = modules
  BY DEF replVars
<1>2. Functioning' = Functioning /\ Code' = Code
  BY <1>1 DEF Functioning, Code
<1>3. Known' = Known
  BY <1>1, <1>2 DEF Known
<1>4. Typed' /\ text \in Seq(Lines) /\ IsInput(text)
  BY <1>1 DEF PromiseInv, Typed, Promise!Pending
<1>5. Separate'
  BY <1>1, <1>2 DEF PromiseInv, Separate
<1> QED BY <1>1, <1>2, <1>3, <1>4, <1>5

\* What a text means depends on it and on the functions with code.
LEMMA MeansAlike ==
    ASSUME UNCHANGED <<text, Functioning>>
    PROVE  (Promise!IsDefinition)' = Promise!IsDefinition /\ (Promise!IsExpression)' = Promise!IsExpression
<1>1. (Promise!Headers)' = Promise!Headers
  BY DEF Promise!Headers
<1>2. \A i : Promise!CasesOf(i)' = Promise!CasesOf(i)
  BY DEF Promise!CasesOf
<1>3. \A i : Promise!Def(i)' = Promise!Def(i)
  BY <1>2 DEF Promise!Def
<1>4. (Promise!New)' = Promise!New
  BY <1>1, <1>3 DEF Promise!New
<1>5. (Promise!IsExpression)' = Promise!IsExpression
  BY DEF Promise!IsExpression
<1>6. (Promise!IsDefinition)' = Promise!IsDefinition
  BY <1>1, <1>2, <1>4 DEF Promise!IsDefinition
<1> QED BY <1>5, <1>6

\* Such as one that has an error.
LEMMA Refusing ==
    ASSUME PromiseInv, ipc = "passes", UNCHANGED <<replVars, prog, last>>, stage' = "idle",
           input = text /\ Known => ~Promise!IsDefinition /\ ~Promise!IsExpression
    PROVE  PromiseInv'
<1>1. /\ Typed' /\ Separate'
      /\ ipc' = "passes" /\ text' = text /\ input' = input /\ Functioning' = Functioning /\ Known' = Known
  BY PassesLeave
<1>2. Anonymous'
  BY <1>1 DEF PromiseInv, Anonymous, Functions
<1>3. (Promise!IsDefinition)' = Promise!IsDefinition /\ (Promise!IsExpression)' = Promise!IsExpression
  BY <1>1, MeansAlike
<1>4. Understood'
  BY <1>1, <1>3 DEF Understood
<1> QED BY <1>1, <1>2, <1>4 DEF PromiseInv

LEMMA ReadAlike ==
    ASSUME UNCHANGED <<prog, last, text>>
    PROVE  Whole' = Whole
BY DEF Whole, IsProgramOf, HoldsCases

\* Adding a case changes no function's kind.
LEMMA CasesOnly ==
    ASSUME NEW ds \in Seq(Declarations), ds # <<>>, ds[Len(ds)] \in FunctionDecls, NEW p,
           NEW i \in DOMAIN AddCase(ds, p)
    PROVE  /\ i \in DOMAIN ds
           /\ AddCase(ds, p)[i].k = ds[i].k /\ AddCase(ds, p)[i].anon = ds[i].anon
<1> DEFINE n == Len(ds)
           f == [ds[n] EXCEPT !.cases = Append(@, p)]
<1>1. n \in DOMAIN ds
  OBVIOUS
<1>2. ds[n] \in [k : {"function"}, name : Strings, sig : Strings, anon : BOOLEAN, cases : Seq(Bodies)]
  BY DEF FunctionDecls
<1>3. f.k = ds[n].k
  BY <1>2
<1>4. f.anon = ds[n].anon
  BY <1>2
<1>5. AddCase(ds, p) = [ds EXCEPT ![n] = f]
  BY DEF AddCase
<1> HIDE DEF f
<1>6. i \in DOMAIN ds /\ AddCase(ds, p)[i] = IF i = n THEN f ELSE ds[i]
  BY <1>1, <1>5
<1>7. CASE i = n
  BY <1>3, <1>4, <1>6, <1>7
<1>8. CASE i # n
  BY <1>6, <1>8
<1> QED BY <1>6, <1>7, <1>8

LEMMA ShiftAnonymous ==
    ASSUME LinkInv, PromiseInv, ipc = "passes", ipc' = "passes", Shift
    PROVE  Anonymous'
<1> DEFINE p == Head(in)
<1>1. Fits(p) /\ prog' = Reduce(p) /\ last' = IF p.k \in {"type", "include"} THEN "decl" ELSE p.k
  BY DEF Shift
<1>2. stage' = "parse"
  BY DEF Shift
<1>3. prog \in Seq(Declarations)
  BY DEF LinkInv, Parsing
<1>4. /\ last = "expr" => Len(prog) = 1 /\ prog[1].k = "function" /\ prog[1].anon
      /\ last # "expr" => \A i \in Functions : ~prog[i].anon
  BY DEF PromiseInv, Anonymous
<1> HIDE DEF p
<1>5. CASE p.k \in {"header", "type"}
  <2>1. last # "expr" /\ last' # "expr"
    BY <1>1, <1>5 DEF Fits, After
  <2>2. PICK d : prog' = Append(prog, d) /\ (d.k = "function" => ~d.anon)
    <3>1. CASE p.k = "header"
      BY <1>1, <3>1 DEF Reduce, Function
    <3>2. CASE p.k = "type"
      BY <1>1, <3>2 DEF Reduce
    <3> QED BY <1>5, <3>1, <3>2
  <2>3. ASSUME NEW i \in DOMAIN prog', prog'[i].k = "function" PROVE ~prog'[i].anon
    <3>1. (i \in DOMAIN prog /\ prog'[i] = prog[i]) \/ prog'[i] = d
      BY <1>3, <2>2
    <3> QED BY <1>4, <2>1, <2>2, <2>3, <3>1 DEF Functions
  <2> QED BY <1>2, <2>1, <2>3 DEF Anonymous, Functions
<1>6. CASE p.k = "include"
  <2>1. prog' = prog /\ last' = "decl" /\ last # "expr"
    BY <1>1, <1>6 DEF Reduce, Fits, After
  <2> QED BY <1>2, <1>4, <2>1 DEF Anonymous, Functions
<1>7. CASE p.k = "case"
  <2>1. prog' = AddCase(prog, p) /\ last' = "case" /\ last \in {"header", "case"}
    BY <1>1, <1>7 DEF Reduce, Fits, After
  <2>2. prog # <<>> /\ prog[Len(prog)] \in FunctionDecls
    BY <2>1 DEF LinkInv, Parsing
  <2>3. ASSUME NEW i \in DOMAIN prog', prog'[i].k = "function" PROVE ~prog'[i].anon
    <3>1. i \in DOMAIN prog /\ prog'[i].k = prog[i].k /\ prog'[i].anon = prog[i].anon
      BY <1>3, <2>1, <2>2, CasesOnly
    <3> QED BY <1>4, <2>1, <2>3, <3>1 DEF Functions
  <2> QED BY <1>2, <2>1, <2>3 DEF Anonymous, Functions
<1>8. CASE p.k = "expr"
  <2> DEFINE ds == IF prog = <<>> THEN <<AnonFunction>> ELSE prog
  <2>1. prog' = AddCase(ds, p) /\ last' = "expr" /\ last \in {"none", "expr"}
    BY <1>1, <1>8 DEF Reduce, Fits, After
  <2>2. ds \in Seq(Declarations) /\ Len(ds) = 1 /\ ds[1] \in FunctionDecls /\ ds[1].anon
    <3>1. CASE prog = <<>>
      <4>1. AnonFunction \in FunctionDecls /\ AnonFunction.anon
        <5>1. <<>> \in Seq(Bodies)
          OBVIOUS
        <5>2. AnonFunction \in [k : {"function"}, name : Strings, sig : Strings, anon : BOOLEAN, cases : Seq(Bodies)]
          BY <5>1 DEF AnonFunction, Strings
        <5>3. AnonFunction.name = AnonName /\ AnonFunction.anon
          BY DEF AnonFunction
        <5> QED BY <5>2, <5>3 DEF FunctionDecls
      <4>2. AnonFunction \in Declarations
        BY <4>1 DEF Declarations
      <4>3. ds = <<AnonFunction>>
        BY <3>1
      <4> HIDE DEF ds
      <4> QED BY <4>1, <4>2, <4>3
    <3>2. CASE prog # <<>>
      <4>1. ds = prog /\ last = "expr"
        BY <2>1, <3>2 DEF LinkInv, Parsing
      <4>2. 1 \in Functions
        BY <1>3, <1>4, <4>1 DEF Functions
      <4>3. prog[1] \in FunctionDecls
        BY <4>2, FunctionsOf DEF LinkInv
      <4> HIDE DEF ds
      <4> QED BY <1>3, <1>4, <4>1, <4>3
    <3> QED BY <3>1, <3>2
  <2> HIDE DEF ds
  <2>3. Len(prog') = 1 /\ prog'[1].k = "function" /\ prog'[1].anon
    BY <2>1, <2>2, AddingToOne
  <2> QED BY <1>2, <2>1, <2>3 DEF Anonymous
<1> QED BY <1>1, <1>5, <1>6, <1>7, <1>8 DEF Fits, After

LEMMA ShiftKeeps ==
    ASSUME LinkInv, PromiseInv, ipc = "passes", Shift, UNCHANGED replVars
    PROVE  PromiseInv'
<1>1. /\ Typed' /\ Separate'
      /\ ipc' = "passes" /\ text' = text /\ input' = input /\ before' = before
      /\ text \in Seq(Lines) /\ IsInput(text)
  BY PassesLeave
<1>2. Anonymous'
  BY <1>1, ShiftAnonymous
<1>3. stage' = "parse" /\ stage = "parse" /\ srcType' = srcType /\ decls' = decls
  BY DEF Shift
<1>4. Understood'
  <2>1. ASSUME input = text
        PROVE  srcType' = "STREAM" /\ DOMAIN decls' = before /\ \E k \in 0 .. Len(text) : HasRead(k)'
    <3>1. srcType = "STREAM" /\ DOMAIN decls = before
      BY <1>3, <2>1 DEF PromiseInv, Understood
    <3>2. PICK k \in 0 .. Len(text) : HasRead(k)
      BY <1>3, <2>1 DEF PromiseInv, Understood
    <3>3. /\ k + 1 \in 0 .. Len(text)
          /\ Len(in') = Len(text) - (k + 1) /\ \A j \in 1 .. Len(in') : in'[j] = text[(k + 1) + j]
          /\ IsProgramOf(prog', last', text, k + 1)
      BY <1>1, <3>2, ShiftReads
    <3>4. HasRead(k + 1)'
      BY <1>1, <3>3 DEF HasRead
    <3> QED BY <1>3, <3>1, <3>3, <3>4
  <2> QED BY <1>1, <1>3, <2>1 DEF Understood
<1> QED BY <1>1, <1>2, <1>4 DEF PromiseInv

LEMMA SyntaxErrorKeeps ==
    ASSUME LinkInv, PromiseInv, ipc = "passes", SyntaxError, UNCHANGED replVars
    PROVE  PromiseInv'
<1>1. stage' = "idle" /\ UNCHANGED <<prog, last>> /\ stage = "parse"
  BY DEF SyntaxError, Return, parserVars
<1>2. ASSUME input = text PROVE ~Promise!IsDefinition /\ ~Promise!IsExpression
  <2>1. srcType = "STREAM"
    BY <1>1, <1>2 DEF PromiseInv, Understood
  <2>2. PICK k \in 0 .. Len(text) : HasRead(k)
    BY <1>1, <1>2 DEF PromiseInv, Understood
  <2> QED BY <2>1, <2>2, PassesLeave, SyntaxErrorIsOne
<1> QED BY <1>1, <1>2, Refusing

LEMMA ParsedKeeps ==
    ASSUME LinkInv, PromiseInv, ipc = "passes", Parsed, UNCHANGED replVars
    PROVE  PromiseInv'
<1>1. stage' = "scope" /\ UNCHANGED <<prog, last, decls>> /\ stage = "parse" /\ in = <<>> /\ last # "header"
  BY DEF Parsed, parserVars
<1>2. /\ Typed' /\ Separate'
      /\ ipc' = "passes" /\ text' = text /\ input' = input /\ before' = before
      /\ text \in Seq(Lines)
  BY PassesLeave
<1>3. Anonymous'
  BY <1>1, <1>2 DEF PromiseInv, Anonymous, Functions
<1>4. ASSUME input = text PROVE DOMAIN decls = before /\ Whole
  <2>1. DOMAIN decls = before
    BY <1>1, <1>4 DEF PromiseInv, Understood
  <2>2. PICK k \in 0 .. Len(text) : HasRead(k)
    BY <1>1, <1>4 DEF PromiseInv, Understood
  <2>3. k = Len(text)
    <3>1. Len(in) = 0
      BY <1>1
    <3> QED BY <1>2, <2>2, <3>1 DEF HasRead
  <2> QED BY <1>1, <2>1, <2>2, <2>3 DEF HasRead, Whole
<1>5. Whole' = Whole
  BY <1>1, <1>2, ReadAlike
<1>6. Understood'
  BY <1>1, <1>2, <1>4, <1>5 DEF Understood
<1> QED BY <1>2, <1>3, <1>6 DEF PromiseInv

\* A name that is taken is that of a function with code.
LEMMA ScopeKeeps ==
    ASSUME LinkInv, PromiseInv, ipc = "passes", AcceptScopeGen, UNCHANGED replVars
    PROVE  PromiseInv'
<1>1. stage = "scope" /\ UNCHANGED <<prog, last>>
  BY DEF AcceptScopeGen, Accept, parserVars
<1>2. /\ Typed' /\ Separate'
      /\ ipc' = "passes" /\ text' = text /\ input' = input /\ before' = before /\ Code' = Code
      /\ text \in Seq(Lines) /\ IsInput(text)
  BY PassesLeave
<1>3. ASSUME input = text PROVE DOMAIN decls = before /\ Whole
  BY <1>1, <1>2, <1>3 DEF PromiseInv, Understood
<1>4. CASE Redeclared # {}
  <2>1. stage' = "idle"
    BY <1>4 DEF AcceptScopeGen, Accept, Return
  <2>2. ASSUME input = text, Known PROVE ~Promise!IsDefinition /\ ~Promise!IsExpression
    <3>1. CASE text[1].k \notin {"header", "expr"}
      BY <1>2, <3>1, OtherTexts
    <3>2. CASE text[1].k \in {"header", "expr"}
      <4>1. /\ Functions = {1} /\ TypeDecls = {} /\ Above(1) = {} /\ prog[1] \in FunctionDecls
            /\ text[1].k = "header" => IsDefinitionText(text) /\ prog[1].name = text[1].name
            /\ text[1].k = "expr" => prog[1].anon
        BY <1>2, <1>3, <2>2, <3>2, OneFunction
      <4>2. ~prog[1].anon /\ prog[1].name \in before
        <5>1. NewTypes = {}
          BY <4>1 DEF NewTypes
        <5>2. RedeclaredCons = {}
          BY <5>1 DEF RedeclaredCons, NewCons
        <5> QED BY <1>3, <1>4, <2>2, <4>1, <5>1, <5>2 DEF Redeclared
      <4>3. text[1].k = "header" /\ prog[1].name # AnonName
        BY <3>2, <4>1, <4>2 DEF FunctionDecls
      <4>4. \E d \in Functioning : d.name = text[1].name
        BY <2>2, <4>1, <4>2, <4>3 DEF Known
      <4> QED BY <1>2, <4>1, <4>3, <4>4, DefinitionMeans
    <3> QED BY <3>1, <3>2
  <2> QED BY <1>1, <2>1, <2>2, Refusing
<1>5. CASE Redeclared = {}
  <2>1. stage' = "types" /\ DOMAIN decls' = DOMAIN decls \cup Names
    BY <1>5 DEF AcceptScopeGen, Accept, Declared
  <2>2. ASSUME NEW i \in Functions, ~prog[i].anon, NEW d \in Code PROVE d.name # prog[i].name
    <3>1. prog[i].name \notin DOMAIN decls
      BY <1>5, <2>2, FirstIsOnly DEF LinkInv
    <3>2. prog[i].name # AnonName
      BY <2>2, FunctionsOf DEF LinkInv, FunctionDecls
    <3> QED BY <3>1, <3>2 DEF LinkInv, Jitted, IsDeclared
  <2>3. Anonymous'
    BY <1>1, <1>2, <2>1, <2>2 DEF PromiseInv, Anonymous, Functions
  <2>4. Names' = Names /\ Whole' = Whole
    BY <1>1, <1>2, ReadAlike DEF Names, Functions
  <2>5. Understood'
    BY <1>2, <1>3, <2>1, <2>4 DEF Understood
  <2> QED BY <1>2, <2>3, <2>5 DEF PromiseInv
<1> QED BY <1>4, <1>5

\* The type checker and the generator refuse what is not well formed.
LEMMA ErrorsRefuse ==
    ASSUME LinkInv, PromiseInv, ipc = "passes", stage \in {"types", "optimize", "generate"},
           input = text, Known, IllTyped # {} \/ TypeDecls # {} \/ Ungenerable # {}
    PROVE  ~Promise!IsDefinition /\ ~Promise!IsExpression
<1>1. text \in Seq(Lines) /\ IsInput(text)
  BY DEF PromiseInv, Typed
<1>2. Whole /\ DOMAIN decls = before \cup Names
  BY DEF PromiseInv, Understood
<1>3. CASE text[1].k \notin {"header", "expr"}
  BY <1>1, <1>3, OtherTexts
<1>4. CASE text[1].k \in {"header", "expr"}
  <2>1. TypeDecls = {}
    BY <1>1, <1>2, <1>4, OneFunction
  <2> QED BY <1>1, <1>2, <1>4, <2>1, Verdict
<1> QED BY <1>3, <1>4

LEMMA TypesKeep ==
    ASSUME LinkInv, PromiseInv, ipc = "passes", AcceptTypeChecker, UNCHANGED replVars
    PROVE  PromiseInv'
<1>1. stage = "types" /\ UNCHANGED <<prog, last, decls>>
  BY DEF AcceptTypeChecker, Accept, parserVars
<1>2. /\ Typed' /\ Separate'
      /\ ipc' = "passes" /\ text' = text /\ input' = input /\ before' = before /\ Code' = Code
  BY PassesLeave
<1>3. CASE IllTyped # {}
  <2>1. stage' = "idle"
    BY <1>3 DEF AcceptTypeChecker, Accept, Return
  <2> QED BY <1>1, <1>3, <2>1, ErrorsRefuse, Refusing
<1>4. CASE IllTyped = {}
  <2>1. stage' = "optimize"
    BY <1>4 DEF AcceptTypeChecker, Accept
  <2>2. Functions' = Functions
    BY <1>1 DEF Functions
  <2>3. Anonymous'
    BY <1>1, <1>2, <2>1, <2>2 DEF PromiseInv, Anonymous
  <2>4. Names' = Names /\ Whole' = Whole
    BY <1>1, <1>2, <2>2, ReadAlike DEF Names
  <2>5. IllTyped' = IllTyped
    BY <1>1, <2>2 DEF IllTyped, WellTyped
  <2>6. Understood'
    BY <1>1, <1>2, <1>4, <2>1, <2>4, <2>5 DEF PromiseInv, Understood
  <2> QED BY <1>2, <2>3, <2>6 DEF PromiseInv
<1> QED BY <1>3, <1>4

LEMMA OptimizerKeeps ==
    ASSUME LinkInv, PromiseInv, ipc = "passes", AcceptOptimizer, UNCHANGED replVars
    PROVE  PromiseInv'
<1>1. stage = "optimize" /\ UNCHANGED <<prog, last, decls>>
  BY DEF AcceptOptimizer, Accept, parserVars
<1>2. /\ Typed' /\ Separate'
      /\ ipc' = "passes" /\ text' = text /\ input' = input /\ before' = before /\ Code' = Code
  BY PassesLeave
<1>3. CASE TypeDecls # {}
  <2>1. stage' = "idle"
    BY <1>3 DEF AcceptOptimizer, Accept, Return
  <2> QED BY <1>1, <1>3, <2>1, ErrorsRefuse, Refusing
<1>4. CASE TypeDecls = {}
  <2>1. stage' = "generate"
    BY <1>4 DEF AcceptOptimizer, Accept
  <2>2. Functions' = Functions /\ TypeDecls' = TypeDecls
    BY <1>1 DEF Functions, TypeDecls
  <2>3. Anonymous'
    BY <1>1, <1>2, <1>4, <2>1, <2>2 DEF PromiseInv, Anonymous
  <2>4. Names' = Names /\ Whole' = Whole
    BY <1>1, <1>2, <2>2, ReadAlike DEF Names
  <2>5. IllTyped' = IllTyped
    BY <1>1, <2>2 DEF IllTyped, WellTyped
  <2>6. Understood'
    BY <1>1, <1>2, <2>1, <2>4, <2>5 DEF PromiseInv, Understood
  <2> QED BY <1>2, <2>3, <2>6 DEF PromiseInv
<1> QED BY <1>3, <1>4

LEMMA GenerateKeeps ==
    ASSUME LinkInv, PromiseInv, EvalGenerateFails
    PROVE  PromiseInv'
<1>1. ipc = "passes" /\ stage = "generate" /\ stage' = "idle" /\ Ungenerable # {} /\ UNCHANGED <<prog, last, replVars>>
  BY DEF EvalGenerateFails, Accept, Return, parserVars
<1> QED BY <1>1, ErrorsRefuse, Refusing

\* A program that is generated is one expression or some functions.
LEMMA GeneratedProgram ==
    ASSUME LinkInv, PromiseInv, ipc = "passes", stage = "generate", prog # <<>>
    PROVE  /\ prog \in Seq(Declarations) /\ Functions = DOMAIN prog /\ 1 \in Functions
           /\ prog[1].anon => Len(prog) = 1 /\ last = "expr" /\ prog[1].name = AnonName
           /\ ~prog[1].anon => \A i \in Functions : /\ prog[i].name # AnonName
                                                    /\ \A d \in Code : d.name # prog[i].name
<1>1. prog \in Seq(Declarations)
  BY DEF LinkInv, Parsing
<1>2. TypeDecls = {}
  BY DEF PromiseInv, Anonymous
<1>3. ASSUME NEW i \in DOMAIN prog PROVE prog[i].k = "function"
  <2>1. prog[i] \in FunctionDecls \/ prog[i].k = "type"
    BY <1>1 DEF Declarations, TypeLines
  <2> QED BY <1>2, <2>1 DEF TypeDecls, FunctionDecls
<1>4. Functions = DOMAIN prog /\ 1 \in DOMAIN prog
  <2>1. 1 \in DOMAIN prog
    BY <1>1
  <2>2. Functions = DOMAIN prog
    BY <1>3 DEF Functions
  <2> QED BY <2>1, <2>2
<1>5. ASSUME NEW i \in Functions PROVE prog[i].anon <=> prog[i].name = AnonName
  BY FunctionsOf DEF LinkInv, FunctionDecls
<1>6. last = "expr" => Len(prog) = 1 /\ prog[1].anon
  BY DEF PromiseInv, Anonymous
<1>7. last # "expr" => \A i \in Functions : ~prog[i].anon
  BY DEF PromiseInv, Anonymous
<1>8. \A i \in Functions : ~prog[i].anon => \A d \in Code : d.name # prog[i].name
  BY DEF PromiseInv, Anonymous
<1>9. prog[1].anon => Len(prog) = 1 /\ last = "expr" /\ prog[1].name = AnonName
  BY <1>4, <1>5, <1>6, <1>7
<1>10. ASSUME ~prog[1].anon, NEW i \in Functions
       PROVE  prog[i].name # AnonName /\ \A d \in Code : d.name # prog[i].name
  <2>1. ~prog[i].anon
    BY <1>6, <1>7, <1>10
  <2>2. prog[i].name # AnonName
    BY <1>5, <2>1
  <2> QED BY <1>8, <2>1, <2>2
<1>11. ~prog[1].anon => \A i \in Functions : prog[i].name # AnonName /\ \A d \in Code : d.name # prog[i].name
  BY <1>10
<1>12. 1 \in Functions
  BY <1>4
<1> QED BY <1>1, <1>4, <1>9, <1>11, <1>12, Zenon

\* The module that is added is new, and is alone in its names.
LEMMA AddedAlone ==
    ASSUME LinkInv, PromiseInv, AddModule
    PROVE  /\ modules' = Append(modules, {CodeOf(prog[i]) : i \in DOMAIN prog})
           /\ \A m, n \in DOMAIN modules' : \A d \in modules'[m], e \in modules'[n] : d.name = e.name => m = n
           /\ Code' = Code \cup {CodeOf(prog[i]) : i \in DOMAIN prog}
           /\ \A m \in DOMAIN modules : m \in DOMAIN modules' /\ modules'[m] = modules[m]
           /\ modules \in Seq(SUBSET CompiledFunctions) /\ Len(modules') = Len(modules) + 1
           /\ modules'[Len(modules')] = {CodeOf(prog[i]) : i \in DOMAIN prog}
           /\ modules' # <<>> /\ DOMAIN modules' = DOMAIN modules \cup {Len(modules')}
<1> DEFINE new == {CodeOf(prog[i]) : i \in DOMAIN prog}
<1>1. ipc = "passes" /\ stage = "generate" /\ prog # <<>> /\ modules' = Append(modules, {CodeOf(prog[i]) : i \in Functions})
  BY DEF AddModule
<1>2. /\ prog \in Seq(Declarations) /\ Functions = DOMAIN prog /\ 1 \in Functions
      /\ prog[1].anon => Len(prog) = 1 /\ last = "expr" /\ prog[1].name = AnonName
      /\ ~prog[1].anon => \A i \in Functions : /\ prog[i].name # AnonName
                                               /\ \A d \in Code : d.name # prog[i].name
  BY <1>1, GeneratedProgram
<1>3. modules' = Append(modules, new)
  BY <1>1, <1>2
<1>4. modules \in Seq(SUBSET CompiledFunctions)
  BY DEF LinkInv, Jitted
<1>5. ASSUME NEW d \in Code, NEW e \in new PROVE d.name # e.name
  <2>1. PICK i \in Functions : e.name = prog[i].name
    BY <1>2 DEF CodeOf
  <2>2. CASE prog[1].anon
    <3>1. i = 1
      BY <1>2, <2>1, <2>2
    <3>2. d.name # AnonName
      BY <1>1 DEF PromiseInv, Separate
    <3> QED BY <1>2, <2>1, <2>2, <3>1, <3>2
  <2>3. CASE ~prog[1].anon
    BY <1>2, <2>1, <2>3
  <2> QED BY <2>2, <2>3
<1> HIDE DEF new
<1>6. /\ Len(modules') = Len(modules) + 1 /\ modules'[Len(modules) + 1] = new /\ modules' # <<>>
      /\ DOMAIN modules' = DOMAIN modules \cup {Len(modules) + 1}
      /\ \A m \in DOMAIN modules : m \in DOMAIN modules' /\ modules'[m] = modules[m]
  BY <1>3, <1>4
<1>7. Code' = Code \cup new
  BY <1>6 DEF Code
<1>8. ASSUME NEW m \in DOMAIN modules', NEW n \in DOMAIN modules',
             NEW d \in modules'[m], NEW e \in modules'[n], d.name = e.name
      PROVE  m = n
  <2>1. CASE m \in DOMAIN modules /\ n \in DOMAIN modules
    <3>1. d \in modules[m] /\ e \in modules[n]
      BY <1>6, <2>1
    <3> QED BY <1>8, <2>1, <3>1 DEF PromiseInv, Separate
  <2>2. CASE m \in DOMAIN modules /\ n = Len(modules) + 1
    <3>1. d \in Code /\ e \in new
      BY <1>6, <2>2 DEF Code
    <3> QED BY <1>5, <1>8, <3>1
  <2>3. CASE n \in DOMAIN modules /\ m = Len(modules) + 1
    <3>1. e \in Code /\ d \in new
      BY <1>6, <2>3 DEF Code
    <3> QED BY <1>5, <1>8, <3>1
  <2> QED BY <1>6, <2>1, <2>2, <2>3
<1>9. \A m, n \in DOMAIN modules' : \A d \in modules'[m], e \in modules'[n] : d.name = e.name => m = n
  BY <1>8
<1> QED BY <1>3, <1>4, <1>6, <1>7, <1>9 DEF new

\* What eval goes on with: an expression that may be answered.
LEMMA GoodText ==
    ASSUME LinkInv, PromiseInv, AddModule, input = text
    PROVE  /\ Whole /\ DOMAIN decls = before \cup Names /\ IllTyped = {}
           /\ text[1].k \in {"header", "expr"}
           /\ prog[1].anon <=> text[1].k = "expr"
<1>1. ipc = "passes" /\ stage = "generate" /\ prog # <<>>
  BY DEF AddModule
<1>2. Whole /\ DOMAIN decls = before \cup Names /\ IllTyped = {}
  BY <1>1 DEF PromiseInv, Understood
<1>3. text \in Seq(Lines) /\ IsInput(text)
  BY <1>1 DEF PromiseInv, Typed
<1>4. Len(text) # 0
  BY <1>3 DEF IsInput, IsDefinitionText
<1>5. IsProgramOf(prog, last, text, Len(text))
  BY <1>2 DEF Whole
<1>6. 1 \in Functions
  BY <1>1, GeneratedProgram
<1>7. prog[1].k = "function"
  BY <1>6 DEF Functions
<1>8. text[1].k \in {"header", "expr"}
  <2>1. ASSUME prog = <<text[1]>> PROVE text[1].k = "function"
    BY <1>7, <2>1
  <2> QED BY <1>1, <1>4, <1>5, <2>1 DEF IsProgramOf
<1>9. prog[1].anon <=> text[1].k = "expr"
  BY <1>4, <1>5, <1>8, <1>1, <1>7 DEF IsProgramOf
<1> QED BY <1>2, <1>8, <1>9, Zenon

LEMMA ModuleKeeps ==
    ASSUME LinkInv, PromiseInv, AddModule
    PROVE  PromiseInv'
<1>1. /\ ipc = "passes" /\ stage = "generate" /\ prog # <<>> /\ Ungenerable = {}
      /\ UNCHANGED <<prog, last, decls, text, input, before>>
      /\ IF prog[1].anon THEN ipc' = "run" /\ answer' = answer ELSE ipc' = "prompt"
  BY DEF AddModule, parserVars
<1>2. /\ prog \in Seq(Declarations) /\ Functions = DOMAIN prog /\ 1 \in Functions
      /\ prog[1].anon => Len(prog) = 1 /\ last = "expr" /\ prog[1].name = AnonName
      /\ ~prog[1].anon => \A i \in Functions : /\ prog[i].name # AnonName
                                               /\ \A d \in Code : d.name # prog[i].name
  BY <1>1, GeneratedProgram
<1>3. /\ \A m, n \in DOMAIN modules' : \A d \in modules'[m], e \in modules'[n] : d.name = e.name => m = n
      /\ Code' = Code \cup {CodeOf(prog[i]) : i \in DOMAIN prog}
      /\ \A m \in DOMAIN modules : m \in DOMAIN modules' /\ modules'[m] = modules[m]
      /\ modules \in Seq(SUBSET CompiledFunctions) /\ Len(modules') = Len(modules) + 1
      /\ modules'[Len(modules')] = {CodeOf(prog[i]) : i \in DOMAIN prog} /\ modules' # <<>>
  BY AddedAlone
<1>4. \A d \in Code : d.name # AnonName
  BY <1>1 DEF PromiseInv, Separate
<1>5. Typed'
  <2>1. ipc' \in {"run", "prompt"} /\ (ipc' = "run" => answer' = answer)
    BY <1>1
  <2> QED BY <1>1, <2>1 DEF PromiseInv, Typed, IsInput, Promise!Pending
<1>6. CASE prog[1].anon
  <2>1. ipc' = "run"
    BY <1>1, <1>6
  <2>2. DOMAIN prog = {1} /\ prog[1].k = "function"
    BY <1>2, <1>6 DEF Functions
  <2>3. RunsLast'
    <3>1. modules'[Len(modules')] = {CodeOf(prog[1])}
      BY <1>3, <2>2
    <3>2. ASSUME NEW m \in 1 .. Len(modules') - 1 PROVE \A d \in modules'[m] : d.name # AnonName
      <4>1. m \in DOMAIN modules
        BY <1>3
      <4>2. modules'[m] = modules[m] /\ modules[m] \subseteq Code
        BY <1>3, <4>1 DEF Code
      <4> QED BY <1>4, <4>2
    <3>3. CodeOf(prog'[1]) = CodeOf(prog[1])
      BY <1>1
    <3>4. Len(prog') = 1 /\ prog'[1].k = "function" /\ prog'[1].anon
      BY <1>1, <1>2, <1>6, <2>2
    <3> QED BY <1>3, <3>1, <3>2, <3>3, <3>4 DEF RunsLast
  <2>4. Separate'
    BY <1>3, <2>1, <2>3 DEF Separate
  <2>5. ASSUME input = text
        PROVE  /\ DOMAIN decls = before \cup {AnonName}
               /\ text[1].k = "expr" /\ text[1].bad = "" /\ prog[1].cases = <<text[1]>>
               /\ text[1].binds \cap DOMAIN decls = {}
    <3>1. Whole /\ DOMAIN decls = before \cup Names /\ IllTyped = {} /\ text[1].k = "expr"
      BY <1>6, <2>5, GoodText
    <3>2. text \in Seq(Lines) /\ IsInput(text)
      BY <1>1 DEF PromiseInv, Typed
    <3>3. Functions = {1} /\ Names = {AnonName} /\ prog[1].cases = <<text[1]>> /\ prog[1].sig # "grown"
      BY <3>1, <3>2, OneFunction
    <3>4. DOMAIN prog[1].cases = {1} /\ prog[1].cases[1] = text[1]
      BY <3>3
    <3>5. WellTyped(text[1]) /\ text[1].bad # "code"
      BY <1>1, <3>1, <3>3, <3>4, NoErrors
    <3>6. text[1] \in Lines
      <4>1. 1 \in DOMAIN text
        BY <3>2 DEF IsInput, IsDefinitionText
      <4> QED BY <3>2, <4>1
    <3>7. text[1].bad = ""
      BY <3>1, <3>5, <3>6, LinesAssumption DEF WellTyped
    <3>8. text[1].binds \cap DOMAIN decls = {}
      BY <3>5 DEF WellTyped
    <3> QED BY <3>1, <3>3, <3>7, <3>8
  <2>6. Anonymous' /\ Understood'
    BY <1>1, <2>1, <2>5 DEF Anonymous, Understood
  <2> QED BY <1>5, <2>4, <2>6 DEF PromiseInv
<1>7. CASE ~prog[1].anon
  <2>1. ipc' = "prompt"
    BY <1>1, <1>7
  <2>2. \A d \in Code' : d.name # AnonName
    BY <1>2, <1>3, <1>4, <1>7 DEF CodeOf
  <2>3. Separate'
    BY <1>3, <2>1, <2>2 DEF Separate
  <2>4. Anonymous' /\ Understood'
    BY <2>1 DEF Anonymous, Understood
  <2> QED BY <1>5, <2>3, <2>4 DEF PromiseInv
<1> QED BY <1>6, <1>7

LEMMA RunKeeps ==
    ASSUME LinkInv, PromiseInv, EvalRun
    PROVE  PromiseInv' /\ Functioning' = Functioning
<1>1. /\ ipc = "run" /\ ipc' = "prompt" /\ UNCHANGED <<input, text>>
      /\ modules' = SubSeq(modules, 1, Len(modules) - 1)
  BY DEF EvalRun
<1>2. modules \in Seq(SUBSET CompiledFunctions)
  BY DEF LinkInv, Jitted
<1>3. RunsLast
  BY <1>1 DEF PromiseInv, Separate
<1>4. /\ DOMAIN modules = DOMAIN modules' \cup {Len(modules)} /\ DOMAIN modules' = 1 .. Len(modules) - 1
      /\ \A m \in DOMAIN modules' : m \in DOMAIN modules /\ modules'[m] = modules[m]
  <2> DEFINE n == Len(modules)
  <2>1. n \in Nat /\ n >= 1 /\ DOMAIN modules = 1 .. n
    BY <1>2, <1>3 DEF RunsLast
  <2>2. Len(modules') = n - 1 /\ DOMAIN modules' = 1 .. n - 1 /\ \A m \in 1 .. n - 1 : modules'[m] = modules[m]
    BY <1>1, <1>2, <2>1
  <2> HIDE DEF n
  <2>3. 1 .. n = (1 .. n - 1) \cup {n}
    BY <2>1
  <2>4. \A m \in 1 .. n - 1 : m \in 1 .. n
    BY <2>1
  <2>5. DOMAIN modules = DOMAIN modules' \cup {n} /\ DOMAIN modules' = 1 .. n - 1
    BY <2>1, <2>2, <2>3
  <2>6. \A m \in DOMAIN modules' : m \in DOMAIN modules /\ modules'[m] = modules[m]
    BY <2>1, <2>2, <2>4
  <2> QED BY <2>5, <2>6 DEF n
<1>5. \A d \in Code' : d.name # AnonName
  <2> SUFFICES ASSUME NEW d \in Code' PROVE d.name # AnonName
    OBVIOUS
  <2>1. PICK m \in DOMAIN modules' : d \in modules'[m]
    BY DEF Code
  <2>2. m \in 1 .. Len(modules) - 1 /\ d \in modules[m]
    BY <1>4, <2>1
  <2> QED BY <1>3, <2>2 DEF RunsLast
<1>6. Separate'
  <2>1. ASSUME NEW m \in DOMAIN modules', NEW l \in DOMAIN modules',
               NEW d \in modules'[m], NEW e \in modules'[l], d.name = e.name
        PROVE  m = l
    <3>1. m \in DOMAIN modules /\ l \in DOMAIN modules /\ d \in modules[m] /\ e \in modules[l]
      BY <1>4
    <3> QED BY <2>1, <3>1 DEF PromiseInv, Separate
  <2> QED BY <1>1, <1>5, <2>1 DEF Separate
<1>7. Typed' /\ Anonymous' /\ Understood'
  BY <1>1 DEF PromiseInv, Typed, Anonymous, Understood
<1>8. Code = Code' \cup {CodeOf(prog[1])}
  <2>1. modules[Len(modules)] = {CodeOf(prog[1])}
    BY <1>3 DEF RunsLast
  <2> QED BY <1>4, <2>1 DEF Code
<1>9. Functioning' = Functioning
  <2>1. 1 \in Functions
    <3>1. prog \in Seq(Declarations) /\ Len(prog) = 1 /\ prog[1].k = "function"
      BY <1>3 DEF LinkInv, Parsing, RunsLast
    <3> QED BY <3>1 DEF Functions
  <2>2. CodeOf(prog[1]).name = AnonName
    BY <1>3, <2>1, FunctionsOf DEF LinkInv, FunctionDecls, RunsLast, CodeOf
  <2> QED BY <1>5, <1>8, <2>2 DEF Functioning
<1> QED BY <1>6, <1>7, <1>9 DEF PromiseInv

LEMMA PromiseNext == LinkInv /\ PromiseInv /\ [INext]_<<driverVars, replVars>> => PromiseInv'
<1> SUFFICES ASSUME LinkInv, PromiseInv, [INext]_<<driverVars, replVars>> PROVE PromiseInv'
  OBVIOUS
<1>1. CASE Reader
  BY <1>1, ReaderKeeps
<1>2. CASE EvalParse
  BY <1>2, ParseStarts
<1>3. CASE EvalPasses
  <2>1. ipc = "passes" /\ UNCHANGED replVars
    BY <1>3 DEF EvalPasses
  <2> QED BY <1>3, <2>1, ShiftKeeps, SyntaxErrorKeeps, ParsedKeeps, ScopeKeeps, TypesKeep, OptimizerKeeps
          DEF EvalPasses, Parse, Check
<1>4. CASE EvalFails \/ EvalUntyped \/ EvalEmpty \/ EvalUnresolved
  <2>1. UNCHANGED <<input, text, modules>> /\ ipc' \in {"prompt", "end"} /\ ipc \in {"passes", "run"} /\ (ipc = "run" => ipc' = "end")
    BY <1>4 DEF EvalFails, EvalUntyped, EvalEmpty, EvalUnresolved
  <2> QED BY <2>1, Leaving
<1>5. CASE EvalGenerateFails
  BY <1>5, GenerateKeeps
<1>6. CASE AddModule
  BY <1>6, ModuleKeeps
<1>7. CASE EvalRun
  BY <1>7, RunKeeps
<1>8. CASE Ended \/ UNCHANGED <<driverVars, replVars>>
  <2>1. UNCHANGED <<driverVars, replVars>>
    BY <1>8 DEF Ended
  <2>2. /\ UNCHANGED <<ipc, input, text, modules, answer, before, decls, stage, prog, last, in, srcType>>
        /\ Functions' = Functions /\ Code' = Code /\ Names' = Names /\ TypeDecls' = TypeDecls
    BY <2>1 DEF driverVars, replVars, parserVars, Functions, Code, Names, TypeDecls
  <2>3. Typed'
    BY <2>2 DEF PromiseInv, Typed, IsInput, Promise!Pending
  <2>4. RunsLast' = RunsLast
    BY <2>2 DEF RunsLast
  <2>5. Separate'
    BY <2>2, <2>4 DEF PromiseInv, Separate
  <2>6. Anonymous'
    BY <2>2 DEF PromiseInv, Anonymous
  <2>7. Understood'
    <3>1. Functioning' = Functioning /\ Whole' = Whole /\ IllTyped' = IllTyped
      BY <2>2, ReadAlike DEF Functioning, IllTyped, WellTyped
    <3>2. \A k : HasRead(k)' = HasRead(k)
      BY <2>2 DEF HasRead, IsProgramOf, HoldsCases
    <3>3. Known' = Known
      BY <2>2, <3>1 DEF Known
    <3>4. (Promise!IsDefinition)' = Promise!IsDefinition /\ (Promise!IsExpression)' = Promise!IsExpression
      BY <2>2, <3>1, MeansAlike
    <3> QED BY <2>2, <3>1, <3>2, <3>3, <3>4 DEF PromiseInv, Understood
  <2> QED BY <2>3, <2>5, <2>6, <2>7 DEF PromiseInv
<1> QED BY <1>1, <1>2, <1>3, <1>4, <1>5, <1>6, <1>7, <1>8 DEF INext, Eval

---------------------------------------------------------------------------
(* Every step is one of the promise's, or nothing that is seen. *)

\* A definition that eval has added was one, and adds what it defines.
LEMMA DefinesAsPromised ==
    ASSUME LinkInv, PromiseInv, AddModule, Ready
    PROVE  Promise!Define \/ UNCHANGED <<Functioning, answer>>
<1>1. /\ ipc = "passes" /\ stage = "generate" /\ prog # <<>> /\ Ungenerable = {} /\ text' = text
      /\ IF prog[1].anon THEN answer' = answer ELSE answer' = Promise!Defined
  BY DEF AddModule, Promise!Defined
<1>2. input = text /\ Known
  BY DEF Ready, Known
<1>3. /\ Whole /\ DOMAIN decls = before \cup Names /\ IllTyped = {}
      /\ text[1].k \in {"header", "expr"} /\ (prog[1].anon <=> text[1].k = "expr")
  BY <1>2, GoodText
<1>4. text \in Seq(Lines) /\ IsInput(text) /\ answer = Promise!Pending
  BY <1>1 DEF PromiseInv, Typed
<1>5. Functions = {1}
  BY <1>3, <1>4, OneFunction
<1>6. /\ prog[1].anon => prog[1].name = AnonName
      /\ ~prog[1].anon => prog[1].name # AnonName /\ \A d \in Code : d.name # prog[1].name
      /\ Functions = DOMAIN prog
  BY <1>1, <1>5, GeneratedProgram
<1>7. Code' = Code \cup {CodeOf(prog[1])}
  <2>1. {CodeOf(prog[i]) : i \in DOMAIN prog} = {CodeOf(prog[1])}
    BY <1>5, <1>6
  <2> QED BY <2>1, AddedAlone
<1>8. CodeOf(prog[1]).name = prog[1].name
  BY DEF CodeOf
<1>9. CASE prog[1].anon
  <2>1. Functioning' = Functioning
    BY <1>6, <1>7, <1>8, <1>9 DEF Functioning
  <2> QED BY <1>1, <1>9, <2>1
<1>10. CASE ~prog[1].anon
  <2>1. text[1].k = "header"
    BY <1>3, <1>10
  <2>2. \A d \in Functioning : d.name # prog[1].name
    BY <1>6, <1>10 DEF Functioning
  <2>3. Promise!IsDefinition
    BY <1>1, <1>2, <1>3, <1>4, <2>1, <2>2, Verdict
  <2>4. /\ IsDefinitionText(text) /\ Len(text) \in Nat /\ Len(text) >= 2
        /\ prog[1].name = text[1].name /\ prog[1].sig = text[1].sig
        /\ DOMAIN prog[1].cases = 1 .. Len(text) - 1 /\ \A j \in 1 .. Len(text) - 1 : prog[1].cases[j] = text[j + 1]
    BY <1>3, <1>4, <2>1, OneFunction
  <2>5. CodeOf(prog[1]) = Defined
    <3> DEFINE u == UNION {prog[1].cases[j].calls : j \in DOMAIN prog[1].cases}
               v == UNION {text[j].calls : j \in 2 .. Len(text)}
    <3>1. ASSUME NEW call \in u PROVE call \in v
      <4>1. PICK j \in 1 .. Len(text) - 1 : call \in text[j + 1].calls
        BY <2>4
      <4>2. j + 1 \in 2 .. Len(text)
        BY <2>4
      <4> QED BY <4>1, <4>2
    <3>2. ASSUME NEW call \in v PROVE call \in u
      <4>1. PICK j \in 2 .. Len(text) : call \in text[j].calls
        OBVIOUS
      <4>2. j - 1 \in 1 .. Len(text) - 1 /\ (j - 1) + 1 = j
        BY <2>4
      <4>3. prog[1].cases[j - 1] = text[j] /\ j - 1 \in DOMAIN prog[1].cases
        BY <2>4, <4>2
      <4> QED BY <4>1, <4>3
    <3>3. u = v
      BY <3>1, <3>2
    <3> QED BY <2>4, <3>3 DEF CodeOf, Defined
  <2>6. Promise!New = {Defined}
    BY <1>4, <2>4, DefinitionMeans
  <2>7. Functioning' = Functioning \cup {Defined}
    <3>1. CodeOf(prog[1]).name # AnonName
      BY <1>6, <1>8, <1>10
    <3> QED BY <1>7, <2>5, <3>1 DEF Functioning
  <2> QED BY <1>1, <1>4, <1>10, <2>3, <2>6, <2>7 DEF Promise!Define
<1> QED BY <1>9, <1>10

\* What is in the JIT while an expression is run.
LEMMA WhileRun ==
    ASSUME LinkInv, PromiseInv, ipc = "run"
    PROVE  /\ Len(prog) = 1 /\ CodeOf(prog[1]).name = AnonName
           /\ Code = Functioning \cup {CodeOf(prog[1])}
           /\ FindSymbol(AnonName) = {CodeOf(prog[1])}
           /\ \A n : n # AnonName => FindSymbol(n) = {e \in Functioning : e.name = n}
<1> DEFINE a == CodeOf(prog[1])
<1>1. RunsLast
  BY DEF PromiseInv, Separate
<1>2. modules \in Seq(SUBSET CompiledFunctions)
  BY DEF LinkInv, Jitted
<1>3. a.name = AnonName
  <2>1. 1 \in Functions
    <3>1. prog \in Seq(Declarations) /\ Len(prog) = 1 /\ prog[1].k = "function"
      BY <1>1 DEF LinkInv, Parsing, RunsLast
    <3> QED BY <3>1 DEF Functions
  <2> QED BY <1>1, <2>1, FunctionsOf DEF LinkInv, FunctionDecls, RunsLast, CodeOf
<1>4. Len(modules) \in DOMAIN modules /\ DOMAIN modules = 1 .. Len(modules) /\ Len(modules) \in Nat
  BY <1>1, <1>2 DEF RunsLast
<1>5. modules[Len(modules)] = {a} /\ \A m \in 1 .. Len(modules) - 1 : \A d \in modules[m] : d.name # AnonName
  BY <1>1 DEF RunsLast
<1> HIDE DEF a
<1>6. \A m, n \in DOMAIN modules : \A d \in modules[m], e \in modules[n] : d.name = e.name => m = n
  BY DEF PromiseInv, Separate
<1>7. a \in Code
  BY <1>4, <1>5 DEF Code
<1>8. ASSUME NEW d \in Code PROVE d = a \/ d.name # AnonName
  <2>1. PICK m \in DOMAIN modules : d \in modules[m]
    BY DEF Code
  <2>2. m = Len(modules) \/ m \in 1 .. Len(modules) - 1
    BY <1>4
  <2> QED BY <1>5, <2>1, <2>2
<1>9. Code = Functioning \cup {a}
  BY <1>3, <1>7, <1>8 DEF Functioning
\* A name is in one module, so that the newest is it.
<1>10. ASSUME NEW n PROVE FindSymbol(n) = {e \in Code : e.name = n}
  <2>1. ASSUME NEW e \in Code, e.name = n PROVE e \in FindSymbol(n)
    <3>1. PICK m \in DOMAIN modules : e \in modules[m]
      BY DEF Code
    <3>2. Has(m, n)
      BY <2>1, <3>1 DEF Has
    <3>3. \A h \in DOMAIN modules : h > m => ~Has(h, n)
      <4> SUFFICES ASSUME NEW h \in DOMAIN modules, h > m, Has(h, n) PROVE FALSE
        OBVIOUS
      <4>1. PICK d \in modules[h] : d.name = n
        BY DEF Has
      <4>2. h = m
        BY <1>6, <2>1, <3>1, <4>1
      <4> QED BY <1>4, <4>2
    <3>4. e \in UNION {modules[l] : l \in {l \in DOMAIN modules : Has(l, n) /\ \A h \in DOMAIN modules : h > l => ~Has(h, n)}}
      BY <3>1, <3>2, <3>3
    <3> QED BY <2>1, <3>4 DEF FindSymbol
  <2>2. ASSUME NEW e \in FindSymbol(n) PROVE e \in Code /\ e.name = n
    BY DEF FindSymbol, Code
  <2> QED BY <2>1, <2>2
<1>11. FindSymbol(AnonName) = {a}
  BY <1>3, <1>7, <1>8, <1>10
<1>12. ASSUME NEW n, n # AnonName PROVE FindSymbol(n) = {e \in Functioning : e.name = n}
  BY <1>10, <1>12 DEF Functioning
<1>13. Len(prog) = 1
  BY <1>1 DEF RunsLast
<1> QED BY <1>3, <1>9, <1>11, <1>12, <1>13 DEF a

\* While the interpreter is Ready, what is called is there.
LEMMA CallsResolve ==
    ASSUME LinkInv, PromiseInv, ipc = "run", Ready, NEW d \in Code, NEW call \in d.calls
    PROVE  call.name # AnonName /\ \E f \in Functioning : f.name = call.name /\ f.sig = call.sig
<1>1. call.name # AnonName /\ IsDeclared(call)
  BY DEF LinkInv, Jitted
<1>2. DOMAIN decls = before \cup {AnonName} /\ before \subseteq {f.name : f \in Functioning} \cup {AnonName}
  BY DEF PromiseInv, Understood, Ready
<1>3. PICK f \in Functioning : f.name = call.name
  BY <1>1, <1>2 DEF IsDeclared
<1>4. f \in Code /\ f.name # AnonName
  BY DEF Functioning
<1>5. IsDeclared(f)
  BY <1>4 DEF LinkInv, Jitted
<1> QED BY <1>1, <1>3, <1>5 DEF IsDeclared

\* What is linked besides the expression is what its computation can come to.
LEMMA LinkedIsUsed ==
    ASSUME LinkInv, PromiseInv, ipc = "run", Ready
    PROVE  {d \in Linked : d.name # AnonName} = Promise!Used(CodeOf(prog[1]).calls)
<1> DEFINE a == CodeOf(prog[1])
           Reached(S) == /\ \A call \in a.calls : \A e \in Functioning : e.name = call.name => e \in S
                         /\ \A f \in S : \A call \in f.calls : \A e \in Functioning : e.name = call.name => e \in S
<1>1. /\ a.name = AnonName /\ Code = Functioning \cup {a} /\ FindSymbol(AnonName) = {a}
      /\ \A n : n # AnonName => FindSymbol(n) = {e \in Functioning : e.name = n}
  BY WhileRun
<1>2. Promise!Used(a.calls) = {d \in Functioning : \A S \in SUBSET Functioning : Reached(S) => d \in S}
  BY DEF Promise!Used
<1>3. Linked = {d \in Code : \A S \in SUBSET Code : ({a} \subseteq S /\ ClosedUnderCalls(S)) => d \in S}
  BY <1>1 DEF Linked
<1>4. \A d \in Code : \A call \in d.calls : FindSymbol(call.name) = {e \in Functioning : e.name = call.name}
  BY <1>1, CallsResolve
<1>5. \A d \in Functioning : d.name # AnonName
  BY DEF Functioning
<1> HIDE DEF a
<1>6. ASSUME NEW d \in Linked, d.name # AnonName, NEW S \in SUBSET Functioning, Reached(S) PROVE d \in S
  <2> DEFINE T == S \cup {a}
  <2>1. T \in SUBSET Code /\ {a} \subseteq T
    BY <1>1
  <2>2. ClosedUnderCalls(T)
    <3> SUFFICES ASSUME NEW c \in T, NEW call \in c.calls PROVE FindSymbol(call.name) \subseteq T
      BY DEF ClosedUnderCalls
    <3>1. FindSymbol(call.name) = {e \in Functioning : e.name = call.name}
      BY <1>1, <1>4
    <3>2. \A e \in Functioning : e.name = call.name => e \in S
      BY <1>6
    <3> QED BY <3>1, <3>2
  <2> HIDE DEF T
  <2>3. d \in T
    BY <1>3, <2>1, <2>2
  <2> QED BY <1>1, <1>6, <2>3 DEF T
<1>7. ASSUME NEW d \in Functioning, \A S \in SUBSET Functioning : Reached(S) => d \in S,
             NEW S \in SUBSET Code, {a} \subseteq S, ClosedUnderCalls(S)
      PROVE  d \in S
  <2> DEFINE T == S \cap Functioning
  <2>1. ASSUME NEW c \in S, NEW call \in c.calls, NEW e \in Functioning, e.name = call.name PROVE e \in T
    <3>1. e \in FindSymbol(call.name)
      BY <1>4, <2>1
    <3>2. FindSymbol(call.name) \subseteq S
      BY <1>7 DEF ClosedUnderCalls
    <3> QED BY <3>1, <3>2
  <2>2. Reached(T)
    BY <1>7, <2>1
  <2>3. T \in SUBSET Functioning
    OBVIOUS
  <2>4. d \in T
    BY <1>7, <2>2, <2>3
  <2> QED BY <2>4
<1>8. ASSUME NEW d \in Linked, d.name # AnonName PROVE d \in Promise!Used(a.calls)
  <2>1. d \in Functioning
    BY <1>3, <1>8 DEF Functioning
  <2> HIDE DEF Reached
  <2> QED BY <1>2, <1>6, <1>8, <2>1
<1>9. ASSUME NEW d \in Promise!Used(a.calls) PROVE d \in Linked /\ d.name # AnonName
  <2> HIDE DEF Reached
  <2>1. d \in Functioning /\ \A S \in SUBSET Functioning : Reached(S) => d \in S
    BY <1>2
  <2>2. d \in Code /\ d.name # AnonName
    BY <1>1, <1>5, <2>1
  <2>3. ASSUME NEW S \in SUBSET Code, {a} \subseteq S, ClosedUnderCalls(S) PROVE d \in S
    BY <1>7, <2>1, <2>3
  <2> QED BY <1>3, <2>2, <2>3
<1>10. {d \in Linked : d.name # AnonName} = Promise!Used(a.calls)
  BY <1>8, <1>9
<1> QED BY <1>10 DEF a

\* The value that is printed is that of the expression.
LEMMA EvaluatesAsPromised ==
    ASSUME PrintsTexts, LinkInv, PromiseInv, EvalRun, Ready
    PROVE  Promise!Evaluate
<1>1. ipc = "run" /\ input = text /\ text' = text
  BY DEF EvalRun, Ready
<1>2. /\ text \in Seq(Lines) /\ IsInput(text) /\ answer = Promise!Pending
      /\ text[1].k = "expr" /\ text[1].bad = "" /\ prog[1].cases = <<text[1]>>
      /\ text[1].binds \cap DOMAIN decls = {}
  BY <1>1 DEF PromiseInv, Typed, Understood
<1>3. Len(text) = 1 /\ DOMAIN text = {1} /\ text[1] \in Lines
  <2>1. text \in Seq(Lines) /\ Len(text) = 1
    BY <1>2 DEF IsInput, IsDefinitionText
  <2>2. DOMAIN text = {1}
    BY <2>1
  <2>3. text[1] \in Lines
    BY <2>1, <2>2
  <2> QED BY <2>1, <2>2, <2>3
<1>4. DOMAIN prog[1].cases = {1} /\ prog[1].cases[1] = text[1] /\ Len(prog[1].cases) = 1
  <2>1. prog[1].cases = <<text[1]>>
    BY <1>2
  <2> QED BY <2>1
<1>5. CodeOf(prog[1]).calls = text[1].calls
  BY <1>4 DEF CodeOf
<1>6. CodeOf(prog[1]) \in Code
  BY <1>1, WhileRun
<1>7. Promise!Sound(text[1], Functioning)
  <2>1. \A call \in text[1].calls : Promise!Fits(call, Functioning)
    BY <1>1, <1>5, <1>6, CallsResolve DEF Promise!Fits
  <2>2. \A d \in Functioning : d.name \in DOMAIN decls
    BY DEF LinkInv, Jitted, Functioning, IsDeclared
  <2>3. \A d \in Functioning : d.name \notin text[1].binds
    BY <1>2, <2>2
  <2> QED BY <1>2, <2>1, <2>3 DEF Promise!Sound
<1>8. Promise!IsExpression
  BY <1>2, <1>3, <1>7, LineMeans
<1>9. Functioning' = Functioning
  BY RunKeeps
<1>10. answer' = [kind |-> "value", used |-> {d \in Linked : d.name # AnonName}, shown |-> Printed(text[1].val, text[1].ty)]
  BY <1>4 DEF EvalRun
<1>11. {d \in Linked : d.name # AnonName} = Promise!Used(UNION {text[i].calls : i \in DOMAIN text})
  <2>1. UNION {text[i].calls : i \in DOMAIN text} = text[1].calls
    BY <1>3
  <2> QED BY <1>1, <1>5, <2>1, LinkedIsUsed
<1>12. Printed(text[1].val, text[1].ty) = Text(text[Len(text)].val, text[Len(text)].ty)
  <2>1. HasText(text[1].val, text[1].ty)
    BY <1>1, <1>3 DEF Ready
  <2> QED BY <1>2, <1>3, <2>1 DEF PrintsTexts
<1>13. answer' = Promise!Value(Promise!Used(UNION {text[i].calls : i \in DOMAIN text}),
                               Text(text[Len(text)].val, text[Len(text)].ty))
  BY <1>10, <1>11, <1>12 DEF Promise!Value
<1> QED BY <1>1, <1>2, <1>8, <1>9, <1>13 DEF Promise!Evaluate

LEMMA StepsAsPromised ==
    PrintsTexts /\ LinkInv /\ PromiseInv /\ [INext]_<<driverVars, replVars>> =>
        [Ready => Promise!Next]_<<Functioning, answer>>
<1> SUFFICES ASSUME PrintsTexts, LinkInv, PromiseInv, [INext]_<<driverVars, replVars>>, Ready
             PROVE  Promise!Next \/ UNCHANGED <<Functioning, answer>>
  OBVIOUS
<1>1. ASSUME UNCHANGED <<modules, answer>> PROVE UNCHANGED <<Functioning, answer>>
  BY <1>1 DEF Functioning, Code
<1>2. CASE TypeHeader \/ TypeLine \/ EvalAgain
  <2>1. answer' = Promise!Pending /\ modules' = modules
    BY <1>2 DEF TypeHeader, TypeLine, EvalAgain, Promise!Pending
  <2>2. Functioning' = Functioning
    BY <2>1 DEF Functioning, Code
  <2> QED BY <2>1, <2>2 DEF Promise!Next, Promise!Ask
<1>3. CASE TypeQuit \/ TypeBlank \/ TypeCase \/ TypeAfterCases \/ EndAtPrompt \/ EndInCases
             \/ PromptForever \/ CaseForever \/ NoCases
  BY <1>1, <1>3 DEF TypeQuit, TypeBlank, TypeCase, TypeAfterCases, EndAtPrompt, EndInCases,
                    PromptForever, CaseForever, NoCases, replVars
<1>4. CASE EvalParse \/ EvalPasses \/ EvalGenerateFails
  BY <1>1, <1>4 DEF EvalParse, EvalPasses, EvalGenerateFails, replVars
<1>5. CASE EvalFails
  <2>1. ipc = "passes" /\ stage = "idle" /\ input = text /\ Known
    BY <1>5 DEF EvalFails, Ready, Known
  <2>2. ~Promise!IsDefinition /\ ~Promise!IsExpression
    BY <2>1 DEF PromiseInv, Understood
  <2>3. answer = Promise!Pending
    BY <2>1 DEF PromiseInv, Typed
  <2>4. answer' = Promise!Refused /\ UNCHANGED <<text, modules>>
    BY <1>5 DEF EvalFails, Promise!Refused
  <2>5. Functioning' = Functioning
    BY <2>4 DEF Functioning, Code
  <2> QED BY <2>2, <2>3, <2>4, <2>5 DEF Promise!Next, Promise!Refuse
<1>6. CASE EvalEmpty \/ EvalUntyped
  BY <1>6 DEF EvalEmpty, EvalUntyped, Ready
<1>7. CASE AddModule
  BY <1>7, DefinesAsPromised DEF Promise!Next
<1>8. CASE EvalUnresolved
  <2>1. ipc = "run" /\ Unresolved # {}
    BY <1>8 DEF EvalUnresolved
  <2>2. PICK d \in Linked : \E call \in d.calls : FindSymbol(call.name) = {}
    BY <2>1 DEF Unresolved
  <2>3. PICK call \in d.calls : FindSymbol(call.name) = {}
    BY <2>2
  <2>4. d \in Code
    BY DEF Linked
  <2>5. call.name # AnonName /\ \E f \in Functioning : f.name = call.name
    BY <2>1, <2>4, CallsResolve
  <2>6. FindSymbol(call.name) = {e \in Functioning : e.name = call.name}
    BY <2>1, <2>5, WhileRun
  <2> QED BY <2>3, <2>5, <2>6
<1>9. CASE EvalRun
  BY <1>9, EvaluatesAsPromised DEF Promise!Next
<1>10. CASE Ended \/ UNCHANGED <<driverVars, replVars>>
  BY <1>1, <1>10 DEF Ended, replVars
<1> QED BY <1>2, <1>3, <1>4, <1>5, <1>6, <1>7, <1>8, <1>9, <1>10 DEF INext, Reader, Eval

---------------------------------------------------------------------------
\* What the passes have found out about the text agrees with what the text
\* means, and no name has code twice, whatever is typed (SpplJit::eval).
THEOREM PromiseInvariant == ISpec => []PromiseInv
<1>1. LinkInv /\ LinkInv' /\ PromiseInv /\ [INext]_<<driverVars, replVars>> => PromiseInv'
  BY PromiseNext
<1> QED BY <1>1, PromiseStarts, LinkInvariant, PTL DEF ISpec

\* While the interpreter is Ready it refuses what is wrong, adds what is
\* defined and prints what is asked for, computed with the functions as they
\* were defined (main's loop, SpplJit::eval), where getOutput prints a value
\* that has a text as that text.
THEOREM AnswersArePromised ==
    ASSUME PrintsTexts
    PROVE  ISpec => AnswersAsPromised
<1>1. IInit => Promise!Init
  BY DEF IInit, Promise!Init, Promise!Pending, Functioning, Code
<1>2. LinkInv /\ PromiseInv /\ [INext]_<<driverVars, replVars>> => [Ready => Promise!Next]_<<Functioning, answer>>
  BY StepsAsPromised
<1> QED BY <1>1, <1>2, LinkInvariant, PromiseInvariant, PTL DEF ISpec, AnswersAsPromised
===============================================================================
