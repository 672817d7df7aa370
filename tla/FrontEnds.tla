------------------------------- MODULE FrontEnds -------------------------------
(***************************************************************************)
(* The two programs built around the driver: a run of either.              *)
(***************************************************************************)
EXTENDS Compile, Interpreter

vars == <<driverVars, mainVars, replVars>>

\* The program that is not run.
NoMainProgram ==
    /\ command = [argv |-> <<>>, disk |-> <<>>] /\ pc = "none" /\ at = 1
    /\ be = "" /\ output = "" /\ headerOutput = "" /\ inputs = <<>> /\ exitCode = 0
NoInterpreter ==
    /\ ipc = "none" /\ typed = 0 /\ eof = FALSE /\ input = <<>> /\ inputCase = Blank /\ text = <<>>
    /\ modules = <<>> /\ answer = [kind |-> "pending"] /\ before = {}

FInit == \/ CInit /\ NoInterpreter
         \/ IInit /\ NoMainProgram

Exited == pc = "exit" /\ UNCHANGED vars

FNext == \/ ~jit /\ CNext /\ UNCHANGED replVars
         \/ jit /\ INext /\ UNCHANGED mainVars
         \/ Exited

\* Neither program waits for anything but the user.
FSpec == FInit /\ [][FNext]_vars /\ WF_vars(~jit /\ CNext /\ UNCHANGED replVars)
===============================================================================
