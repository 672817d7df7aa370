------------------------------ MODULE ForkJoin ------------------------------
(***************************************************************************)
(* What the runtime promises a parallel program: its tasks form a tree;    *)
(* each runs its own steps in order, on at most MaxRunning threads at a    *)
(* time, and goes past a Yield only when all tasks it has forked are done. *)
(***************************************************************************)
EXTENDS Naturals, Sequences, FiniteSets

CONSTANTS Tasks, Root, Programs, Yield, MaxRunning

VARIABLES
  program,  \* what each task does
  status,   \* none, ready, running, waiting or done
  step      \* how many of its steps a task has taken

vars == <<program, status, step>>

Forked(t) == {program[t][i] : i \in 1 .. step[t]} \ {Yield}

FreeThread == Cardinality({t \in Tasks : status[t] = "running"}) < MaxRunning

Init ==
  /\ program \in Programs
  /\ status = [t \in Tasks |-> IF t = Root THEN "ready" ELSE "none"]
  /\ step = [t \in Tasks |-> 0]

Start(t) ==
  /\ status[t] = "ready"
  /\ FreeThread
  /\ status' = [status EXCEPT ![t] = "running"]
  /\ UNCHANGED step

NextIs(t, x) ==
  /\ step[t] < Len(program[t])
  /\ program[t][step[t] + 1] = x
  /\ step' = [step EXCEPT ![t] = @ + 1]

Fork(t, c) ==
  /\ status[t] = "running"
  /\ status[c] = "none"
  /\ NextIs(t, c)
  /\ status' = [status EXCEPT ![c] = "ready"]

Wait(t) ==
  /\ status[t] = "running"
  /\ NextIs(t, Yield)
  /\ status' = [status EXCEPT ![t] = "waiting"]

Resume(t) ==
  /\ status[t] = "waiting"
  /\ \A c \in Forked(t) : status[c] = "done"
  /\ FreeThread
  /\ status' = [status EXCEPT ![t] = "running"]
  /\ UNCHANGED step

Finish(t) ==
  /\ status[t] = "running"
  /\ step[t] = Len(program[t])
  /\ status' = [status EXCEPT ![t] = "done"]
  /\ UNCHANGED step

Next ==
  /\ \E t \in Tasks :
       \/ Start(t)
       \/ \E c \in Tasks : Fork(t, c)
       \/ Wait(t)
       \/ Resume(t)
       \/ Finish(t)
  /\ UNCHANGED program

Spec == Init /\ [][Next]_vars

=============================================================================
