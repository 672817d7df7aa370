-------------------------- MODULE RuntimeInvariant --------------------------
(***************************************************************************)
(* The inductive invariant of Runtime: what holds at every step, up to     *)
(* undefined behaviour, for any number of schedulers and any program.      *)
(***************************************************************************)
EXTENDS Runtime

\* taskexit has been called for t.
Exited(t) == state[t] = "DONE" \/ \E s \in Schedulers : pc[s] = "exit" /\ cur[s] = t

\* Where a task is tells its state, and its state how far it has run.
StatesFit ==
  /\ \A i \in 1 .. Len(queue) : state[queue[i]] \in {"NEW", "WAITING"}
  /\ \A s \in Schedulers :
       /\ pc[s] = "test" => state[cur[s]] \in {"NEW", "WAITING"}
       /\ pc[s] \in {"enter", "user", "exit"} => state[cur[s]] = "RUNNING"
       /\ pc[s] = "exit" => ip[cur[s]] = Len(program[cur[s]])
  /\ \A t \in Tasks :
       /\ state[t] = "NEW" => ip[t] = 0
       /\ state[t] = "WAITING" => ip[t] > 0 /\ program[t][ip[t]] = Yield
       /\ state[t] = "DONE" => ip[t] = Len(program[t])
       /\ memory[t] = "none" => state[t] = "NEW"
       /\ memory[t] = "freed" => state[t] = "DONE"

\* The array of sub tasks holds what the code of the task has spawned.
SubTasksFollowCode ==
  /\ \A t \in Tasks, c \in Tasks :
       c \in SubTasks(t) <=> \E i \in 1 .. ip[t] : program[t][i] = c
  /\ \A t \in Tasks : \A i, j \in 1 .. Len(sub_tasks[t]) : sub_tasks[t][i] = sub_tasks[t][j] => i = j
  /\ \A c \in Tasks : memory[c] # "none" <=> c = Root \/ \E t \in Tasks : c \in SubTasks(t)

\* What was spawned before a Yield that the task has passed is done.
PassedYields ==
  \A t \in Tasks : \A j \in 1 .. ip[t] :
    program[t][j] = Yield /\ (state[t] = "WAITING" => j < ip[t]) =>
      \A i \in 1 .. j : program[t][i] = Yield \/ state[program[t][i]] = "DONE"

\* A sub task is deallocated by the exit of its parent, the initial task by
\* main.
FreedByParent ==
  /\ \A t \in Tasks : \A c \in SubTasks(t) : memory[c] = "freed" <=> Exited(t)
  /\ memory[Root] = "freed" <=> returned
  /\ initial_status <=> Exited(Root)

\* The progress of rmain.
MainFits ==
  /\ joined > 0 => created = os_thread_count
  /\ returned => joined = os_thread_count
  /\ \A s \in Schedulers :
       /\ pc[s] = "absent" <=> s >= created
       /\ s < joined => pc[s] = "ended"
       /\ pc[s] = "ended" => initial_status

RuntimeInv ==
  /\ TypeOK
  /\ OnePlacePerTask
  /\ StatesFit
  /\ SubTasksFollowCode
  /\ PassedYields
  /\ FreedByParent
  /\ MainFits
  /\ SubTasksFit

\* With one scheduler nobody else dispatches or frees a task that is leaving:
\* the context of every other task that can be run is saved.
AloneInv ==
  /\ ~undefined
  /\ \A s \in Schedulers :
       /\ pc[s] \in {"enter", "user", "exit", "leave"} => scheduler_id[cur[s]] = s
       /\ pc[s] \in {"enter", "user", "exit", "leave"} => memory[cur[s]] = "live"
       /\ pc[s] = "enter" => saved[cur[s]]
  /\ \A t \in Tasks :
       memory[t] = "live" /\ state[t] \in {"NEW", "WAITING"} =>
         saved[t] \/ \E s \in Schedulers : pc[s] = "leave" /\ cur[s] = t

=============================================================================
