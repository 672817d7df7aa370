--------------------------- MODULE RuntimeProofs ---------------------------
(***************************************************************************)
(* For any number of schedulers and any fork-join program: up to undefined *)
(* behaviour no task is lost or run twice, a task is resumed only when its *)
(* sub tasks are done, and the schedulers stop only when all work is done. *)
(* With one scheduler there is no undefined behaviour.                     *)
(***************************************************************************)
EXTENDS RuntimeInvariant, FiniteSetTheorems, TLAPS

----------------------------------------------------------------------------
(* Facts about sequences and programs.                                     *)

\* Appending keeps the elements there are and adds one at the end.
LEMMA AppendFacts ==
  ASSUME NEW S, NEW q \in Seq(S), NEW e \in S
  PROVE  /\ Append(q, e) \in Seq(S)
         /\ Len(Append(q, e)) = Len(q) + 1
         /\ Len(q) \in Nat
         /\ \A i \in 1 .. Len(q) : Append(q, e)[i] = q[i]
         /\ Append(q, e)[Len(q) + 1] = e
OBVIOUS

\* Taking the first element off shifts the others down by one.
LEMMA HeadTailFacts ==
  ASSUME NEW S, NEW q \in Seq(S), q # <<>>
  PROVE  /\ Head(q) = q[1] /\ Head(q) \in S
         /\ Tail(q) \in Seq(S)
         /\ Len(q) \in Nat /\ Len(q) > 0
         /\ Len(Tail(q)) = Len(q) - 1
         /\ \A i \in 1 .. Len(q) - 1 : Tail(q)[i] = q[i + 1]
OBVIOUS

\* What the assumptions say of the program that is run.
LEMMA ProgramFacts ==
  ASSUME TypeOK
  PROVE  /\ \A t \in Tasks : /\ Len(program[t]) \in Nat /\ ip[t] \in Nat /\ ip[t] <= Len(program[t])
                             /\ DOMAIN program[t] = 1 .. Len(program[t])
         /\ \A t \in Tasks : \A i \in 1 .. Len(program[t]) : program[t][i] \in Tasks \cup {Yield}
         /\ Yield \notin Tasks /\ Root \in Tasks
         /\ \A t, u \in Tasks : \A i \in 1 .. Len(program[t]), j \in 1 .. Len(program[u]) :
              program[t][i] # Yield =>
                program[t][i] # Root /\ (program[t][i] = program[u][j] => t = u /\ i = j)
         /\ \A t \in Tasks : Len(program[t]) > 0 => program[t][Len(program[t])] = Yield
<1>1. program \in [Tasks -> Seq(Tasks \cup {Yield})] /\ SpawnedOnce(program) /\ JoinedBeforeExit(program)
  BY ProgramsAssumption DEF TypeOK
<1>2. \A t \in Tasks : program[t] \in Seq(Tasks \cup {Yield})
  BY <1>1
<1>3. \A t \in Tasks : /\ Len(program[t]) \in Nat /\ DOMAIN program[t] = 1 .. Len(program[t])
                       /\ \A i \in 1 .. Len(program[t]) : program[t][i] \in Tasks \cup {Yield}
  BY <1>2
<1>4. \A t \in Tasks : ip[t] \in Nat /\ ip[t] <= Len(program[t])
  BY DEF TypeOK
<1>5. \A t, u \in Tasks : \A i \in 1 .. Len(program[t]), j \in 1 .. Len(program[u]) :
        program[t][i] # Yield =>
          program[t][i] # Root /\ (program[t][i] = program[u][j] => t = u /\ i = j)
  BY <1>1, <1>3 DEF SpawnedOnce
<1>6. QED BY <1>1, <1>3, <1>4, <1>5, ProgramsAssumption DEF JoinedBeforeExit

\* The array of sub tasks holds tasks.
LEMMA SubTasksAreTasks == TypeOK => \A t \in Tasks : SubTasks(t) \subseteq Tasks
<1> SUFFICES ASSUME TypeOK, NEW t \in Tasks PROVE SubTasks(t) \subseteq Tasks
  OBVIOUS
<1>1. sub_tasks[t] \in Seq(Tasks)
  BY DEF TypeOK
<1>2. \A i \in 1 .. Len(sub_tasks[t]) : sub_tasks[t][i] \in Tasks
  BY <1>1
<1>3. QED BY <1>2 DEF SubTasks

\* The task a Spawn step creates was never created before.
LEMMA SpawnFresh ==
  ASSUME RuntimeInv, NEW t \in Tasks, ip[t] < Len(program[t]), Instruction(t) # Yield
  PROVE  LET c == Instruction(t) IN
         /\ c \in Tasks /\ c # Root /\ memory[c] = "none" /\ state[c] = "NEW" /\ ip[c] = 0
         /\ \A u \in Tasks : c \notin SubTasks(u)
         /\ ~Queued(c) /\ ~Held(c)
<1> DEFINE c == Instruction(t)
<1>1. ip[t] + 1 \in 1 .. Len(program[t]) /\ c = program[t][ip[t] + 1]
  BY ProgramFacts DEF RuntimeInv, Instruction
<1>2. c \in Tasks /\ c # Root
  BY <1>1, ProgramFacts DEF RuntimeInv
<1>3. \A u \in Tasks : \A i \in 1 .. ip[u] : program[u][i] # c
  <2> SUFFICES ASSUME NEW u \in Tasks, NEW i \in 1 .. ip[u], program[u][i] = c PROVE FALSE
    OBVIOUS
  <2>1. i \in 1 .. Len(program[u])
    BY ProgramFacts DEF RuntimeInv
  <2>2. u = t /\ i = ip[t] + 1
    BY <1>1, <2>1, ProgramFacts DEF RuntimeInv
  <2>3. QED BY <2>2, ProgramFacts DEF RuntimeInv
<1>4. \A u \in Tasks : c \notin SubTasks(u)
  BY <1>2, <1>3 DEF RuntimeInv, SubTasksFollowCode
<1>5. memory[c] = "none"
  BY <1>2, <1>4 DEF RuntimeInv, SubTasksFollowCode
<1>6. state[c] = "NEW" /\ ip[c] = 0
  BY <1>2, <1>5 DEF RuntimeInv, StatesFit
<1>7. ~Queued(c) /\ ~Held(c)
  BY <1>2, <1>5 DEF RuntimeInv, OnePlacePerTask
<1>8. QED BY <1>2, <1>4, <1>5, <1>6, <1>7

----------------------------------------------------------------------------
(* The initial states.                                                     *)

LEMMA RuntimeInvInit == Init => RuntimeInv
<1> SUFFICES ASSUME Init PROVE RuntimeInv
  OBVIOUS
<1> USE ThreadsAssumption, ProgramsAssumption DEF Init
<1>1. TypeOK
  <2>1. \A t \in Tasks : program[t] \in Seq(Tasks \cup {Yield})
    OBVIOUS
  <2>2. \A t \in Tasks : Len(program[t]) >= 0
    BY <2>1
  <2>3. \A t \in Tasks : ip[t] <= Len(program[t])
    BY <2>2
  <2>4. queue \in Seq(Tasks) /\ sub_tasks \in [Tasks -> Seq(Tasks)]
    OBVIOUS
  <2>5. created \in Nat /\ created <= os_thread_count /\ joined \in Nat /\ joined <= os_thread_count
    OBVIOUS
  <2>6. /\ memory \in [Tasks -> {"none", "live", "freed"}]
        /\ saved \in [Tasks -> BOOLEAN]
    OBVIOUS
  <2>7. QED BY <2>3, <2>4, <2>5, <2>6 DEF TypeOK, TaskStates, Places, NoScheduler
<1>2. \A t \in Tasks : SubTasks(t) = {}
  BY DEF SubTasks
<1>3. Len(queue) = 1 /\ queue[1] = Root
  OBVIOUS
<1>4. OnePlacePerTask
  BY <1>3 DEF OnePlacePerTask, Holds, Queued, Held
<1>5. StatesFit
  BY <1>3 DEF StatesFit
<1>6. SubTasksFollowCode
  BY <1>2 DEF SubTasksFollowCode
<1>7. PassedYields
  BY DEF PassedYields
<1>8. FreedByParent
  BY <1>2 DEF FreedByParent, Exited
<1>9. MainFits
  BY DEF MainFits, Schedulers
<1>10. SubTasksFit
  BY DEF SubTasksFit
<1>11. QED BY <1>1, <1>4, <1>5, <1>6, <1>7, <1>8, <1>9, <1>10 DEF RuntimeInv

----------------------------------------------------------------------------
(* The steps of rmain and of start_scheduler.                              *)

\* Steps that move threads between places where they hold no task, or hold
\* the same one in the same state, and touch no task.
LEMMA QuietStep ==
  ASSUME RuntimeInv, TypeOK', MainFits',
         UNCHANGED <<program, queue, initial_status, state, scheduler_id, sub_tasks, sub_tasks_alloc, memory, ip,
                     cur, returned>>,
         \A s \in Schedulers : \/ pc'[s] = pc[s]
                               \/ ~Holds(s) /\ ~Holds(s)'
                               \/ pc[s] = "enter" /\ pc'[s] = "user"
  PROVE  RuntimeInv'
<1>1. \A s \in Schedulers : Holds(s)' <=> Holds(s)
  BY DEF Holds
<1>2. \A t \in Tasks : (Queued(t)' <=> Queued(t)) /\ (Held(t)' <=> Held(t)) /\ SubTasks(t)' = SubTasks(t)
  BY <1>1 DEF Queued, Held, SubTasks
<1>3. OnePlacePerTask'
  BY <1>1, <1>2 DEF RuntimeInv, OnePlacePerTask
<1>4. StatesFit'
  BY DEF RuntimeInv, StatesFit, Holds
<1>5. \A t \in Tasks : Exited(t)' <=> Exited(t)
  BY DEF Exited, Holds
<1>6. SubTasksFollowCode' /\ SubTasksFit'
  BY <1>2 DEF RuntimeInv, SubTasksFollowCode, SubTasksFit
<1>7. PassedYields'
  BY DEF RuntimeInv, PassedYields
<1>8. FreedByParent'
  BY <1>2, <1>5, ProgramsAssumption DEF RuntimeInv, FreedByParent
<1>9. QED BY <1>3, <1>4, <1>6, <1>7, <1>8 DEF RuntimeInv

LEMMA CreateThreadStep == RuntimeInv /\ CreateThread /\ UNCHANGED program => RuntimeInv'
<1> SUFFICES ASSUME RuntimeInv, CreateThread, UNCHANGED program PROVE RuntimeInv'
  OBVIOUS
<1> USE ThreadsAssumption DEF CreateThread, taskVars
<1>1. created \in Schedulers /\ pc[created] = "absent" /\ created' \in Nat
  BY DEF RuntimeInv, TypeOK, MainFits, Schedulers
<1>2. TypeOK'
  <2>1. pc' \in [Schedulers -> Places]
    BY <1>1 DEF RuntimeInv, TypeOK, Places
  <2>2. created' <= os_thread_count
    BY DEF RuntimeInv, TypeOK
  <2>3. QED BY <1>1, <2>1, <2>2 DEF RuntimeInv, TypeOK
<1>3. MainFits'
  <2>1. \A s \in Schedulers : pc'[s] = IF s = created THEN "get" ELSE pc[s]
    BY DEF RuntimeInv, TypeOK
  <2>2. ~(created < joined)
    BY DEF RuntimeInv, TypeOK, MainFits
  <2>3. \A s \in Schedulers : pc'[s] = "absent" <=> s >= created'
    <3>1. created \in Nat /\ created' = created + 1 /\ Schedulers \subseteq Nat
      BY DEF RuntimeInv, TypeOK, Schedulers
    <3>2. \A s \in Schedulers : s >= created' <=> s >= created /\ s # created
      BY <3>1
    <3>3. \A s \in Schedulers : pc[s] = "absent" <=> s >= created
      BY DEF RuntimeInv, MainFits
    <3>4. QED BY <2>1, <3>2, <3>3
  <2>4. \A s \in Schedulers : s < joined => pc'[s] = "ended"
    BY <1>1, <2>1, <2>2 DEF RuntimeInv, TypeOK, MainFits
  <2>5. joined = 0
    BY DEF RuntimeInv, TypeOK, MainFits
  <2>6. QED BY <2>1, <2>3, <2>4, <2>5 DEF RuntimeInv, TypeOK, MainFits
<1>4. \A s \in Schedulers : pc'[s] = pc[s] \/ (~Holds(s) /\ ~Holds(s)')
  BY <1>1 DEF RuntimeInv, TypeOK, Holds
<1>5. QED BY <1>2, <1>3, <1>4, QuietStep

LEMMA JoinThreadStep == RuntimeInv /\ JoinThread /\ UNCHANGED program => RuntimeInv'
<1> SUFFICES ASSUME RuntimeInv, JoinThread, UNCHANGED program PROVE RuntimeInv'
  OBVIOUS
<1> USE ThreadsAssumption DEF JoinThread, taskVars
<1>1. TypeOK'
  BY DEF RuntimeInv, TypeOK
<1>2. MainFits'
  BY DEF RuntimeInv, TypeOK, MainFits, Schedulers
<1>3. QED BY <1>1, <1>2, QuietStep

LEMMA NothingToDoStep ==
  ASSUME RuntimeInv, NEW s \in Schedulers, NothingToDo(s), UNCHANGED program
  PROVE  RuntimeInv'
<1> USE DEF NothingToDo, At, Goto, taskVars, mainVars
<1>1. TypeOK'
  BY DEF RuntimeInv, TypeOK, Places
<1>2. MainFits'
  BY DEF RuntimeInv, TypeOK, MainFits
<1>3. \A u \in Schedulers : pc'[u] = pc[u] \/ (~Holds(u) /\ ~Holds(u)')
  BY DEF RuntimeInv, TypeOK, Holds
<1>4. QED BY <1>1, <1>2, <1>3, QuietStep

LEMMA UndefinedStep == RuntimeInv /\ Undefined /\ UNCHANGED program => RuntimeInv'
<1> SUFFICES ASSUME RuntimeInv, Undefined, UNCHANGED program PROVE RuntimeInv'
  OBVIOUS
<1> USE DEF Undefined, taskVars, mainVars
<1>1. TypeOK'
  BY DEF RuntimeInv, TypeOK
<1>2. MainFits'
  BY DEF RuntimeInv, MainFits
<1>3. QED BY <1>1, <1>2, QuietStep

\* The switch into a task and out of it.
LEMMA SwitchStep ==
  ASSUME RuntimeInv, NEW s \in Schedulers, Enter(s) \/ TaskSwitch(s), UNCHANGED program
  PROVE  RuntimeInv'
<1> USE DEF At, Goto, mainVars
<1>1. CASE Undefined
  BY <1>1, UndefinedStep
<1>2. CASE ~Undefined
  <2>1. TypeOK'
    BY <1>2 DEF Enter, TaskSwitch, RuntimeInv, TypeOK, Places
  <2>2. MainFits'
    BY <1>2 DEF Enter, TaskSwitch, RuntimeInv, TypeOK, MainFits
  <2>3. \A u \in Schedulers : \/ pc'[u] = pc[u]
                              \/ ~Holds(u) /\ ~Holds(u)'
                              \/ pc[u] = "enter" /\ pc'[u] = "user"
    BY <1>2 DEF Enter, TaskSwitch, RuntimeInv, TypeOK, Holds
  <2>4. QED BY <1>2, <2>1, <2>2, <2>3, QuietStep DEF Enter, TaskSwitch
<1>3. QED BY <1>1, <1>2

LEMMA CleanUpStep == RuntimeInv /\ CleanUp /\ UNCHANGED program => RuntimeInv'
<1> SUFFICES ASSUME RuntimeInv, CleanUp, UNCHANGED program PROVE RuntimeInv'
  OBVIOUS
<1> USE ProgramsAssumption, ThreadsAssumption DEF CleanUp
<1>1. \A s \in Schedulers : pc[s] = "ended"
  BY DEF RuntimeInv, MainFits, TypeOK, Schedulers
<1>2. state[Root] = "DONE"
  <2>1. 0 \in Schedulers
    BY DEF Schedulers
  <2>2. initial_status
    BY <1>1, <2>1 DEF RuntimeInv, MainFits
  <2>3. QED BY <1>1, <2>2 DEF RuntimeInv, FreedByParent, Exited
<1>3. TypeOK'
  BY DEF RuntimeInv, TypeOK
<1>4. \A t \in Tasks : /\ Queued(t)' <=> Queued(t)
                       /\ Held(t)' <=> Held(t)
                       /\ SubTasks(t)' = SubTasks(t)
                       /\ Exited(t)' <=> Exited(t)
                       /\ t # Root => memory'[t] = memory[t]
                       /\ memory'[Root] = "freed"
  BY DEF Queued, Held, Holds, SubTasks, Exited, RuntimeInv, TypeOK
<1>5. memory[Root] # "none"
  BY DEF RuntimeInv, SubTasksFollowCode
<1>6. OnePlacePerTask'
  BY <1>2, <1>4 DEF RuntimeInv, OnePlacePerTask, Holds
<1>7. StatesFit'
  BY <1>2, <1>4 DEF RuntimeInv, StatesFit
<1>8. SubTasksFollowCode' /\ SubTasksFit'
  BY <1>4, <1>5 DEF RuntimeInv, SubTasksFollowCode, SubTasksFit
<1>9. PassedYields'
  BY DEF RuntimeInv, PassedYields
<1>10. \A t \in Tasks : Root \notin SubTasks(t)
  <2>1. \A t \in Tasks : \A i \in 1 .. ip[t] : program[t][i] # Root
    <3> SUFFICES ASSUME NEW t \in Tasks, NEW i \in 1 .. ip[t], program[t][i] = Root PROVE FALSE
      OBVIOUS
    <3>1. i \in 1 .. Len(program[t])
      BY ProgramFacts DEF RuntimeInv
    <3>2. QED BY <3>1, ProgramFacts DEF RuntimeInv
  <2>2. QED BY <2>1 DEF RuntimeInv, SubTasksFollowCode
<1>11. FreedByParent'
  <2>1. \A t \in Tasks : SubTasks(t) \subseteq Tasks
    BY SubTasksAreTasks DEF RuntimeInv
  <2>2. QED BY <1>4, <1>10, <2>1 DEF RuntimeInv, FreedByParent
<1>12. MainFits'
  BY DEF RuntimeInv, MainFits
<1>13. QED BY <1>3, <1>6, <1>7, <1>8, <1>9, <1>11, <1>12 DEF RuntimeInv

\* The scheduler takes the first task of the queue.
LEMMA QueueGetStep ==
  ASSUME RuntimeInv, NEW s \in Schedulers, QueueGet(s), UNCHANGED program
  PROVE  RuntimeInv'
<1> USE DEF At, Goto, taskVars, mainVars
<1>1. CASE queue = <<>>
  <2>1. TypeOK'
    BY <1>1 DEF QueueGet, RuntimeInv, TypeOK, Places
  <2>2. MainFits'
    BY <1>1 DEF QueueGet, RuntimeInv, TypeOK, MainFits
  <2>3. \A u \in Schedulers : pc'[u] = pc[u] \/ (~Holds(u) /\ ~Holds(u)')
    BY <1>1 DEF QueueGet, RuntimeInv, TypeOK, Holds
  <2>4. QED BY <1>1, <2>1, <2>2, <2>3, QuietStep DEF QueueGet
<1>2. CASE queue # <<>>
  <2> DEFINE h == queue[1]
  <2>1. /\ Head(queue) = h /\ h \in Tasks /\ Tail(queue) \in Seq(Tasks)
        /\ Len(queue) \in Nat /\ Len(queue) > 0
        /\ Len(Tail(queue)) = Len(queue) - 1
        /\ \A i \in 1 .. Len(queue) - 1 : Tail(queue)[i] = queue[i + 1]
    BY <1>2, HeadTailFacts DEF RuntimeInv, TypeOK
  <2>2. /\ pc[s] = "get" /\ pc' = [pc EXCEPT ![s] = "test"]
        /\ cur' = [cur EXCEPT ![s] = h] /\ queue' = Tail(queue)
    BY <1>2, <2>1 DEF QueueGet
  <2>3. UNCHANGED <<program, initial_status, taskVars, mainVars, undefined>>
    BY DEF QueueGet
  <2> HIDE DEF h
  <2>4. /\ pc'[s] = "test" /\ cur'[s] = h
        /\ \A u \in Schedulers : u # s => pc'[u] = pc[u] /\ cur'[u] = cur[u]
    BY <2>2 DEF RuntimeInv, TypeOK
  <2>5. /\ ~Holds(s) /\ Holds(s)'
        /\ \A u \in Schedulers : u # s => (Holds(u)' <=> Holds(u))
    BY <2>2, <2>4 DEF Holds
  <2>6. \A i \in 1 .. Len(queue') : i + 1 \in 1 .. Len(queue) /\ queue'[i] = queue[i + 1]
    BY <2>1, <2>2
  <2>7. \A t \in Tasks : Queued(t)' <=> Queued(t) /\ t # h
    <3> SUFFICES ASSUME NEW t \in Tasks PROVE Queued(t)' <=> Queued(t) /\ t # h
      OBVIOUS
    <3>1. ASSUME Queued(t)' PROVE Queued(t) /\ t # h
      <4>1. PICK i \in 1 .. Len(queue') : queue'[i] = t
        BY <3>1 DEF Queued
      <4>2. i + 1 \in 1 .. Len(queue) /\ queue[i + 1] = t /\ i + 1 # 1
        BY <4>1, <2>6
      <4>3. 1 \in 1 .. Len(queue)
        BY <2>1
      <4>4. t # h
        BY <4>2, <4>3 DEF RuntimeInv, OnePlacePerTask, h
      <4>5. QED BY <4>2, <4>4 DEF Queued
    <3>2. ASSUME Queued(t), t # h PROVE Queued(t)'
      <4>1. PICK i \in 1 .. Len(queue) : queue[i] = t
        BY <3>2 DEF Queued
      <4>2. i # 1
        BY <3>2, <4>1 DEF h
      <4>3. i - 1 \in 1 .. Len(queue') /\ (i - 1) + 1 = i
        BY <4>2, <2>1, <2>2
      <4>4. queue'[i - 1] = t
        BY <4>1, <4>3, <2>6
      <4>5. QED BY <4>3, <4>4 DEF Queued
    <3>3. QED BY <3>1, <3>2
  <2>8. \A t \in Tasks : Held(t)' <=> Held(t) \/ t = h
    BY <2>4, <2>5 DEF Held
  <2>9. Queued(h)
    BY <2>1 DEF Queued, h
  <2>10. TypeOK'
    BY <2>1, <2>2, <2>3 DEF RuntimeInv, TypeOK, Places
  <2>11. OnePlacePerTask'
    <3>1. \A i, j \in 1 .. Len(queue') : queue'[i] = queue'[j] => i = j
      <4> SUFFICES ASSUME NEW i \in 1 .. Len(queue'), NEW j \in 1 .. Len(queue'), queue'[i] = queue'[j]
                   PROVE  i = j
        OBVIOUS
      <4>1. i + 1 = j + 1
        BY <2>6 DEF RuntimeInv, OnePlacePerTask
      <4>2. QED BY <4>1
    <3>2. \A u \in Schedulers : Holds(u) => cur[u] # h
      BY <2>1, <2>9 DEF RuntimeInv, OnePlacePerTask, Held
    <3>3. \A u, v \in Schedulers : Holds(u)' /\ Holds(v)' /\ cur'[u] = cur'[v] => u = v
      BY <2>4, <2>5, <3>2 DEF RuntimeInv, OnePlacePerTask
    <3>4. \A t \in Tasks : ~(Queued(t)' /\ Held(t)')
      BY <2>7, <2>8 DEF RuntimeInv, OnePlacePerTask
    <3>5. \A t \in Tasks : (Queued(t)' \/ Held(t)') <=> (Queued(t) \/ Held(t))
      BY <2>7, <2>8, <2>9
    <3>6. \A t \in Tasks : (memory'[t] = "live" /\ state'[t] # "DONE") <=> (Queued(t)' \/ Held(t)')
      BY <2>3, <3>5 DEF RuntimeInv, OnePlacePerTask
    <3>7. QED BY <3>1, <3>3, <3>4, <3>6 DEF OnePlacePerTask
  <2>12. \A t \in Tasks : (Exited(t)' <=> Exited(t)) /\ SubTasks(t)' = SubTasks(t)
    BY <2>2, <2>3, <2>4 DEF Exited, SubTasks
  <2>13. StatesFit'
    <3>1. \A i \in 1 .. Len(queue') : state[queue'[i]] \in {"NEW", "WAITING"}
      BY <2>6 DEF RuntimeInv, StatesFit
    <3>2. state[h] \in {"NEW", "WAITING"}
      BY <2>1 DEF RuntimeInv, StatesFit, h
    <3>3. QED BY <2>3, <2>4, <3>1, <3>2 DEF RuntimeInv, StatesFit
  <2>14. SubTasksFollowCode' /\ SubTasksFit'
    BY <2>3, <2>12 DEF RuntimeInv, SubTasksFollowCode, SubTasksFit
  <2>15. PassedYields'
    BY <2>3 DEF RuntimeInv, PassedYields
  <2>16. FreedByParent'
    BY <2>3, <2>12, ProgramsAssumption DEF RuntimeInv, FreedByParent
  <2>17. MainFits'
    BY <2>2, <2>3, <2>4 DEF RuntimeInv, MainFits
  <2>18. QED BY <2>10, <2>11, <2>13, <2>14, <2>15, <2>16, <2>17 DEF RuntimeInv
<1>3. QED BY <1>1, <1>2

\* The task is still waiting and goes to the end of the queue.
LEMMA PutBackStep ==
  ASSUME RuntimeInv, NEW s \in Schedulers, PutBack(s), UNCHANGED program
  PROVE  RuntimeInv'
<1> USE DEF At, Goto, taskVars, mainVars
<1> DEFINE t == cur[s]
<1>1. /\ pc[s] = "test" /\ pc' = [pc EXCEPT ![s] = "get"] /\ queue' = Append(queue, t)
      /\ UNCHANGED <<program, initial_status, taskVars, cur, mainVars, undefined>>
  BY DEF PutBack
<1>2. t \in Tasks /\ Held(t) /\ ~Queued(t) /\ state[t] \in {"NEW", "WAITING"}
  BY <1>1 DEF RuntimeInv, TypeOK, Held, Holds, OnePlacePerTask, StatesFit
<1>3. /\ queue' \in Seq(Tasks) /\ Len(queue') = Len(queue) + 1 /\ Len(queue) \in Nat
      /\ \A i \in 1 .. Len(queue) : queue'[i] = queue[i]
      /\ queue'[Len(queue) + 1] = t
  BY <1>1, <1>2, AppendFacts DEF RuntimeInv, TypeOK
<1> HIDE DEF t
<1>4. /\ pc'[s] = "get" /\ \A u \in Schedulers : u # s => pc'[u] = pc[u]
      /\ Holds(s) /\ ~Holds(s)' /\ \A u \in Schedulers : u # s => (Holds(u)' <=> Holds(u))
  BY <1>1 DEF RuntimeInv, TypeOK, Holds
<1>5. \A k \in Tasks : Queued(k)' <=> Queued(k) \/ k = t
  BY <1>3 DEF Queued
<1>6. \A k \in Tasks : Held(k)' <=> Held(k) /\ k # t
  BY <1>1, <1>4 DEF Held, t, RuntimeInv, OnePlacePerTask
<1>7. TypeOK'
  BY <1>1, <1>3 DEF RuntimeInv, TypeOK, Places
<1>8. OnePlacePerTask'
  <2>1. \A i, j \in 1 .. Len(queue') : queue'[i] = queue'[j] => i = j
    BY <1>2, <1>3 DEF RuntimeInv, OnePlacePerTask, Queued
  <2>2. \A u, v \in Schedulers : Holds(u)' /\ Holds(v)' /\ cur'[u] = cur'[v] => u = v
    BY <1>1, <1>4 DEF RuntimeInv, OnePlacePerTask
  <2>3. \A k \in Tasks : ~(Queued(k)' /\ Held(k)')
    BY <1>5, <1>6 DEF RuntimeInv, OnePlacePerTask
  <2>4. \A k \in Tasks : (Queued(k)' \/ Held(k)') <=> (Queued(k) \/ Held(k))
    BY <1>2, <1>5, <1>6
  <2>5. \A k \in Tasks : (memory'[k] = "live" /\ state'[k] # "DONE") <=> (Queued(k)' \/ Held(k)')
    BY <1>1, <2>4 DEF RuntimeInv, OnePlacePerTask
  <2>6. QED BY <2>1, <2>2, <2>3, <2>5 DEF OnePlacePerTask
<1>9. \A k \in Tasks : (Exited(k)' <=> Exited(k)) /\ SubTasks(k)' = SubTasks(k)
  BY <1>1, <1>4 DEF Exited, SubTasks
<1>10. StatesFit'
  <2>1. \A i \in 1 .. Len(queue') : state[queue'[i]] \in {"NEW", "WAITING"}
    BY <1>2, <1>3 DEF RuntimeInv, StatesFit
  <2>2. QED BY <1>1, <1>4, <2>1 DEF RuntimeInv, StatesFit
<1>11. SubTasksFollowCode' /\ SubTasksFit'
  BY <1>1, <1>9 DEF RuntimeInv, SubTasksFollowCode, SubTasksFit
<1>12. PassedYields'
  BY <1>1 DEF RuntimeInv, PassedYields
<1>13. FreedByParent'
  BY <1>1, <1>9, ProgramsAssumption DEF RuntimeInv, FreedByParent
<1>14. MainFits'
  BY <1>1, <1>4 DEF RuntimeInv, MainFits
<1>15. QED BY <1>7, <1>8, <1>10, <1>11, <1>12, <1>13, <1>14 DEF RuntimeInv

\* No two tasks share a sub task, and the initial task is nobody's sub task.
LEMMA SubTasksDisjoint ==
  ASSUME RuntimeInv
  PROVE  /\ \A t \in Tasks : Root \notin SubTasks(t) /\ SubTasks(t) \subseteq Tasks
         /\ \A t, u \in Tasks : \A c \in SubTasks(t) : c \in SubTasks(u) => t = u
<1>1. \A t \in Tasks : SubTasks(t) \subseteq Tasks
  BY SubTasksAreTasks DEF RuntimeInv
<1>2. \A t \in Tasks : \A c \in SubTasks(t) : \E i \in 1 .. Len(program[t]) : program[t][i] = c
  <2> SUFFICES ASSUME NEW t \in Tasks, NEW c \in SubTasks(t)
               PROVE  \E i \in 1 .. Len(program[t]) : program[t][i] = c
    OBVIOUS
  <2>1. PICK i \in 1 .. ip[t] : program[t][i] = c
    BY <1>1 DEF RuntimeInv, SubTasksFollowCode
  <2>2. i \in 1 .. Len(program[t])
    BY ProgramFacts DEF RuntimeInv
  <2>3. QED BY <2>1, <2>2
<1>3. \A t, u \in Tasks : \A c \in SubTasks(t) : c \in SubTasks(u) => t = u
  <2> SUFFICES ASSUME NEW t \in Tasks, NEW u \in Tasks, NEW c \in SubTasks(t), c \in SubTasks(u)
               PROVE  t = u
    OBVIOUS
  <2>1. PICK i \in 1 .. Len(program[t]) : program[t][i] = c
    BY <1>2
  <2>2. PICK j \in 1 .. Len(program[u]) : program[u][j] = c
    BY <1>2
  <2>3. c \in Tasks
    BY <1>1
  <2>4. QED BY <2>1, <2>2, <2>3, ProgramFacts DEF RuntimeInv
<1>4. \A t \in Tasks : Root \notin SubTasks(t)
  <2> SUFFICES ASSUME NEW t \in Tasks, Root \in SubTasks(t) PROVE FALSE
    OBVIOUS
  <2>1. PICK i \in 1 .. Len(program[t]) : program[t][i] = Root
    BY <1>2
  <2>2. QED BY <2>1, ProgramFacts DEF RuntimeInv
<1>5. QED BY <1>1, <1>3, <1>4

\* The task is new, or all its sub tasks are done: it starts or goes on.
LEMMA DispatchStep ==
  ASSUME RuntimeInv, NEW s \in Schedulers, Dispatch(s), UNCHANGED program
  PROVE  RuntimeInv'
<1> USE DEF At, Goto, mainVars
<1> DEFINE t == cur[s]
<1>1. /\ pc[s] = "test" /\ pc' = [pc EXCEPT ![s] = "enter"] /\ Runnable(t)
      /\ state' = [state EXCEPT ![t] = "RUNNING"]
      /\ scheduler_id' = [scheduler_id EXCEPT ![t] = s]
      /\ UNCHANGED <<program, queue, initial_status, sub_tasks, sub_tasks_alloc, memory, ip, saved, cur,
                     mainVars, undefined>>
  BY DEF Dispatch
<1>2. t \in Tasks /\ Held(t) /\ ~Queued(t) /\ state[t] \in {"NEW", "WAITING"} /\ memory[t] = "live"
  BY <1>1 DEF RuntimeInv, TypeOK, Held, Holds, OnePlacePerTask, StatesFit
<1>3. \A u \in Schedulers : Holds(u) /\ cur[u] = t => u = s
  BY <1>1 DEF Holds, RuntimeInv, OnePlacePerTask
<1>4. /\ \A u \in Schedulers : u # s => pc'[u] = pc[u]
      /\ pc'[s] = "enter" /\ \A u \in Schedulers : Holds(u)' <=> Holds(u)
  BY <1>1 DEF RuntimeInv, TypeOK, Holds
<1>5. \A k \in Tasks : /\ Queued(k)' <=> Queued(k)
                       /\ Held(k)' <=> Held(k)
                       /\ SubTasks(k)' = SubTasks(k)
                       /\ state'[k] = IF k = t THEN "RUNNING" ELSE state[k]
                       /\ state'[k] = "DONE" <=> state[k] = "DONE"
                       /\ Exited(k)' <=> Exited(k)
  BY <1>1, <1>2, <1>4 DEF Queued, Held, SubTasks, Exited, RuntimeInv, TypeOK
<1>6. TypeOK'
  BY <1>1, <1>2 DEF RuntimeInv, TypeOK, Places, TaskStates
<1>7. OnePlacePerTask'
  BY <1>1, <1>4, <1>5 DEF RuntimeInv, OnePlacePerTask
<1>8. PassedYields'
  <2> SUFFICES ASSUME NEW k \in Tasks, NEW j \in 1 .. ip[k], program[k][j] = Yield,
                      state'[k] = "WAITING" => j < ip[k], NEW i \in 1 .. j
               PROVE  program[k][i] = Yield \/ state'[program[k][i]] = "DONE"
    BY <1>1 DEF PassedYields
  <2>1. program[k][i] = Yield \/ program[k][i] \in Tasks
    BY ProgramFacts DEF RuntimeInv
  <2>2. CASE k = t
    <3>1. state[t] = "WAITING" /\ get_subtasks_done(t)
      BY <1>1, <1>2, <2>2 DEF Runnable, RuntimeInv, StatesFit
    <3>2. i \in 1 .. ip[t]
      BY <2>2, ProgramFacts DEF RuntimeInv
    <3>3. CASE program[t][i] \in Tasks
      <4>1. program[t][i] \in SubTasks(t)
        BY <1>2, <3>2, <3>3 DEF RuntimeInv, SubTasksFollowCode
      <4>2. state[program[t][i]] = "DONE"
        BY <3>1, <4>1 DEF SubTasks, get_subtasks_done
      <4>3. QED BY <1>5, <2>2, <3>3, <4>2
    <3>4. QED BY <2>1, <2>2, <3>3
  <2>3. CASE k # t
    BY <1>5, <2>1, <2>3 DEF RuntimeInv, PassedYields
  <2>4. QED BY <2>2, <2>3
<1> HIDE DEF t
<1>9. StatesFit'
  <2>1. \A i \in 1 .. Len(queue) : queue[i] \in Tasks /\ queue[i] # t
    <3>1. queue \in Seq(Tasks)
      BY DEF RuntimeInv, TypeOK
    <3>2. \A i \in 1 .. Len(queue) : queue[i] \in Tasks
      BY <3>1
    <3>3. QED BY <1>2, <3>2 DEF Queued
  <2>2. \A u \in Schedulers : cur[u] \in Tasks
    BY DEF RuntimeInv, TypeOK
  <2>3. \A u \in Schedulers : pc[u] \in {"test", "enter", "user", "exit"} /\ u # s => cur[u] # t
    BY <1>3 DEF Holds
  <2>4. cur[s] = t
    BY DEF t
  <2>5. \A i \in 1 .. Len(queue') : state'[queue'[i]] \in {"NEW", "WAITING"}
    BY <1>1, <1>5, <2>1 DEF RuntimeInv, StatesFit
  <2>6. \A u \in Schedulers :
          /\ pc'[u] = "test" => state'[cur'[u]] \in {"NEW", "WAITING"}
          /\ pc'[u] \in {"enter", "user", "exit"} => state'[cur'[u]] = "RUNNING"
          /\ pc'[u] = "exit" => ip'[cur'[u]] = Len(program'[cur'[u]])
    BY <1>1, <1>4, <1>5, <2>2, <2>3, <2>4 DEF RuntimeInv, StatesFit
  <2>7. \A k \in Tasks :
          /\ state'[k] = "NEW" => ip'[k] = 0
          /\ state'[k] = "WAITING" => ip'[k] > 0 /\ program'[k][ip'[k]] = Yield
          /\ state'[k] = "DONE" => ip'[k] = Len(program'[k])
          /\ memory'[k] = "none" => state'[k] = "NEW"
          /\ memory'[k] = "freed" => state'[k] = "DONE"
    BY <1>1, <1>2, <1>5 DEF RuntimeInv, StatesFit
  <2>8. QED BY <2>5, <2>6, <2>7 DEF StatesFit
<1>10. SubTasksFollowCode' /\ SubTasksFit'
  BY <1>1, <1>5 DEF RuntimeInv, SubTasksFollowCode, SubTasksFit
<1>11. FreedByParent'
  BY <1>1, <1>5, ProgramsAssumption DEF RuntimeInv, FreedByParent
<1>12. MainFits'
  BY <1>1, <1>4 DEF RuntimeInv, MainFits
<1>13. QED BY <1>6, <1>7, <1>8, <1>9, <1>10, <1>11, <1>12 DEF RuntimeInv

----------------------------------------------------------------------------
(* The steps of a task.                                                    *)

\* taskexit marks the task: its parent may go on from here.
LEMMA TaskDoneStep ==
  ASSUME RuntimeInv, NEW s \in Schedulers, TaskDone(s), UNCHANGED program
  PROVE  RuntimeInv'
<1> USE DEF At, Goto, mainVars
<1> DEFINE t == cur[s]
<1>1. /\ pc[s] = "exit" /\ pc' = [pc EXCEPT ![s] = "leave"]
      /\ state' = [state EXCEPT ![t] = "DONE"]
      /\ UNCHANGED <<program, queue, initial_status, scheduler_id, sub_tasks, sub_tasks_alloc, memory, ip, saved,
                     cur, mainVars, undefined>>
  BY DEF TaskDone
<1>2. /\ t \in Tasks /\ Held(t) /\ ~Queued(t) /\ state[t] = "RUNNING" /\ memory[t] = "live"
      /\ ip[t] = Len(program[t])
  BY <1>1 DEF RuntimeInv, TypeOK, Held, Holds, OnePlacePerTask, StatesFit
<1>3. \A u \in Schedulers : Holds(u) /\ cur[u] = t => u = s
  BY <1>1 DEF Holds, RuntimeInv, OnePlacePerTask
<1>4. /\ pc'[s] = "leave" /\ \A u \in Schedulers : u # s => pc'[u] = pc[u]
      /\ Holds(s) /\ ~Holds(s)' /\ \A u \in Schedulers : u # s => (Holds(u)' <=> Holds(u))
  BY <1>1 DEF RuntimeInv, TypeOK, Holds
<1> HIDE DEF t
<1>5. \A k \in Tasks : /\ Queued(k)' <=> Queued(k)
                       /\ Held(k)' <=> Held(k) /\ k # t
                       /\ SubTasks(k)' = SubTasks(k)
                       /\ state'[k] = IF k = t THEN "DONE" ELSE state[k]
  <2>1. \A k \in Tasks : Held(k)' <=> Held(k) /\ k # t
    BY <1>1, <1>3, <1>4 DEF Held, t
  <2>2. QED BY <1>1, <1>2, <2>1 DEF Queued, SubTasks, RuntimeInv, TypeOK
<1>6. \A k \in Tasks : Exited(k)' <=> Exited(k)
  BY <1>1, <1>4, <1>5 DEF Exited, t
<1>7. TypeOK'
  BY <1>1, <1>2 DEF RuntimeInv, TypeOK, Places, TaskStates
<1>8. OnePlacePerTask'
  BY <1>1, <1>2, <1>4, <1>5 DEF RuntimeInv, OnePlacePerTask
<1>9. StatesFit'
  <2>1. \A i \in 1 .. Len(queue) : queue[i] \in Tasks /\ queue[i] # t
    <3>1. queue \in Seq(Tasks)
      BY DEF RuntimeInv, TypeOK
    <3>2. \A i \in 1 .. Len(queue) : queue[i] \in Tasks
      BY <3>1
    <3>3. QED BY <1>2, <3>2 DEF Queued
  <2>2. \A u \in Schedulers : cur[u] \in Tasks
    BY DEF RuntimeInv, TypeOK
  <2>3. \A u \in Schedulers : pc[u] \in {"test", "enter", "user", "exit"} /\ u # s => cur[u] # t
    BY <1>3 DEF Holds
  <2>4. QED BY <1>1, <1>2, <1>4, <1>5, <2>1, <2>2, <2>3 DEF RuntimeInv, StatesFit
<1>10. SubTasksFollowCode' /\ SubTasksFit'
  BY <1>1, <1>5 DEF RuntimeInv, SubTasksFollowCode, SubTasksFit
<1>11. PassedYields'
  <2> SUFFICES ASSUME NEW k \in Tasks, NEW j \in 1 .. ip[k], program[k][j] = Yield,
                      state'[k] = "WAITING" => j < ip[k], NEW i \in 1 .. j
               PROVE  program[k][i] = Yield \/ state'[program[k][i]] = "DONE"
    BY <1>1 DEF PassedYields
  <2>1. program[k][i] = Yield \/ program[k][i] \in Tasks
    BY ProgramFacts DEF RuntimeInv
  <2>2. state[k] = "WAITING" => j < ip[k]
    BY <1>2, <1>5
  <2>3. program[k][i] = Yield \/ state[program[k][i]] = "DONE"
    BY <2>2 DEF RuntimeInv, PassedYields
  <2>4. QED BY <1>5, <2>1, <2>3
<1>12. FreedByParent'
  BY <1>1, <1>5, <1>6, ProgramsAssumption DEF RuntimeInv, FreedByParent
<1>13. MainFits'
  BY <1>1, <1>4 DEF RuntimeInv, MainFits
<1>14. QED BY <1>7, <1>8, <1>9, <1>10, <1>11, <1>12, <1>13 DEF RuntimeInv

\* At its end a task has waited for all its sub tasks.
LEMMA EndOfCode ==
  ASSUME RuntimeInv, NEW t \in Tasks, state[t] # "WAITING", ip[t] = Len(program[t])
  PROVE  \A c \in SubTasks(t) : state[c] = "DONE"
<1> SUFFICES ASSUME NEW c \in SubTasks(t) PROVE state[c] = "DONE"
  OBVIOUS
<1>1. c \in Tasks
  BY SubTasksAreTasks DEF RuntimeInv
<1>2. PICK i \in 1 .. ip[t] : program[t][i] = c
  BY <1>1 DEF RuntimeInv, SubTasksFollowCode
<1>3. ip[t] \in Nat /\ ip[t] > 0 /\ program[t][ip[t]] = Yield
  BY <1>2, ProgramFacts DEF RuntimeInv
<1>4. c # Yield
  BY <1>1, ProgramsAssumption
<1>5. QED BY <1>2, <1>3, <1>4 DEF RuntimeInv, PassedYields

\* taskexit deallocates the sub tasks, which are all done.
LEMMA TaskExitStep ==
  ASSUME RuntimeInv, NEW s \in Schedulers, TaskExit(s), UNCHANGED program
  PROVE  RuntimeInv'
<1> USE DEF At, Goto, mainVars
<1> DEFINE t == cur[s]
<1>1. /\ pc[s] = "user" /\ pc' = [pc EXCEPT ![s] = "exit"] /\ ip[t] = Len(program[t])
      /\ memory' = [u \in Tasks |-> IF u \in SubTasks(t) THEN "freed" ELSE memory[u]]
      /\ initial_status' = (initial_status \/ t = Root)
      /\ UNCHANGED <<program, queue, state, scheduler_id, sub_tasks, sub_tasks_alloc, ip, saved,
                     cur, mainVars, undefined>>
  BY DEF TaskExit
<1>2. t \in Tasks /\ Held(t) /\ state[t] = "RUNNING" /\ memory[t] = "live"
  BY <1>1 DEF RuntimeInv, TypeOK, Held, Holds, OnePlacePerTask, StatesFit
<1>3. \A c \in SubTasks(t) : c \in Tasks /\ state[c] = "DONE" /\ memory[c] # "none"
  BY <1>1, <1>2, EndOfCode, SubTasksAreTasks DEF RuntimeInv, SubTasksFollowCode
<1>4. /\ pc'[s] = "exit" /\ \A u \in Schedulers : u # s => pc'[u] = pc[u]
      /\ \A u \in Schedulers : Holds(u)' <=> Holds(u)
  BY <1>1 DEF RuntimeInv, TypeOK, Holds
<1>5. cur[s] = t
  OBVIOUS
<1> HIDE DEF t
<1>6. \A k \in Tasks : /\ Queued(k)' <=> Queued(k)
                       /\ Held(k)' <=> Held(k)
                       /\ SubTasks(k)' = SubTasks(k)
                       /\ memory'[k] = IF k \in SubTasks(t) THEN "freed" ELSE memory[k]
                       /\ Exited(k)' <=> Exited(k) \/ k = t
  BY <1>1, <1>4, <1>5 DEF Queued, Held, SubTasks, Exited
<1>7. TypeOK'
  BY <1>1 DEF RuntimeInv, TypeOK, Places
<1>8. OnePlacePerTask'
  <2>1. \A k \in Tasks : (memory'[k] = "live" /\ state'[k] # "DONE") <=> (memory[k] = "live" /\ state[k] # "DONE")
    BY <1>1, <1>3, <1>6
  <2>2. QED BY <1>1, <1>4, <1>6, <2>1 DEF RuntimeInv, OnePlacePerTask
<1>9. StatesFit'
  BY <1>1, <1>2, <1>3, <1>4, <1>5, <1>6 DEF RuntimeInv, StatesFit
<1>10. SubTasksFollowCode' /\ SubTasksFit'
  BY <1>1, <1>3, <1>6 DEF RuntimeInv, SubTasksFollowCode, SubTasksFit
<1>11. PassedYields'
  BY <1>1 DEF RuntimeInv, PassedYields
<1>12. FreedByParent'
  <2>1. \A k \in Tasks : \A c \in SubTasks(k) : memory'[c] = "freed" <=> Exited(k)'
    BY <1>2, <1>6, SubTasksDisjoint DEF RuntimeInv, FreedByParent
  <2>2. memory'[Root] = "freed" <=> returned'
    BY <1>1, <1>2, <1>6, SubTasksDisjoint, ProgramsAssumption DEF RuntimeInv, FreedByParent
  <2>3. initial_status' <=> Exited(Root)'
    BY <1>1, <1>6, ProgramsAssumption DEF RuntimeInv, FreedByParent
  <2>4. QED BY <1>6, <2>1, <2>2, <2>3 DEF FreedByParent
<1>13. MainFits'
  BY <1>1, <1>4 DEF RuntimeInv, MainFits
<1>14. QED BY <1>7, <1>8, <1>9, <1>10, <1>11, <1>12, <1>13 DEF RuntimeInv

\* taskyield marks the task and queues it.
LEMMA TaskYieldStep ==
  ASSUME RuntimeInv, NEW s \in Schedulers, TaskYield(s), UNCHANGED program
  PROVE  RuntimeInv'
<1> USE DEF At, Goto, mainVars
<1> DEFINE t == cur[s]
<1>1. /\ pc[s] = "user" /\ pc' = [pc EXCEPT ![s] = "leave"]
      /\ ip[t] < Len(program[t]) /\ program[t][ip[t] + 1] = Yield
      /\ ip' = [ip EXCEPT ![t] = @ + 1]
      /\ state' = [state EXCEPT ![t] = "WAITING"]
      /\ queue' = Append(queue, t)
      /\ UNCHANGED <<program, initial_status, scheduler_id, sub_tasks, sub_tasks_alloc, memory, saved,
                     cur, mainVars, undefined>>
  BY DEF TaskYield, Instruction
<1>2. t \in Tasks /\ Held(t) /\ ~Queued(t) /\ state[t] = "RUNNING" /\ memory[t] = "live"
  BY <1>1 DEF RuntimeInv, TypeOK, Held, Holds, OnePlacePerTask, StatesFit
<1>3. /\ queue' \in Seq(Tasks) /\ Len(queue') = Len(queue) + 1 /\ Len(queue) \in Nat
      /\ \A i \in 1 .. Len(queue) : queue'[i] = queue[i]
      /\ queue'[Len(queue) + 1] = t
  BY <1>1, <1>2, AppendFacts DEF RuntimeInv, TypeOK
<1>4. \A u \in Schedulers : Holds(u) /\ cur[u] = t => u = s
  BY <1>1 DEF Holds, RuntimeInv, OnePlacePerTask
<1>5. /\ pc'[s] = "leave" /\ \A u \in Schedulers : u # s => pc'[u] = pc[u]
      /\ Holds(s) /\ ~Holds(s)' /\ \A u \in Schedulers : u # s => (Holds(u)' <=> Holds(u))
  BY <1>1 DEF RuntimeInv, TypeOK, Holds
<1>6. cur[s] = t
  OBVIOUS
<1>7. ip[t] \in Nat /\ ip[t] + 1 <= Len(program[t]) /\ Len(program[t]) \in Nat
  BY <1>1, <1>2, ProgramFacts DEF RuntimeInv
<1> HIDE DEF t
<1>8. \A k \in Tasks : /\ Queued(k)' <=> Queued(k) \/ k = t
                       /\ SubTasks(k)' = SubTasks(k)
                       /\ state'[k] = IF k = t THEN "WAITING" ELSE state[k]
                       /\ ip'[k] = IF k = t THEN ip[t] + 1 ELSE ip[k]
  <2>1. \A k \in Tasks : Queued(k)' <=> Queued(k) \/ k = t
    BY <1>3 DEF Queued
  <2>2. QED BY <1>1, <1>2, <2>1 DEF SubTasks, RuntimeInv, TypeOK
<1>9. \A k \in Tasks : Held(k)' <=> Held(k) /\ k # t
  BY <1>1, <1>4, <1>5, <1>6 DEF Held
<1>10. \A k \in Tasks : Exited(k)' <=> Exited(k)
  BY <1>1, <1>2, <1>5, <1>6, <1>8 DEF Exited
<1>11. TypeOK'
  <2>1. ip' \in [Tasks -> Nat] /\ state' \in [Tasks -> TaskStates] /\ pc' \in [Schedulers -> Places]
    BY <1>1, <1>2, <1>7 DEF RuntimeInv, TypeOK, TaskStates, Places
  <2>2. \A k \in Tasks : ip'[k] <= Len(program'[k])
    BY <1>1, <1>7, <1>8 DEF RuntimeInv, TypeOK
  <2>3. QED BY <1>1, <1>3, <2>1, <2>2 DEF RuntimeInv, TypeOK
<1>12. OnePlacePerTask'
  <2>1. \A i, j \in 1 .. Len(queue') : queue'[i] = queue'[j] => i = j
    BY <1>2, <1>3 DEF RuntimeInv, OnePlacePerTask, Queued
  <2>2. \A u, v \in Schedulers : Holds(u)' /\ Holds(v)' /\ cur'[u] = cur'[v] => u = v
    BY <1>1, <1>5 DEF RuntimeInv, OnePlacePerTask
  <2>3. \A k \in Tasks : ~(Queued(k)' /\ Held(k)')
    BY <1>8, <1>9 DEF RuntimeInv, OnePlacePerTask
  <2>4. \A k \in Tasks : (Queued(k)' \/ Held(k)') <=> (Queued(k) \/ Held(k))
    BY <1>2, <1>8, <1>9
  <2>5. \A k \in Tasks : (memory'[k] = "live" /\ state'[k] # "DONE") <=> (Queued(k)' \/ Held(k)')
    BY <1>1, <1>2, <1>8, <2>4 DEF RuntimeInv, OnePlacePerTask
  <2>6. QED BY <2>1, <2>2, <2>3, <2>5 DEF OnePlacePerTask
<1>13. StatesFit'
  <2>1. \A i \in 1 .. Len(queue) : queue[i] \in Tasks
    BY DEF RuntimeInv, TypeOK
  <2>2. \A u \in Schedulers : cur[u] \in Tasks
    BY DEF RuntimeInv, TypeOK
  <2>3. \A u \in Schedulers : pc[u] \in {"test", "enter", "user", "exit"} /\ u # s => cur[u] # t
    BY <1>4 DEF Holds
  <2>4. \A i \in 1 .. Len(queue) : state'[queue[i]] \in {"NEW", "WAITING"}
    BY <1>8, <2>1 DEF RuntimeInv, StatesFit
  <2>5. \A i \in 1 .. Len(queue') : state'[queue'[i]] \in {"NEW", "WAITING"}
    BY <1>2, <1>3, <1>8, <2>4
  <2>6. \A u \in Schedulers :
          /\ pc'[u] = "test" => state'[cur'[u]] \in {"NEW", "WAITING"}
          /\ pc'[u] \in {"enter", "user", "exit"} => state'[cur'[u]] = "RUNNING"
          /\ pc'[u] = "exit" => ip'[cur'[u]] = Len(program'[cur'[u]])
    BY <1>1, <1>5, <1>8, <2>2, <2>3 DEF RuntimeInv, StatesFit
  <2>7. \A k \in Tasks :
          /\ state'[k] = "NEW" => ip'[k] = 0
          /\ state'[k] = "WAITING" => ip'[k] > 0 /\ program'[k][ip'[k]] = Yield
          /\ state'[k] = "DONE" => ip'[k] = Len(program'[k])
          /\ memory'[k] = "none" => state'[k] = "NEW"
          /\ memory'[k] = "freed" => state'[k] = "DONE"
    BY <1>1, <1>2, <1>7, <1>8 DEF RuntimeInv, StatesFit
  <2>8. QED BY <2>5, <2>6, <2>7 DEF StatesFit
<1>14. SubTasksFollowCode' /\ SubTasksFit'
  <2>1. \A k, c \in Tasks : (\E i \in 1 .. ip'[k] : program[k][i] = c) <=> (\E i \in 1 .. ip[k] : program[k][i] = c)
    <3> SUFFICES ASSUME NEW k \in Tasks, NEW c \in Tasks
                 PROVE  (\E i \in 1 .. ip'[k] : program[k][i] = c) <=> (\E i \in 1 .. ip[k] : program[k][i] = c)
      OBVIOUS
    <3>1. c # Yield
      BY ProgramsAssumption
    <3>2. CASE k = t
      BY <1>1, <1>7, <1>8, <3>1, <3>2
    <3>3. CASE k # t
      BY <1>8, <3>3
    <3>4. QED BY <3>2, <3>3
  <2>2. QED BY <1>1, <1>8, <2>1 DEF RuntimeInv, SubTasksFollowCode, SubTasksFit
<1>15. PassedYields'
  <2> SUFFICES ASSUME NEW k \in Tasks, NEW j \in 1 .. ip'[k], program[k][j] = Yield,
                      state'[k] = "WAITING" => j < ip'[k], NEW i \in 1 .. j
               PROVE  program[k][i] = Yield \/ state'[program[k][i]] = "DONE"
    BY <1>1 DEF PassedYields
  <2>1. j \in 1 .. ip[k] /\ (state[k] = "WAITING" => j < ip[k])
    BY <1>2, <1>7, <1>8
  <2>2. i \in 1 .. Len(program[k])
    BY <2>1, ProgramFacts DEF RuntimeInv
  <2>3. program[k][i] = Yield \/ program[k][i] \in Tasks
    BY <2>2, ProgramFacts DEF RuntimeInv
  <2>4. program[k][i] = Yield \/ state[program[k][i]] = "DONE"
    BY <2>1 DEF RuntimeInv, PassedYields
  <2>5. QED BY <1>2, <1>8, <2>3, <2>4
<1>16. FreedByParent'
  BY <1>1, <1>8, <1>10, ProgramsAssumption DEF RuntimeInv, FreedByParent
<1>17. MainFits'
  BY <1>1, <1>5 DEF RuntimeInv, MainFits
<1>18. QED BY <1>11, <1>12, <1>13, <1>14, <1>15, <1>16, <1>17 DEF RuntimeInv

\* The array of sub tasks has room for one more.
LEMMA GrownAllocFits ==
  ASSUME TypeOK, NEW t \in Tasks, Len(sub_tasks[t]) <= sub_tasks_alloc[t]
  PROVE  GrownAlloc(t) \in Nat /\ Len(sub_tasks[t]) + 1 <= GrownAlloc(t)
<1>1. sub_tasks[t] \in Seq(Tasks) /\ sub_tasks_alloc[t] \in Nat
  BY DEF TypeOK
<1>2. Len(sub_tasks[t]) \in Nat /\ (Len(sub_tasks[t]) = 0 <=> sub_tasks[t] = <<>>)
  BY <1>1
<1>3. CASE sub_tasks[t] = <<>>
  BY <1>1, <1>2, <1>3 DEF GrownAlloc
<1>4. CASE sub_tasks[t] # <<>> /\ Len(sub_tasks[t]) = sub_tasks_alloc[t]
  <2>1. GrownAlloc(t) = sub_tasks_alloc[t] * 2
    BY <1>4 DEF GrownAlloc
  <2>2. QED BY <1>1, <1>2, <1>4, <2>1
<1>5. CASE sub_tasks[t] # <<>> /\ Len(sub_tasks[t]) # sub_tasks_alloc[t]
  <2>1. GrownAlloc(t) = sub_tasks_alloc[t]
    BY <1>5 DEF GrownAlloc
  <2>2. QED BY <1>1, <1>2, <1>5, <2>1
<1>6. QED BY <1>3, <1>4, <1>5

\* The task creates a sub task, enters it in its array and queues it.
LEMMA SpawnStep ==
  ASSUME RuntimeInv, NEW s \in Schedulers, Spawn(s), UNCHANGED program
  PROVE  RuntimeInv'
<1> USE DEF At, mainVars
<1>t. PICK t \in Tasks : t = cur[s]
  BY DEF RuntimeInv, TypeOK
<1>c. PICK c : c = program[t][ip[t] + 1]
  OBVIOUS
<1>1. /\ pc[s] = "user" /\ ip[t] < Len(program[t]) /\ c # Yield /\ c = Instruction(t)
      /\ ip' = [ip EXCEPT ![t] = @ + 1]
      /\ state' = [state EXCEPT ![c] = "NEW"]
      /\ memory' = [memory EXCEPT ![c] = "live"]
      /\ saved' = [saved EXCEPT ![c] = TRUE]
      /\ sub_tasks_alloc' = [sub_tasks_alloc EXCEPT ![t] = GrownAlloc(t)]
      /\ sub_tasks' = [sub_tasks EXCEPT ![t] = Append(@, c)]
      /\ queue' = Append(queue, c)
      /\ UNCHANGED <<program, initial_status, scheduler_id, pc, cur, mainVars, undefined>>
  BY <1>t, <1>c DEF Spawn, Instruction
<1>2. t \in Tasks /\ Held(t) /\ state[t] = "RUNNING" /\ memory[t] = "live"
  BY <1>t, <1>1 DEF RuntimeInv, TypeOK, Held, Holds, OnePlacePerTask, StatesFit
<1>3. /\ c \in Tasks /\ c # Root /\ memory[c] = "none" /\ state[c] = "NEW" /\ ip[c] = 0
      /\ \A u \in Tasks : c \notin SubTasks(u)
      /\ ~Queued(c) /\ ~Held(c)
  BY <1>1, <1>2, SpawnFresh
<1>4. /\ queue' \in Seq(Tasks) /\ Len(queue') = Len(queue) + 1 /\ Len(queue) \in Nat
      /\ \A i \in 1 .. Len(queue) : queue'[i] = queue[i]
      /\ queue'[Len(queue) + 1] = c
  BY <1>1, <1>3, AppendFacts DEF RuntimeInv, TypeOK
<1>5. /\ sub_tasks[t] \in Seq(Tasks) /\ sub_tasks'[t] = Append(sub_tasks[t], c)
      /\ \A k \in Tasks : k # t => sub_tasks'[k] = sub_tasks[k]
  BY <1>1, <1>2 DEF RuntimeInv, TypeOK
<1>6. /\ sub_tasks'[t] \in Seq(Tasks) /\ Len(sub_tasks'[t]) = Len(sub_tasks[t]) + 1 /\ Len(sub_tasks[t]) \in Nat
      /\ \A i \in 1 .. Len(sub_tasks[t]) : sub_tasks'[t][i] = sub_tasks[t][i]
      /\ sub_tasks'[t][Len(sub_tasks[t]) + 1] = c
  BY <1>3, <1>5, AppendFacts
<1>7. ip[t] \in Nat /\ ip[t] + 1 <= Len(program[t]) /\ Len(program[t]) \in Nat
  BY <1>1, <1>2, ProgramFacts DEF RuntimeInv
<1>8. state' = state
  BY <1>1, <1>3 DEF RuntimeInv, TypeOK
<1>9. cur[s] = t /\ program[t][ip[t] + 1] = c
  BY <1>t, <1>c
<1>10. GrownAlloc(t) \in Nat /\ Len(sub_tasks[t]) + 1 <= GrownAlloc(t)
  BY <1>2, GrownAllocFits DEF RuntimeInv, SubTasksFit
<1>11. \A k \in Tasks : /\ Queued(k)' <=> Queued(k) \/ k = c
                        /\ Held(k)' <=> Held(k)
                        /\ memory'[k] = IF k = c THEN "live" ELSE memory[k]
                        /\ ip'[k] = IF k = t THEN ip[t] + 1 ELSE ip[k]
  <2>1. \A k \in Tasks : Queued(k)' <=> Queued(k) \/ k = c
    BY <1>4 DEF Queued
  <2>2. QED BY <1>1, <1>2, <1>3, <2>1 DEF Held, Holds, RuntimeInv, TypeOK
<1>12. \A k, d \in Tasks : d \in SubTasks(k)' <=> d \in SubTasks(k) \/ (k = t /\ d = c)
  <2> SUFFICES ASSUME NEW k \in Tasks, NEW d \in Tasks
               PROVE  d \in SubTasks(k)' <=> d \in SubTasks(k) \/ (k = t /\ d = c)
    OBVIOUS
  <2>1. CASE k = t
    <3>1. ASSUME d \in SubTasks(t)' PROVE d \in SubTasks(t) \/ d = c
      <4>1. PICK i \in 1 .. Len(sub_tasks'[t]) : sub_tasks'[t][i] = d
        BY <3>1 DEF SubTasks
      <4>2. i \in 1 .. Len(sub_tasks[t]) \/ i = Len(sub_tasks[t]) + 1
        BY <1>6
      <4>3. QED BY <1>6, <4>1, <4>2 DEF SubTasks
    <3>2. ASSUME d \in SubTasks(t) PROVE d \in SubTasks(t)'
      <4>1. PICK i \in 1 .. Len(sub_tasks[t]) : sub_tasks[t][i] = d
        BY <3>2 DEF SubTasks
      <4>2. i \in 1 .. Len(sub_tasks'[t]) /\ sub_tasks'[t][i] = d
        BY <1>6, <4>1
      <4>3. QED BY <4>2 DEF SubTasks
    <3>3. c \in SubTasks(t)'
      <4>1. Len(sub_tasks[t]) + 1 \in 1 .. Len(sub_tasks'[t])
        BY <1>6
      <4>2. QED BY <1>6, <4>1 DEF SubTasks
    <3>4. QED BY <2>1, <3>1, <3>2, <3>3
  <2>2. CASE k # t
    BY <1>5, <2>2 DEF SubTasks
  <2>3. QED BY <2>1, <2>2
<1>13. TypeOK'
  <2>1. ip' \in [Tasks -> Nat]
    BY <1>1, <1>2, <1>7 DEF RuntimeInv, TypeOK
  <2>2. memory' \in [Tasks -> {"none", "live", "freed"}]
    BY <1>1, <1>3 DEF RuntimeInv, TypeOK
  <2>3. saved' \in [Tasks -> BOOLEAN]
    BY <1>1, <1>3 DEF RuntimeInv, TypeOK
  <2>4. sub_tasks_alloc' \in [Tasks -> Nat]
    BY <1>1, <1>2, <1>10 DEF RuntimeInv, TypeOK
  <2>5. \A k \in Tasks : ip'[k] <= Len(program'[k])
    BY <1>1, <1>7, <1>11 DEF RuntimeInv, TypeOK
  <2>6. sub_tasks' \in [Tasks -> Seq(Tasks)]
    BY <1>1, <1>5, <1>6 DEF RuntimeInv, TypeOK
  <2>7. QED BY <1>1, <1>4, <1>8, <2>1, <2>5, <2>6, <2>2, <2>3, <2>4 DEF RuntimeInv, TypeOK
<1>14. OnePlacePerTask'
  <2>1. \A i, j \in 1 .. Len(queue') : queue'[i] = queue'[j] => i = j
    BY <1>3, <1>4 DEF RuntimeInv, OnePlacePerTask, Queued
  <2>2. \A u, v \in Schedulers : Holds(u)' /\ Holds(v)' /\ cur'[u] = cur'[v] => u = v
    BY <1>1 DEF RuntimeInv, OnePlacePerTask, Holds
  <2>3. \A k \in Tasks : ~(Queued(k)' /\ Held(k)')
    BY <1>3, <1>11 DEF RuntimeInv, OnePlacePerTask
  <2>4. \A k \in Tasks : (memory'[k] = "live" /\ state'[k] # "DONE") <=> (Queued(k)' \/ Held(k)')
    BY <1>3, <1>8, <1>11 DEF RuntimeInv, OnePlacePerTask
  <2>5. QED BY <2>1, <2>2, <2>3, <2>4 DEF OnePlacePerTask
<1>15. StatesFit'
  <2>1. \A i \in 1 .. Len(queue') : state'[queue'[i]] \in {"NEW", "WAITING"}
    BY <1>3, <1>4, <1>8 DEF RuntimeInv, StatesFit
  <2>2. \A u \in Schedulers : cur[u] \in Tasks
    BY DEF RuntimeInv, TypeOK
  <2>3. \A u \in Schedulers : pc[u] = "exit" => cur[u] # t
    BY <1>1, <1>9 DEF RuntimeInv, OnePlacePerTask, Holds
  <2>4. \A u \in Schedulers :
          /\ pc'[u] = "test" => state'[cur'[u]] \in {"NEW", "WAITING"}
          /\ pc'[u] \in {"enter", "user", "exit"} => state'[cur'[u]] = "RUNNING"
          /\ pc'[u] = "exit" => ip'[cur'[u]] = Len(program'[cur'[u]])
    BY <1>1, <1>8, <1>11, <2>2, <2>3 DEF RuntimeInv, StatesFit
  <2>5. \A k \in Tasks :
          /\ state'[k] = "NEW" => ip'[k] = 0
          /\ state'[k] = "WAITING" => ip'[k] > 0 /\ program'[k][ip'[k]] = Yield
          /\ state'[k] = "DONE" => ip'[k] = Len(program'[k])
          /\ memory'[k] = "none" => state'[k] = "NEW"
          /\ memory'[k] = "freed" => state'[k] = "DONE"
    BY <1>1, <1>2, <1>3, <1>8, <1>11 DEF RuntimeInv, StatesFit
  <2>6. QED BY <2>1, <2>4, <2>5 DEF StatesFit
<1>16. SubTasksFollowCode'
  <2>1. \A k, d \in Tasks : (\E i \in 1 .. ip'[k] : program[k][i] = d)
                              <=> (\E i \in 1 .. ip[k] : program[k][i] = d) \/ (k = t /\ d = c)
    <3> SUFFICES ASSUME NEW k \in Tasks, NEW d \in Tasks
                 PROVE  (\E i \in 1 .. ip'[k] : program[k][i] = d)
                          <=> (\E i \in 1 .. ip[k] : program[k][i] = d) \/ (k = t /\ d = c)
      OBVIOUS
    <3>1. CASE k = t
      <4>1. \A i : i \in 1 .. ip'[t] <=> i \in 1 .. ip[t] \/ i = ip[t] + 1
        BY <1>2, <1>7, <1>11
      <4>2. QED BY <1>9, <3>1, <4>1
    <3>2. CASE k # t
      BY <1>11, <3>2
    <3>3. QED BY <3>1, <3>2
  <2>2. \A k, d \in Tasks : d \in SubTasks(k)' <=> \E i \in 1 .. ip'[k] : program'[k][i] = d
    BY <1>1, <1>12, <2>1 DEF RuntimeInv, SubTasksFollowCode
  <2>3. \A k \in Tasks : \A i, j \in 1 .. Len(sub_tasks'[k]) : sub_tasks'[k][i] = sub_tasks'[k][j] => i = j
    <3>1. \A i \in 1 .. Len(sub_tasks[t]) : sub_tasks[t][i] # c
      BY <1>2, <1>3 DEF SubTasks
    <3>2. \A i, j \in 1 .. Len(sub_tasks[t]) : sub_tasks[t][i] = sub_tasks[t][j] => i = j
      BY <1>2 DEF RuntimeInv, SubTasksFollowCode
    <3>3. \A i \in 1 .. Len(sub_tasks'[t]) : i \in 1 .. Len(sub_tasks[t]) \/ i = Len(sub_tasks[t]) + 1
      BY <1>6
    <3>4. \A i, j \in 1 .. Len(sub_tasks'[t]) : sub_tasks'[t][i] = sub_tasks'[t][j] => i = j
      BY <1>6, <3>1, <3>2, <3>3
    <3>5. QED BY <1>5, <3>4 DEF RuntimeInv, SubTasksFollowCode
  <2>4. \A d \in Tasks : memory'[d] # "none" <=> d = Root \/ \E k \in Tasks : d \in SubTasks(k)'
    BY <1>2, <1>11, <1>12 DEF RuntimeInv, SubTasksFollowCode
  <2>5. QED BY <2>2, <2>3, <2>4 DEF SubTasksFollowCode
<1>17. PassedYields'
  <2>0. program' = program /\ state' = state
    BY <1>1, <1>8
  <2> SUFFICES ASSUME NEW k \in Tasks, NEW j \in 1 .. ip'[k], program[k][j] = Yield,
                      state[k] = "WAITING" => j < ip'[k], NEW i \in 1 .. j
               PROVE  program[k][i] = Yield \/ state[program[k][i]] = "DONE"
    BY <2>0 DEF PassedYields
  <2>1. k = t => j # ip[t] + 1
    BY <1>1, <1>9
  <2>2. j \in 1 .. ip[k] /\ (state[k] = "WAITING" => j < ip[k])
    BY <1>2, <1>7, <1>11, <2>1
  <2>3. QED BY <2>2 DEF RuntimeInv, PassedYields
<1>18. FreedByParent'
  <2>1. \A k \in Tasks : Exited(k)' <=> Exited(k)
    BY <1>1, <1>8 DEF Exited
  <2>2. ~Exited(t)
    <3>1. \A u \in Schedulers : pc[u] = "exit" => cur[u] # t
      BY <1>1, <1>9 DEF RuntimeInv, OnePlacePerTask, Holds
    <3>2. QED BY <1>2, <3>1 DEF Exited
  <2>3. \A k \in Tasks : SubTasks(k)' \subseteq Tasks
    <3> SUFFICES ASSUME NEW k \in Tasks, NEW i \in 1 .. Len(sub_tasks'[k]) PROVE sub_tasks'[k][i] \in Tasks
      BY DEF SubTasks
    <3>1. sub_tasks'[k] \in Seq(Tasks)
      BY <1>13 DEF TypeOK
    <3>2. QED BY <3>1
  <2>4. \A k \in Tasks : \A d \in SubTasks(k)' : memory'[d] = "freed" <=> Exited(k)'
    BY <1>3, <1>11, <1>12, <2>1, <2>2, <2>3 DEF RuntimeInv, FreedByParent
  <2>5. memory'[Root] = "freed" <=> returned'
    BY <1>1, <1>3, <1>11, ProgramsAssumption DEF RuntimeInv, FreedByParent
  <2>6. QED BY <1>1, <2>1, <2>4, <2>5, ProgramsAssumption DEF RuntimeInv, FreedByParent
<1>19. MainFits'
  BY <1>1 DEF RuntimeInv, MainFits
<1>20. SubTasksFit'
  <2>1. sub_tasks_alloc'[t] = GrownAlloc(t) /\ \A k \in Tasks : k # t => sub_tasks_alloc'[k] = sub_tasks_alloc[k]
    BY <1>1, <1>2 DEF RuntimeInv, TypeOK
  <2>2. QED BY <1>2, <1>5, <1>6, <1>10, <2>1 DEF RuntimeInv, SubTasksFit
<1>21. QED BY <1>13, <1>14, <1>15, <1>16, <1>17, <1>18, <1>19, <1>20 DEF RuntimeInv

----------------------------------------------------------------------------
(* The theorems.                                                           *)

\* What holds up to undefined behaviour is an invariant of the program.
THEOREM RuntimeSafe == Spec => []RuntimeInv
<1>1. RuntimeInv /\ [Next]_vars => RuntimeInv'
  <2> SUFFICES ASSUME RuntimeInv, [Next]_vars PROVE RuntimeInv'
    OBVIOUS
  <2>1. CASE UNCHANGED vars
    <3>1. TypeOK' /\ MainFits'
      BY <2>1 DEF vars, taskVars, mainVars, RuntimeInv, TypeOK, MainFits
    <3>2. QED BY <2>1, <3>1, QuietStep DEF vars, taskVars, mainVars
  <2>2. ASSUME MainStep, UNCHANGED program PROVE RuntimeInv'
    BY <2>2, CreateThreadStep, JoinThreadStep, CleanUpStep DEF MainStep
  <2>3. ASSUME NEW s \in Schedulers, SchedulerStep(s), UNCHANGED program PROVE RuntimeInv'
    BY <2>3, QueueGetStep, NothingToDoStep, DispatchStep, PutBackStep, SwitchStep, SpawnStep, TaskYieldStep,
       TaskExitStep, TaskDoneStep DEF SchedulerStep
  <2>4. QED BY <2>1, <2>2, <2>3 DEF Next, Stopped
<1>2. QED BY <1>1, RuntimeInvInit, PTL DEF Spec

\* The structures of the runtime keep their types, whatever the threads do.
THEOREM RuntimeTypes == Spec => []TypeOK
<1>1. RuntimeInv => TypeOK
  BY DEF RuntimeInv
<1>2. QED BY <1>1, RuntimeSafe, PTL

\* taskadd, queue_get and the two ways back into the queue never lose a task
\* and never give one to two schedulers.
THEOREM NoTaskLostOrDoubled == Spec => []OnePlacePerTask
<1>1. RuntimeInv => OnePlacePerTask
  BY DEF RuntimeInv
<1>2. QED BY <1>1, RuntimeSafe, PTL

\* subtaskadd writes inside the array it has allocated.
THEOREM SubTaskArrayFits == Spec => []SubTasksFit
<1>1. RuntimeInv => SubTasksFit
  BY DEF RuntimeInv
<1>2. QED BY <1>1, RuntimeSafe, PTL

\* A task that is past a taskyield can read the results of its sub tasks.
THEOREM ResultsAreThere == Spec => []ResumedAfterSubTasks
<1>1. RuntimeInv => ResumedAfterSubTasks
  <2> SUFFICES ASSUME RuntimeInv, NEW t \in Tasks, state[t] = "RUNNING", ip[t] > 0, program[t][ip[t]] = Yield,
                      NEW i \in 1 .. Len(sub_tasks[t])
               PROVE  state[sub_tasks[t][i]] = "DONE"
    BY DEF ResumedAfterSubTasks, get_subtasks_done
  <2> DEFINE c == sub_tasks[t][i]
  <2>1. c \in SubTasks(t) /\ c \in Tasks
    BY SubTasksAreTasks DEF SubTasks, RuntimeInv
  <2>2. PICK j \in 1 .. ip[t] : program[t][j] = c
    BY <2>1 DEF RuntimeInv, SubTasksFollowCode
  <2>3. ip[t] \in 1 .. ip[t]
    BY ProgramFacts DEF RuntimeInv
  <2>4. c # Yield
    BY <2>1, ProgramsAssumption
  <2>5. QED BY <2>2, <2>3, <2>4 DEF RuntimeInv, PassedYields
<1>2. QED BY <1>1, RuntimeSafe, PTL

\* A sub task is there as long as its parent may look at it, and is freed
\* only after it is done.
THEOREM ParentOwnsSubTasks == Spec => []SubTasksOwned
<1>1. RuntimeInv => SubTasksOwned
  <2> SUFFICES ASSUME RuntimeInv, NEW t \in Tasks
               PROVE  /\ \A i, j \in 1 .. Len(sub_tasks[t]) : sub_tasks[t][i] = sub_tasks[t][j] => i = j
                      /\ \A u \in SubTasks(t) :
                           /\ memory[u] = "freed" => state[u] = "DONE"
                           /\ ip[t] < Len(program[t]) \/ (state[t] = "WAITING") => memory[u] = "live"
    BY DEF SubTasksOwned
  <2>1. \A i, j \in 1 .. Len(sub_tasks[t]) : sub_tasks[t][i] = sub_tasks[t][j] => i = j
    BY DEF RuntimeInv, SubTasksFollowCode
  <2>2. \A u \in SubTasks(t) : u \in Tasks /\ memory[u] \in {"live", "freed"}
    BY SubTasksAreTasks DEF RuntimeInv, SubTasksFollowCode, TypeOK
  <2>3. \A u \in SubTasks(t) : memory[u] = "freed" => state[u] = "DONE"
    BY <2>2 DEF RuntimeInv, StatesFit
  <2>4. Exited(t) => ip[t] = Len(program[t]) /\ state[t] # "WAITING"
    BY DEF Exited, RuntimeInv, StatesFit
  <2>5. ip[t] \in Nat /\ Len(program[t]) \in Nat
    BY ProgramFacts DEF RuntimeInv
  <2>6. \A u \in SubTasks(t) : ip[t] < Len(program[t]) \/ (state[t] = "WAITING") => memory[u] = "live"
    BY <2>2, <2>4, <2>5 DEF RuntimeInv, FreedByParent
  <2>7. QED BY <2>1, <2>3, <2>6
<1>2. QED BY <1>1, RuntimeSafe, PTL

\* The sub tasks of an exited task are those of its whole code.
LEMMA ExitedKids ==
  ASSUME RuntimeInv, NEW t \in Tasks, Exited(t)
  PROVE  \A c \in Kids(program, t) : c \in Tasks /\ memory[c] = "freed"
<1> SUFFICES ASSUME NEW c \in Kids(program, t) PROVE c \in Tasks /\ memory[c] = "freed"
  OBVIOUS
<1>1. ip[t] = Len(program[t])
  BY DEF Exited, RuntimeInv, StatesFit
<1>2. PICK i \in 1 .. Len(program[t]) : program[t][i] = c /\ c # Yield
  BY ProgramFacts DEF Kids, RuntimeInv
<1>3. c \in Tasks
  BY <1>2, ProgramFacts DEF RuntimeInv
<1>4. c \in SubTasks(t)
  BY <1>1, <1>2, <1>3 DEF RuntimeInv, SubTasksFollowCode
<1>5. QED BY <1>3, <1>4 DEF RuntimeInv, FreedByParent

\* When the initial task has exited, so have all others, by induction over
\* the tree of tasks: AllFromRoot, applied to the tasks that were freed.
LEMMA AllDone ==
  ASSUME RuntimeInv, initial_status
  PROVE  /\ queue = <<>>
         /\ \A t \in Tasks \ {Root} : memory[t] = "freed" /\ state[t] = "DONE"
<1> DEFINE X == {Root} \cup {t \in Tasks : memory[t] = "freed"}
<1>1. \A t \in X : Exited(t)
  BY DEF RuntimeInv, FreedByParent, StatesFit, Exited
<1>2. X \subseteq Tasks
  BY ProgramsAssumption
<1>3. \A t \in X : Kids(program, t) \subseteq X
  BY <1>1, <1>2, ExitedKids
<1>4. AllFromRoot(program)
  BY ProgramsAssumption DEF RuntimeInv, TypeOK
<1>5. X = Tasks
  BY <1>2, <1>3, <1>4 DEF AllFromRoot
<1>6. \A t \in Tasks \ {Root} : memory[t] = "freed" /\ state[t] = "DONE"
  BY <1>5 DEF RuntimeInv, StatesFit
<1>7. \A t \in Tasks : ~Queued(t)
  <2> SUFFICES ASSUME NEW t \in Tasks, Queued(t) PROVE FALSE
    OBVIOUS
  <2>1. memory[t] = "live" /\ state[t] # "DONE" /\ ~Held(t)
    BY DEF RuntimeInv, OnePlacePerTask
  <2>2. Exited(t)
    BY <1>1, <1>5
  <2>3. QED BY <2>1, <2>2 DEF Exited, Held, Holds
<1>8. queue = <<>>
  <2>1. queue \in Seq(Tasks)
    BY DEF RuntimeInv, TypeOK
  <2>2. queue # <<>> => 1 \in 1 .. Len(queue) /\ queue[1] \in Tasks
    BY <2>1
  <2>3. QED BY <1>7, <2>2 DEF Queued
<1>9. QED BY <1>6, <1>8

\* The schedulers stop only when every other task was run to its end.
THEOREM StopsOnlyWhenDone == Spec => []StopsWhenAllDone
<1>1. RuntimeInv => StopsWhenAllDone
  BY AllDone DEF StopsWhenAllDone
<1>2. QED BY <1>1, RuntimeSafe, PTL

\* main leaves no thread running and no task allocated.
THEOREM CleansUp == Spec => []NothingLeftBehind
<1>1. RuntimeInv => NothingLeftBehind
  <2> SUFFICES ASSUME RuntimeInv, returned
               PROVE  /\ \A s \in Schedulers : pc[s] = "ended"
                      /\ \A t \in Tasks : memory[t] = "freed"
    BY DEF NothingLeftBehind
  <2>1. \A s \in Schedulers : pc[s] = "ended"
    BY ThreadsAssumption DEF RuntimeInv, MainFits, TypeOK, Schedulers
  <2>2. 0 \in Schedulers
    BY ThreadsAssumption DEF Schedulers
  <2>3. initial_status
    BY <2>1, <2>2 DEF RuntimeInv, MainFits
  <2>4. memory[Root] = "freed"
    BY DEF RuntimeInv, FreedByParent
  <2>5. QED BY <2>1, <2>3, <2>4, AllDone
<1>2. QED BY <1>1, RuntimeSafe, PTL

\* The step property of NeverRevived.
KeepsEnded ==
  \A t \in Tasks : memory[t] = "freed" \/ (memory[t] = "live" /\ state[t] = "DONE") =>
    state'[t] = "DONE" /\ memory'[t] # "none" /\ (memory[t] = "freed" => memory'[t] = "freed")

\* A task that is done is never dispatched, spawned or freed a second time.
THEOREM EndedTasksStayEnded == Spec => NeverRevived
<1>1. RuntimeInv /\ [Next]_vars => [KeepsEnded]_vars
  <2> SUFFICES ASSUME RuntimeInv, Next PROVE KeepsEnded
    OBVIOUS
  <2>1. \A t \in Tasks : memory[t] = "freed" => state[t] = "DONE"
    BY DEF RuntimeInv, StatesFit
  <2>2. ASSUME UNCHANGED <<state, memory>> PROVE KeepsEnded
    BY <2>1, <2>2 DEF KeepsEnded
  <2>3. ASSUME CleanUp PROVE KeepsEnded
    BY <2>1, <2>3 DEF CleanUp, KeepsEnded, RuntimeInv, TypeOK
  <2>4. ASSUME NEW s \in Schedulers, Dispatch(s) \/ TaskYield(s) \/ TaskDone(s) PROVE KeepsEnded
    <3>1. pc[s] \in {"test", "user", "exit"}
      BY <2>4 DEF Dispatch, TaskYield, TaskDone, At
    <3>2. state[cur[s]] # "DONE" /\ cur[s] \in Tasks
      BY <3>1 DEF RuntimeInv, StatesFit, TypeOK
    <3>3. \A t \in Tasks : t # cur[s] => state'[t] = state[t]
      BY <2>4 DEF Dispatch, TaskYield, TaskDone, RuntimeInv, TypeOK
    <3>4. memory' = memory
      BY <2>4 DEF Dispatch, TaskYield, TaskDone
    <3>5. QED BY <2>1, <3>2, <3>3, <3>4 DEF KeepsEnded
  <2>5. ASSUME NEW s \in Schedulers, TaskExit(s) PROVE KeepsEnded
    BY <2>1, <2>5 DEF TaskExit, KeepsEnded
  <2>6. ASSUME NEW s \in Schedulers, Spawn(s) PROVE KeepsEnded
    <3> DEFINE c == Instruction(cur[s])
    <3>1. cur[s] \in Tasks /\ ip[cur[s]] < Len(program[cur[s]]) /\ c # Yield
      BY <2>6 DEF Spawn, RuntimeInv, TypeOK
    <3>2. c \in Tasks /\ memory[c] = "none"
      BY <3>1, SpawnFresh
    <3>3. state' = [state EXCEPT ![c] = "NEW"] /\ memory' = [memory EXCEPT ![c] = "live"]
      BY <2>6 DEF Spawn
    <3> HIDE DEF c
    <3>4. \A t \in Tasks : t # c => state'[t] = state[t] /\ memory'[t] = memory[t]
      BY <3>3 DEF RuntimeInv, TypeOK
    <3>5. QED BY <2>1, <3>2, <3>4 DEF KeepsEnded
  <2>7. ASSUME NEW s \in Schedulers,
               QueueGet(s) \/ NothingToDo(s) \/ PutBack(s) \/ Enter(s) \/ TaskSwitch(s)
        PROVE  KeepsEnded
    BY <2>2, <2>7 DEF QueueGet, NothingToDo, PutBack, Enter, TaskSwitch, Undefined, taskVars
  <2>8. ASSUME CreateThread \/ JoinThread \/ Stopped PROVE KeepsEnded
    BY <2>2, <2>8 DEF CreateThread, JoinThread, Stopped, vars, taskVars
  <2>9. QED BY <2>3, <2>4, <2>5, <2>6, <2>7, <2>8 DEF Next, MainStep, SchedulerStep
<1>2. QED BY <1>1, RuntimeSafe, PTL DEF Spec, NeverRevived, KeepsEnded

----------------------------------------------------------------------------
(* One scheduler.                                                          *)

\* With one scheduler no step of the program is undefined.
LEMMA AloneStep ==
  ASSUME os_thread_count = 1, RuntimeInv, AloneInv, [Next]_vars
  PROVE  AloneInv'
<1> USE DEF At, Goto, mainVars, taskVars
<1>1. /\ Schedulers = {0} /\ pc[0] \in Places /\ cur[0] \in Tasks
      /\ \A s \in Schedulers : s = 0
  BY DEF Schedulers, RuntimeInv, TypeOK
<1>2. CASE UNCHANGED vars
  BY <1>2 DEF vars, AloneInv
<1>3. CASE CreateThread
  BY <1>1, <1>3 DEF CreateThread, AloneInv, RuntimeInv, TypeOK, MainFits
<1>4. CASE JoinThread
  BY <1>4 DEF JoinThread, AloneInv
<1>5. CASE CleanUp
  <2>1. pc[0] = "ended"
    BY <1>1, <1>5 DEF CleanUp, RuntimeInv, MainFits
  <2>2. QED BY <1>1, <1>5, <2>1 DEF CleanUp, AloneInv, RuntimeInv, TypeOK
<1>6. ASSUME SchedulerStep(0) PROVE AloneInv'
  <2> DEFINE t == cur[0]
  <2>1. CASE QueueGet(0)
    BY <1>1, <2>1 DEF QueueGet, AloneInv, RuntimeInv, TypeOK
  <2>2. CASE NothingToDo(0)
    BY <1>1, <2>2 DEF NothingToDo, AloneInv, RuntimeInv, TypeOK
  <2>3. CASE Dispatch(0)
    <3>1. pc[0] = "test" /\ pc'[0] = "enter" /\ cur' = cur /\ memory' = memory /\ saved' = saved
      BY <1>1, <2>3 DEF Dispatch, RuntimeInv, TypeOK
    <3>2. memory[t] = "live" /\ state[t] \in {"NEW", "WAITING"}
      BY <1>1, <3>1 DEF RuntimeInv, StatesFit, OnePlacePerTask, Held, Holds
    <3>3. saved[t]
      BY <1>1, <3>1, <3>2 DEF AloneInv
    <3>4. scheduler_id'[t] = 0 /\ \A k \in Tasks : state'[k] = IF k = t THEN "RUNNING" ELSE state[k]
      BY <1>1, <2>3 DEF Dispatch, RuntimeInv, TypeOK
    <3>5. ~undefined'
      BY <2>3 DEF Dispatch, AloneInv
    <3>6. QED BY <1>1, <3>1, <3>2, <3>3, <3>4, <3>5 DEF AloneInv
  <2>4. CASE PutBack(0)
    BY <1>1, <2>4 DEF PutBack, AloneInv, RuntimeInv, TypeOK
  <2>5. CASE Enter(0)
    <3>1. pc[0] = "enter" /\ saved[t] /\ memory[t] = "live" /\ state[t] = "RUNNING"
      BY <1>1, <2>5 DEF Enter, AloneInv, RuntimeInv, StatesFit
    <3>2. /\ pc'[0] = "user" /\ saved' = [saved EXCEPT ![t] = FALSE]
          /\ UNCHANGED <<state, scheduler_id, memory, cur, undefined>>
      BY <1>1, <2>5, <3>1 DEF Enter, RuntimeInv, TypeOK
    <3>3. QED BY <1>1, <3>1, <3>2 DEF AloneInv, RuntimeInv, TypeOK
  <2>6. CASE Spawn(0)
    <3>1. /\ pc[0] = "user" /\ ip[t] < Len(program[t]) /\ Instruction(t) # Yield
          /\ state' = [state EXCEPT ![Instruction(t)] = "NEW"]
          /\ memory' = [memory EXCEPT ![Instruction(t)] = "live"]
          /\ saved' = [saved EXCEPT ![Instruction(t)] = TRUE]
          /\ UNCHANGED <<pc, cur, scheduler_id, undefined>>
      BY <2>6 DEF Spawn
    <3>2. Instruction(t) \in Tasks /\ memory[Instruction(t)] = "none"
      BY <1>1, <3>1, SpawnFresh
    <3>3. QED BY <1>1, <3>1, <3>2 DEF AloneInv, RuntimeInv, TypeOK
  <2>7. CASE TaskYield(0)
    <3>1. /\ pc[0] = "user" /\ pc' = [pc EXCEPT ![0] = "leave"] /\ state' = [state EXCEPT ![t] = "WAITING"]
          /\ UNCHANGED <<cur, scheduler_id, memory, saved, undefined>>
      BY <2>7 DEF TaskYield
    <3>2. pc'[0] = "leave" /\ \A k \in Tasks : k # t => state'[k] = state[k]
      BY <1>1, <3>1 DEF RuntimeInv, TypeOK
    <3>3. QED BY <1>1, <3>1, <3>2 DEF AloneInv
  <2>8. CASE TaskExit(0)
    <3>1. /\ pc[0] = "user" /\ pc' = [pc EXCEPT ![0] = "exit"] /\ ip[t] = Len(program[t])
          /\ memory' = [u \in Tasks |-> IF u \in SubTasks(t) THEN "freed" ELSE memory[u]]
          /\ UNCHANGED <<cur, scheduler_id, state, saved, undefined>>
      BY <2>8 DEF TaskExit
    <3>2. state[t] = "RUNNING"
      BY <1>1, <3>1 DEF RuntimeInv, StatesFit
    <3>3. t \notin SubTasks(t)
      BY <1>1, <3>1, <3>2, EndOfCode
    <3>4. pc'[0] = "exit" /\ memory'[t] = memory[t] /\ \A k \in Tasks : memory'[k] = "live" => memory[k] = "live"
      BY <1>1, <3>1, <3>3 DEF RuntimeInv, TypeOK
    <3>5. QED BY <1>1, <3>1, <3>4 DEF AloneInv
  <2>9. CASE TaskDone(0)
    <3>1. /\ pc[0] = "exit" /\ pc' = [pc EXCEPT ![0] = "leave"] /\ state' = [state EXCEPT ![t] = "DONE"]
          /\ UNCHANGED <<cur, scheduler_id, memory, saved, undefined>>
      BY <2>9 DEF TaskDone
    <3>2. pc'[0] = "leave" /\ \A k \in Tasks : k # t => state'[k] = state[k]
      BY <1>1, <3>1 DEF RuntimeInv, TypeOK
    <3>3. QED BY <1>1, <3>1, <3>2 DEF AloneInv
  <2>10. CASE TaskSwitch(0)
    <3>1. pc[0] = "leave" /\ memory[t] = "live" /\ scheduler_id[t] = 0
      BY <1>1, <2>10 DEF TaskSwitch, AloneInv
    <3>2. /\ pc'[0] = "get" /\ saved' = [saved EXCEPT ![t] = TRUE]
          /\ UNCHANGED <<state, scheduler_id, memory, cur, undefined>>
      BY <1>1, <2>10, <3>1 DEF TaskSwitch, RuntimeInv, TypeOK
    <3>3. QED BY <1>1, <3>1, <3>2 DEF AloneInv, RuntimeInv, TypeOK
  <2>11. QED BY <1>6, <2>1, <2>2, <2>3, <2>4, <2>5, <2>6, <2>7, <2>8, <2>9, <2>10 DEF SchedulerStep
<1>7. QED BY <1>1, <1>2, <1>3, <1>4, <1>5, <1>6 DEF Next, Stopped, MainStep

\* The races of the runtime need two schedulers: with one, the way out of a
\* task always leads back to its scheduler and the task is still there.
THEOREM OneSchedulerIsSafe ==
  ASSUME os_thread_count = 1
  PROVE  Spec => [](NoUndefinedBehaviour /\ SchedulerIdIsExecutor /\ TaskOutlivesItsExit)
<1>1. Init => AloneInv
  BY DEF Init, AloneInv
<1>2. RuntimeInv /\ AloneInv /\ [Next]_vars => AloneInv'
  BY AloneStep
<1>3. AloneInv => NoUndefinedBehaviour /\ SchedulerIdIsExecutor /\ TaskOutlivesItsExit
  BY DEF AloneInv, NoUndefinedBehaviour, SchedulerIdIsExecutor, TaskOutlivesItsExit
<1>4. QED BY <1>1, <1>2, <1>3, RuntimeSafe, PTL DEF Spec

----------------------------------------------------------------------------
(* The runtime carries out the fork-join program.                          *)

\* The tasks that run have a scheduler each.
LEMMA RunningTasks ==
  ASSUME RuntimeInv, NEW s \in Schedulers, pc[s] = "test"
  PROVE  Cardinality({t \in Tasks : Status(t) = "running"}) < os_thread_count
<1> DEFINE R == {t \in Tasks : Status(t) = "running"}
<1> DEFINE S == Schedulers \ {s}
<1> DEFINE image == {cur[u] : u \in S}
<1>1. \A t \in R : state[t] = "RUNNING" /\ t \in Tasks
  BY DEF Status
<1>2. R \subseteq image
  <2> SUFFICES ASSUME NEW t \in R PROVE t \in image
    OBVIOUS
  <2>1. memory[t] = "live"
    BY <1>1 DEF Status, RuntimeInv, StatesFit, TypeOK
  <2>2. ~Queued(t)
    <3>1. \A i \in 1 .. Len(queue) : queue[i] # t
      BY <1>1 DEF RuntimeInv, StatesFit
    <3>2. QED BY <3>1 DEF Queued
  <2>3. Held(t)
    BY <1>1, <2>1, <2>2 DEF RuntimeInv, OnePlacePerTask
  <2>4. PICK u \in Schedulers : Holds(u) /\ cur[u] = t
    BY <2>3 DEF Held
  <2>5. u # s
    BY <1>1, <2>4 DEF RuntimeInv, StatesFit
  <2>6. QED BY <2>4, <2>5
<1>3. IsFiniteSet(Schedulers) /\ Cardinality(Schedulers) = os_thread_count
  <2>1. 0 \in Int /\ os_thread_count - 1 \in Int /\ ~(0 > os_thread_count - 1)
    BY ThreadsAssumption
  <2>2. IsFiniteSet(0 .. os_thread_count - 1) /\ Cardinality(0 .. os_thread_count - 1) = os_thread_count - 1 - 0 + 1
    BY <2>1, FS_Interval
  <2>3. QED BY <2>2, ThreadsAssumption DEF Schedulers
<1>4. IsFiniteSet(S) /\ Cardinality(S) = os_thread_count - 1
  BY <1>3, FS_RemoveElement
<1>5. IsFiniteSet(image) /\ Cardinality(image) <= Cardinality(S)
  <2> DEFINE f == [u \in S |-> cur[u]]
  <2>1. f \in Surjection(S, image)
    BY DEF Surjection
  <2> HIDE DEF f
  <2>2. QED BY <1>4, <2>1, FS_Surjection
<1>6. Cardinality(R) <= Cardinality(image) /\ Cardinality(R) \in Nat /\ Cardinality(image) \in Nat
  BY <1>2, <1>5, FS_Subset, FS_CardinalityType
<1>7. QED BY <1>4, <1>5, <1>6, ThreadsAssumption

\* The status of the task of a scheduler.
LEMMA StatusFacts ==
  ASSUME RuntimeInv
  PROVE  /\ \A s \in Schedulers : pc[s] \in {"user", "exit"} => Status(cur[s]) = "running" /\ cur[s] \in Tasks
         /\ \A s \in Schedulers : pc[s] = "test" => memory[cur[s]] = "live" /\ cur[s] \in Tasks
         /\ \A t \in Tasks : state[t] = "DONE" => Status(t) = "done"
<1>1. \A s \in Schedulers : Holds(s) => memory[cur[s]] = "live" /\ cur[s] \in Tasks
  BY DEF RuntimeInv, TypeOK, OnePlacePerTask, Held
<1>2. \A s \in Schedulers : pc[s] \in {"user", "exit"} => state[cur[s]] = "RUNNING"
  BY DEF RuntimeInv, StatesFit
<1>3. \A s \in Schedulers : pc[s] \in {"user", "exit"} => Status(cur[s]) = "running" /\ cur[s] \in Tasks
  BY <1>1, <1>2 DEF Holds, Status
<1>4. \A s \in Schedulers : pc[s] = "test" => memory[cur[s]] = "live" /\ cur[s] \in Tasks
  BY <1>1 DEF Holds
<1>5. \A t \in Tasks : state[t] = "DONE" => Status(t) = "done"
  BY DEF RuntimeInv, StatesFit, Status
<1>6. QED BY <1>3, <1>4, <1>5

\* A step of the program is a step of the fork-join program it carries out,
\* or none.
LEMMA ForkJoinStep ==
  ASSUME RuntimeInv, RuntimeInv', Next
  PROVE  FJ!Next \/ (UNCHANGED program /\ UNCHANGED ip /\ \A t \in Tasks : Status(t)' = Status(t))
<1> DEFINE Quiet == UNCHANGED program /\ UNCHANGED ip /\ \A t \in Tasks : Status(t)' = Status(t)
<1>1. ASSUME UNCHANGED <<program, ip, state, memory>> PROVE Quiet
  BY <1>1 DEF Status
<1>2. ASSUME MainStep, UNCHANGED program PROVE Quiet
  <2>1. CASE CreateThread \/ JoinThread
    BY <1>1, <1>2, <2>1 DEF CreateThread, JoinThread, taskVars
  <2>2. CASE CleanUp
    <3>1. state[Root] = "DONE"
      BY <2>2, ProgramsAssumption DEF CleanUp, RuntimeInv, StatesFit, TypeOK
    <3>2. UNCHANGED <<ip, state>> /\ \A t \in Tasks : t # Root => memory'[t] = memory[t]
      BY <2>2 DEF CleanUp, RuntimeInv, TypeOK
    <3>3. \A t \in Tasks : t # Root => Status(t)' = Status(t)
      BY <3>2 DEF Status
    <3>4. Root \in Tasks
      BY ProgramsAssumption
    <3>5. memory[Root] # "none" /\ memory'[Root] = "freed"
      BY <2>2, <3>4 DEF CleanUp, RuntimeInv, SubTasksFollowCode, TypeOK
    <3>6. Status(Root)' = Status(Root)
      BY <3>1, <3>2, <3>5 DEF Status
    <3>7. QED BY <1>2, <3>2, <3>3, <3>6
  <2>3. QED BY <1>2, <2>1, <2>2 DEF MainStep
<1>3. ASSUME NEW s \in Schedulers, Dispatch(s), UNCHANGED program PROVE FJ!Next
  <2> DEFINE t == cur[s]
  <2>1. pc[s] = "test" /\ Runnable(t) /\ state' = [state EXCEPT ![t] = "RUNNING"] /\ UNCHANGED <<ip, memory>>
    BY <1>3 DEF Dispatch, At
  <2>2. memory[t] = "live" /\ t \in Tasks
    BY <2>1, StatusFacts
  <2>3. FJ!FreeThread
    <3> DEFINE abstract == {k \in Tasks : [u \in Tasks |-> Status(u)][k] = "running"}
    <3> DEFINE running == {k \in Tasks : Status(k) = "running"}
    <3>1. abstract = running
      OBVIOUS
    <3>2. Cardinality(running) < os_thread_count
      BY <2>1, RunningTasks
    <3>3. FJ!FreeThread <=> Cardinality(abstract) < os_thread_count
      BY Zenon DEF FJ!FreeThread, FJ!Cardinality, Cardinality
    <3> HIDE DEF abstract, running
    <3>4. QED BY <3>1, <3>2, <3>3
  <2>4. \A k \in Tasks : Status(k)' = IF k = t THEN "running" ELSE Status(k)
    BY <2>1, <2>2 DEF Status, RuntimeInv, TypeOK
  <2>5. [k \in Tasks |-> Status(k)]' = [[k \in Tasks |-> Status(k)] EXCEPT ![t] = "running"]
    BY <2>4
  <2>6. CASE state[t] = "NEW"
    <3>1. Status(t) = "ready"
      BY <2>2, <2>6 DEF Status
    <3>2. FJ!Start(t)
      BY <2>1, <2>2, <2>3, <2>5, <3>1 DEF FJ!Start
    <3>3. QED BY <1>3, <2>2, <3>2 DEF FJ!Next
  <2>7. CASE state[t] # "NEW"
    <3>1. state[t] = "WAITING" /\ get_subtasks_done(t) /\ Status(t) = "waiting"
      BY <2>1, <2>2, <2>7 DEF Runnable, Status
    <3>2. \A c \in FJ!Forked(t) : c \in Tasks /\ Status(c) = "done"
      <4> SUFFICES ASSUME NEW c \in FJ!Forked(t) PROVE c \in Tasks /\ Status(c) = "done"
        OBVIOUS
      <4>1. PICK i \in 1 .. ip[t] : program[t][i] = c /\ c # Yield
        BY DEF FJ!Forked
      <4>2. i \in 1 .. Len(program[t])
        BY <2>2, ProgramFacts DEF RuntimeInv
      <4>3. c \in Tasks
        BY <2>2, <4>1, <4>2, ProgramFacts DEF RuntimeInv
      <4>4. c \in SubTasks(t)
        BY <2>2, <4>1, <4>3 DEF RuntimeInv, SubTasksFollowCode
      <4>5. state[c] = "DONE"
        BY <3>1, <4>4 DEF SubTasks, get_subtasks_done
      <4>6. QED BY <4>3, <4>5, StatusFacts
    <3>3. FJ!Resume(t)
      BY <2>1, <2>2, <2>3, <2>5, <3>1, <3>2 DEF FJ!Resume
    <3>4. QED BY <1>3, <2>2, <3>3 DEF FJ!Next
  <2>8. QED BY <2>6, <2>7
<1>4. ASSUME NEW s \in Schedulers, Spawn(s), UNCHANGED program PROVE FJ!Next
  <2> DEFINE t == cur[s]
  <2> DEFINE c == Instruction(t)
  <2>1. /\ pc[s] = "user" /\ ip[t] < Len(program[t]) /\ c # Yield /\ c = program[t][ip[t] + 1]
        /\ ip' = [ip EXCEPT ![t] = @ + 1]
        /\ state' = [state EXCEPT ![c] = "NEW"] /\ memory' = [memory EXCEPT ![c] = "live"]
    BY <1>4 DEF Spawn, At, Instruction
  <2>2. Status(t) = "running" /\ t \in Tasks
    BY <2>1, StatusFacts
  <2>3. c \in Tasks /\ memory[c] = "none" /\ Status(c) = "none"
    BY <2>1, <2>2, SpawnFresh DEF Status
  <2> HIDE DEF c, t
  <2>4. \A k \in Tasks : Status(k)' = IF k = c THEN "ready" ELSE Status(k)
    <3>1. state'[c] = "NEW" /\ memory'[c] = "live"
      BY <2>1, <2>3 DEF RuntimeInv, TypeOK
    <3>2. \A k \in Tasks : k # c => state'[k] = state[k] /\ memory'[k] = memory[k]
      BY <2>1 DEF RuntimeInv, TypeOK
    <3>3. \A k \in Tasks : k # c => Status(k)' = Status(k)
      BY <3>2 DEF Status
    <3>4. \A k \in Tasks : k = c => Status(k)' = "ready"
      BY <3>1 DEF Status
    <3>5. QED BY <3>3, <3>4
  <2>5. [k \in Tasks |-> Status(k)]' = [[k \in Tasks |-> Status(k)] EXCEPT ![c] = "ready"]
    BY <2>4
  <2>6. FJ!Fork(t, c)
    BY <2>1, <2>2, <2>3, <2>5 DEF FJ!Fork, FJ!NextIs
  <2>7. QED BY <1>4, <2>2, <2>3, <2>6 DEF FJ!Next
<1>5. ASSUME NEW s \in Schedulers, TaskYield(s), UNCHANGED program PROVE FJ!Next
  <2> DEFINE t == cur[s]
  <2>1. /\ pc[s] = "user" /\ ip[t] < Len(program[t]) /\ program[t][ip[t] + 1] = Yield
        /\ ip' = [ip EXCEPT ![t] = @ + 1]
        /\ state' = [state EXCEPT ![t] = "WAITING"] /\ UNCHANGED memory
    BY <1>5 DEF TaskYield, At, Instruction
  <2>2. Status(t) = "running" /\ t \in Tasks /\ memory[t] # "none"
    BY <2>1, StatusFacts DEF Status
  <2>3. \A k \in Tasks : Status(k)' = IF k = t THEN "waiting" ELSE Status(k)
    BY <2>1, <2>2 DEF Status, RuntimeInv, TypeOK
  <2>4. [k \in Tasks |-> Status(k)]' = [[k \in Tasks |-> Status(k)] EXCEPT ![t] = "waiting"]
    BY <2>3
  <2>5. FJ!Wait(t)
    BY <2>1, <2>2, <2>4 DEF FJ!Wait, FJ!NextIs
  <2>6. QED BY <1>5, <2>2, <2>5 DEF FJ!Next
<1>6. ASSUME NEW s \in Schedulers, TaskDone(s), UNCHANGED program PROVE FJ!Next
  <2> DEFINE t == cur[s]
  <2>1. /\ pc[s] = "exit" /\ ip[t] = Len(program[t])
        /\ state' = [state EXCEPT ![t] = "DONE"] /\ UNCHANGED <<ip, memory>>
    BY <1>6 DEF TaskDone, At, RuntimeInv, StatesFit
  <2>2. Status(t) = "running" /\ t \in Tasks /\ memory[t] # "none"
    BY <2>1, StatusFacts DEF Status
  <2>3. \A k \in Tasks : Status(k)' = IF k = t THEN "done" ELSE Status(k)
    BY <2>1, <2>2 DEF Status, RuntimeInv, TypeOK
  <2>4. [k \in Tasks |-> Status(k)]' = [[k \in Tasks |-> Status(k)] EXCEPT ![t] = "done"]
    BY <2>3
  <2>5. FJ!Finish(t)
    BY <2>1, <2>2, <2>4 DEF FJ!Finish
  <2>6. QED BY <1>6, <2>2, <2>5 DEF FJ!Next
<1>7. ASSUME NEW s \in Schedulers, TaskExit(s), UNCHANGED program PROVE Quiet
  <2> DEFINE t == cur[s]
  <2>1. /\ pc[s] = "user" /\ ip[t] = Len(program[t])
        /\ memory' = [u \in Tasks |-> IF u \in SubTasks(t) THEN "freed" ELSE memory[u]]
        /\ UNCHANGED <<ip, state>>
    BY <1>7 DEF TaskExit, At
  <2>2. t \in Tasks /\ state[t] = "RUNNING"
    BY <2>1 DEF RuntimeInv, StatesFit, TypeOK
  <2>3. \A c \in SubTasks(t) : state[c] = "DONE"
    BY <2>1, <2>2, EndOfCode
  <2>4. \A c \in SubTasks(t) : c \in Tasks /\ memory[c] # "none"
    BY <2>2, SubTasksAreTasks DEF RuntimeInv, SubTasksFollowCode
  <2> HIDE DEF t
  <2>5. \A k \in Tasks : Status(k)' = Status(k)
    BY <2>1, <2>3, <2>4 DEF Status
  <2>6. QED BY <1>7, <2>1, <2>5
<1>8. ASSUME NEW s \in Schedulers, UNCHANGED program,
             QueueGet(s) \/ NothingToDo(s) \/ PutBack(s) \/ Enter(s) \/ TaskSwitch(s)
      PROVE  Quiet
  BY <1>1, <1>8 DEF QueueGet, NothingToDo, PutBack, Enter, TaskSwitch, Undefined, taskVars
<1>9. ASSUME Stopped PROVE Quiet
  BY <1>1, <1>9 DEF Stopped, vars, taskVars
<1>10. QED
  BY <1>2, <1>3, <1>4, <1>5, <1>6, <1>7, <1>8, <1>9 DEF Next, SchedulerStep

\* Up to undefined behaviour, whatever the number of schedulers, each task of
\* the program takes its steps in order and goes past a taskyield only when
\* its sub tasks are done.
THEOREM RuntimeRefinesForkJoin == Spec => ImplementsForkJoin
<1>1. Init => FJ!Init
  <2> SUFFICES ASSUME Init PROVE FJ!Init
    OBVIOUS
  <2>1. \A t \in Tasks : Status(t) = IF t = Root THEN "ready" ELSE "none"
    BY DEF Init, Status
  <2>2. [t \in Tasks |-> Status(t)] = [t \in Tasks |-> IF t = Root THEN "ready" ELSE "none"]
    BY <2>1
  <2>3. QED BY <2>2 DEF Init, FJ!Init
<1>2. RuntimeInv /\ RuntimeInv' /\ [Next]_vars => [FJ!Next]_FJ!vars
  <2> SUFFICES ASSUME RuntimeInv, RuntimeInv', [Next]_vars PROVE [FJ!Next]_FJ!vars
    OBVIOUS
  <2>1. ASSUME UNCHANGED program, UNCHANGED ip, \A t \in Tasks : Status(t)' = Status(t)
        PROVE  UNCHANGED FJ!vars
    <3>1. [t \in Tasks |-> Status(t)]' = [t \in Tasks |-> Status(t)]
      BY <2>1
    <3>2. QED BY <2>1, <3>1 DEF FJ!vars
  <2>2. CASE UNCHANGED vars
    <3>1. \A t \in Tasks : Status(t)' = Status(t)
      BY <2>2 DEF vars, taskVars, Status
    <3>2. QED BY <2>1, <2>2, <3>1 DEF vars, taskVars
  <2>3. CASE Next
    BY <2>1, <2>3, ForkJoinStep
  <2>4. QED BY <2>2, <2>3
<1>3. QED BY <1>1, <1>2, RuntimeSafe, PTL DEF Spec, ImplementsForkJoin, FJ!Spec

=============================================================================
