------------------------------ MODULE Runtime ------------------------------
(***************************************************************************)
(* The task runtime of parallel SPPL programs: src/runtime/task.c and      *)
(* runtime.c.                                                              *)
(*                                                                         *)
(* rmain starts os_thread_count schedulers, each on its own thread.  A     *)
(* scheduler takes a task from the queue and swaps to the task's context;  *)
(* the task swaps back when it yields or exits.  The generated code of a   *)
(* task is a sequence of steps: it spawns sub tasks, yields until they are done,      *)
(* spawns more, and exits at the end.                                      *)
(*                                                                         *)
(* The queue is the FIFO queue that TaskQueue implements.  One action is   *)
(* one access to memory that another thread may touch at the same time.    *)
(*                                                                         *)
(* The C code has data races that end in undefined behaviour: running a    *)
(* context that is still being used or was never saved, returning to the   *)
(* context of another thread's scheduler, and using a task that was freed. *)
(* Such a step sets undefined, and the model says nothing of what happens  *)
(* afterwards.                                                             *)
(***************************************************************************)
EXTENDS Naturals, Sequences, FiniteSets

CONSTANTS
  os_thread_count,  \* how many schedulers rmain starts
  Tasks,            \* the tasks a program may create
  Root,             \* the task passed to rmain
  Programs,         \* the programs: P[t] is what task t does, a sequence of
                    \* tasks to spawn and Yields
  Yield

Schedulers == 0 .. os_thread_count - 1
NoScheduler == os_thread_count

\* The tasks that t spawns in program P.
Kids(P, t) == {P[t][i] : i \in DOMAIN P[t]} \ {Yield}

\* taskcreate returns a new task each time: a task is spawned by one
\* statement, and the initial task by none.
SpawnedOnce(P) ==
  \A t, u \in Tasks : \A i \in DOMAIN P[t], j \in DOMAIN P[u] :
    P[t][i] # Yield =>
      /\ P[t][i] # Root
      /\ P[t][i] = P[u][j] => t = u /\ i = j

\* outputParallel of CParCodeGen.cpp puts a taskyield after the sub tasks of
\* every level: a task does not exit without having waited for all of them.
JoinedBeforeExit(P) ==
  \A t \in Tasks : Len(P[t]) > 0 => P[t][Len(P[t])] = Yield

\* Every task of the program is a descendant of the initial one.
AllFromRoot(P) ==
  \A X \in SUBSET Tasks :
    Root \in X /\ (\A t \in X : Kids(P, t) \subseteq X) => X = Tasks

ASSUME ThreadsAssumption == os_thread_count \in Nat \ {0}

ASSUME ProgramsAssumption ==
  /\ Root \in Tasks
  /\ Yield \notin Tasks
  /\ \A P \in Programs :
       /\ P \in [Tasks -> Seq(Tasks \cup {Yield})]
       /\ SpawnedOnce(P)
       /\ JoinedBeforeExit(P)
       /\ AllFromRoot(P)

VARIABLES
  program,         \* the program that is run
  queue,           \* runtime.queue
  initial_status,  \* runtime.initial_status
  state,           \* t->state
  scheduler_id,    \* t->scheduler_id
  sub_tasks,       \* t->sub_tasks, its length t->sub_task_len
  sub_tasks_alloc, \* t->sub_tasks_alloc
  memory,          \* whether the task is allocated
  ip,              \* how many steps of its code a task has run
  saved,           \* whether t->context holds the point where t stopped
  pc,              \* where the thread of each scheduler is
  cur,             \* the task it got from the queue or is running
  created, joined, \* the loop variables i and j of rmain
  returned,        \* whether rmain and main have cleaned up
  undefined        \* whether the program has run into undefined behaviour

taskVars == <<state, scheduler_id, sub_tasks, sub_tasks_alloc, memory, ip, saved>>
mainVars == <<created, joined, returned>>
vars == <<program, queue, initial_status, taskVars, pc, cur, mainVars, undefined>>

TaskStates == {"NEW", "WAITING", "RUNNING", "DONE"}

\* Where the thread of a scheduler can be: not started; at queue_get; with a
\* task whose state it tests; with none; about to swap to the task; running
\* the task's code; in taskexit before state = DONE; in taskswitch; ended.
Places == {"absent", "get", "test", "empty", "enter", "user", "exit", "leave", "ended"}

TypeOK ==
  /\ program \in Programs
  /\ queue \in Seq(Tasks)
  /\ initial_status \in BOOLEAN
  /\ state \in [Tasks -> TaskStates]
  /\ scheduler_id \in [Tasks -> Schedulers \cup {NoScheduler}]
  /\ sub_tasks \in [Tasks -> Seq(Tasks)]
  /\ sub_tasks_alloc \in [Tasks -> Nat]
  /\ memory \in [Tasks -> {"none", "live", "freed"}]
  /\ ip \in [Tasks -> Nat]
  /\ \A t \in Tasks : ip[t] <= Len(program[t])
  /\ saved \in [Tasks -> BOOLEAN]
  /\ pc \in [Schedulers -> Places]
  /\ cur \in [Schedulers -> Tasks]
  /\ created \in Nat /\ created <= os_thread_count
  /\ joined \in Nat /\ joined <= os_thread_count
  /\ returned \in BOOLEAN
  /\ undefined \in BOOLEAN

\* main has created the initial task, rmain has set initial_status to 0 and
\* put the task into the queue, and no thread has been created.
Init ==
  /\ program \in Programs
  /\ queue = <<Root>>
  /\ initial_status = FALSE
  /\ state = [t \in Tasks |-> "NEW"]
  /\ scheduler_id = [t \in Tasks |-> NoScheduler]
  /\ sub_tasks = [t \in Tasks |-> <<>>]
  /\ sub_tasks_alloc = [t \in Tasks |-> 0]
  /\ memory = [t \in Tasks |-> IF t = Root THEN "live" ELSE "none"]
  /\ ip = [t \in Tasks |-> 0]
  /\ saved = [t \in Tasks |-> t = Root]
  /\ pc = [s \in Schedulers |-> "absent"]
  /\ cur = [s \in Schedulers |-> Root]
  /\ created = 0
  /\ joined = 0
  /\ returned = FALSE
  /\ undefined = FALSE

----------------------------------------------------------------------------
(* rmain and the main function around it                                   *)

\* pthread_create of scheduler i.
CreateThread ==
  /\ created < os_thread_count
  /\ pc' = [pc EXCEPT ![created] = "get"]
  /\ created' = created + 1
  /\ UNCHANGED <<queue, initial_status, taskVars, cur, joined, returned, undefined>>

\* pthread_join of scheduler j.
JoinThread ==
  /\ created = os_thread_count
  /\ joined < os_thread_count
  /\ pc[joined] = "ended"
  /\ joined' = joined + 1
  /\ UNCHANGED <<queue, initial_status, taskVars, pc, cur, created, returned, undefined>>

\* rmain does not wait for the schedulers.
CleanUp_WithoutJoin ==
  /\ created = os_thread_count
  /\ ~returned
  /\ returned' = TRUE
  /\ memory' = [memory EXCEPT ![Root] = "freed"]
  /\ UNCHANGED <<queue, initial_status, state, scheduler_id, sub_tasks, sub_tasks_alloc, ip, saved,
                 pc, cur, created, joined, undefined>>

\* rmain frees the pools and the queue and returns; the generated main
\* deallocates the initial task.
CleanUp ==
  /\ joined = os_thread_count
  /\ ~returned
  /\ returned' = TRUE
  /\ memory' = [memory EXCEPT ![Root] = "freed"]
  /\ UNCHANGED <<queue, initial_status, state, scheduler_id, sub_tasks, sub_tasks_alloc, ip, saved,
                 pc, cur, created, joined, undefined>>

----------------------------------------------------------------------------
(* start_scheduler                                                         *)

At(s, place) == pc[s] = place
Goto(s, place) == pc' = [pc EXCEPT ![s] = place]

\* The step that makes everything after it meaningless.
Undefined ==
  /\ undefined' = TRUE
  /\ UNCHANGED <<queue, initial_status, taskVars, pc, cur, mainVars>>

\* head = queue_get(runtime.queue)
QueueGet(s) ==
  /\ At(s, "get")
  /\ IF queue = <<>>
       THEN Goto(s, "empty") /\ UNCHANGED <<queue, cur>>
       ELSE /\ Goto(s, "test")
            /\ cur' = [cur EXCEPT ![s] = Head(queue)]
            /\ queue' = Tail(queue)
  /\ UNCHANGED <<initial_status, taskVars, mainVars, undefined>>

\* else if (runtime.initial_status) break
NothingToDo(s) ==
  /\ At(s, "empty")
  /\ Goto(s, IF initial_status THEN "ended" ELSE "get")
  /\ UNCHANGED <<queue, initial_status, taskVars, cur, mainVars, undefined>>

\* The last sub task is not looked at.
get_subtasks_done_OffByOne(t) ==
  \A i \in 1 .. Len(sub_tasks[t]) : i < Len(sub_tasks[t]) => state[sub_tasks[t][i]] = "DONE"

\* get_subtasks_done.  DONE is final, so the value the loop returns is the
\* one a single look at all sub tasks would have given at some moment of it.
get_subtasks_done(t) ==
  \A i \in 1 .. Len(sub_tasks[t]) : state[sub_tasks[t][i]] = "DONE"

Runnable_AnyWaiting(t) == state[t] \in {"NEW", "WAITING"}

Runnable(t) == state[t] = "NEW" \/ (state[t] = "WAITING" /\ get_subtasks_done(t))

\* t->state = RUNNING; t->scheduler_id = scheduler->id
Dispatch(s) ==
  LET t == cur[s] IN
  /\ At(s, "test")
  /\ Runnable(t)
  /\ state' = [state EXCEPT ![t] = "RUNNING"]
  /\ scheduler_id' = [scheduler_id EXCEPT ![t] = s]
  /\ Goto(s, "enter")
  /\ UNCHANGED <<queue, initial_status, sub_tasks, sub_tasks_alloc, memory, ip, saved, cur, mainVars, undefined>>

\* The task is dropped.
PutBack_Dropped(s) ==
  /\ At(s, "test")
  /\ ~Runnable(cur[s])
  /\ Goto(s, "get")
  /\ UNCHANGED <<queue, initial_status, taskVars, cur, mainVars, undefined>>

\* queue_add(head, runtime.queue): the task has to wait longer.
PutBack(s) ==
  /\ At(s, "test")
  /\ ~Runnable(cur[s])
  /\ queue' = Append(queue, cur[s])
  /\ Goto(s, "get")
  /\ UNCHANGED <<initial_status, taskVars, cur, mainVars, undefined>>

\* contextswitch(scheduler->context, &t->context).  The task's context is
\* good for one switch; then the task is running and what is in it is stale.
Enter(s) ==
  LET t == cur[s] IN
  /\ At(s, "enter")
  /\ IF saved[t] /\ memory[t] = "live"
       THEN /\ saved' = [saved EXCEPT ![t] = FALSE]
            /\ Goto(s, "user")
            /\ UNCHANGED <<queue, initial_status, state, scheduler_id, sub_tasks, sub_tasks_alloc, memory, ip,
                           cur, mainVars, undefined>>
       ELSE Undefined

----------------------------------------------------------------------------
(* The code of a task, on the thread of scheduler s                        *)

Instruction(t) == program[t][ip[t] + 1]

GrownAlloc(t) ==
  CASE sub_tasks[t] = <<>> -> sub_tasks_alloc[t] + 1
    [] sub_tasks[t] # <<>> /\ Len(sub_tasks[t]) = sub_tasks_alloc[t] -> sub_tasks_alloc[t] * 2
    [] OTHER -> sub_tasks_alloc[t]

\* The sub task is queued but not entered in the array.
Spawn_NotRecorded(s) ==
  LET t == cur[s]
      c == Instruction(t)
  IN
  /\ At(s, "user")
  /\ ip[t] < Len(program[t])
  /\ c # Yield
  /\ ip' = [ip EXCEPT ![t] = @ + 1]
  /\ state' = [state EXCEPT ![c] = "NEW"]
  /\ memory' = [memory EXCEPT ![c] = "live"]
  /\ saved' = [saved EXCEPT ![c] = TRUE]
  /\ queue' = Append(queue, c)
  /\ UNCHANGED <<initial_status, scheduler_id, sub_tasks, sub_tasks_alloc, pc, cur, mainVars, undefined>>

\* taskcreate(c); subtaskadd(t, c)
Spawn(s) ==
  LET t == cur[s]
      c == Instruction(t)
  IN
  /\ At(s, "user")
  /\ ip[t] < Len(program[t])
  /\ c # Yield
  /\ ip' = [ip EXCEPT ![t] = @ + 1]
  /\ state' = [state EXCEPT ![c] = "NEW"]
  /\ memory' = [memory EXCEPT ![c] = "live"]
  /\ saved' = [saved EXCEPT ![c] = TRUE]
  /\ sub_tasks_alloc' = [sub_tasks_alloc EXCEPT ![t] = GrownAlloc(t)]
  /\ sub_tasks' = [sub_tasks EXCEPT ![t] = Append(@, c)]
  /\ queue' = Append(queue, c)
  /\ UNCHANGED <<initial_status, scheduler_id, pc, cur, mainVars, undefined>>

\* taskyield up to taskswitch: state = WAITING; taskadd(t).  From here on
\* another scheduler can find the task in the queue.
TaskYield(s) ==
  LET t == cur[s] IN
  /\ At(s, "user")
  /\ ip[t] < Len(program[t])
  /\ Instruction(t) = Yield
  /\ ip' = [ip EXCEPT ![t] = @ + 1]
  /\ state' = [state EXCEPT ![t] = "WAITING"]
  /\ queue' = Append(queue, t)
  /\ Goto(s, "leave")
  /\ UNCHANGED <<initial_status, scheduler_id, sub_tasks, sub_tasks_alloc, memory, saved, cur, mainVars, undefined>>

\* The sub tasks of t.
SubTasks(t) == {sub_tasks[t][i] : i \in 1 .. Len(sub_tasks[t])}

\* Every task that ends tells the schedulers to stop.
TaskExit_AnyTaskEnds(s) ==
  LET t == cur[s] IN
  /\ At(s, "user")
  /\ ip[t] = Len(program[t])
  /\ memory' = [u \in Tasks |-> IF u \in SubTasks(t) THEN "freed" ELSE memory[u]]
  /\ initial_status' = TRUE
  /\ Goto(s, "exit")
  /\ UNCHANGED <<queue, state, scheduler_id, sub_tasks, sub_tasks_alloc, ip, saved, cur, mainVars, undefined>>

\* taskexit up to the test of initial: every sub task is deallocated, and
\* the initial task lets the schedulers stop.
TaskExit(s) ==
  LET t == cur[s] IN
  /\ At(s, "user")
  /\ ip[t] = Len(program[t])
  /\ memory' = [u \in Tasks |-> IF u \in SubTasks(t) THEN "freed" ELSE memory[u]]
  /\ initial_status' = (initial_status \/ t = Root)
  /\ Goto(s, "exit")
  /\ UNCHANGED <<queue, state, scheduler_id, sub_tasks, sub_tasks_alloc, ip, saved, cur, mainVars, undefined>>

\* taskexit: state = DONE.  From here on the parent can be resumed, and can
\* deallocate the task.
TaskDone(s) ==
  /\ At(s, "exit")
  /\ state' = [state EXCEPT ![cur[s]] = "DONE"]
  /\ Goto(s, "leave")
  /\ UNCHANGED <<queue, initial_status, scheduler_id, sub_tasks, sub_tasks_alloc, memory, ip, saved,
                 cur, mainVars, undefined>>

\* taskswitch: swap to runtime.scheduler_pool[t->scheduler_id].context.  That
\* is this thread's scheduler only if nobody dispatched the task meanwhile.
TaskSwitch(s) ==
  LET t == cur[s] IN
  /\ At(s, "leave")
  /\ IF memory[t] = "live" /\ scheduler_id[t] = s
       THEN /\ saved' = [saved EXCEPT ![t] = TRUE]
            /\ Goto(s, "get")
            /\ UNCHANGED <<queue, initial_status, state, scheduler_id, sub_tasks, sub_tasks_alloc, memory, ip,
                           cur, mainVars, undefined>>
       ELSE Undefined

----------------------------------------------------------------------------
SchedulerStep(s) ==
  \/ QueueGet(s) \/ NothingToDo(s) \/ Dispatch(s) \/ PutBack(s) \/ Enter(s)
  \/ Spawn(s) \/ TaskYield(s) \/ TaskExit(s) \/ TaskDone(s) \/ TaskSwitch(s)

MainStep == CreateThread \/ JoinThread \/ CleanUp

\* The program has ended, or nothing more can be said of it.
Stopped == (returned \/ undefined) /\ UNCHANGED vars

Next ==
  \/ /\ ~undefined
     /\ MainStep \/ \E s \in Schedulers : SchedulerStep(s)
     /\ UNCHANGED program
  \/ Stopped

Spec == Init /\ [][Next]_vars

\* The operating system runs every thread that is not blocked again and
\* again; a scheduler with nothing to do spins, it does not block.
Fairness ==
  /\ WF_vars(~undefined /\ MainStep /\ UNCHANGED program)
  /\ \A s \in Schedulers : WF_vars(~undefined /\ SchedulerStep(s) /\ UNCHANGED program)

FairSpec == Spec /\ Fairness

----------------------------------------------------------------------------
(* Properties.  They speak of the program up to undefined behaviour.       *)

\* Scheduler s has taken its task out of the queue and has not given it up.
Holds(s) == pc[s] \in {"test", "enter", "user", "exit"}

Queued(t) == \E i \in 1 .. Len(queue) : queue[i] = t
Held(t) == \E s \in Schedulers : Holds(s) /\ cur[s] = t

\* No task is lost and none is run twice: a task that is not done is in the
\* queue once or with one scheduler, and a task that is done is in neither.
OnePlacePerTask ==
  /\ \A i, j \in 1 .. Len(queue) : queue[i] = queue[j] => i = j
  /\ \A s, u \in Schedulers : Holds(s) /\ Holds(u) /\ cur[s] = cur[u] => s = u
  /\ \A t \in Tasks : ~(Queued(t) /\ Held(t))
  /\ \A t \in Tasks : (memory[t] = "live" /\ state[t] # "DONE") <=> (Queued(t) \/ Held(t))

\* A task goes on after a taskyield only when every sub task it has spawned
\* is done, so the results it reads are there.
ResumedAfterSubTasks ==
  \A t \in Tasks :
    state[t] = "RUNNING" /\ ip[t] > 0 /\ program[t][ip[t]] = Yield => get_subtasks_done(t)

\* taskexit deallocates a sub task once, and only when it is done; until
\* then the parent can look at its state.
SubTasksOwned ==
  \A t \in Tasks :
    /\ \A i, j \in 1 .. Len(sub_tasks[t]) : sub_tasks[t][i] = sub_tasks[t][j] => i = j
    /\ \A u \in SubTasks(t) :
         /\ memory[u] = "freed" => state[u] = "DONE"
         /\ ip[t] < Len(program[t]) \/ (state[t] = "WAITING") => memory[u] = "live"

\* The array of sub tasks has room for what is written into it.
SubTasksFit == \A t \in Tasks : Len(sub_tasks[t]) <= sub_tasks_alloc[t]

\* Once the initial task tells the schedulers to stop, there is nothing left
\* for them to do: every other task was run to its end and deallocated.
StopsWhenAllDone ==
  initial_status =>
    /\ queue = <<>>
    /\ \A t \in Tasks \ {Root} : memory[t] = "freed" /\ state[t] = "DONE"

\* rmain frees the pools and the queue when no scheduler uses them any more,
\* and no task is left allocated when main returns.
NothingLeftBehind ==
  returned =>
    /\ \A s \in Schedulers : pc[s] = "ended"
    /\ \A t \in Tasks : memory[t] = "freed"

\* task.h calls scheduler_id the id of the scheduler executing the task right
\* now; taskswitch relies on it to find the way back.
SchedulerIdIsExecutor ==
  \A s \in Schedulers : pc[s] \in {"user", "exit", "leave"} => scheduler_id[cur[s]] = s

\* task.h: taskswitch gives control back to the scheduler, through the task.
\* The task is still there while a thread is on its way out of it.
TaskOutlivesItsExit ==
  \A s \in Schedulers : pc[s] \in {"user", "exit", "leave"} => memory[cur[s]] = "live"

\* No step of the program is undefined.  True of one scheduler, not of more.
NoUndefinedBehaviour == ~undefined

\* DONE is final, and a task that was freed stays so.
NeverRevived ==
  [][\A t \in Tasks : memory[t] = "freed" \/ (memory[t] = "live" /\ state[t] = "DONE") =>
        state'[t] = "DONE" /\ memory'[t] # "none" /\ (memory[t] = "freed" => memory'[t] = "freed")]_vars

\* The program runs to its end, unless it becomes undefined.
Terminates == <>(returned \/ undefined)

----------------------------------------------------------------------------
(* The fork-join program the runtime carries out.                          *)

Status(t) ==
  CASE memory[t] = "none" -> "none"
    [] memory[t] # "none" /\ state[t] = "NEW" -> "ready"
    [] memory[t] # "none" /\ state[t] = "WAITING" -> "waiting"
    [] memory[t] # "none" /\ state[t] = "RUNNING" -> "running"
    [] OTHER -> "done"

FJ == INSTANCE ForkJoin WITH
        MaxRunning <- os_thread_count,
        status <- [t \in Tasks |-> Status(t)],
        step <- ip

ImplementsForkJoin == FJ!Spec

=============================================================================
