----------------------------- MODULE TaskQueue -----------------------------
(***************************************************************************)
(* The queue of runnable tasks, src/runtime/queue.c.                       *)
(*                                                                         *)
(* Producers push nodes with a compare-and-swap on in_queue, a list linked *)
(* newest first, without any lock.  Consumers are serialised by a mutex:   *)
(* one takes the whole in_queue with a compare-and-swap, reverses it node  *)
(* by node onto out_queue, and pops from there.                            *)
(*                                                                         *)
(* One action is one access to memory another thread can touch, or one     *)
(* iteration of the reversal, whose nodes only the holder of the mutex can *)
(* reach.  pc names the next statement of the thread's call.               *)
(***************************************************************************)
EXTENDS Naturals, Sequences

CONSTANTS
  Threads,    \* the operating system threads that call the queue
  Nodes,      \* the queue_head structs the program may allocate
  Null        \* the NULL pointer, also "no thread" in lock

ASSUME NullAssumption == Null \notin Nodes /\ Null \notin Threads

VARIABLES
  in_queue,   \* root->in_queue
  out_queue,  \* root->out_queue
  next,       \* next[n]: n->next
  lock,       \* the thread holding root->lock, or Null
  pc,         \* the statement each thread is at
  new,        \* the argument of queue_add
  head,       \* the local variable head of queue_get
  fresh,      \* nodes not allocated yet
  held        \* held[t]: nodes that are in the hands of t alone

vars == <<in_queue, out_queue, next, lock, pc, new, head, fresh, held>>

Pointer == Nodes \cup {Null}

AddLabels == {"add_link", "add_cas"}
CriticalLabels == {"get_check", "get_read", "get_cas", "get_rev", "get_pop", "get_unlock"}
Labels == {"idle", "get_lock"} \cup AddLabels \cup CriticalLabels

TypeOK ==
  /\ in_queue \in Pointer
  /\ out_queue \in Pointer
  /\ next \in [Nodes -> Pointer]
  /\ lock \in Threads \cup {Null}
  /\ pc \in [Threads -> Labels]
  /\ new \in [Threads -> Pointer]
  /\ head \in [Threads -> Pointer]
  /\ fresh \in SUBSET Nodes
  /\ held \in [Threads -> SUBSET Nodes]

\* create_queue: both lists empty, the mutex free.
Init ==
  /\ in_queue = Null
  /\ out_queue = Null
  /\ next = [n \in Nodes |-> Null]
  /\ lock = Null
  /\ pc = [t \in Threads |-> "idle"]
  /\ new = [t \in Threads |-> Null]
  /\ head = [t \in Threads |-> Null]
  /\ fresh = Nodes
  /\ held = [t \in Threads |-> {}]

Goto(t, from, to) ==
  /\ pc[t] = from
  /\ pc' = [pc EXCEPT ![t] = to]

----------------------------------------------------------------------------
(* queue_add                                                               *)

\* taskadd allocates a node for the task it adds; a scheduler that cannot
\* run the task it got puts the node it got back.
CallAdd(t, n) ==
  /\ n \in fresh \cup held[t]
  /\ Goto(t, "idle", "add_link")
  /\ new' = [new EXCEPT ![t] = n]
  /\ fresh' = fresh \ {n}
  /\ held' = [held EXCEPT ![t] = @ \ {n}]
  /\ UNCHANGED <<in_queue, out_queue, next, lock, head>>

\* new->next = root->in_queue
AddLink(t) ==
  /\ Goto(t, "add_link", "add_cas")
  /\ next' = [next EXCEPT ![new[t]] = in_queue]
  /\ UNCHANGED <<in_queue, out_queue, lock, new, head, fresh, held>>

\* A retry that keeps comparing with the value it loaded first.
AddRetry_WithoutReload(t) ==
  /\ Goto(t, "add_cas", "add_cas")
  /\ in_queue # next[new[t]]
  /\ UNCHANGED <<in_queue, out_queue, next, lock, new, head, fresh, held>>

\* The exchange failed: back to the load of root->in_queue.
AddRetry(t) ==
  /\ Goto(t, "add_cas", "add_link")
  /\ in_queue # next[new[t]]
  /\ UNCHANGED <<in_queue, out_queue, next, lock, new, head, fresh, held>>

\* The node is published with a plain store, whatever in_queue is by now.
AddCas_PlainStore(t) ==
  /\ Goto(t, "add_cas", "idle")
  /\ in_queue' = new[t]
  /\ new' = [new EXCEPT ![t] = Null]
  /\ UNCHANGED <<out_queue, next, lock, head, fresh, held>>

\* _cas(&root->in_queue, new->next, new) succeeds and queue_add returns.
AddCas(t) ==
  /\ Goto(t, "add_cas", "idle")
  /\ in_queue = next[new[t]]
  /\ in_queue' = new[t]
  /\ new' = [new EXCEPT ![t] = Null]
  /\ UNCHANGED <<out_queue, next, lock, head, fresh, held>>

----------------------------------------------------------------------------
(* queue_get                                                               *)

CallGet(t) ==
  /\ Goto(t, "idle", "get_lock")
  /\ UNCHANGED <<in_queue, out_queue, next, lock, new, head, fresh, held>>

\* pthread_mutex_lock
GetLock(t) ==
  /\ lock = Null
  /\ Goto(t, "get_lock", "get_check")
  /\ lock' = t
  /\ UNCHANGED <<in_queue, out_queue, next, new, head, fresh, held>>

\* if (!root->out_queue)
GetCheck(t) ==
  /\ Goto(t, "get_check", IF out_queue = Null THEN "get_read" ELSE "get_pop")
  /\ UNCHANGED <<in_queue, out_queue, next, lock, new, head, fresh, held>>

\* head = root->in_queue; if (!head) break
GetRead(t) ==
  /\ Goto(t, "get_read", IF in_queue = Null THEN "get_pop" ELSE "get_cas")
  /\ head' = [head EXCEPT ![t] = in_queue]
  /\ UNCHANGED <<in_queue, out_queue, next, lock, new, fresh, held>>

\* _cas(&root->in_queue, head, NULL) fails: while (1) goes round again.
GetRetry(t) ==
  /\ Goto(t, "get_cas", "get_read")
  /\ in_queue # head[t]
  /\ UNCHANGED <<in_queue, out_queue, next, lock, new, head, fresh, held>>

\* in_queue is cleared without checking that it is still head.
GetCas_PlainStore(t) ==
  /\ Goto(t, "get_cas", "get_rev")
  /\ in_queue' = Null
  /\ UNCHANGED <<out_queue, next, lock, new, head, fresh, held>>

\* _cas(&root->in_queue, head, NULL) succeeds: the whole list is taken.
GetCas(t) ==
  /\ Goto(t, "get_cas", "get_rev")
  /\ in_queue = head[t]
  /\ in_queue' = Null
  /\ UNCHANGED <<out_queue, next, lock, new, head, fresh, held>>

\* The list is handed to out_queue as it is: newest task first.
Reverse_Skipped(t) ==
  /\ pc[t] = "get_rev"
  /\ head[t] # Null
  /\ out_queue' = head[t]
  /\ head' = [head EXCEPT ![t] = Null]
  /\ UNCHANGED <<in_queue, next, lock, pc, new, fresh, held>>

\* One iteration of while (head): the node moves from head to out_queue.
Reverse(t) ==
  /\ pc[t] = "get_rev"
  /\ head[t] # Null
  /\ head' = [head EXCEPT ![t] = next[head[t]]]
  /\ next' = [next EXCEPT ![head[t]] = out_queue]
  /\ out_queue' = head[t]
  /\ UNCHANGED <<in_queue, lock, pc, new, fresh, held>>

\* while (head) ends, break
ReverseDone(t) ==
  /\ Goto(t, "get_rev", "get_pop")
  /\ head[t] = Null
  /\ UNCHANGED <<in_queue, out_queue, next, lock, new, head, fresh, held>>

\* head = root->out_queue; if (head) root->out_queue = head->next
GetPop(t) ==
  /\ Goto(t, "get_pop", "get_unlock")
  /\ head' = [head EXCEPT ![t] = out_queue]
  /\ out_queue' = IF out_queue = Null THEN Null ELSE next[out_queue]
  /\ UNCHANGED <<in_queue, next, lock, new, fresh, held>>

\* pthread_mutex_unlock; return head.  The caller owns the node it got.
GetUnlock(t) ==
  /\ Goto(t, "get_unlock", "idle")
  /\ lock' = Null
  /\ head' = [head EXCEPT ![t] = Null]
  /\ held' = [held EXCEPT ![t] = @ \cup ({head[t]} \ {Null})]
  /\ UNCHANGED <<in_queue, out_queue, next, new, fresh>>

----------------------------------------------------------------------------
\* A statement of a call in progress.
Step(t) ==
  \/ AddLink(t) \/ AddRetry(t) \/ AddCas(t)
  \/ GetLock(t) \/ GetCheck(t) \/ GetRead(t) \/ GetRetry(t) \/ GetCas(t)
  \/ Reverse(t) \/ ReverseDone(t) \/ GetPop(t) \/ GetUnlock(t)

Next ==
  \E t \in Threads :
    \/ \E n \in Nodes : CallAdd(t, n)
    \/ CallGet(t)
    \/ Step(t)

Spec == Init /\ [][Next]_vars

=============================================================================
