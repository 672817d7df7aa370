------------------------------ MODULE TaskFifo ------------------------------
(***************************************************************************)
(* What the task queue promises its callers: a FIFO queue whose two        *)
(* operations take effect at one instant between their call and their      *)
(* return (linearizability).  A get that takes effect while the queue is   *)
(* empty returns Null, and only then.                                      *)
(***************************************************************************)
EXTENDS Sequences

CONSTANTS Threads, Nodes, Null

VARIABLES
  fifo,    \* the nodes in the queue, oldest first
  op,      \* op[t]: the call t is in
  fresh,   \* nodes not allocated yet
  held     \* held[t]: nodes in the hands of t

vars == <<fifo, op, fresh, held>>

Idle == [call |-> "idle", node |-> Null]
Adding(n) == [call |-> "add", node |-> n]
Getting == [call |-> "get", node |-> Null]
Got(n) == [call |-> "got", node |-> n]

Init ==
  /\ fifo = <<>>
  /\ op = [t \in Threads |-> Idle]
  /\ fresh = Nodes
  /\ held = [t \in Threads |-> {}]

CallAdd(t, n) ==
  /\ op[t] = Idle
  /\ n \in fresh \cup held[t]
  /\ op' = [op EXCEPT ![t] = Adding(n)]
  /\ fresh' = fresh \ {n}
  /\ held' = [held EXCEPT ![t] = @ \ {n}]
  /\ UNCHANGED fifo

\* The add takes effect and returns.
Add(t) ==
  \E n \in Nodes :
    /\ op[t] = Adding(n)
    /\ op' = [op EXCEPT ![t] = Idle]
    /\ fifo' = Append(fifo, n)
    /\ UNCHANGED <<fresh, held>>

CallGet(t) ==
  /\ op[t] = Idle
  /\ op' = [op EXCEPT ![t] = Getting]
  /\ UNCHANGED <<fifo, fresh, held>>

GetEmpty(t) ==
  /\ op[t] = Getting
  /\ fifo = <<>>
  /\ op' = [op EXCEPT ![t] = Got(Null)]
  /\ UNCHANGED <<fifo, fresh, held>>

GetOldest(t) ==
  /\ op[t] = Getting
  /\ fifo # <<>>
  /\ op' = [op EXCEPT ![t] = Got(Head(fifo))]
  /\ fifo' = Tail(fifo)
  /\ UNCHANGED <<fresh, held>>

Return(t) ==
  \E n \in Nodes \cup {Null} :
    /\ op[t] = Got(n)
    /\ op' = [op EXCEPT ![t] = Idle]
    /\ held' = [held EXCEPT ![t] = @ \cup ({n} \ {Null})]
    /\ UNCHANGED <<fifo, fresh>>

Next ==
  \E t \in Threads :
    \/ \E n \in Nodes : CallAdd(t, n)
    \/ Add(t)
    \/ CallGet(t)
    \/ GetEmpty(t)
    \/ GetOldest(t)
    \/ Return(t)

Spec == Init /\ [][Next]_vars

=============================================================================
