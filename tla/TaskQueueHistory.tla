-------------------------- MODULE TaskQueueHistory --------------------------
(***************************************************************************)
(* TaskQueue with history variables, the properties of the queue, and the  *)
(* refinement of TaskFifo.                                                 *)
(*                                                                         *)
(* fifo is the order in which the nodes will leave the queue.  Its first   *)
(* nrev nodes wait to be reversed, the next ones up to nout are linked     *)
(* from out_queue, the others from in_queue:                               *)
(*                                                                         *)
(*    1 .......... nrev   nrev+1 ......... nout   nout+1 ........... Len   *)
(*    <- head of the      out_queue ->            <- in_queue              *)
(*       reversing thread                                                  *)
(***************************************************************************)
EXTENDS TaskQueue

VARIABLES fifo, nrev, nout

hist == <<fifo, nrev, nout>>
hvars == <<vars, hist>>

HInit == Init /\ fifo = <<>> /\ nrev = 0 /\ nout = 0

\* The steps that move nodes from one part of the queue to another.
HAddCas(t) == AddCas(t) /\ fifo' = Append(fifo, new[t]) /\ UNCHANGED <<nrev, nout>>

HGetCas(t) == GetCas(t) /\ nrev' = Len(fifo) /\ nout' = Len(fifo) /\ UNCHANGED fifo

HReverse(t) == Reverse(t) /\ nrev' = nrev - 1 /\ UNCHANGED <<fifo, nout>>

HGetPop(t) ==
  /\ GetPop(t)
  /\ IF out_queue = Null
       THEN UNCHANGED hist
       ELSE fifo' = Tail(fifo) /\ nout' = nout - 1 /\ UNCHANGED nrev

HStep(t) ==
  \/ HAddCas(t)
  \/ HGetCas(t)
  \/ HReverse(t)
  \/ HGetPop(t)
  \/ /\ \/ AddLink(t) \/ AddRetry(t) \/ GetLock(t) \/ GetCheck(t) \/ GetRead(t)
        \/ GetRetry(t) \/ ReverseDone(t) \/ GetUnlock(t)
     /\ UNCHANGED hist

HCall(t) ==
  /\ CallGet(t) \/ \E n \in Nodes : CallAdd(t, n)
  /\ UNCHANGED hist

HNext == \E t \in Threads : HCall(t) \/ HStep(t)

HSpec == HInit /\ [][HNext]_hvars

\* A thread inside a call keeps running; whether it calls again is its own
\* affair.  pthread_mutex_lock promises no order among the waiters, so only
\* weak fairness is assumed.
HFairSpec == HSpec /\ \A t \in Threads : WF_hvars(HStep(t))

----------------------------------------------------------------------------
\* The threads between pthread_mutex_lock and pthread_mutex_unlock.
InCritical(t) == pc[t] \in CriticalLabels

\* queue_get lets one thread at a time touch out_queue, and a thread that
\* touches it holds the lock.
ConsumerExclusion == \A t \in Threads : InCritical(t) <=> lock = t

HTypeOK ==
  /\ TypeOK
  /\ fifo \in Seq(Nodes)
  /\ nrev \in Nat
  /\ nout \in Nat
  /\ nrev <= nout
  /\ nout <= Len(fifo)

\* in_queue is linked from the newest node down to the oldest.
InList ==
  /\ in_queue = IF nout = Len(fifo) THEN Null ELSE fifo[Len(fifo)]
  /\ \A i \in nout + 1 .. Len(fifo) :
       next[fifo[i]] = IF i = nout + 1 THEN Null ELSE fifo[i - 1]

\* out_queue is linked from the oldest node up.
OutList ==
  /\ out_queue = IF nrev = nout THEN Null ELSE fifo[nrev + 1]
  /\ \A i \in nrev + 1 .. nout :
       next[fifo[i]] = IF i = nout THEN Null ELSE fifo[i + 1]

\* What a thread has taken from in_queue and not yet moved to out_queue.
RevList ==
  /\ nrev > 0 => \E t \in Threads : pc[t] = "get_rev"
  /\ \A t \in Threads : pc[t] = "get_rev" =>
       /\ head[t] = IF nrev = 0 THEN Null ELSE fifo[nrev]
       /\ nout > 0
       /\ nout > nrev \/ out_queue = Null
  /\ \A i \in 1 .. nrev :
       next[fifo[i]] = IF i = 1 THEN Null ELSE fifo[i - 1]

\* The statements of queue_get that rely on what an earlier one saw: nobody
\* refills out_queue while the holder of the lock goes to in_queue for more.
CriticalState ==
  \A t \in Threads :
    /\ pc[t] \in {"get_read", "get_cas"} => nout = 0
    /\ pc[t] = "get_cas" => head[t] # Null

\* A node is in the queue once, or fresh, or in the hands of one thread.
Carried(t) == held[t] \cup ({new[t]} \ {Null})
                 \cup (IF pc[t] = "get_unlock" THEN {head[t]} \ {Null} ELSE {})

Owners ==
  /\ \A i, j \in 1 .. Len(fifo) : fifo[i] = fifo[j] => i = j
  /\ \A i \in 1 .. Len(fifo) : fifo[i] \notin fresh
  /\ \A t \in Threads, i \in 1 .. Len(fifo) : fifo[i] \notin Carried(t)
  /\ \A t, u \in Threads : t # u => Carried(t) \cap Carried(u) = {}
  /\ \A t \in Threads : Carried(t) \cap fresh = {}
  /\ \A t \in Threads : new[t] \notin held[t]
  /\ \A t \in Threads : pc[t] = "get_unlock" => head[t] \notin held[t]
  /\ \A t \in Threads : pc[t] \in AddLabels <=> new[t] # Null

\* queue.c keeps its two lists well formed at every step: acyclic, ended by
\* NULL, in the order the nodes were added, with no node shared between
\* them, lost from them or still owned by a caller.
QueueShape == InList /\ OutList /\ RevList /\ Owners

\* The inductive invariant: queue.c keeps its lists well formed, serialises
\* its consumers, and holds what its statements saw for as long as they rely
\* on it.
QueueInv == HTypeOK /\ ConsumerExclusion /\ QueueShape /\ CriticalState

Somewhere(n) ==
  \/ n \in fresh
  \/ \E i \in 1 .. Len(fifo) : fifo[i] = n
  \/ \E t \in Threads : n \in Carried(t)

\* No node is ever lost: one that is allocated is in the queue or in the
\* hands of some thread.  Together with Owners: in exactly one place.
NothingLost == \A n \in Nodes : Somewhere(n)

\* queue_add never writes through a pointer into the queue: next of a node
\* that is in the queue changes only by the hand that holds the lock.
PublishedNodesStable ==
  [][\A i \in DOMAIN fifo : next'[fifo[i]] # next[fifo[i]] =>
        \E t \in Threads : lock = t /\ pc[t] = "get_rev"]_hvars

----------------------------------------------------------------------------
\* queue_add takes effect at its successful compare-and-swap; queue_get at
\* the pop, or, when it finds nothing, at the load that saw in_queue NULL.
AbstractOp(t) ==
  CASE pc[t] = "idle" -> [call |-> "idle", node |-> Null]
    [] pc[t] \in AddLabels -> [call |-> "add", node |-> new[t]]
    [] pc[t] = "get_unlock" -> [call |-> "got", node |-> head[t]]
    [] pc[t] = "get_pop" /\ out_queue = Null -> [call |-> "got", node |-> Null]
    [] OTHER -> [call |-> "get", node |-> Null]

Fifo == INSTANCE TaskFifo WITH op <- [t \in Threads |-> AbstractOp(t)]

\* queue.c is a linearizable FIFO queue.
ImplementsFifo == Fifo!Spec

\* The queue as a whole is never stuck: as long as some call is in progress,
\* calls keep returning.  One queue_add may be overtaken for ever.
Returns(t) == pc[t] # "idle" /\ pc'[t] = "idle"
LockFree ==
  \/ []<>(\A t \in Threads : pc[t] = "idle")
  \/ []<><<\E t \in Threads : Returns(t)>>_hvars

=============================================================================
