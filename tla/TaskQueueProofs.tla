-------------------------- MODULE TaskQueueProofs --------------------------
(***************************************************************************)
(* For any number of threads and nodes: the lists of queue.c stay well     *)
(* formed, the mutex serialises the consumers, and queue.c implements the  *)
(* FIFO queue of TaskFifo.                                                 *)
(***************************************************************************)
EXTENDS TaskQueueHistory, TLAPS

----------------------------------------------------------------------------
(* Facts about sequences the proofs use.                                   *)

\* Appending keeps the elements there are and adds one at the end.
LEMMA AppendFacts ==
  ASSUME NEW S, NEW s \in Seq(S), NEW e \in S
  PROVE  /\ Append(s, e) \in Seq(S)
         /\ Len(Append(s, e)) = Len(s) + 1
         /\ \A i \in 1 .. Len(s) : Append(s, e)[i] = s[i]
         /\ Append(s, e)[Len(s) + 1] = e
OBVIOUS

\* Dropping the first element shifts the others down by one.
LEMMA TailFacts ==
  ASSUME NEW S, NEW s \in Seq(S), Len(s) > 0
  PROVE  /\ Tail(s) \in Seq(S)
         /\ Len(Tail(s)) = Len(s) - 1
         /\ \A i \in 1 .. Len(s) - 1 : Tail(s)[i] = s[i + 1]
OBVIOUS

\* The elements of a sequence over Nodes are nodes, and none is Null.
LEMMA FifoNodes ==
  ASSUME HTypeOK
  PROVE  /\ Len(fifo) \in Nat
         /\ \A i \in 1 .. Len(fifo) : fifo[i] \in Nodes /\ fifo[i] # Null
BY NullAssumption DEF HTypeOK

----------------------------------------------------------------------------
\* The invariant holds of the queue create_queue returns.
LEMMA QueueInvInit == HInit => QueueInv
<1> SUFFICES ASSUME HInit PROVE QueueInv
  OBVIOUS
<1> USE NullAssumption DEF HInit, Init
<1>1. HTypeOK
  BY DEF HTypeOK, TypeOK, Pointer, Labels
<1>2. ConsumerExclusion
  BY DEF ConsumerExclusion, InCritical, CriticalLabels
<1>3. QueueShape
  <2>1. InList /\ OutList
    BY DEF InList, OutList
  <2>2. RevList
    BY DEF RevList
  <2>3. Owners
    BY DEF Owners, Carried, AddLabels
  <2>4. QED BY <2>1, <2>2, <2>3 DEF QueueShape
<1>4. CriticalState
  BY DEF CriticalState
<1>5. QED BY <1>1, <1>2, <1>3, <1>4 DEF QueueInv

\* The types are kept by every step.
LEMMA TypesStep == QueueInv /\ [HNext]_hvars => HTypeOK'
<1> SUFFICES ASSUME QueueInv, [HNext]_hvars PROVE HTypeOK'
  OBVIOUS
<1> USE NullAssumption DEF QueueInv, HTypeOK, TypeOK, Pointer, Goto, Labels, AddLabels, CriticalLabels
<1>1. ASSUME NEW t \in Threads, HCall(t) PROVE HTypeOK'
  BY <1>1 DEF HCall, CallGet, CallAdd, hist
<1>2. ASSUME NEW t \in Threads, HAddCas(t) PROVE HTypeOK'
  <2>1. new[t] \in Nodes
    BY <1>2 DEF HAddCas, AddCas, QueueShape, Owners
  <2>2. fifo' \in Seq(Nodes) /\ Len(fifo') = Len(fifo) + 1
    BY <1>2, <2>1, AppendFacts DEF HAddCas
  <2>3. TypeOK'
    BY <1>2, <2>1 DEF HAddCas, AddCas
  <2>4. QED BY <1>2, <2>2, <2>3 DEF HAddCas
<1>3. ASSUME NEW t \in Threads, HGetCas(t) PROVE HTypeOK'
  BY <1>3 DEF HGetCas, GetCas
<1>4. ASSUME NEW t \in Threads, HReverse(t) PROVE HTypeOK'
  <2>1. nrev > 0
    BY <1>4 DEF HReverse, Reverse, QueueShape, RevList
  <2>2. QED BY <1>4, <2>1 DEF HReverse, Reverse
<1>5. ASSUME NEW t \in Threads, HGetPop(t) PROVE HTypeOK'
  <2>1. TypeOK'
    BY <1>5 DEF HGetPop, GetPop
  <2>2. CASE out_queue = Null
    BY <1>5, <2>1, <2>2 DEF HGetPop, hist
  <2>3. CASE out_queue # Null
    <3>1. \A u \in Threads : pc[u] # "get_rev"
      BY <1>5 DEF HGetPop, GetPop, ConsumerExclusion, InCritical
    <3>2. nrev = 0 /\ nout > 0
      BY <3>1, <2>3 DEF QueueShape, RevList, OutList
    <3>3. fifo' \in Seq(Nodes) /\ Len(fifo') = Len(fifo) - 1
      BY <1>5, <2>3, <3>2, TailFacts DEF HGetPop
    <3>4. QED BY <1>5, <2>1, <2>3, <3>2, <3>3 DEF HGetPop
  <2>4. QED BY <2>2, <2>3
<1>6. ASSUME NEW t \in Threads, UNCHANGED hist,
             \/ AddLink(t) \/ AddRetry(t) \/ GetLock(t) \/ GetCheck(t) \/ GetRead(t)
             \/ GetRetry(t) \/ ReverseDone(t) \/ GetUnlock(t)
      PROVE  HTypeOK'
  <2>1. CASE AddLink(t)
    <3>1. new[t] \in Nodes
      BY <2>1 DEF AddLink, QueueShape, Owners
    <3>2. QED BY <1>6, <2>1, <3>1 DEF AddLink, hist
  <2>2. CASE AddRetry(t) \/ GetLock(t) \/ GetCheck(t) \/ GetRead(t) \/ GetRetry(t) \/ ReverseDone(t)
    BY <1>6, <2>2 DEF AddRetry, GetLock, GetCheck, GetRead, GetRetry, ReverseDone, hist
  <2>3. CASE GetUnlock(t)
    BY <1>6, <2>3 DEF GetUnlock, hist
  <2>4. QED BY <1>6, <2>1, <2>2, <2>3
<1>7. CASE UNCHANGED hvars
  BY <1>7 DEF hvars, vars, hist
<1>8. QED BY <1>1, <1>2, <1>3, <1>4, <1>5, <1>6, <1>7 DEF HNext, HStep

\* The mutex: a thread is between lock and unlock exactly when it holds it.
LEMMA ExclusionStep == QueueInv /\ [HNext]_hvars => ConsumerExclusion'
<1> SUFFICES ASSUME QueueInv, [HNext]_hvars PROVE ConsumerExclusion'
  OBVIOUS
<1> USE NullAssumption DEF QueueInv, HTypeOK, TypeOK, ConsumerExclusion, InCritical, Goto,
        AddLabels, CriticalLabels
<1>1. ASSUME NEW t \in Threads, HCall(t) PROVE ConsumerExclusion'
  BY <1>1 DEF HCall, CallGet, CallAdd
<1>2. ASSUME NEW t \in Threads,
             HAddCas(t) \/ HGetCas(t) \/ HReverse(t) \/ HGetPop(t)
      PROVE  ConsumerExclusion'
  BY <1>2 DEF HAddCas, AddCas, HGetCas, GetCas, HReverse, Reverse, HGetPop, GetPop
<1>3. ASSUME NEW t \in Threads,
             AddLink(t) \/ AddRetry(t) \/ GetCheck(t) \/ GetRead(t) \/ GetRetry(t) \/ ReverseDone(t)
      PROVE  ConsumerExclusion'
  BY <1>3 DEF AddLink, AddRetry, GetCheck, GetRead, GetRetry, ReverseDone
<1>4. ASSUME NEW t \in Threads, GetLock(t) \/ GetUnlock(t) PROVE ConsumerExclusion'
  BY <1>4 DEF GetLock, GetUnlock
<1>5. CASE UNCHANGED hvars
  BY <1>5 DEF hvars, vars
<1>6. QED BY <1>1, <1>2, <1>3, <1>4, <1>5 DEF HNext, HStep

----------------------------------------------------------------------------
(* The shape of the lists, one lemma per step that touches them.           *)

\* While a thread is between lock and unlock but not reversing, nothing is
\* half reversed.
LEMMA NothingHalfReversed ==
  ASSUME QueueInv, NEW t \in Threads, pc[t] \in CriticalLabels, pc[t] # "get_rev"
  PROVE  nrev = 0 /\ \A u \in Threads : pc[u] # "get_rev"
<1>1. \A u \in Threads : pc[u] # "get_rev"
  BY DEF QueueInv, ConsumerExclusion, InCritical, CriticalLabels
<1>2. QED BY <1>1 DEF QueueInv, QueueShape, RevList, HTypeOK

\* A successful exchange of queue_add puts the new node on top of in_queue.
LEMMA AddCasShape ==
  ASSUME QueueInv, HTypeOK', NEW t \in Threads, HAddCas(t)
  PROVE  QueueShape'
<1> USE NullAssumption DEF QueueInv, HAddCas, AddCas, Goto, AddLabels
<1>1. new[t] \in Nodes /\ new[t] # Null
  BY DEF QueueShape, Owners, HTypeOK, TypeOK, Pointer
<1>2. /\ Len(fifo') = Len(fifo) + 1
      /\ \A i \in 1 .. Len(fifo) : fifo'[i] = fifo[i]
      /\ fifo'[Len(fifo) + 1] = new[t]
  BY <1>1, AppendFacts DEF HTypeOK
<1>3. pc' = [pc EXCEPT ![t] = "idle"] /\ new' = [new EXCEPT ![t] = Null] /\ UNCHANGED <<nrev, nout, next, head, held, fresh, out_queue>>
  OBVIOUS
<1>4. InList'
  <2>1. next[new[t]] = IF nout = Len(fifo) THEN Null ELSE fifo[Len(fifo)]
    BY DEF QueueShape, InList
  <2>2. in_queue' = new[t]
    OBVIOUS
  <2>3. \A i \in nout + 1 .. Len(fifo) + 1 :
          next[fifo'[i]] = IF i = nout + 1 THEN Null ELSE fifo'[i - 1]
    BY <1>2, <2>1 DEF QueueShape, InList, HTypeOK
  <2>4. QED BY <1>2, <1>3, <2>2, <2>3 DEF InList, HTypeOK
<1>5. OutList'
  BY <1>2, <1>3 DEF QueueShape, OutList, HTypeOK
<1>6. RevList'
  <2>1. \A u \in Threads : pc'[u] = "get_rev" <=> pc[u] = "get_rev"
    BY <1>3 DEF HTypeOK, TypeOK
  <2>2. QED BY <1>2, <1>3, <2>1 DEF QueueShape, RevList, HTypeOK
<1>7. Owners'
  <2>1. \A u \in Threads : Carried(u)' = IF u = t THEN Carried(t) \ {new[t]} ELSE Carried(u)
    BY <1>3, <1>1 DEF Carried, HTypeOK, TypeOK, QueueShape, Owners
  <2>2. new[t] \in Carried(t)
    BY <1>1 DEF Carried
  <2>3. \A i \in 1 .. Len(fifo) : fifo[i] # new[t]
    BY <2>2 DEF QueueShape, Owners
  <2>4. \A i, j \in 1 .. Len(fifo) + 1 : fifo'[i] = fifo'[j] => i = j
    BY <1>2, <2>3 DEF QueueShape, Owners, HTypeOK
  <2>5. \A i \in 1 .. Len(fifo) + 1 : fifo'[i] \notin fresh
    BY <1>2, <2>2 DEF QueueShape, Owners, HTypeOK
  <2>6. \A u \in Threads, i \in 1 .. Len(fifo) + 1 : fifo'[i] \notin Carried(u)'
    BY <1>2, <2>1, <2>2 DEF QueueShape, Owners, HTypeOK
  <2>7. \A u, v \in Threads : u # v => Carried(u)' \cap Carried(v)' = {}
    BY <2>1 DEF QueueShape, Owners
  <2>8. \A u \in Threads : Carried(u)' \cap fresh = {}
    BY <2>1 DEF QueueShape, Owners
  <2>9. \A u \in Threads :
          /\ new'[u] \notin held[u]
          /\ pc'[u] = "get_unlock" => head[u] \notin held[u]
          /\ pc'[u] \in AddLabels <=> new'[u] # Null
    BY <1>3 DEF QueueShape, Owners, HTypeOK, TypeOK
  <2>10. QED BY <1>2, <1>3, <2>4, <2>5, <2>6, <2>7, <2>8, <2>9 DEF Owners
<1>8. QED BY <1>4, <1>5, <1>6, <1>7 DEF QueueShape

\* The exchange of queue_get takes every node of in_queue: the nodes that
\* leave the list are the ones the thread is about to reverse.
LEMMA GetCasShape ==
  ASSUME QueueInv, HTypeOK', NEW t \in Threads, HGetCas(t)
  PROVE  QueueShape'
<1> USE NullAssumption DEF QueueInv, HGetCas, GetCas, Goto
<1>1. pc[t] = "get_cas" /\ nout = 0 /\ nrev = 0
  BY DEF CriticalState, HTypeOK
<1>2. in_queue # Null /\ Len(fifo) > 0
  BY <1>1 DEF CriticalState, QueueShape, InList, HTypeOK
<1>3. /\ pc' = [pc EXCEPT ![t] = "get_rev"] /\ in_queue' = Null
      /\ nrev' = Len(fifo) /\ nout' = Len(fifo) /\ UNCHANGED <<fifo, next, new, head, held, fresh, out_queue>>
  BY <1>1
<1>4. InList' /\ OutList'
  BY <1>1, <1>3 DEF QueueShape, InList, OutList, HTypeOK
<1>5. RevList'
  <2>1. pc'[t] = "get_rev" /\ \A u \in Threads : pc'[u] = "get_rev" => u = t
    BY <1>1, <1>3, NothingHalfReversed DEF HTypeOK, TypeOK, CriticalLabels
  <2>2. head[t] = fifo[Len(fifo)]
    BY <1>1, <1>2 DEF QueueShape, InList, HTypeOK
  <2>3. \A i \in 1 .. Len(fifo) : next[fifo[i]] = IF i = 1 THEN Null ELSE fifo[i - 1]
    BY <1>1 DEF QueueShape, InList, HTypeOK
  <2>4. out_queue = Null
    BY <1>1 DEF QueueShape, OutList
  <2>5. QED BY <1>2, <1>3, <2>1, <2>2, <2>3, <2>4 DEF RevList, HTypeOK
<1>6. Owners'
  <2>1. \A u \in Threads : Carried(u)' = Carried(u)
    BY <1>1, <1>3 DEF Carried, HTypeOK, TypeOK
  <2>2. \A u \in Threads : pc'[u] \in AddLabels <=> pc[u] \in AddLabels
    BY <1>1, <1>3 DEF HTypeOK, TypeOK, AddLabels
  <2>3. \A u \in Threads : pc'[u] = "get_unlock" <=> pc[u] = "get_unlock"
    BY <1>1, <1>3 DEF HTypeOK, TypeOK
  <2>4. QED BY <1>3, <2>1, <2>2, <2>3 DEF QueueShape, Owners
<1>7. QED BY <1>4, <1>5, <1>6 DEF QueueShape

\* One iteration of the reversal moves the newest node that is left over to
\* the front of out_queue.
LEMMA ReverseShape ==
  ASSUME QueueInv, HTypeOK', NEW t \in Threads, HReverse(t)
  PROVE  QueueShape'
<1> USE NullAssumption DEF QueueInv, HReverse, Reverse
<1>1. pc[t] = "get_rev" /\ nrev > 0 /\ nrev \in Nat /\ head[t] = fifo[nrev] /\ nrev \in 1 .. Len(fifo)
  BY DEF QueueShape, RevList, HTypeOK
<1>2. fifo[nrev] \in Nodes
  BY <1>1, FifoNodes
<1>3. /\ head' = [head EXCEPT ![t] = next[fifo[nrev]]]
      /\ next' = [next EXCEPT ![fifo[nrev]] = out_queue]
      /\ out_queue' = fifo[nrev] /\ nrev' = nrev - 1
      /\ UNCHANGED <<fifo, nout, pc, new, held, fresh, in_queue>>
  BY <1>1
<1>4. \A i \in 1 .. Len(fifo) : i # nrev => fifo[i] # fifo[nrev]
  BY <1>1 DEF QueueShape, Owners
<1>5. \A i \in 1 .. Len(fifo) : next'[fifo[i]] = IF i = nrev THEN out_queue ELSE next[fifo[i]]
  BY <1>2, <1>3, <1>4, FifoNodes DEF HTypeOK, TypeOK
<1>6. InList'
  BY <1>1, <1>3, <1>5 DEF QueueShape, InList, HTypeOK
<1>7. OutList'
  <2>1. out_queue' = IF nrev' = nout THEN Null ELSE fifo[nrev' + 1]
    BY <1>1, <1>3 DEF HTypeOK
  <2>2. \A i \in nrev' + 1 .. nout : next'[fifo[i]] = IF i = nout THEN Null ELSE fifo[i + 1]
    BY <1>1, <1>3, <1>5 DEF QueueShape, OutList, HTypeOK
  <2>3. QED BY <1>3, <2>1, <2>2 DEF OutList
<1>8. RevList'
  <2>1. \A u \in Threads : pc[u] = "get_rev" => u = t
    BY <1>1 DEF ConsumerExclusion, InCritical, CriticalLabels
  <2>2. head'[t] = IF nrev' = 0 THEN Null ELSE fifo[nrev']
    BY <1>1, <1>3 DEF QueueShape, RevList, HTypeOK, TypeOK
  <2>3. ASSUME NEW i \in 1 .. nrev'
        PROVE  next'[fifo[i]] = IF i = 1 THEN Null ELSE fifo[i - 1]
    <3>1. i \in 1 .. nrev /\ i \in 1 .. Len(fifo) /\ i # nrev
      BY <1>1, <1>3, FifoNodes
    <3>2. QED BY <1>5, <3>1 DEF QueueShape, RevList
  <2>4. nout > 0 /\ nout > nrev'
    BY <1>1, <1>3 DEF HTypeOK
  <2>5. QED BY <1>1, <1>3, <2>1, <2>2, <2>3, <2>4 DEF RevList
<1>9. Owners'
  <2>1. \A u \in Threads : Carried(u)' = Carried(u)
    BY <1>1, <1>3 DEF Carried, HTypeOK, TypeOK
  <2>2. \A u \in Threads : pc[u] = "get_unlock" => head'[u] = head[u]
    BY <1>1, <1>3 DEF HTypeOK, TypeOK
  <2>3. QED BY <1>3, <2>1, <2>2 DEF QueueShape, Owners
<1>10. QED BY <1>6, <1>7, <1>8, <1>9 DEF QueueShape

\* The pop takes the oldest node off the front, and nothing if there is none.
LEMMA GetPopShape ==
  ASSUME QueueInv, HTypeOK', NEW t \in Threads, HGetPop(t)
  PROVE  QueueShape'
<1> USE NullAssumption DEF QueueInv, HGetPop, GetPop, Goto
<1>1. pc[t] = "get_pop" /\ nrev = 0 /\ \A u \in Threads : pc[u] # "get_rev"
  BY NothingHalfReversed DEF CriticalLabels
<1>2. /\ pc' = [pc EXCEPT ![t] = "get_unlock"]
      /\ head' = [head EXCEPT ![t] = out_queue]
      /\ UNCHANGED <<next, new, held, fresh, in_queue, nrev>>
  BY DEF hist
<1>3. \A u \in Threads : pc'[u] \in AddLabels <=> pc[u] \in AddLabels
  BY <1>1, <1>2 DEF HTypeOK, TypeOK, AddLabels
<1>4. new[t] = Null /\ Carried(t) = held[t] /\ Carried(t)' = held[t] \cup ({out_queue} \ {Null})
  BY <1>1, <1>2 DEF QueueShape, Owners, Carried, AddLabels, HTypeOK, TypeOK
<1>5. \A u \in Threads : u # t => Carried(u)' = Carried(u) /\ pc'[u] = pc[u] /\ head'[u] = head[u]
  BY <1>2 DEF Carried, HTypeOK, TypeOK
<1>6. pc'[t] = "get_unlock" /\ head'[t] = out_queue
  BY <1>2 DEF HTypeOK, TypeOK
<1>7. RevList'
  BY <1>1, <1>2 DEF QueueShape, RevList, HTypeOK, TypeOK
<1>8. CASE out_queue = Null
  <2>1. UNCHANGED <<fifo, nout, out_queue>>
    BY <1>8 DEF hist
  <2>2. InList' /\ OutList'
    BY <1>2, <2>1 DEF QueueShape, InList, OutList
  <2>3. \A u \in Threads : Carried(u)' = Carried(u)
    BY <1>4, <1>5, <1>8
  <2>4. Owners'
    BY <1>2, <1>3, <1>5, <1>6, <1>8, <2>1, <2>3 DEF QueueShape, Owners, HTypeOK, TypeOK
  <2>5. QED BY <1>7, <2>2, <2>4 DEF QueueShape
<1>9. CASE out_queue # Null
  <2>1. nout > 0 /\ out_queue = fifo[1] /\ Len(fifo) > 0
    BY <1>1, <1>9 DEF QueueShape, OutList, HTypeOK
  <2>2. /\ fifo' = Tail(fifo) /\ nout' = nout - 1 /\ out_queue' = next[out_queue]
        /\ Len(fifo') = Len(fifo) - 1
        /\ \A i \in 1 .. Len(fifo) - 1 : fifo'[i] = fifo[i + 1]
    BY <1>9, <2>1, TailFacts DEF HTypeOK
  <2>3. InList'
    <3>1. nout \in Nat /\ nout' \in Nat /\ Len(fifo) \in Nat /\ nout <= Len(fifo)
      BY DEF HTypeOK
    <3>2. in_queue' = IF nout' = Len(fifo') THEN Null ELSE fifo'[Len(fifo')]
      BY <1>2, <2>1, <2>2, <3>1 DEF QueueShape, InList
    <3>3. ASSUME NEW i \in nout' + 1 .. Len(fifo')
          PROVE  next'[fifo'[i]] = IF i = nout' + 1 THEN Null ELSE fifo'[i - 1]
      <4>1. i \in 1 .. Len(fifo) - 1 /\ i + 1 \in nout + 1 .. Len(fifo) /\ fifo'[i] = fifo[i + 1]
        BY <2>2, <3>1
      <4>2. next[fifo[i + 1]] = IF i + 1 = nout + 1 THEN Null ELSE fifo[i]
        BY <4>1 DEF QueueShape, InList
      <4>3. i # nout' + 1 => fifo'[i - 1] = fifo[i]
        BY <2>2, <3>1, <4>1
      <4>4. QED BY <1>2, <2>2, <3>1, <4>1, <4>2, <4>3
    <3>4. QED BY <3>2, <3>3 DEF InList
  <2>4. OutList'
    <3>1. out_queue' = IF nout = 1 THEN Null ELSE fifo[2]
      BY <1>1, <2>1, <2>2 DEF QueueShape, OutList, HTypeOK
    <3>2. ASSUME NEW i \in 1 .. nout - 1
          PROVE  next[fifo[i + 1]] = IF i + 1 = nout THEN Null ELSE fifo[i + 2]
      <4>1. i + 1 \in nrev + 1 .. nout /\ (i + 1) + 1 = i + 2
        BY <1>1 DEF HTypeOK
      <4>2. QED BY <4>1 DEF QueueShape, OutList
    <3>3. nout \in Nat /\ nout' \in Nat /\ Len(fifo) \in Nat /\ nout <= Len(fifo) /\ nrev' = 0
      <4>1. nrev' = 0
        BY <1>1, <1>2
      <4>2. nout \in Nat /\ nout' \in Nat /\ Len(fifo) \in Nat /\ nout <= Len(fifo)
        BY DEF HTypeOK
      <4>3. QED BY <4>1, <4>2
    <3>4. out_queue' = IF nrev' = nout' THEN Null ELSE fifo'[nrev' + 1]
      <4>1. nout # 1 => fifo'[1] = fifo[2]
        BY <2>1, <2>2, <3>3
      <4>2. nrev' = nout' <=> nout = 1
        BY <2>2, <3>3
      <4>3. fifo'[nrev' + 1] = fifo'[1]
        BY <3>3
      <4>4. QED BY <3>1, <4>1, <4>2, <4>3
    <3>5. ASSUME NEW i \in nrev' + 1 .. nout'
          PROVE  next'[fifo'[i]] = IF i = nout' THEN Null ELSE fifo'[i + 1]
      <4>1. i \in 1 .. nout - 1 /\ fifo'[i] = fifo[i + 1]
        BY <2>2, <3>3
      <4>2. i # nout' => fifo'[i + 1] = fifo[i + 2]
        BY <2>2, <3>3, <4>1
      <4>3. QED BY <1>2, <2>2, <3>2, <3>3, <4>1, <4>2
    <3>6. QED BY <3>4, <3>5 DEF OutList
  <2>5. Owners'
    <3>1. \A i \in 1 .. Len(fifo) : fifo[i] = fifo[1] => i = 1
      BY <2>1 DEF QueueShape, Owners, HTypeOK
    <3>2. \A i, j \in 1 .. Len(fifo') : fifo'[i] = fifo'[j] => i = j
      BY <2>2 DEF QueueShape, Owners, HTypeOK
    <3>3. \A i \in 1 .. Len(fifo') : fifo'[i] \notin fresh
      BY <2>2 DEF QueueShape, Owners, HTypeOK
    <3>4. \A u \in Threads, i \in 1 .. Len(fifo) : fifo[i] \notin Carried(u)
      BY DEF QueueShape, Owners
    <3>5. \A i \in 1 .. Len(fifo') : fifo'[i] # fifo[1]
      BY <2>2, <3>1 DEF HTypeOK
    <3>6. \A u \in Threads, i \in 1 .. Len(fifo') : fifo'[i] \notin Carried(u)'
      BY <1>4, <1>5, <2>1, <2>2, <3>4, <3>5 DEF HTypeOK
    <3>7. fifo[1] \notin fresh /\ \A u \in Threads : fifo[1] \notin Carried(u)
      BY <2>1 DEF QueueShape, Owners, HTypeOK
    <3>8. \A u, v \in Threads : u # v => Carried(u)' \cap Carried(v)' = {}
      BY <1>4, <1>5, <2>1, <3>7 DEF QueueShape, Owners
    <3>9. \A u \in Threads : Carried(u)' \cap fresh = {}
      BY <1>4, <1>5, <2>1, <3>7 DEF QueueShape, Owners
    <3>10. out_queue \notin held[t]
      BY <1>4, <2>1, <3>7
    <3>11. QED BY <1>2, <1>3, <1>5, <1>6, <3>2, <3>3, <3>6, <3>8, <3>9, <3>10 DEF QueueShape, Owners
  <2>6. QED BY <1>7, <2>3, <2>4, <2>5 DEF QueueShape
<1>10. QED BY <1>8, <1>9

\* queue_add links its own node below the newest one: no list changes.
LEMMA AddLinkShape ==
  ASSUME QueueInv, HTypeOK', NEW t \in Threads, AddLink(t), UNCHANGED hist
  PROVE  QueueShape'
<1> USE NullAssumption DEF QueueInv, AddLink, Goto, hist
<1>1. new[t] \in Nodes /\ new[t] \in Carried(t)
  BY DEF QueueShape, Owners, Carried, AddLabels, HTypeOK, TypeOK, Pointer
<1>2. /\ pc' = [pc EXCEPT ![t] = "add_cas"]
      /\ next' = [next EXCEPT ![new[t]] = in_queue]
      /\ UNCHANGED <<fifo, nrev, nout, in_queue, out_queue, new, head, held, fresh>>
  OBVIOUS
<1>3. \A i \in 1 .. Len(fifo) : next'[fifo[i]] = next[fifo[i]]
  BY <1>1, <1>2, FifoNodes DEF QueueShape, Owners, HTypeOK, TypeOK
<1>4. InList' /\ OutList'
  BY <1>2, <1>3 DEF QueueShape, InList, OutList, HTypeOK
<1>5. \A u \in Threads : /\ pc'[u] = "get_rev" <=> pc[u] = "get_rev"
                         /\ pc'[u] = "get_unlock" <=> pc[u] = "get_unlock"
                         /\ pc'[u] \in AddLabels <=> pc[u] \in AddLabels
  BY <1>2 DEF HTypeOK, TypeOK, AddLabels
<1>6. RevList'
  BY <1>2, <1>3, <1>5 DEF QueueShape, RevList, HTypeOK
<1>7. \A u \in Threads : Carried(u)' = Carried(u)
  BY <1>2, <1>5 DEF Carried
<1>8. Owners'
  BY <1>2, <1>5, <1>7 DEF QueueShape, Owners
<1>9. QED BY <1>4, <1>6, <1>8 DEF QueueShape

\* The steps that only move a thread along leave every list as it is.
LEMMA QuietShape ==
  ASSUME QueueInv, HTypeOK', NEW t \in Threads, UNCHANGED hist,
         \/ AddRetry(t) \/ GetLock(t) \/ GetCheck(t) \/ GetRead(t) \/ GetRetry(t) \/ ReverseDone(t)
         \/ CallGet(t)
  PROVE  QueueShape'
<1> USE NullAssumption DEF QueueInv, Goto, hist
<1>1. /\ UNCHANGED <<fifo, nrev, nout, next, in_queue, out_queue, new, held, fresh>>
      /\ pc[t] \notin {"get_unlock", "get_rev"} \/ (pc[t] = "get_rev" /\ head[t] = Null)
      /\ pc[t] # "get_unlock" /\ pc'[t] \notin {"get_unlock", "get_rev"}
      /\ pc'[t] \in AddLabels <=> pc[t] \in AddLabels
      /\ \A u \in Threads : u # t => pc'[u] = pc[u] /\ head'[u] = head[u]
  BY DEF AddRetry, GetLock, GetCheck, GetRead, GetRetry, ReverseDone, CallGet, AddLabels, HTypeOK, TypeOK
<1>2. InList' /\ OutList'
  BY <1>1 DEF QueueShape, InList, OutList
<1>3. RevList'
  <2>1. CASE pc[t] = "get_rev"
    <3>1. nrev = 0
      BY <1>1, <2>1, FifoNodes DEF QueueShape, RevList, HTypeOK
    <3>2. QED BY <1>1, <3>1 DEF QueueShape, RevList, HTypeOK
  <2>2. CASE pc[t] # "get_rev"
    BY <1>1, <2>2 DEF QueueShape, RevList, HTypeOK
  <2>3. QED BY <2>1, <2>2
<1>4. \A u \in Threads : Carried(u)' = Carried(u)
  BY <1>1 DEF Carried
<1>5. Owners'
  BY <1>1, <1>4 DEF QueueShape, Owners
<1>6. QED BY <1>2, <1>3, <1>5 DEF QueueShape

\* A call of queue_add takes the node out of the caller's hands, or off the
\* heap; the return of queue_get puts one into them.
LEMMA CallShape ==
  ASSUME QueueInv, HTypeOK', NEW t \in Threads, UNCHANGED hist,
         GetUnlock(t) \/ \E n \in Nodes : CallAdd(t, n)
  PROVE  QueueShape'
<1> USE NullAssumption DEF QueueInv, Goto, hist
<1>1. /\ UNCHANGED <<fifo, nrev, nout, next, in_queue, out_queue>>
      /\ \A u \in Threads : u # t => pc'[u] = pc[u] /\ head'[u] = head[u] /\ new'[u] = new[u] /\ held'[u] = held[u]
      /\ pc[t] \notin {"get_rev"} \cup AddLabels /\ pc'[t] # "get_rev" /\ pc'[t] # "get_unlock"
  BY DEF GetUnlock, CallAdd, AddLabels, HTypeOK, TypeOK
<1>2. InList' /\ OutList'
  BY <1>1 DEF QueueShape, InList, OutList
<1>3. RevList'
  BY <1>1 DEF QueueShape, RevList, HTypeOK
<1>4. Owners'
  <2>1. CASE GetUnlock(t)
    <3>1. \A u \in Threads : Carried(u)' = Carried(u)
      BY <1>1, <2>1 DEF GetUnlock, Carried, HTypeOK, TypeOK, QueueShape, Owners, AddLabels
    <3>2. /\ UNCHANGED <<new, fresh>>
          /\ pc'[t] = "idle" /\ new[t] = Null
      BY <1>1, <2>1 DEF GetUnlock, HTypeOK, TypeOK, QueueShape, Owners
    <3>3. Null \notin held'[t]
      BY DEF HTypeOK, TypeOK
    <3>4. QED BY <1>1, <3>1, <3>2, <3>3 DEF QueueShape, Owners, AddLabels
  <2>2. ASSUME NEW n \in Nodes, CallAdd(t, n) PROVE Owners'
    <3>1. /\ pc'[t] = "add_link" /\ new'[t] = n /\ held'[t] = held[t] \ {n} /\ fresh' = fresh \ {n}
          /\ n \in fresh \cup held[t] /\ new[t] = Null /\ pc[t] = "idle"
      BY <2>2 DEF CallAdd, HTypeOK, TypeOK, QueueShape, Owners, AddLabels
    <3>2. /\ \A u \in Threads : u # t => Carried(u)' = Carried(u)
          /\ Carried(t)' = held[t] \cup {n} /\ Carried(t) = held[t]
      BY <1>1, <3>1 DEF Carried
    <3>3. \A i \in 1 .. Len(fifo) : fifo[i] # n
      BY <3>1, <3>2 DEF QueueShape, Owners
    <3>4. \A u \in Threads : u # t => n \notin Carried(u)
      BY <3>1, <3>2 DEF QueueShape, Owners
    <3>5. /\ \A i, j \in 1 .. Len(fifo') : fifo'[i] = fifo'[j] => i = j
          /\ \A i \in 1 .. Len(fifo') : fifo'[i] \notin fresh'
          /\ \A u \in Threads, i \in 1 .. Len(fifo') : fifo'[i] \notin Carried(u)'
      BY <1>1, <3>1, <3>2, <3>3 DEF QueueShape, Owners
    <3>6. /\ \A u, v \in Threads : u # v => Carried(u)' \cap Carried(v)' = {}
          /\ \A u \in Threads : Carried(u)' \cap fresh' = {}
      BY <3>1, <3>2, <3>4 DEF QueueShape, Owners
    <3>7. \A u \in Threads :
            /\ new'[u] \notin held'[u]
            /\ pc'[u] = "get_unlock" => head'[u] \notin held'[u]
            /\ pc'[u] \in AddLabels <=> new'[u] # Null
      BY <1>1, <3>1 DEF QueueShape, Owners, AddLabels
    <3>8. QED BY <3>5, <3>6, <3>7 DEF Owners
  <2>3. QED BY <2>1, <2>2
<1>5. QED BY <1>2, <1>3, <1>4 DEF QueueShape

\* The shape is kept by every step.
LEMMA ShapeStep == QueueInv /\ [HNext]_hvars => QueueShape'
<1> SUFFICES ASSUME QueueInv, [HNext]_hvars PROVE QueueShape'
  OBVIOUS
<1>0. HTypeOK'
  BY TypesStep
<1>1. ASSUME NEW t \in Threads, HCall(t) PROVE QueueShape'
  BY <1>0, <1>1, CallShape, QuietShape DEF HCall
<1>2. ASSUME NEW t \in Threads, HStep(t) PROVE QueueShape'
  BY <1>0, <1>2, AddCasShape, GetCasShape, ReverseShape, GetPopShape, AddLinkShape, QuietShape, CallShape
     DEF HStep
<1>3. CASE UNCHANGED hvars
  BY <1>3 DEF hvars, vars, hist, QueueInv, QueueShape, InList, OutList, RevList, Owners, Carried
<1>4. QED BY <1>1, <1>2, <1>3 DEF HNext

\* What a consumer relies on between two of its statements stays true.
LEMMA CriticalStep == QueueInv /\ [HNext]_hvars => CriticalState'
<1> SUFFICES ASSUME QueueInv, [HNext]_hvars PROVE CriticalState'
  OBVIOUS
<1> USE NullAssumption DEF QueueInv, CriticalState, Goto, HTypeOK, TypeOK
<1>1. ASSUME NEW t \in Threads, HCall(t) PROVE CriticalState'
  BY <1>1 DEF HCall, CallGet, CallAdd, hist
<1>2. ASSUME NEW t \in Threads, HAddCas(t) \/ HReverse(t) PROVE CriticalState'
  BY <1>2 DEF HAddCas, AddCas, HReverse, Reverse
<1>3. ASSUME NEW t \in Threads, HGetCas(t) \/ HGetPop(t) PROVE CriticalState'
  <2>1. pc[t] \in {"get_cas", "get_pop"} /\ pc'[t] \notin {"get_read", "get_cas"}
    BY <1>3 DEF HGetCas, GetCas, HGetPop, GetPop
  <2>2. \A u \in Threads : u # t => pc'[u] = pc[u] /\ head'[u] = head[u]
    BY <1>3 DEF HGetCas, GetCas, HGetPop, GetPop
  <2>3. \A u \in Threads : u # t => pc[u] \notin {"get_read", "get_cas"}
    BY <2>1 DEF ConsumerExclusion, InCritical, CriticalLabels
  <2>4. QED BY <2>1, <2>2, <2>3
<1>4. ASSUME NEW t \in Threads, UNCHANGED hist,
             AddLink(t) \/ AddRetry(t) \/ GetLock(t) \/ GetRead(t) \/ GetRetry(t) \/ ReverseDone(t) \/ GetUnlock(t)
      PROVE  CriticalState'
  BY <1>4 DEF AddLink, AddRetry, GetLock, GetRead, GetRetry, ReverseDone, GetUnlock, hist
<1>5. ASSUME NEW t \in Threads, UNCHANGED hist, GetCheck(t) PROVE CriticalState'
  <2>1. pc[t] = "get_check" /\ nrev = 0
    BY <1>5, NothingHalfReversed DEF GetCheck, CriticalLabels
  <2>2. out_queue = Null => nout = 0
    BY <2>1, FifoNodes DEF QueueShape, OutList
  <2>3. QED BY <1>5, <2>1, <2>2 DEF GetCheck, hist
<1>6. CASE UNCHANGED hvars
  BY <1>6 DEF hvars, vars, hist
<1>7. QED BY <1>1, <1>2, <1>3, <1>4, <1>5, <1>6 DEF HNext, HStep

----------------------------------------------------------------------------
\* The inductive invariant holds throughout.
THEOREM QueueInvariant == HSpec => []QueueInv
<1>1. HInit => QueueInv
  BY QueueInvInit
<1>2. QueueInv /\ [HNext]_hvars => QueueInv'
  BY TypesStep, ExclusionStep, ShapeStep, CriticalStep DEF QueueInv
<1>3. QED BY <1>1, <1>2, PTL DEF HSpec

\* However many threads call it, at most one runs the part of queue_get that
\* works on out_queue.
THEOREM QueueExclusion == HSpec => []ConsumerExclusion
<1>1. QueueInv => ConsumerExclusion
  BY DEF QueueInv
<1>2. QED BY <1>1, QueueInvariant, PTL

\* Both lists stay acyclic, ended by NULL, disjoint, in the order of the
\* adds, and free of nodes anyone else holds.
THEOREM QueueWellFormed == HSpec => []QueueShape
<1>1. QueueInv => QueueShape
  BY DEF QueueInv
<1>2. QED BY <1>1, QueueInvariant, PTL

----------------------------------------------------------------------------
(* Nothing is lost, and published nodes are left alone.                    *)

\* A node goes from one place to the next in a single step.
LEMMA NothingLostStep ==
  ASSUME QueueInv, QueueInv', NEW n \in Nodes, Somewhere(n), [HNext]_hvars
  PROVE  Somewhere(n)'
<1> USE NullAssumption DEF Somewhere, Goto
<1> DEFINE Apart(t) == \A u \in Threads : u # t => Carried(u)' = Carried(u)
<1>1. ASSUME NEW t \in Threads, HCall(t) PROVE Somewhere(n)'
  <2>1. Apart(t) /\ UNCHANGED fifo
    BY <1>1 DEF HCall, CallGet, CallAdd, Carried, hist, QueueInv, HTypeOK, TypeOK
  <2>2. n \in fresh \cup Carried(t) => n \in fresh' \cup Carried(t)'
    BY <1>1 DEF HCall, CallGet, CallAdd, Carried, QueueInv, HTypeOK, TypeOK, QueueShape, Owners, AddLabels
  <2>3. fresh' \subseteq fresh
    BY <1>1 DEF HCall, CallGet, CallAdd
  <2>4. QED BY <2>1, <2>2
<1>2. ASSUME NEW t \in Threads, HAddCas(t) PROVE Somewhere(n)'
  <2>1. Apart(t) /\ UNCHANGED fresh
    BY <1>2 DEF HAddCas, AddCas, Carried, QueueInv, HTypeOK, TypeOK
  <2>2. n \in Carried(t) => n \in Carried(t)' \/ n = new[t]
    BY <1>2 DEF HAddCas, AddCas, Carried, QueueInv, HTypeOK, TypeOK
  <2>3. /\ Len(fifo') = Len(fifo) + 1 /\ Len(fifo) \in Nat /\ fifo'[Len(fifo) + 1] = new[t]
        /\ \A i \in 1 .. Len(fifo) : fifo'[i] = fifo[i]
    <3>1. new[t] \in Nodes
      BY <1>2 DEF HAddCas, AddCas, AddLabels, QueueInv, QueueShape, Owners, HTypeOK, TypeOK, Pointer
    <3>2. QED BY <1>2, <3>1, AppendFacts, FifoNodes DEF HAddCas, QueueInv, HTypeOK
  <2>4. Len(fifo) + 1 \in 1 .. Len(fifo') /\ \A i \in 1 .. Len(fifo) : i \in 1 .. Len(fifo')
    BY <2>3
  <2>5. QED BY <2>1, <2>2, <2>3, <2>4
<1>3. ASSUME NEW t \in Threads, HGetPop(t) PROVE Somewhere(n)'
  <2>1. Apart(t) /\ UNCHANGED fresh
    BY <1>3 DEF HGetPop, GetPop, Carried, QueueInv, HTypeOK, TypeOK
  <2>2. Carried(t) \subseteq Carried(t)' /\ (out_queue # Null => out_queue \in Carried(t)')
    BY <1>3 DEF HGetPop, GetPop, Carried, QueueInv, HTypeOK, TypeOK
  <2>3. CASE out_queue = Null
    BY <1>3, <2>1, <2>2, <2>3 DEF HGetPop, hist
  <2>4. CASE out_queue # Null
    <3>1. nrev = 0 /\ nout > 0 /\ nout <= Len(fifo) /\ Len(fifo) \in Nat /\ nout \in Nat
      BY <1>3, <2>4, NothingHalfReversed DEF HGetPop, GetPop, CriticalLabels, QueueInv, QueueShape, OutList, HTypeOK
    <3>2. out_queue = fifo[1] /\ Len(fifo) > 0
      BY <3>1 DEF QueueInv, QueueShape, OutList
    <3>3. Len(fifo') = Len(fifo) - 1 /\ \A i \in 1 .. Len(fifo) - 1 : fifo'[i] = fifo[i + 1]
      BY <1>3, <2>4, <3>2, TailFacts DEF HGetPop, QueueInv, HTypeOK
    <3>4. ASSUME NEW i \in 1 .. Len(fifo), fifo[i] = n, i # 1 PROVE Somewhere(n)'
      <4>1. i - 1 \in 1 .. Len(fifo') /\ fifo'[i - 1] = fifo[i]
        BY <3>1, <3>3, <3>4
      <4>2. QED BY <3>4, <4>1
    <3>5. QED BY <2>1, <2>2, <2>4, <3>2, <3>4
  <2>5. QED BY <2>3, <2>4
<1>4. ASSUME NEW t \in Threads,
             \/ HGetCas(t) \/ HReverse(t)
             \/ /\ UNCHANGED hist
                /\ \/ AddLink(t) \/ AddRetry(t) \/ GetLock(t) \/ GetCheck(t) \/ GetRead(t)
                   \/ GetRetry(t) \/ ReverseDone(t) \/ GetUnlock(t)
      PROVE  Somewhere(n)'
  <2>1. UNCHANGED <<fifo, fresh>>
    BY <1>4 DEF hist, HGetCas, GetCas, HReverse, Reverse, AddLink, AddRetry, GetLock, GetCheck, GetRead, GetRetry, ReverseDone, GetUnlock
  <2>2. \A u \in Threads : Carried(u) \subseteq Carried(u)'
    BY <1>4 DEF Carried, QueueInv, HTypeOK, TypeOK, HGetCas, GetCas, HReverse, Reverse, AddLink, AddRetry, GetLock,
       GetCheck, GetRead, GetRetry, ReverseDone, GetUnlock
  <2>3. QED BY <2>1, <2>2
<1>5. CASE UNCHANGED hvars
  BY <1>5 DEF hvars, vars, hist, Carried
<1>6. QED BY <1>1, <1>2, <1>3, <1>4, <1>5 DEF HNext, HStep

\* No schedule of the threads loses a node.
THEOREM QueueLosesNothing == HSpec => []NothingLost
<1>1. HInit => NothingLost
  BY DEF HInit, Init, Somewhere, NothingLost
<1>2. QueueInv /\ QueueInv' /\ NothingLost /\ [HNext]_hvars => NothingLost'
  BY NothingLostStep DEF NothingLost
<1>3. QED BY <1>1, <1>2, QueueInvariant, PTL DEF HSpec

\* An adder never writes into a node another thread can reach.
THEOREM PublishedNodes == HSpec => PublishedNodesStable
<1> DEFINE Stable == \A i \in DOMAIN fifo : next'[fifo[i]] # next[fifo[i]] =>
                        \E t \in Threads : lock = t /\ pc[t] = "get_rev"
<1>1. QueueInv /\ [HNext]_hvars => [Stable]_hvars
  <2> SUFFICES ASSUME QueueInv, HNext PROVE Stable
    OBVIOUS
  <2>1. ASSUME NEW t \in Threads, AddLink(t) PROVE Stable
    <3>1. new[t] \in Nodes /\ new[t] \in Carried(t)
      BY <2>1, NullAssumption
         DEF AddLink, Goto, QueueInv, QueueShape, Owners, Carried, AddLabels, HTypeOK, TypeOK, Pointer
    <3>2. \A i \in DOMAIN fifo : fifo[i] # new[t]
      BY <3>1 DEF QueueInv, QueueShape, Owners, HTypeOK
    <3>3. QED BY <2>1, <3>1, <3>2 DEF AddLink, QueueInv, HTypeOK, TypeOK
  <2>2. ASSUME NEW t \in Threads, HReverse(t) PROVE Stable
    BY <2>2 DEF HReverse, Reverse, QueueInv, ConsumerExclusion, InCritical, CriticalLabels
  <2>3. ASSUME NEW t \in Threads,
               \/ HCall(t) \/ HAddCas(t) \/ HGetCas(t) \/ HGetPop(t) \/ AddRetry(t) \/ GetLock(t) \/ GetCheck(t)
               \/ GetRead(t) \/ GetRetry(t) \/ ReverseDone(t) \/ GetUnlock(t)
        PROVE  Stable
    BY <2>3 DEF HCall, CallGet, CallAdd, HAddCas, AddCas, HGetCas, GetCas, HGetPop, GetPop, AddRetry, GetLock, GetCheck,
       GetRead, GetRetry, ReverseDone, GetUnlock
  <2>4. QED BY <2>1, <2>2, <2>3 DEF HNext, HStep
<1>2. QED BY <1>1, QueueInvariant, PTL DEF HSpec, PublishedNodesStable

----------------------------------------------------------------------------
(* queue.c implements TaskFifo.                                            *)

AbstractOps == [t \in Threads |-> AbstractOp(t)]
AbstractVars == <<fifo, AbstractOps, fresh, held>>

\* A step of one thread does not disturb what another one's call is doing:
\* out_queue, which decides whether a pop has already taken effect, belongs
\* to the holder of the lock.
LEMMA OthersUndisturbed ==
  ASSUME QueueInv, NEW t \in Threads, HCall(t) \/ HStep(t)
  PROVE  AbstractOps' = [AbstractOps EXCEPT ![t] = AbstractOp(t)']
<1> USE DEF QueueInv, HTypeOK, TypeOK, Goto
<1>1. ASSUME NEW u \in Threads, u # t
      PROVE  pc'[u] = pc[u] /\ head'[u] = head[u] /\ new'[u] = new[u]
  BY <1>1 DEF HCall, CallAdd, CallGet, HStep, HAddCas, AddCas, HGetCas, GetCas, HReverse, Reverse, HGetPop, GetPop,
       AddLink, AddRetry, GetLock, GetCheck, GetRead, GetRetry, ReverseDone, GetUnlock
<1>2. ASSUME NEW u \in Threads, u # t, pc[u] = "get_pop"
      PROVE  out_queue' = out_queue
  <2>1. pc[t] \notin CriticalLabels
    BY <1>2 DEF ConsumerExclusion, InCritical, CriticalLabels
  <2>2. QED
    BY <2>1 DEF HCall, CallAdd, CallGet, HStep, HAddCas, AddCas, HGetCas, GetCas, HReverse, Reverse, HGetPop, GetPop,
       AddLink, AddRetry, GetLock, GetCheck, GetRead, GetRetry, ReverseDone, GetUnlock, CriticalLabels
<1>3. ASSUME NEW u \in Threads, u # t PROVE AbstractOp(u)' = AbstractOp(u)
  BY <1>1, <1>2, <1>3 DEF AbstractOp
<1>4. QED BY <1>3 DEF AbstractOps

LEMMA RefinementStep ==
  ASSUME QueueInv, NEW t \in Threads, HCall(t) \/ HStep(t)
  PROVE  Fifo!Next \/ UNCHANGED AbstractVars
<1> USE NullAssumption DEF QueueInv, HTypeOK, TypeOK, Pointer, Goto, AddLabels
<1> USE DEF Fifo!Idle, Fifo!Adding, Fifo!Getting, Fifo!Got
<1>1. AbstractOps' = [AbstractOps EXCEPT ![t] = AbstractOp(t)'] /\ AbstractOps[t] = AbstractOp(t)
  BY OthersUndisturbed DEF AbstractOps
<1>2. AbstractOp(t)' = AbstractOp(t) => AbstractOps' = AbstractOps
  BY <1>1 DEF AbstractOps
<1>3. AbstractOps = [u \in Threads |-> AbstractOp(u)]
  BY DEF AbstractOps
<1>4. ASSUME NEW n \in Nodes, CallAdd(t, n), UNCHANGED hist PROVE Fifo!Next
  <2>1. AbstractOp(t) = Fifo!Idle /\ AbstractOp(t)' = Fifo!Adding(n)
    BY <1>4 DEF CallAdd, AbstractOp
  <2>2. Fifo!CallAdd(t, n)
    BY <1>1, <1>3, <1>4, <2>1 DEF CallAdd, hist, Fifo!CallAdd, AbstractOps
  <2>3. QED BY <2>2 DEF Fifo!Next
<1>5. ASSUME CallGet(t), UNCHANGED hist PROVE Fifo!Next
  <2>1. AbstractOp(t) = Fifo!Idle /\ AbstractOp(t)' = Fifo!Getting
    BY <1>5 DEF CallGet, AbstractOp
  <2>2. Fifo!CallGet(t)
    BY <1>1, <1>3, <1>5, <2>1 DEF CallGet, hist, Fifo!CallGet, AbstractOps
  <2>3. QED BY <2>2 DEF Fifo!Next
<1>6. ASSUME HAddCas(t) PROVE Fifo!Next
  <2>1. new[t] \in Nodes
    BY <1>6 DEF HAddCas, AddCas, QueueShape, Owners
  <2>2. AbstractOp(t) = Fifo!Adding(new[t]) /\ AbstractOp(t)' = Fifo!Idle
    BY <1>6 DEF HAddCas, AddCas, AbstractOp
  <2>3. Fifo!Add(t)
    BY <1>1, <1>3, <1>6, <2>1, <2>2 DEF HAddCas, AddCas, Fifo!Add, AbstractOps
  <2>4. QED BY <2>3 DEF Fifo!Next
<1>7. ASSUME HGetPop(t) PROVE Fifo!Next \/ UNCHANGED AbstractVars
  <2>1. pc[t] = "get_pop" /\ AbstractOp(t)' = Fifo!Got(out_queue)
    BY <1>7 DEF HGetPop, GetPop, AbstractOp
  <2>2. CASE out_queue = Null
    <3>1. AbstractOp(t) = Fifo!Got(Null)
      BY <2>1, <2>2 DEF AbstractOp
    <3>2. QED BY <1>2, <1>7, <2>1, <2>2, <3>1 DEF HGetPop, GetPop, hist, AbstractVars
  <2>3. CASE out_queue # Null
    <3>1. nrev = 0 /\ nout > 0
      BY <2>1, <2>3, NothingHalfReversed DEF CriticalLabels, QueueShape, OutList
    <3>2. fifo # <<>> /\ out_queue = Head(fifo)
      BY <2>3, <3>1 DEF QueueShape, OutList
    <3>3. AbstractOp(t) = Fifo!Getting
      BY <2>1, <2>3 DEF AbstractOp
    <3>4. Fifo!GetOldest(t)
      BY <1>1, <1>3, <1>7, <2>1, <2>3, <3>2, <3>3 DEF HGetPop, GetPop, Fifo!GetOldest, AbstractOps
    <3>5. QED BY <3>4 DEF Fifo!Next
  <2>4. QED BY <2>2, <2>3
<1>8. ASSUME GetRead(t), UNCHANGED hist PROVE Fifo!Next \/ UNCHANGED AbstractVars
  <2>1. AbstractOp(t) = Fifo!Getting /\ nrev = 0 /\ nout = 0 /\ out_queue = Null
    BY <1>8, NothingHalfReversed
       DEF GetRead, AbstractOp, CriticalState, CriticalLabels, QueueShape, OutList
  <2>2. CASE in_queue = Null
    <3>1. fifo = <<>>
      BY <2>1, <2>2, FifoNodes DEF QueueShape, InList
    <3>2. AbstractOp(t)' = Fifo!Got(Null)
      BY <1>8, <2>1, <2>2 DEF GetRead, AbstractOp
    <3>3. Fifo!GetEmpty(t)
      BY <1>1, <1>3, <1>8, <2>1, <3>1, <3>2 DEF GetRead, hist, Fifo!GetEmpty, AbstractOps
    <3>4. QED BY <3>3 DEF Fifo!Next
  <2>3. CASE in_queue # Null
    <3>1. AbstractOp(t)' = Fifo!Getting
      BY <1>8, <2>3 DEF GetRead, AbstractOp
    <3>2. QED BY <1>2, <1>8, <2>1, <3>1 DEF GetRead, hist, AbstractVars
  <2>4. QED BY <2>2, <2>3
<1>9. ASSUME GetUnlock(t), UNCHANGED hist PROVE Fifo!Next
  <2>1. AbstractOp(t) = Fifo!Got(head[t]) /\ AbstractOp(t)' = Fifo!Idle /\ head[t] \in Nodes \cup {Null}
    BY <1>9 DEF GetUnlock, AbstractOp
  <2>2. Fifo!Return(t)
    BY <1>1, <1>3, <1>9, <2>1 DEF GetUnlock, hist, Fifo!Return, AbstractOps
  <2>3. QED BY <2>2 DEF Fifo!Next
<1>10. ASSUME UNCHANGED hist, AddLink(t) \/ AddRetry(t) \/ GetLock(t) \/ GetRetry(t)
       PROVE  UNCHANGED AbstractVars
  <2>1. AbstractOp(t)' = AbstractOp(t)
    BY <1>10 DEF AddLink, AddRetry, GetLock, GetRetry, AbstractOp
  <2>2. QED BY <1>2, <1>10, <2>1 DEF AddLink, AddRetry, GetLock, GetRetry, hist, AbstractVars
<1>11. ASSUME UNCHANGED hist, GetCheck(t) PROVE UNCHANGED AbstractVars
  <2>1. AbstractOp(t)' = AbstractOp(t)
    BY <1>11 DEF GetCheck, AbstractOp
  <2>2. QED BY <1>2, <1>11, <2>1 DEF GetCheck, hist, AbstractVars
<1>12. ASSUME HGetCas(t) PROVE UNCHANGED AbstractVars
  <2>1. AbstractOp(t)' = AbstractOp(t)
    BY <1>12 DEF HGetCas, GetCas, AbstractOp
  <2>2. QED BY <1>2, <1>12, <2>1 DEF HGetCas, GetCas, AbstractVars
<1>13. ASSUME HReverse(t) PROVE UNCHANGED AbstractVars
  <2>1. AbstractOp(t)' = AbstractOp(t)
    BY <1>13 DEF HReverse, Reverse, AbstractOp
  <2>2. QED BY <1>2, <1>13, <2>1 DEF HReverse, Reverse, AbstractVars
<1>14. ASSUME UNCHANGED hist, ReverseDone(t) PROVE UNCHANGED AbstractVars
  <2>1. nrev = 0 /\ nout > 0
    BY <1>14, FifoNodes DEF ReverseDone, QueueShape, RevList
  <2>2. out_queue # Null
    BY <2>1, FifoNodes DEF QueueShape, OutList
  <2>3. AbstractOp(t)' = AbstractOp(t)
    BY <1>14, <2>2 DEF ReverseDone, AbstractOp
  <2>4. QED BY <1>2, <1>14, <2>3 DEF ReverseDone, hist, AbstractVars
<1>15. QED
  BY <1>4, <1>5, <1>6, <1>7, <1>8, <1>9, <1>10, <1>11, <1>12, <1>13, <1>14 DEF HCall, HStep

\* The program's queue is a linearizable FIFO queue, whatever the number of
\* threads and however their statements interleave.
THEOREM QueueRefinesFifo == HSpec => ImplementsFifo
<1>1. HInit => Fifo!Init
  <2> SUFFICES ASSUME HInit PROVE Fifo!Init
    OBVIOUS
  <2>1. \A t \in Threads : AbstractOp(t) = Fifo!Idle
    BY DEF HInit, Init, AbstractOp, AddLabels, Fifo!Idle
  <2>2. [t \in Threads |-> AbstractOp(t)] = [t \in Threads |-> Fifo!Idle]
    BY <2>1
  <2>3. QED BY <2>2 DEF HInit, Init, Fifo!Init
<1>2. QueueInv /\ [HNext]_hvars => [Fifo!Next]_Fifo!vars
  <2> SUFFICES ASSUME QueueInv, [HNext]_hvars PROVE [Fifo!Next]_Fifo!vars
    OBVIOUS
  <2>1. Fifo!vars = AbstractVars /\ Fifo!vars' = AbstractVars'
    BY DEF Fifo!vars, AbstractVars, AbstractOps
  <2>2. CASE UNCHANGED hvars
    BY <2>2 DEF hvars, vars, hist, Fifo!vars, AbstractOp
  <2>3. CASE HNext
    BY <2>1, <2>3, RefinementStep DEF HNext
  <2>4. QED BY <2>2, <2>3
<1>3. QED BY <1>1, <1>2, QueueInvariant, PTL DEF HSpec, ImplementsFifo, Fifo!Spec

=============================================================================
