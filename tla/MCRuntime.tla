----------------------------- MODULE MCRuntime -----------------------------
(***************************************************************************)
(* Small instances of Runtime: every fork-join program over a few tasks.   *)
(***************************************************************************)
EXTENDS RuntimeInvariant, SequencesExt

CONSTANTS main, t1, t2, t3

FourTasks == {main, t1, t2, t3}
ThreeTasks == {main, t1, t2}

\* The order in which a task spawns its sub tasks does not matter to any
\* property: the tasks of a level are spawned in this one.
Order == <<t1, t2, t3>>
Fork(K) == SelectSeq(Order, LAMBDA x : x \in K)

\* A level: some sub tasks, then a taskyield.
Level(K) == Append(Fork(K), Yield)

\* What a task that spawns the tasks in K may do: all of them at one level,
\* or spread over two or three.
Codes(K) ==
  IF K = {} THEN {<<>>}
  ELSE {Level(K)}
       \cup {Level(A) \o Level(K \ A) : A \in SUBSET K \ {{}, K}}
       \cup {Level({p[1]}) \o Level({p[2]}) \o Level(K \ {p[1], p[2]}) :
               p \in {q \in K \X K : q[1] # q[2] /\ Cardinality(K) = 3}}

AllPrograms(T) ==
  {P \in [T -> UNION {Codes(K) : K \in SUBSET (T \ {main})}] : SpawnedOnce(P) /\ AllFromRoot(P)}

Programs4 == AllPrograms(FourTasks)
Programs3 == AllPrograms(ThreeTasks)

=============================================================================
