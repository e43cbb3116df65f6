--------------------------- MODULE RequestQueues ---------------------------
(***************************************************************************)
(* The request queues of the scheduler: a deque under the FCFS policy, a   *)
(* heap by priority and arrival under the priority policy.  They are used  *)
(* by scheduler.py and lie outside this repository's sources.              *)
(***************************************************************************)
EXTENDS Integers, Sequences

CONSTANTS
  Reqs,          \* request ids
  Rank,          \* request -> place in the order (priority, arrival_time)
  Policy         \* "fcfs" or "priority"

Elements(q) == {q[i] : i \in DOMAIN q}

\* The requests of q in S, in the order of q.
Kept(q, S) ==
  LET f[i \in 0..Len(q)] ==
        IF i = 0 THEN <<>>
        ELSE IF q[i] \in S THEN Append(f[i - 1], q[i]) ELSE f[i - 1]
  IN  f[Len(q)]

InOrder(q, r) ==
  Kept(q, {s \in Reqs : Rank[s] < Rank[r]}) \o <<r>>
    \o Kept(q, {s \in Reqs : Rank[s] > Rank[r]})
Added(q, r)     == IF Policy = "fcfs" THEN Append(q, r) ELSE InOrder(q, r)
Prepended(q, r) == IF Policy = "fcfs" THEN <<r>> \o q ELSE InOrder(q, r)
Without(q, S)   == Kept(q, Reqs \ S)

\* Mutant: the requests are forgotten.
NonePrepended(q, s) == q

\* Prepend the requests of s to q one by one, the last one first.
AllPrepended(q, s) ==
  LET f[i \in 0..Len(s)] ==
        IF i = 0 THEN q ELSE Prepended(f[i - 1], s[Len(s) + 1 - i])
  IN  f[Len(s)]
=============================================================================
