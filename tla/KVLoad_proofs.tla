--------------------------- MODULE KVLoad_proofs ---------------------------
(***************************************************************************)
(* Proofs about the fences of DeferredFree and the loads of KVLoad, for    *)
(* every set of requests and blocks, every depth of the pipeline, and any  *)
(* number of aborts, preemptions and failed blocks.                        *)
(*                                                                         *)
(* First DeferredFree: no block in the pool is used by a step in flight.   *)
(* Then every step of KVLoad is one of DeferredFree or leaves its state    *)
(* alone: the only unguarded return of blocks, that of a load with nothing *)
(* left, is of blocks that no step in flight uses.  That needs to know who *)
(* is loading (Books) and that a load starts with blocks of its own        *)
(* (Alone).                                                                *)
(*                                                                         *)
(* Last what the blocks contain: a request's table lists its blocks        *)
(* (Listed), and those counted as computed have their KV, or are written   *)
(* or reported by a transfer that is outstanding (Filled).                 *)
(*                                                                         *)
(* None of this depends on which requests a call of schedule() admits:     *)
(* the traversal of the queues in KVSchedule implements KVLoad.            *)
(***************************************************************************)
EXTENDS KVSchedule, SequenceTheorems, FiniteSetTheorems, TLAPS

\* The parts of the invariant that speak of the steps and of the fences.
Fenced == OnePlace /\ DueInOrder /\ UsesFenced

LEMMA PoolIsUnused == TypeOK /\ Fenced => PoolUnused
<1> SUFFICES ASSUME TypeOK, Fenced,
                    NEW i \in DOMAIN steps, NEW b \in steps[i].uses, b \in free
             PROVE  FALSE
  BY DEF PoolUnused
<1>1. \/ \E r \in Reqs : b \in held[r]
      \/ \E j \in DOMAIN deferred : b \in deferred[j].blocks
  BY DEF Fenced, UsesFenced
<1> QED
  BY <1>1 DEF Fenced, OnePlace

LEMMA FenceInit == Init => TypeOK /\ Fenced
BY DEF Init, TypeOK, Fenced, OnePlace, DueInOrder, UsesFenced, Step, Entry

\* What the entries of a deque with one more are.
LEMMA Appended ==
  ASSUME NEW S, NEW q \in Seq(S), NEW e \in S
  PROVE  /\ Append(q, e) \in Seq(S)
         /\ Len(Append(q, e)) = Len(q) + 1
         /\ DOMAIN Append(q, e) = DOMAIN q \cup {Len(q) + 1}
         /\ \A i \in DOMAIN q : Append(q, e)[i] = q[i] /\ i < Len(q) + 1
         /\ Append(q, e)[Len(q) + 1] = e
OBVIOUS

\* The elements of the two queues.
LEMMA DequeElements ==
  ASSUME TypeOK
  PROVE  /\ \A i \in DOMAIN steps :
              steps[i].due \in Nat /\ steps[i].numbered \in BOOLEAN
         /\ \A j \in DOMAIN deferred : deferred[j].fence \in Nat
<1>1. \A i \in DOMAIN steps : steps[i] \in Step
  BY ElementOfSeq DEF TypeOK
<1>2. \A j \in DOMAIN deferred : deferred[j] \in Entry
  BY ElementOfSeq DEF TypeOK
<1> QED
  BY <1>1, <1>2 DEF Step, Entry

-----------------------------------------------------------------------------
(* schedule().                                                             *)

LEMMA ScheduleFences ==
  ASSUME TypeOK, Fenced,
         NEW batch \in SUBSET Reqs, NEW new \in [Reqs -> SUBSET free],
         NEW copied \in SUBSET free, Schedule(batch, new, copied)
  PROVE  TypeOK' /\ Fenced'
<1> DEFINE all == UNION {new[r] : r \in Reqs}
           seq == IF batch = {} THEN schedSeq ELSE schedSeq + 1
           st  == [numbered |-> batch # {}, due |-> schedSeq + 1,
                   uses |-> copied \cup UNION {held[r] \cup new[r] : r \in batch}]
           en  == [fence |-> CopyFence, blocks |-> copied]
<1>1. /\ all \subseteq free /\ copied \subseteq free \ all
      /\ \A r, s \in Reqs : r # s => new[r] \cap new[s] = {}
      /\ held' = [r \in Reqs |-> held[r] \cup new[r]]
      /\ lastSeq' = [r \in Reqs |-> IF r \in batch THEN seq ELSE lastSeq[r]]
      /\ free' = free \ (all \cup copied)
      /\ deferred' = IF copied = {} THEN deferred ELSE Append(deferred, en)
      /\ schedSeq' = seq
      /\ steps' = Append(steps, st)
      /\ processed' = processed
  BY DEF Schedule
<1>2. /\ held \in [Reqs -> SUBSET Blocks] /\ lastSeq \in [Reqs -> Nat]
      /\ free \subseteq Blocks /\ deferred \in Seq(Entry) /\ steps \in Seq(Step)
      /\ schedSeq \in Nat /\ processed \in Nat
  BY DEF TypeOK
<1>3. seq \in Nat /\ schedSeq <= seq /\ (batch # {} => seq = schedSeq + 1)
  BY <1>2
<1>4. \A r \in Reqs : new[r] \subseteq free /\ new[r] \subseteq all
  OBVIOUS
<1>5. st \in Step /\ en \in Entry
  <2>1. UNION {held[r] \cup new[r] : r \in batch} \subseteq Blocks
    BY <1>2, <1>4
  <2>2. schedSeq + 1 \in Nat /\ (batch # {}) \in BOOLEAN
    BY <1>2
  <2>3. copied \subseteq Blocks
    BY <1>2
  <2> QED
    BY <2>1, <2>2, <2>3 DEF Step, Entry, CopyFence
<1>6. /\ st.due = schedSeq + 1 /\ (st.numbered <=> batch # {})
      /\ \A b \in st.uses : b \in copied \/ \E r \in batch : b \in held[r] \cup new[r]
  OBVIOUS
<1>7. en.fence = schedSeq + 1 /\ en.blocks = copied
  BY DEF CopyFence
<1> DEFINE n == Len(steps)
           m == Len(deferred)
<1>8. /\ n \in Nat /\ steps' \in Seq(Step)
      /\ DOMAIN steps = 1..n
      /\ DOMAIN steps' = DOMAIN steps \cup {n + 1}
      /\ \A i \in DOMAIN steps : steps'[i] = steps[i] /\ i < n + 1
      /\ steps'[n + 1] = st
  BY <1>1, <1>2, <1>5
<1>9. /\ m \in Nat /\ deferred' \in Seq(Entry)
      /\ DOMAIN deferred' = DOMAIN deferred \cup (IF copied = {} THEN {} ELSE {m + 1})
      /\ \A j \in DOMAIN deferred : deferred'[j] = deferred[j] /\ j < m + 1
      /\ copied # {} => deferred'[m + 1] = en
  <2>1. CASE copied = {}
    BY <1>1, <1>2, <2>1
  <2>2. CASE copied # {}
    BY <1>1, <1>2, <1>5, <2>2
  <2> QED
    BY <2>1, <2>2
<1> HIDE DEF all, seq, st, en, n, m
<1>10. TypeOK'
  <2>1. held' \in [Reqs -> SUBSET Blocks]
    BY <1>1, <1>2, <1>4
  <2>2. lastSeq' \in [Reqs -> Nat]
    BY <1>1, <1>2, <1>3
  <2> QED
    BY <1>1, <1>2, <1>3, <1>8, <1>9, <2>1, <2>2 DEF TypeOK
<1>11. OnePlace'
  <2>1. \A r \in Reqs : held'[r] \cap free' = {}
    BY <1>1, <1>4 DEF Fenced, OnePlace
  <2>2. \A r, s \in Reqs : r # s => held'[r] \cap held'[s] = {}
    BY <1>1, <1>4 DEF Fenced, OnePlace
  <2>3. ASSUME NEW j \in DOMAIN deferred'
        PROVE  /\ deferred'[j].blocks \cap free' = {}
               /\ \A r \in Reqs : deferred'[j].blocks \cap held'[r] = {}
    <3>1. CASE j \in DOMAIN deferred
      BY <1>1, <1>4, <1>9, <3>1 DEF Fenced, OnePlace
    <3>2. CASE j = m + 1 /\ copied # {}
      <4>1. deferred'[j].blocks = copied
        BY <1>7, <1>9, <3>2
      <4>2. \A r \in Reqs : held[r] \cap copied = {}
        BY <1>1 DEF Fenced, OnePlace
      <4>3. \A r \in Reqs : new[r] \cap copied = {}
        BY <1>1, <1>4
      <4> QED
        BY <1>1, <4>1, <4>2, <4>3
    <3> QED
      BY <1>9, <2>3, <3>1, <3>2
  <2>4. ASSUME NEW j \in DOMAIN deferred', NEW k \in DOMAIN deferred', j # k
        PROVE  deferred'[j].blocks \cap deferred'[k].blocks = {}
    <3>1. \A i \in DOMAIN deferred : deferred[i].blocks \cap copied = {}
      BY <1>1 DEF Fenced, OnePlace
    <3>2. CASE j \in DOMAIN deferred /\ k \in DOMAIN deferred
      BY <1>9, <2>4, <3>2 DEF Fenced, OnePlace
    <3>3. CASE j \in DOMAIN deferred /\ k = m + 1 /\ copied # {}
      BY <1>7, <1>9, <3>1, <3>3
    <3>4. CASE k \in DOMAIN deferred /\ j = m + 1 /\ copied # {}
      BY <1>7, <1>9, <3>1, <3>4
    <3> QED
      BY <1>9, <2>4, <3>2, <3>3, <3>4
  <2> QED
    BY <2>1, <2>2, <2>3, <2>4 DEF OnePlace
<1>12. DueInOrder'
  <2>1. ASSUME NEW i \in DOMAIN steps'
        PROVE  /\ processed' < steps'[i].due /\ steps'[i].due <= schedSeq' + 1
               /\ steps'[i].numbered => steps'[i].due <= schedSeq'
    <3>1. CASE i \in DOMAIN steps
      <4>1. steps[i].due \in Nat
        BY <3>1, DequeElements
      <4> QED
        BY <1>1, <1>2, <1>3, <1>8, <3>1, <4>1 DEF Fenced, DueInOrder
    <3>2. CASE i = n + 1
      <4>1. processed <= schedSeq
        BY DEF Fenced, DueInOrder
      <4> QED
        BY <1>1, <1>2, <1>3, <1>6, <1>8, <3>2, <4>1
    <3> QED
      BY <1>8, <2>1, <3>1, <3>2
  <2>2. ASSUME NEW i \in DOMAIN steps', NEW j \in DOMAIN steps', i < j
        PROVE  /\ steps'[i].due <= steps'[j].due
               /\ steps'[i].numbered => steps'[i].due < steps'[j].due
    <3>1. CASE i \in DOMAIN steps /\ j \in DOMAIN steps
      BY <1>8, <2>2, <3>1 DEF Fenced, DueInOrder
    <3>2. CASE i \in DOMAIN steps /\ j = n + 1
      <4>1. steps[i].due \in Nat
        BY <3>2, DequeElements
      <4>2. /\ steps[i].due <= schedSeq + 1
            /\ steps[i].numbered => steps[i].due <= schedSeq
        BY <3>2 DEF Fenced, DueInOrder
      <4> QED
        BY <1>2, <1>6, <1>8, <3>2, <4>1, <4>2
    <3>3. CASE i = n + 1
      BY <1>8, <2>2, <3>3
    <3> QED
      BY <1>8, <2>2, <3>1, <3>2, <3>3
  <2>3. processed' <= schedSeq'
    BY <1>1, <1>2, <1>3 DEF Fenced, DueInOrder
  <2> QED
    BY <2>1, <2>2, <2>3 DEF DueInOrder
<1>13. UsesFenced'
  <2>1. \A r \in Reqs : lastSeq[r] \in Nat /\ lastSeq[r] <= schedSeq
    BY <1>2 DEF Fenced, UsesFenced
  <2>2. \A r \in Reqs : lastSeq'[r] <= schedSeq' /\ lastSeq[r] <= lastSeq'[r]
                        /\ held[r] \subseteq held'[r]
    BY <1>1, <1>2, <1>3, <2>1
  <2>3. ASSUME NEW i \in DOMAIN steps', NEW b \in steps'[i].uses
        PROVE  \/ \E r \in Reqs : b \in held'[r] /\ lastSeq'[r] >= steps'[i].due
               \/ \E j \in DOMAIN deferred' :
                    b \in deferred'[j].blocks /\ deferred'[j].fence >= steps'[i].due
    <3>1. CASE i \in DOMAIN steps
      <4>1. steps'[i] = steps[i] /\ steps[i].due \in Nat
        BY <1>8, <3>1, DequeElements
      <4>2. \/ \E r \in Reqs : b \in held[r] /\ lastSeq[r] >= steps[i].due
            \/ \E j \in DOMAIN deferred :
                 b \in deferred[j].blocks /\ deferred[j].fence >= steps[i].due
        BY <2>3, <3>1, <4>1 DEF Fenced, UsesFenced
      <4>3. CASE \E r \in Reqs : b \in held[r] /\ lastSeq[r] >= steps[i].due
        <5>1. PICK r \in Reqs : b \in held[r] /\ lastSeq[r] >= steps[i].due
          BY <4>3
        <5>2. lastSeq[r] <= lastSeq'[r] /\ lastSeq'[r] \in Nat /\ lastSeq[r] \in Nat
          BY <1>1, <1>3, <2>1, <2>2
        <5>3. b \in held'[r] /\ lastSeq'[r] >= steps'[i].due
          BY <2>2, <4>1, <5>1, <5>2
        <5> QED
          BY <5>3
      <4>4. CASE \E j \in DOMAIN deferred :
                   b \in deferred[j].blocks /\ deferred[j].fence >= steps[i].due
        BY <1>9, <4>1, <4>4
      <4> QED
        BY <4>2, <4>3, <4>4
    <3>2. CASE i = n + 1 /\ b \in copied
      <4>1. deferred'[m + 1] = en /\ m + 1 \in DOMAIN deferred'
        BY <1>9, <3>2
      <4>2. deferred'[m + 1].fence >= steps'[i].due
        BY <1>2, <1>6, <1>7, <1>8, <3>2, <4>1
      <4> QED
        BY <1>7, <3>2, <4>1, <4>2
    <3>3. CASE i = n + 1 /\ b \notin copied
      <4>1. PICK r \in batch : b \in held[r] \cup new[r]
        BY <1>6, <1>8, <2>3, <3>3
      <4>2. b \in held'[r] /\ lastSeq'[r] = schedSeq + 1
        BY <1>1, <1>3, <4>1
      <4>3. lastSeq'[r] >= steps'[i].due
        BY <1>2, <1>6, <1>8, <3>3, <4>2
      <4> QED
        BY <4>1, <4>2, <4>3
    <3> QED
      BY <1>8, <2>3, <3>1, <3>2, <3>3
  <2> QED
    BY <2>2, <2>3 DEF UsesFenced
<1> QED
  BY <1>10, <1>11, <1>12, <1>13 DEF Fenced

-----------------------------------------------------------------------------
(* _free_request_blocks.                                                   *)

LEMMA FreeFences ==
  ASSUME TypeOK, Fenced, NEW r \in Reqs, FreeRequestBlocks(r)
  PROVE  TypeOK' /\ Fenced'
<1>1. /\ held' = [held EXCEPT ![r] = {}]
      /\ lastSeq' = lastSeq /\ schedSeq' = schedSeq
      /\ processed' = processed /\ steps' = steps
  BY DEF FreeRequestBlocks
<1>2. /\ held \in [Reqs -> SUBSET Blocks] /\ lastSeq \in [Reqs -> Nat]
      /\ free \subseteq Blocks /\ deferred \in Seq(Entry)
      /\ schedSeq \in Nat /\ processed \in Nat
  BY DEF TypeOK
<1>3. /\ held' \in [Reqs -> SUBSET Blocks] /\ held'[r] = {}
      /\ \A s \in Reqs : s # r => held'[s] = held[s]
      /\ \A s \in Reqs : held'[s] \subseteq held[s]
  BY <1>1, <1>2
<1>4. DueInOrder'
  BY <1>1 DEF Fenced, DueInOrder
<1>5. \A s \in Reqs : lastSeq'[s] <= schedSeq'
  BY <1>1 DEF Fenced, UsesFenced
<1>6. CASE ~MustDefer(r)
  <2>1. free' = free \cup held[r] /\ deferred' = deferred
    BY <1>6 DEF FreeRequestBlocks
  <2>2. TypeOK'
    BY <1>1, <1>2, <1>3, <2>1 DEF TypeOK
  <2>3. OnePlace'
    BY <1>3, <2>1 DEF Fenced, OnePlace
  <2>4. \A i \in DOMAIN steps : \A b \in steps[i].uses :
          \/ \E s \in Reqs : b \in held'[s] /\ lastSeq[s] >= steps[i].due
          \/ \E j \in DOMAIN deferred :
               b \in deferred[j].blocks /\ deferred[j].fence >= steps[i].due
    <3>1. SUFFICES ASSUME NEW i \in DOMAIN steps, NEW b \in steps[i].uses,
                          NEW s \in Reqs, b \in held[s], lastSeq[s] >= steps[i].due
                   PROVE  b \in held'[s]
      BY DEF Fenced, UsesFenced
    <3>2. processed < steps[i].due /\ steps[i].due \in Nat
      BY DequeElements DEF Fenced, DueInOrder
    <3>3. lastSeq[s] > processed
      BY <1>2, <3>1, <3>2
    <3>4. s # r
      BY <1>2, <1>6, <3>3 DEF MustDefer
    <3> QED
      BY <1>3, <3>1, <3>4
  <2>5. UsesFenced'
    BY <1>1, <1>5, <2>1, <2>4 DEF UsesFenced
  <2> QED
    BY <1>4, <2>2, <2>3, <2>5 DEF Fenced
<1>7. CASE MustDefer(r)
  <2> DEFINE en == [fence |-> schedSeq, blocks |-> held[r]]
             m  == Len(deferred)
  <2>1. free' = free /\ deferred' = Append(deferred, en)
    BY <1>7 DEF FreeRequestBlocks
  <2>2. en \in Entry /\ en.fence = schedSeq /\ en.blocks = held[r]
    BY <1>2 DEF Entry
  <2>3. /\ m \in Nat /\ deferred' \in Seq(Entry)
        /\ DOMAIN deferred' = DOMAIN deferred \cup {m + 1}
        /\ \A j \in DOMAIN deferred : deferred'[j] = deferred[j] /\ j < m + 1
        /\ deferred'[m + 1] = en
    BY <1>2, <2>1, <2>2, Appended
  <2> HIDE DEF en, m
  <2>4. TypeOK'
    BY <1>1, <1>2, <1>3, <2>1, <2>3 DEF TypeOK
  <2>5. OnePlace'
    <3>1. \A s \in Reqs : held'[s] \cap free' = {}
      BY <1>3, <2>1 DEF Fenced, OnePlace
    <3>2. \A s, t \in Reqs : s # t => held'[s] \cap held'[t] = {}
      BY <1>3 DEF Fenced, OnePlace
    <3>3. ASSUME NEW j \in DOMAIN deferred'
          PROVE  /\ deferred'[j].blocks \cap free' = {}
                 /\ \A s \in Reqs : deferred'[j].blocks \cap held'[s] = {}
      <4>1. CASE j \in DOMAIN deferred
        BY <1>3, <2>1, <2>3, <4>1 DEF Fenced, OnePlace
      <4>2. CASE j = m + 1
        <5>1. deferred'[j].blocks = held[r]
          BY <2>2, <2>3, <4>2
        <5> QED
          BY <1>3, <2>1, <5>1 DEF Fenced, OnePlace
      <4> QED
        BY <2>3, <3>3, <4>1, <4>2
    <3>4. ASSUME NEW j \in DOMAIN deferred', NEW k \in DOMAIN deferred', j # k
          PROVE  deferred'[j].blocks \cap deferred'[k].blocks = {}
      <4>1. \A i \in DOMAIN deferred : deferred[i].blocks \cap held[r] = {}
        BY DEF Fenced, OnePlace
      <4>2. CASE j \in DOMAIN deferred /\ k \in DOMAIN deferred
        BY <2>3, <3>4, <4>2 DEF Fenced, OnePlace
      <4>3. CASE j \in DOMAIN deferred /\ k = m + 1
        BY <2>2, <2>3, <4>1, <4>3
      <4>4. CASE k \in DOMAIN deferred /\ j = m + 1
        BY <2>2, <2>3, <4>1, <4>4
      <4> QED
        BY <2>3, <3>4, <4>2, <4>3, <4>4
    <3> QED
      BY <3>1, <3>2, <3>3, <3>4 DEF OnePlace
  <2>6. ASSUME NEW i \in DOMAIN steps, NEW b \in steps[i].uses
        PROVE  \/ \E s \in Reqs : b \in held'[s] /\ lastSeq[s] >= steps[i].due
               \/ \E j \in DOMAIN deferred' :
                    b \in deferred'[j].blocks /\ deferred'[j].fence >= steps[i].due
    <3>1. CASE \E j \in DOMAIN deferred :
                 b \in deferred[j].blocks /\ deferred[j].fence >= steps[i].due
      BY <2>3, <3>1
    <3>2. ASSUME NEW s \in Reqs, b \in held[s], lastSeq[s] >= steps[i].due
          PROVE  \/ b \in held'[s]
                 \/ b \in deferred'[m + 1].blocks /\ deferred'[m + 1].fence >= steps[i].due
      <4>1. CASE s # r
        BY <1>3, <3>2, <4>1
      <4>2. CASE s = r
        <5>1. steps[i].due \in Nat /\ lastSeq[s] \in Nat
          BY <1>2, DequeElements
        <5>2. lastSeq[s] <= schedSeq
          BY <1>5, <1>1
        <5>3. schedSeq >= steps[i].due
          BY <1>2, <3>2, <5>1, <5>2
        <5> QED
          BY <2>2, <2>3, <3>2, <4>2, <5>3
      <4> QED
        BY <4>1, <4>2
    <3>3. \/ \E s \in Reqs : b \in held[s] /\ lastSeq[s] >= steps[i].due
          \/ \E j \in DOMAIN deferred :
               b \in deferred[j].blocks /\ deferred[j].fence >= steps[i].due
      BY DEF Fenced, UsesFenced
    <3> QED
      BY <2>3, <3>1, <3>2, <3>3
  <2>7. UsesFenced'
    BY <1>1, <1>5, <2>6 DEF UsesFenced
  <2> QED
    BY <1>4, <2>4, <2>5, <2>7 DEF Fenced
<1> QED
  BY <1>6, <1>7

LEMMA FreeUnusedFences ==
  ASSUME TypeOK, Fenced, NEW r \in Reqs, FreeUnused(r)
  PROVE  TypeOK' /\ Fenced'
<1>1. /\ \A i \in DOMAIN steps : steps[i].uses \cap held[r] = {}
      /\ held' = [held EXCEPT ![r] = {}] /\ free' = free \cup held[r]
      /\ lastSeq' = lastSeq /\ schedSeq' = schedSeq /\ deferred' = deferred
      /\ processed' = processed /\ steps' = steps
  BY DEF FreeUnused, FreeAtOnce
<1>2. /\ held \in [Reqs -> SUBSET Blocks] /\ free \subseteq Blocks
  BY DEF TypeOK
<1>3. /\ held' \in [Reqs -> SUBSET Blocks] /\ held'[r] = {}
      /\ \A s \in Reqs : s # r => held'[s] = held[s]
  BY <1>1, <1>2
<1>4. TypeOK'
  BY <1>1, <1>2, <1>3 DEF TypeOK
<1>5. OnePlace'
  BY <1>1, <1>3 DEF Fenced, OnePlace
<1>6. DueInOrder'
  BY <1>1 DEF Fenced, DueInOrder
<1>7. \A i \in DOMAIN steps : \A b \in steps[i].uses : \A s \in Reqs :
        b \in held[s] => b \in held'[s]
  BY <1>1, <1>3
<1>8. UsesFenced'
  <2>1. \A s \in Reqs : lastSeq'[s] <= schedSeq'
    BY <1>1 DEF Fenced, UsesFenced
  <2>2. \A i \in DOMAIN steps : \A b \in steps[i].uses :
          \/ \E s \in Reqs : b \in held'[s] /\ lastSeq[s] >= steps[i].due
          \/ \E j \in DOMAIN deferred :
               b \in deferred[j].blocks /\ deferred[j].fence >= steps[i].due
    BY <1>7 DEF Fenced, UsesFenced
  <2> QED
    BY <1>1, <2>1, <2>2 DEF UsesFenced
<1> QED
  BY <1>4, <1>5, <1>6, <1>8 DEF Fenced

-----------------------------------------------------------------------------
(* update_from_output and the drain.                                       *)

\* What is left of a queue without its first k elements.
LEMMA Rest ==
  ASSUME NEW S, NEW q \in Seq(S), NEW k \in 0..Len(q)
  PROVE  /\ SubSeq(q, k + 1, Len(q)) \in Seq(S)
         /\ DOMAIN SubSeq(q, k + 1, Len(q)) = 1..(Len(q) - k)
         /\ \A i \in 1..(Len(q) - k) :
              SubSeq(q, k + 1, Len(q))[i] = q[i + k] /\ i + k \in DOMAIN q
         /\ \A j \in DOMAIN q : j > k => j - k \in 1..(Len(q) - k)
<1>1. Len(q) \in Nat /\ DOMAIN q = 1..Len(q)
  OBVIOUS
<1> QED
  BY <1>1

LEMMA UpdateFences ==
  ASSUME TypeOK, Fenced, UpdateFromOutput
  PROVE  TypeOK' /\ Fenced'
<1> DEFINE seq == IF steps[1].numbered THEN processed + 1 ELSE processed
           n   == Len(steps)
           m   == Len(deferred)
<1>1. PICK k \in 0..m :
        /\ IF steps[1].numbered THEN Drains(k, seq) ELSE k = 0
        /\ deferred' = SubSeq(deferred, k + 1, m)
        /\ free' = free \cup UNION {deferred[j].blocks : j \in 1..k}
  BY DEF UpdateFromOutput
<1>2. /\ steps # <<>> /\ steps' = Tail(steps) /\ processed' = seq
      /\ held' = held /\ lastSeq' = lastSeq /\ schedSeq' = schedSeq
  BY DEF UpdateFromOutput
<1>3. /\ held \in [Reqs -> SUBSET Blocks] /\ lastSeq \in [Reqs -> Nat]
      /\ free \subseteq Blocks /\ deferred \in Seq(Entry) /\ steps \in Seq(Step)
      /\ schedSeq \in Nat /\ processed \in Nat
  BY DEF TypeOK
<1>4. /\ n \in Nat \ {0} /\ steps' \in Seq(Step)
      /\ DOMAIN steps = 1..n /\ DOMAIN steps' = 1..(n - 1)
      /\ \A i \in 1..(n - 1) : steps'[i] = steps[i + 1] /\ i + 1 \in 2..n
  BY <1>2, <1>3
<1>5. /\ deferred' \in Seq(Entry)
      /\ DOMAIN deferred' = 1..(m - k)
      /\ \A i \in 1..(m - k) : deferred'[i] = deferred[i + k] /\ i + k \in DOMAIN deferred
      /\ \A j \in DOMAIN deferred : j > k => j - k \in 1..(m - k)
  BY <1>1, <1>3, Rest
<1>6. m \in Nat /\ DOMAIN deferred = 1..m /\ k \in Nat /\ k <= m
  BY <1>3
<1>7. steps[1].due \in Nat /\ steps[1].numbered \in BOOLEAN
  BY <1>4, DequeElements
<1>8. seq \in Nat /\ processed <= seq
  BY <1>3
<1>9. \A i \in 2..n : seq < steps[i].due
  <2> SUFFICES ASSUME NEW i \in 2..n PROVE seq < steps[i].due
    OBVIOUS
  <2>1. i \in DOMAIN steps /\ 1 \in DOMAIN steps /\ 1 < i
    BY <1>4
  <2>2. steps[i].due \in Nat
    BY <2>1, DequeElements
  <2>3. processed < steps[1].due /\ processed < steps[i].due
        /\ (steps[1].numbered => steps[1].due < steps[i].due)
    BY <2>1 DEF Fenced, DueInOrder
  <2> QED
    BY <1>3, <1>7, <2>2, <2>3
<1>10. \A j \in 1..k : deferred[j].fence <= seq
  BY <1>1 DEF Drains
<1>11. seq <= schedSeq
  <2>1. processed <= schedSeq /\ processed < steps[1].due
        /\ (steps[1].numbered => steps[1].due <= schedSeq)
    BY <1>4 DEF Fenced, DueInOrder
  <2> QED
    BY <1>3, <1>7, <2>1
<1> HIDE DEF seq, n, m
<1>12. TypeOK'
  <2>1. UNION {deferred[j].blocks : j \in 1..k} \subseteq Blocks
    <3>1. \A j \in DOMAIN deferred : deferred[j].blocks \subseteq Blocks
      <4>1. \A j \in DOMAIN deferred : deferred[j] \in Entry
        BY <1>3, ElementOfSeq
      <4> QED
        BY <4>1 DEF Entry
    <3> QED
      BY <1>6, <3>1
  <2>2. free' \subseteq Blocks
    BY <1>1, <1>3, <2>1
  <2> QED
    BY <1>2, <1>3, <1>4, <1>5, <1>8, <2>2 DEF TypeOK
<1>13. OnePlace'
  <2>0. \A j \in 1..k : j \in DOMAIN deferred /\ j <= k
    BY <1>6
  <2>1. \A r \in Reqs : held'[r] \cap free' = {}
    <3>1. ASSUME NEW j \in 1..k, NEW r \in Reqs
          PROVE  deferred[j].blocks \cap held[r] = {}
      <4>1. j \in DOMAIN deferred
        BY <2>0
      <4> QED
        BY <4>1 DEF Fenced, OnePlace
    <3>2. \A r \in Reqs : held[r] \cap free = {}
      BY DEF Fenced, OnePlace
    <3> QED
      BY <1>1, <1>2, <3>1, <3>2
  <2>2. \A r, s \in Reqs : r # s => held'[r] \cap held'[s] = {}
    BY <1>2 DEF Fenced, OnePlace
  <2>3. ASSUME NEW i \in DOMAIN deferred'
        PROVE  /\ deferred'[i].blocks \cap free' = {}
               /\ \A r \in Reqs : deferred'[i].blocks \cap held'[r] = {}
    <3>1. deferred'[i] = deferred[i + k] /\ i + k \in DOMAIN deferred /\ i + k > k
      BY <1>5, <1>6
    <3>2. ASSUME NEW j \in 1..k
          PROVE  deferred[i + k].blocks \cap deferred[j].blocks = {}
      <4>1. j \in DOMAIN deferred /\ i + k # j
        BY <1>6, <2>0, <3>1
      <4> QED
        BY <3>1, <4>1 DEF Fenced, OnePlace
    <3>3. /\ deferred[i + k].blocks \cap free = {}
          /\ \A r \in Reqs : deferred[i + k].blocks \cap held[r] = {}
      BY <3>1 DEF Fenced, OnePlace
    <3>4. deferred[i + k].blocks \cap free' = {}
      <4>1. \A b \in free' : b \in free \/ \E j \in 1..k : b \in deferred[j].blocks
        BY <1>1
      <4> QED
        BY <3>2, <3>3, <4>1
    <3> QED
      BY <1>2, <3>1, <3>3, <3>4
  <2>4. ASSUME NEW i \in DOMAIN deferred', NEW j \in DOMAIN deferred', i # j
        PROVE  deferred'[i].blocks \cap deferred'[j].blocks = {}
    <3>1. /\ deferred'[i] = deferred[i + k] /\ i + k \in DOMAIN deferred
          /\ deferred'[j] = deferred[j + k] /\ j + k \in DOMAIN deferred
          /\ i + k # j + k
      BY <1>5, <1>6, <2>4
    <3> QED
      BY <3>1 DEF Fenced, OnePlace
  <2> QED
    BY <2>1, <2>2, <2>3, <2>4 DEF OnePlace
<1>14. DueInOrder'
  <2>1. ASSUME NEW i \in DOMAIN steps'
        PROVE  /\ processed' < steps'[i].due /\ steps'[i].due <= schedSeq' + 1
               /\ steps'[i].numbered => steps'[i].due <= schedSeq'
    <3>1. steps'[i] = steps[i + 1] /\ i + 1 \in 2..n /\ i + 1 \in DOMAIN steps
      BY <1>4
    <3> QED
      BY <1>2, <1>9, <3>1 DEF Fenced, DueInOrder
  <2>2. ASSUME NEW i \in DOMAIN steps', NEW j \in DOMAIN steps', i < j
        PROVE  /\ steps'[i].due <= steps'[j].due
               /\ steps'[i].numbered => steps'[i].due < steps'[j].due
    <3>1. /\ steps'[i] = steps[i + 1] /\ i + 1 \in DOMAIN steps
          /\ steps'[j] = steps[j + 1] /\ j + 1 \in DOMAIN steps
          /\ i + 1 < j + 1
      BY <1>4, <2>2
    <3> QED
      BY <3>1 DEF Fenced, DueInOrder
  <2> QED
    BY <1>2, <1>11, <2>1, <2>2 DEF DueInOrder
<1>15. UsesFenced'
  <2>1. ASSUME NEW i \in DOMAIN steps', NEW b \in steps'[i].uses
        PROVE  \/ \E r \in Reqs : b \in held'[r] /\ lastSeq'[r] >= steps'[i].due
               \/ \E j \in DOMAIN deferred' :
                    b \in deferred'[j].blocks /\ deferred'[j].fence >= steps'[i].due
    <3>1. steps'[i] = steps[i + 1] /\ i + 1 \in 2..n /\ i + 1 \in DOMAIN steps
      BY <1>4
    <3>2. \/ \E r \in Reqs : b \in held[r] /\ lastSeq[r] >= steps[i + 1].due
          \/ \E j \in DOMAIN deferred :
               b \in deferred[j].blocks /\ deferred[j].fence >= steps[i + 1].due
      BY <2>1, <3>1 DEF Fenced, UsesFenced
    <3>3. ASSUME NEW j \in DOMAIN deferred,
                 b \in deferred[j].blocks, deferred[j].fence >= steps[i + 1].due
          PROVE  \E h \in DOMAIN deferred' :
                   b \in deferred'[h].blocks /\ deferred'[h].fence >= steps'[i].due
      <4>1. steps[i + 1].due \in Nat /\ deferred[j].fence \in Nat
        BY <3>1, DequeElements
      <4>2. j \in Nat /\ j > k
        BY <1>6, <1>8, <1>9, <1>10, <3>1, <3>3, <4>1
      <4>3. j - k \in DOMAIN deferred' /\ deferred'[j - k] = deferred[j]
        <5>1. j - k \in 1..(m - k)
          BY <1>5, <4>2
        <5>2. deferred'[j - k] = deferred[(j - k) + k] /\ (j - k) + k = j
          BY <1>5, <1>6, <4>2, <5>1
        <5> QED
          BY <1>5, <5>1, <5>2
      <4> QED
        BY <3>1, <3>3, <4>3
    <3> QED
      BY <1>2, <3>1, <3>2, <3>3
  <2> QED
    BY <1>2, <2>1 DEF Fenced, UsesFenced
<1> QED
  BY <1>12, <1>13, <1>14, <1>15 DEF Fenced

-----------------------------------------------------------------------------
LEMMA FenceStep == TypeOK /\ Fenced /\ [Next]_vars => TypeOK' /\ Fenced'
<1> SUFFICES ASSUME TypeOK, Fenced, [Next]_vars PROVE TypeOK' /\ Fenced'
  OBVIOUS
<1>1. CASE UNCHANGED vars
  BY <1>1 DEF vars, TypeOK, Fenced, OnePlace, DueInOrder, UsesFenced
<1>2. ASSUME NEW batch \in SUBSET Reqs, NEW new \in [Reqs -> SUBSET free],
             NEW copied \in IF Copies THEN SUBSET free ELSE {{}},
             Schedule(batch, new, copied)
      PROVE  TypeOK' /\ Fenced'
  <2>1. copied \in SUBSET free
    OBVIOUS
  <2> QED
    BY <1>2, <2>1, ScheduleFences
<1>3. ASSUME NEW r \in Reqs, FreeRequestBlocks(r) PROVE TypeOK' /\ Fenced'
  BY <1>3, FreeFences
<1>4. ASSUME NEW r \in Reqs, FreeUnused(r) PROVE TypeOK' /\ Fenced'
  BY <1>4, FreeUnusedFences
<1>5. CASE UpdateFromOutput
  BY <1>5, UpdateFences
<1> QED
  BY <1>1, <1>2, <1>3, <1>4, <1>5 DEF Next

(***************************************************************************)
(* The fences hold in every reachable state: every block is in one place,  *)
(* and a block in use is held by a request scheduled since or waits for    *)
(* the step that uses it.                                                  *)
(***************************************************************************)
THEOREM FencesHold == Spec => []FenceInv
<1>1. TypeOK /\ Fenced => FenceInv
  BY PoolIsUnused DEF FenceInv, Fenced
<1> QED
  BY <1>1, FenceInit, FenceStep, PTL DEF Spec

(***************************************************************************)
(* No step in flight uses a block of the pool (_free_request_blocks,       *)
(* _free_cow_retained_blocks, _drain_deferred_frees).                      *)
(***************************************************************************)
THEOREM PoolNeverUsed == Spec => []PoolUnused
<1>1. FenceInv => PoolUnused
  BY DEF FenceInv
<1> QED
  BY <1>1, FencesHold, PTL

-----------------------------------------------------------------------------
(* The loads.                                                              *)

Statuses == {"waiting", "remote", "running", "finished", "gone"}

LoadTypes ==
  /\ status \in [Reqs -> Statuses]
  /\ writes \in [Reqs -> SUBSET Blocks]
  /\ receiving \subseteq Reqs /\ sending \subseteq Reqs
  /\ recvd \subseteq Reqs /\ ending \subseteq Reqs

\* Where a request can be in the connector's books.
Books ==
  /\ \A r \in receiving :
       status[r] \in {"remote", "finished"} /\ r \notin recvd \cup sending \cup ending
  /\ \A r \in Reqs : writes[r] # {} => r \in receiving
  /\ \A r \in sending : status[r] = "finished" /\ r \notin ending
  /\ \A r \in recvd : status[r] \notin {"waiting", "running"}
  /\ \A r \in ending : status[r] \in {"waiting", "finished"}

Loading(r) == status[r] = "remote" \/ r \in receiving

\* The blocks of a load are its own.
Alone ==
  /\ \A r \in Reqs : writes[r] \subseteq held[r]
  /\ \A r \in Reqs : Loading(r) => \A i \in DOMAIN steps : steps[i].uses \cap held[r] = {}
  /\ \A r \in Reqs : status[r] = "waiting" /\ computed[r] = 0 /\ r \notin ending
       => held[r] = {}

LoadInv == TypeOK /\ Fenced /\ LoadTypes /\ Books /\ Alone

LEMMA LoadInvInit == LoadInit => LoadInv
BY FenceInit DEF LoadInit, Init, LoadInv, LoadTypes, Statuses, Books, Alone, Loading

-----------------------------------------------------------------------------
(* The step of DeferredFree under each action.                             *)

\* What ScheduleSome schedules.
LEMMA Scheduled ==
  ASSUME NEW batch \in SUBSET Reqs, NEW loads \in SUBSET Reqs, batch \cap loads = {},
         ScheduleSome(batch, loads)
  PROVE  \E new \in [Reqs -> SUBSET free], copied \in SUBSET free :
           /\ copied # {} => Copies
           /\ \A r \in Reqs \ (batch \cup loads) : new[r] = {}
           /\ ScheduleLoads(batch, loads, new, copied)
<1>1. PICK got \in [batch \cup loads -> SUBSET free],
           copied \in {{}} \cup (IF MayCopy(batch) THEN {{b} : b \in free} ELSE {}) :
        ScheduleLoads(batch, loads,
          [r \in Reqs |-> IF r \in DOMAIN got THEN got[r] ELSE {}], copied)
  BY DEF ScheduleSome
<1> DEFINE new == [r \in Reqs |-> IF r \in DOMAIN got THEN got[r] ELSE {}]
<1>2. new \in [Reqs -> SUBSET free]
  OBVIOUS
<1>3. copied \in SUBSET free /\ (copied # {} => Copies)
  BY DEF MayCopy
<1>4. \A r \in Reqs \ (batch \cup loads) : new[r] = {}
  OBVIOUS
<1> QED
  BY <1>1, <1>2, <1>3, <1>4

\* Every action is a step of DeferredFree, or leaves its state alone.
LEMMA LoadStepFences ==
  LoadInv /\ [LoadNext]_loadVars => [Next]_vars
<1> SUFFICES ASSUME LoadInv, [LoadNext]_loadVars PROVE [Next]_vars
  OBVIOUS
<1>1. CASE UNCHANGED loadVars
  BY <1>1 DEF loadVars
<1>2. ASSUME NEW batch \in SUBSET Reqs, NEW loads \in SUBSET Reqs,
             batch \cap loads = {}, ScheduleSome(batch, loads)
      PROVE  Next
  <2>1. PICK new \in [Reqs -> SUBSET free], copied \in SUBSET free :
          (copied # {} => Copies) /\ ScheduleLoads(batch, loads, new, copied)
    BY <1>2, Scheduled
  <2>2. Schedule(batch, new, copied)
    BY <2>1 DEF ScheduleLoads
  <2>3. copied \in IF Copies THEN SUBSET free ELSE {{}}
    BY <2>1
  <2> QED
    BY <2>2, <2>3 DEF Next
<1>3. ASSUME NEW r \in Reqs, PromoteLoaded(r) PROVE [Next]_vars
  <2>1. CASE computed[r] = 0
    <3>1. FreeAtOnce(r) /\ status[r] = "remote"
      BY <1>3, <2>1 DEF PromoteLoaded
    <3>2. FreeUnused(r)
      BY <3>1 DEF FreeUnused, LoadInv, Alone, Loading
    <3> QED
      BY <3>2 DEF Next
  <2>2. CASE computed[r] # 0
    BY <1>3, <2>2 DEF PromoteLoaded
  <2> QED
    BY <2>1, <2>2
<1>4. ASSUME NEW r \in Reqs, Release(r) PROVE [Next]_vars
  BY <1>4 DEF Release, Next
<1>5. ASSUME NEW r \in Reqs, Abort(r) \/ Preempt(r) PROVE UNCHANGED vars
  BY <1>5 DEF Abort, Preempt
<1>6. ASSUME NEW r \in Reqs, NEW b, Write(r, b) \/ Fail(r, b) PROVE UNCHANGED vars
  BY <1>6 DEF Write, Fail
<1>7. ASSUME NEW d, NEW i, NEW s, NEW e, UpdateTransfers(d, i, s, e) PROVE Next
  BY <1>7 DEF UpdateTransfers, Next
<1> QED
  BY <1>1, <1>2, <1>3, <1>4, <1>5, <1>6, <1>7 DEF LoadNext

-----------------------------------------------------------------------------
(* The connector's books.                                                  *)

LEMMA ScheduleBooks ==
  ASSUME LoadInv, NEW batch \in SUBSET Reqs, NEW loads \in SUBSET Reqs,
         batch \cap loads = {}, NEW new \in [Reqs -> SUBSET free], NEW copied,
         Admits(batch, loads), ScheduleLoads(batch, loads, new, copied)
  PROVE  LoadTypes' /\ Books'
<1>1. /\ ending = {} /\ ending' = {}
      /\ \A r \in batch : status[r] \in {"running", "waiting"}
      /\ \A r \in loads : status[r] = "waiting"
  BY DEF Admits, Admissible, ScheduleLoads
<1>2. /\ status' = [r \in Reqs |-> IF r \in batch THEN "running"
                                    ELSE IF r \in loads THEN "remote" ELSE status[r]]
      /\ receiving' = receiving \cup loads
      /\ writes' = [r \in Reqs |-> IF r \in loads THEN new[r] ELSE writes[r]]
      /\ recvd' = recvd /\ sending' = sending
  BY DEF ScheduleLoads
<1>3. LoadTypes /\ Books /\ free \subseteq Blocks
  BY DEF LoadInv, TypeOK
<1>4. LoadTypes'
  BY <1>1, <1>2, <1>3 DEF LoadTypes, Statuses
<1>5. \A r \in Reqs : /\ r \in batch => status'[r] = "running"
                      /\ r \in loads => status'[r] = "remote"
                      /\ r \notin batch \cup loads => status'[r] = status[r]
  BY <1>2
<1>6. Books'
  BY <1>1, <1>2, <1>3, <1>5 DEF Books, LoadTypes
<1> QED
  BY <1>4, <1>6

LEMMA UpdateBooks ==
  ASSUME LoadInv, NEW done \in SUBSET receiving, NEW invalid, NEW sent \in SUBSET sending,
         NEW sends \in SUBSET Reqs, UpdateTransfers(done, invalid, sent, sends)
  PROVE  LoadTypes' /\ Books'
<1> DEFINE hit    == {r \in Reqs : status[r] = "remote"
                         /\ InTable(r, computed[r]) \cap invalid # {}}
           errors == IF policy = "recompute" THEN {} ELSE hit
           stops  == {r \in Reqs : Stops(r)}
           ended  == errors \cup stops
<1>1. /\ ending = {}
      /\ \A r \in done : writes[r] = {}
      /\ sends \subseteq stops
      /\ status' = [r \in Reqs |-> IF r \in ended THEN "finished" ELSE status[r]]
      /\ recvd' = recvd \cup {r \in done : status[r] = "remote" /\ r \notin errors}
      /\ ending' = (stops \ sends) \cup sent \cup FreedBy(done, errors)
      /\ receiving' = receiving \ done
      /\ sending' = (sending \ sent) \cup sends
      /\ writes' = writes
  BY DEF UpdateTransfers
<1>2. \A r \in stops : status[r] \in {"waiting", "running"}
  BY DEF Stops
<1>3. \A r \in errors : status[r] = "remote"
  OBVIOUS
<1>4. /\ FreedBy(done, errors) \subseteq done
      /\ \A r \in FreedBy(done, errors) : status[r] = "finished" \/ r \in errors
  BY DEF FreedBy
<1>5. LoadTypes /\ Books
  BY DEF LoadInv
<1>6. errors \subseteq Reqs /\ stops \subseteq Reqs
  OBVIOUS
<1> HIDE DEF errors, stops
<1>7. LoadTypes'
  BY <1>1, <1>4, <1>5, <1>6 DEF LoadTypes, Statuses
<1>8. \A r \in Reqs : /\ r \in errors \cup stops => status'[r] = "finished"
                      /\ r \notin errors \cup stops => status'[r] = status[r]
  BY <1>1
<1>9. \A r \in receiving' :
        status'[r] \in {"remote", "finished"} /\ r \notin recvd' \cup sending' \cup ending'
  BY <1>1, <1>2, <1>3, <1>4, <1>5, <1>8 DEF Books, LoadTypes
<1>10. \A r \in Reqs : writes'[r] # {} => r \in receiving'
  BY <1>1, <1>5 DEF Books
<1>11. \A r \in sending' : status'[r] = "finished" /\ r \notin ending'
  BY <1>1, <1>2, <1>3, <1>4, <1>5, <1>8 DEF Books, LoadTypes
<1>12. \A r \in recvd' : status'[r] \notin {"waiting", "running"}
  BY <1>1, <1>2, <1>3, <1>5, <1>8 DEF Books, LoadTypes
<1>13. \A r \in ending' : status'[r] \in {"waiting", "finished"}
  BY <1>1, <1>2, <1>3, <1>4, <1>5, <1>6, <1>8 DEF Books, LoadTypes
<1> QED
  BY <1>7, <1>9, <1>10, <1>11, <1>12, <1>13 DEF Books

LEMMA BooksStep == LoadInv /\ [LoadNext]_loadVars => LoadTypes' /\ Books'
<1> SUFFICES ASSUME LoadInv, [LoadNext]_loadVars PROVE LoadTypes' /\ Books'
  OBVIOUS
<1> USE DEF Statuses
<1>0. LoadTypes /\ Books
  BY DEF LoadInv
<1>1. CASE UNCHANGED loadVars
  BY <1>0, <1>1 DEF loadVars, kvVars, xferVars, LoadTypes, Books
<1>2. ASSUME NEW batch \in SUBSET Reqs, NEW loads \in SUBSET Reqs,
             batch \cap loads = {}, ScheduleSome(batch, loads)
      PROVE  LoadTypes' /\ Books'
  BY <1>2, Scheduled, ScheduleBooks DEF ScheduleSome
<1>3. ASSUME NEW r \in Reqs, PromoteLoaded(r) PROVE LoadTypes' /\ Books'
  BY <1>0, <1>3 DEF PromoteLoaded, LoadTypes, Books, xferVars
<1>4. ASSUME NEW r \in Reqs, Release(r) PROVE LoadTypes' /\ Books'
  <2>1. /\ r \in ending /\ ending' = ending \ {r}
        /\ status' = [status EXCEPT ![r] = IF @ = "finished" THEN "gone" ELSE @]
        /\ writes' = writes /\ receiving' = receiving /\ sending' = sending
        /\ recvd' = recvd
    BY <1>4 DEF Release, xferVars
  <2> QED
    BY <1>0, <2>1 DEF LoadTypes, Books
<1>5. ASSUME NEW r \in Reqs, Abort(r) PROVE LoadTypes' /\ Books'
  BY <1>0, <1>5 DEF Abort, DelaysFree, LoadTypes, Books, xferVars
<1>6. ASSUME NEW r \in Reqs, Preempt(r) PROVE LoadTypes' /\ Books'
  BY <1>0, <1>6 DEF Preempt, LoadTypes, Books, xferVars
<1>7. ASSUME NEW r \in Reqs, NEW b, Write(r, b) \/ Fail(r, b) PROVE LoadTypes' /\ Books'
  BY <1>0, <1>7 DEF Write, Fail, LoadTypes, Books, kvVars
<1>8. ASSUME NEW d \in SUBSET receiving, NEW i, NEW s \in SUBSET sending,
             NEW e \in SUBSET Reqs, UpdateTransfers(d, i, s, e)
      PROVE  LoadTypes' /\ Books'
  BY <1>8, UpdateBooks
<1> QED
  BY <1>1, <1>2, <1>3, <1>4, <1>5, <1>6, <1>7, <1>8 DEF LoadNext

-----------------------------------------------------------------------------
(* The blocks of a load.                                                   *)

LEMMA ScheduleAlone ==
  ASSUME LoadInv, PoolUnused,
         NEW batch \in SUBSET Reqs, NEW loads \in SUBSET Reqs,
         batch \cap loads = {}, NEW new \in [Reqs -> SUBSET free],
         NEW copied \in SUBSET free,
         \A r \in Reqs \ (batch \cup loads) : new[r] = {},
         Admits(batch, loads), ScheduleLoads(batch, loads, new, copied)
  PROVE  Alone'
<1> DEFINE st == [numbered |-> batch # {}, due |-> schedSeq + 1,
                  uses |-> copied \cup UNION {held[r] \cup new[r] : r \in batch}]
<1>1. /\ ending = {} /\ ending' = {}
      /\ \A r \in batch : status[r] \in {"running", "waiting"}
      /\ \A r \in loads : status[r] = "waiting" /\ computed[r] = 0
  BY DEF Admits, Admissible, LoadsAsync, ScheduleLoads
<1>2. /\ \A r \in Reqs : /\ r \in batch => status'[r] = "running"
                         /\ r \in loads => status'[r] = "remote"
                         /\ r \notin batch \cup loads =>
                              status'[r] = status[r] /\ computed'[r] = computed[r]
      /\ receiving' = receiving \cup loads
      /\ writes' = [r \in Reqs |-> IF r \in loads THEN new[r] ELSE writes[r]]
  BY DEF ScheduleLoads
<1>3. /\ held' = [r \in Reqs |-> held[r] \cup new[r]]
      /\ steps' = Append(steps, st)
      /\ \A r, s \in Reqs : r # s => new[r] \cap new[s] = {}
      /\ \A r \in Reqs : copied \cap new[r] = {}
  BY DEF ScheduleLoads, Schedule
<1>4. /\ LoadTypes /\ Books /\ Alone /\ TypeOK
      /\ \A r \in Reqs : held[r] \cap free = {}
      /\ \A r, s \in Reqs : r # s => held[r] \cap held[s] = {}
  BY DEF LoadInv, Fenced, OnePlace
<1>5. \A r \in Reqs : writes'[r] \subseteq held'[r]
  BY <1>2, <1>3, <1>4 DEF Alone
<1>6. ASSUME NEW r \in Reqs, Loading(r)', NEW i \in DOMAIN steps'
      PROVE  steps'[i].uses \cap held'[r] = {}
  <2>1. r \notin batch
    BY <1>1, <1>2, <1>4, <1>6 DEF Loading, Books
  <2>2. held'[r] = held[r] \cup new[r] /\ new[r] \subseteq free
    BY <1>3
  <2>3. CASE i \in DOMAIN steps
    <3>1. steps'[i] = steps[i]
      BY <1>3, <1>4, <2>3 DEF TypeOK
    <3>2. steps[i].uses \cap new[r] = {}
      BY <2>2, <2>3 DEF PoolUnused
    <3>3. steps[i].uses \cap held[r] = {}
      BY <1>1, <1>2, <1>4, <1>6, <2>1, <2>3 DEF Loading, Alone
    <3> QED
      BY <2>2, <3>1, <3>2, <3>3
  <2>4. CASE i \notin DOMAIN steps
    <3>1. steps'[i] = st
      <4>1. steps \in Seq(Step) /\ DOMAIN steps' = DOMAIN Append(steps, st)
        BY <1>3, <1>4 DEF TypeOK
      <4>2. i = Len(steps) + 1
        BY <1>6, <2>4, <4>1
      <4> QED
        BY <1>3, <4>1, <4>2
    <3>2. \A s \in batch : (held[s] \cup new[s]) \cap (held[r] \cup new[r]) = {}
      BY <1>3, <1>4, <2>1
    <3>3. copied \cap (held[r] \cup new[r]) = {}
      BY <1>3, <1>4
    <3> QED
      BY <2>2, <3>1, <3>2, <3>3
  <2> QED
    BY <2>3, <2>4
<1>7. \A r \in Reqs : status'[r] = "waiting" /\ computed'[r] = 0 /\ r \notin ending'
        => held'[r] = {}
  BY <1>1, <1>2, <1>3, <1>4 DEF Alone
<1> QED
  BY <1>5, <1>6, <1>7 DEF Alone

\* Blocks that are given up were not being loaded.
LEMMA FreedAlone ==
  ASSUME LoadInv, NEW r \in Reqs, r \notin receiving,
         held' = [held EXCEPT ![r] = {}], steps' = steps,
         writes' = writes, receiving' = receiving, computed' = computed,
         \A s \in Reqs : s # r => status'[s] = status[s],
         \A s \in Reqs : s # r => (s \in ending' <=> s \in ending),
         status'[r] # "remote"
  PROVE  Alone'
<1>1. /\ held'[r] = {} /\ writes'[r] = {} /\ ~Loading(r)'
  BY DEF LoadInv, TypeOK, LoadTypes, Books, Loading
<1>2. \A s \in Reqs : s # r => held'[s] = held[s] /\ (Loading(s)' => Loading(s))
  BY DEF LoadInv, TypeOK, Loading
<1>3. Alone
  BY DEF LoadInv
<1>4. \A s \in Reqs : writes'[s] \subseteq held'[s]
  BY <1>1, <1>2, <1>3 DEF Alone
<1>5. \A s \in Reqs : Loading(s)' => \A i \in DOMAIN steps' : steps'[i].uses \cap held'[s] = {}
  BY <1>1, <1>2, <1>3 DEF Alone
<1>6. \A s \in Reqs : status'[s] = "waiting" /\ computed'[s] = 0 /\ s \notin ending'
        => held'[s] = {}
  BY <1>1, <1>2, <1>3 DEF Alone
<1> QED
  BY <1>4, <1>5, <1>6 DEF Alone

LEMMA AloneStep == LoadInv /\ [LoadNext]_loadVars => Alone'
<1> SUFFICES ASSUME LoadInv, [LoadNext]_loadVars PROVE Alone'
  OBVIOUS
<1>0. TypeOK /\ LoadTypes /\ Books /\ Alone /\ PoolUnused
  BY PoolIsUnused DEF LoadInv
<1>1. CASE UNCHANGED loadVars
  BY <1>0, <1>1 DEF loadVars, vars, kvVars, xferVars, Alone, Loading
<1>2. ASSUME NEW batch \in SUBSET Reqs, NEW loads \in SUBSET Reqs,
             batch \cap loads = {}, ScheduleSome(batch, loads)
      PROVE  Alone'
  BY <1>0, <1>2, Scheduled, ScheduleAlone DEF ScheduleSome
<1>3. ASSUME NEW r \in Reqs, PromoteLoaded(r) PROVE Alone'
  <2>1. /\ r \in recvd /\ status' = [status EXCEPT ![r] = "waiting"]
        /\ writes' = writes /\ receiving' = receiving /\ ending' = ending
        /\ computed' = computed
    BY <1>3 DEF PromoteLoaded, xferVars
  <2>2. r \notin receiving
    BY <1>0, <2>1 DEF Books
  <2>3. CASE computed[r] = 0
    <3>1. held' = [held EXCEPT ![r] = {}] /\ steps' = steps
      BY <1>3, <2>3 DEF PromoteLoaded, FreeAtOnce
    <3> QED
      BY <1>0, <2>1, <2>2, <3>1, FreedAlone DEF LoadTypes
  <2>4. CASE computed[r] # 0
    <3>1. held' = held /\ steps' = steps
      BY <1>3, <2>4 DEF PromoteLoaded, vars
    <3> QED
      BY <1>0, <2>1, <2>4, <3>1 DEF Alone, Loading, LoadTypes
  <2> QED
    BY <2>3, <2>4
<1>4. ASSUME NEW r \in Reqs, Release(r) PROVE Alone'
  <2>1. /\ r \in ending /\ ending' = ending \ {r}
        /\ status' = [status EXCEPT ![r] = IF @ = "finished" THEN "gone" ELSE @]
        /\ writes' = writes /\ receiving' = receiving /\ computed' = computed
    BY <1>4 DEF Release, xferVars
  <2>2. r \notin receiving /\ status[r] \in {"waiting", "finished"}
    BY <1>0, <2>1 DEF Books
  <2>3. held' = [held EXCEPT ![r] = {}] /\ steps' = steps
    BY <1>0, <1>4 DEF Release, FreeRequestBlocks, vars, TypeOK
  <2> QED
    BY <1>0, <2>1, <2>2, <2>3, FreedAlone DEF LoadTypes
<1>5. ASSUME NEW r \in Reqs, Abort(r) PROVE Alone'
  BY <1>0, <1>5 DEF Abort, Alone, Loading, LoadTypes, vars, xferVars
<1>6. ASSUME NEW r \in Reqs, Preempt(r) PROVE Alone'
  BY <1>0, <1>6 DEF Preempt, Alone, Loading, LoadTypes, vars, xferVars
<1>7. ASSUME NEW r \in Reqs, NEW b, Write(r, b) \/ Fail(r, b) PROVE Alone'
  BY <1>0, <1>7 DEF Write, Fail, Alone, Loading, LoadTypes, vars, kvVars
<1>8. ASSUME NEW d \in SUBSET receiving, NEW i, NEW s \in SUBSET sending,
             NEW e \in SUBSET Reqs, UpdateTransfers(d, i, s, e)
      PROVE  Alone'
  <2>1. /\ steps # <<>> /\ steps' = Tail(steps) /\ held' = held
        /\ writes' = writes /\ receiving' = receiving \ d
    BY <1>8 DEF UpdateTransfers, UpdateFromOutput
  <2>2. \A r \in Reqs : status'[r] = status[r] \/ status'[r] = "finished"
    BY <1>8 DEF UpdateTransfers
  <2>3. \A r \in Reqs : status'[r] = "waiting" /\ computed'[r] = 0
          => computed[r] = 0
    BY <1>8 DEF UpdateTransfers
  <2>4. ending = {}
    BY <1>8 DEF UpdateTransfers
  <2>5. \A j \in DOMAIN steps' : j + 1 \in DOMAIN steps /\ steps'[j] = steps[j + 1]
    BY <1>0, <2>1 DEF TypeOK
  <2>6. \A r \in Reqs : writes'[r] \subseteq held'[r]
    BY <1>0, <2>1 DEF Alone
  <2>7. \A r \in Reqs : Loading(r)' => Loading(r)
    BY <2>1, <2>2 DEF Loading
  <2>8. \A r \in Reqs : Loading(r)' =>
          \A j \in DOMAIN steps' : steps'[j].uses \cap held'[r] = {}
    BY <1>0, <2>1, <2>5, <2>7 DEF Alone
  <2>9. \A r \in Reqs : status'[r] = "waiting" /\ computed'[r] = 0 => held'[r] = {}
    BY <1>0, <2>1, <2>2, <2>3, <2>4 DEF Alone
  <2> QED
    BY <2>6, <2>8, <2>9 DEF Alone
<1> QED
  BY <1>1, <1>2, <1>3, <1>4, <1>5, <1>6, <1>7, <1>8 DEF LoadNext

-----------------------------------------------------------------------------
LEMMA LoadInvStep == LoadInv /\ [LoadNext]_loadVars => LoadInv'
<1> SUFFICES ASSUME LoadInv, [LoadNext]_loadVars PROVE LoadInv'
  OBVIOUS
<1>1. TypeOK' /\ Fenced'
  BY LoadStepFences, FenceStep DEF LoadInv
<1>2. LoadTypes' /\ Books'
  BY BooksStep
<1>3. Alone'
  BY AloneStep
<1> QED
  BY <1>1, <1>2, <1>3 DEF LoadInv

LEMMA LoadInvHolds == LoadSpec => []LoadInv
BY LoadInvInit, LoadInvStep, PTL DEF LoadSpec

(***************************************************************************)
(* schedule() and update_from_output() with a connector use the block pool *)
(* only as DeferredFree does: KVLoad implements its safety part.           *)
(***************************************************************************)
THEOREM LoadsImplementFences == LoadSpec => Init /\ [][Next]_vars
<1>1. LoadInit => Init
  BY DEF LoadInit
<1> QED
  BY <1>1, LoadInvHolds, LoadStepFences, PTL DEF LoadSpec

(***************************************************************************)
(* Loads, failures and aborts keep every fence of _free_request_blocks:    *)
(* no step in flight uses a block of the pool.                             *)
(***************************************************************************)
THEOREM LoadsKeepFences == LoadSpec => []FenceInv
<1>1. LoadInv => FenceInv
  BY PoolIsUnused DEF LoadInv, FenceInv, Fenced
<1> QED
  BY <1>1, LoadInvHolds, PTL

(***************************************************************************)
(* A connector writes, also for a request that was aborted since, only     *)
(* into blocks of that request that no step in flight uses                 *)
(* (finish_requests, _update_from_kv_xfer_finished).                       *)
(***************************************************************************)
THEOREM LoadsAlwaysAlone == LoadSpec => []LoadsAlone
<1>1. LoadInv => LoadsAlone
  BY DEF LoadInv, Books, Alone, Loading, LoadsAlone
<1> QED
  BY <1>1, LoadInvHolds, PTL
-----------------------------------------------------------------------------
(* No block is lost.                                                       *)

\* A block is in the pool, with a request or behind a fence.
Placed ==
  \A b \in Blocks :
    \/ b \in free
    \/ \E r \in Reqs : b \in held[r]
    \/ \E j \in DOMAIN deferred : b \in deferred[j].blocks

LEMMA PlacedStep == TypeOK /\ Placed /\ [Next]_vars => Placed'
<1> SUFFICES ASSUME TypeOK, Placed, [Next]_vars,
                    NEW b \in Blocks
             PROVE  \/ b \in free'
                    \/ \E r \in Reqs : b \in held'[r]
                    \/ \E j \in DOMAIN deferred' : b \in deferred'[j].blocks
  BY DEF Placed
<1>1. \/ b \in free
      \/ \E r \in Reqs : b \in held[r]
      \/ \E j \in DOMAIN deferred : b \in deferred[j].blocks
  BY DEF Placed
<1>2. held \in [Reqs -> SUBSET Blocks] /\ deferred \in Seq(Entry) /\ schedSeq \in Nat
  BY DEF TypeOK
<1>3. CASE UNCHANGED vars
  BY <1>1, <1>3 DEF vars
<1>4. ASSUME NEW batch \in SUBSET Reqs, NEW new \in [Reqs -> SUBSET free],
             NEW copied \in IF Copies THEN SUBSET free ELSE {{}},
             Schedule(batch, new, copied)
      PROVE  \/ b \in free'
             \/ \E r \in Reqs : b \in held'[r]
             \/ \E j \in DOMAIN deferred' : b \in deferred'[j].blocks
  <2> DEFINE en == [fence |-> CopyFence, blocks |-> copied]
  <2>1. /\ held' = [r \in Reqs |-> held[r] \cup new[r]]
        /\ free' = free \ ((UNION {new[r] : r \in Reqs}) \cup copied)
        /\ deferred' = IF copied = {} THEN deferred ELSE Append(deferred, en)
    BY <1>4 DEF Schedule
  <2>2. copied # {} => /\ Len(deferred) + 1 \in DOMAIN deferred'
                       /\ deferred'[Len(deferred) + 1] = en
    BY <1>2, <2>1
  <2>3. \A j \in DOMAIN deferred : j \in DOMAIN deferred' /\ deferred'[j] = deferred[j]
    BY <1>2, <2>1
  <2>4. en.blocks = copied
    OBVIOUS
  <2> HIDE DEF en
  <2>5. CASE b \in copied
    BY <2>2, <2>4, <2>5
  <2>6. CASE \E r \in Reqs : b \in new[r]
    BY <2>1, <2>6
  <2> QED
    BY <1>1, <2>1, <2>3, <2>5, <2>6
<1>5. ASSUME NEW r \in Reqs, FreeRequestBlocks(r)
      PROVE  \/ b \in free'
             \/ \E q \in Reqs : b \in held'[q]
             \/ \E j \in DOMAIN deferred' : b \in deferred'[j].blocks
  <2> DEFINE en == [fence |-> schedSeq, blocks |-> held[r]]
  <2>1. /\ held' = [held EXCEPT ![r] = {}]
        /\ \/ deferred' = Append(deferred, en) /\ free' = free
           \/ free' = free \cup held[r] /\ deferred' = deferred
    BY <1>5 DEF FreeRequestBlocks
  <2>2. en.blocks = held[r]
    OBVIOUS
  <2> HIDE DEF en
  <2>3. CASE deferred' = Append(deferred, en) /\ free' = free
    <3>1. /\ Len(deferred) + 1 \in DOMAIN deferred'
          /\ deferred'[Len(deferred) + 1] = en
          /\ \A j \in DOMAIN deferred : j \in DOMAIN deferred' /\ deferred'[j] = deferred[j]
      BY <1>2, <2>3
    <3> QED
      BY <1>1, <1>2, <2>1, <2>2, <2>3, <3>1
  <2>4. CASE free' = free \cup held[r] /\ deferred' = deferred
    BY <1>1, <1>2, <2>1, <2>4
  <2> QED
    BY <2>1, <2>3, <2>4
<1>6. ASSUME NEW r \in Reqs, FreeUnused(r)
      PROVE  \/ b \in free'
             \/ \E q \in Reqs : b \in held'[q]
             \/ \E j \in DOMAIN deferred' : b \in deferred'[j].blocks
  BY <1>1, <1>2, <1>6 DEF FreeUnused, FreeAtOnce
<1>7. CASE UpdateFromOutput
  <2>1. PICK k \in 0..Len(deferred) :
          /\ deferred' = SubSeq(deferred, k + 1, Len(deferred))
          /\ free' = free \cup UNION {deferred[j].blocks : j \in 1..k}
    BY <1>7 DEF UpdateFromOutput
  <2>2. held' = held
    BY <1>7 DEF UpdateFromOutput
  <2>3. ASSUME NEW j \in DOMAIN deferred, b \in deferred[j].blocks
        PROVE  b \in free' \/ \E i \in DOMAIN deferred' : b \in deferred'[i].blocks
    <3>1. CASE j \in 1..k
      BY <2>1, <2>3, <3>1
    <3>2. CASE j \notin 1..k
      <4>1. j \in Nat /\ j > k /\ j <= Len(deferred) /\ k \in Nat /\ Len(deferred) \in Nat
        BY <1>2, <2>1, <3>2
      <4>2. DOMAIN deferred' = 1..(Len(deferred) - k)
        BY <1>2, <2>1, <4>1
      <4>3. j - k \in DOMAIN deferred'
        BY <4>1, <4>2
      <4>4. deferred'[j - k] = deferred[(j - k) + k]
        BY <1>2, <2>1, <4>1
      <4>5. (j - k) + k = j
        BY <4>1
      <4> QED
        BY <2>3, <4>3, <4>4, <4>5
    <3> QED
      BY <3>1, <3>2
  <2> QED
    BY <1>1, <2>1, <2>2, <2>3
<1> QED
  BY <1>3, <1>4, <1>5, <1>6, <1>7 DEF Next

\* A finite set as a sequence has its elements and their number.
LEMMA ListsSet ==
  ASSUME NEW S, IsFiniteSet(S)
  PROVE  /\ SetToSeq(S) \in Seq(S) /\ Len(SetToSeq(S)) = Cardinality(S)
         /\ Cardinality(S) \in Nat
         /\ \A x \in S : \E i \in 1..Cardinality(S) : SetToSeq(S)[i] = x
<1> DEFINE n == Cardinality(S)
           f == SetToSeq(S)
<1>1. n \in Nat /\ ExistsBijection(1..n, S)
  BY FS_CardinalityType
<1>2. \E g \in [1..n -> S] : IsInjective(g)
  <2>1. PICK g \in Bijection(1..n, S) : TRUE
    BY <1>1 DEF ExistsBijection
  <2> QED
    BY <2>1 DEF Bijection, Injection
<1>3. f \in [1..n -> S] /\ IsInjective(f)
  BY <1>2 DEF SetToSeq
<1>4. f \in Injection(1..n, S)
  BY <1>3 DEF Injection
<1>5. IsFiniteSet(1..n) /\ Cardinality(1..n) = n
  <2>1. 1 \in Int /\ n \in Int
    BY <1>1
  <2>2. /\ IsFiniteSet(1..n)
        /\ Cardinality(1..n) = IF 1 > n THEN 0 ELSE n - 1 + 1
    BY <2>1, FS_Interval
  <2> HIDE DEF n
  <2> QED
    BY <1>1, <2>2
<1>6. f \in Surjection(1..n, S)
  BY <1>4, <1>5, FS_Injection
<1>7. \A x \in S : \E i \in 1..n : f[i] = x
  BY <1>6 DEF Surjection
<1> HIDE DEF n, f
<1>8. f \in Seq(S) /\ Len(f) = n
  BY <1>1, <1>3
<1> QED
  BY <1>1, <1>7, <1>8 DEF n, f
-----------------------------------------------------------------------------
(* The tables, and what their blocks contain.                              *)

\* A request's table lists its blocks; ended requests keep them only for a
\* transfer, and a load is running or has been reported.
Listed ==
  /\ table \in [Reqs -> Seq(Blocks)] /\ computed \in [Reqs -> Nat]
  /\ \A r \in Reqs : held[r] = InTable(r, Len(table[r]))
  /\ \A r \in Reqs :
       /\ status[r] = "gone" => held[r] = {}
       /\ status[r] = "finished" => r \in receiving \cup sending \cup ending
       /\ status[r] = "remote" => r \in receiving \cup recvd

\* What is counted as computed of a request is in its blocks; of a load it is
\* there, still to be written, or failed and not reported.
Filled ==
  /\ cached \subseteq valid
  /\ \A r \in Reqs :
       /\ r \in ending /\ status[r] = "waiting" => computed[r] = 0
       /\ r \notin ending /\ status[r] \in {"waiting", "remote", "running"} =>
            computed[r] <= Len(table[r])
       /\ r \notin ending /\ status[r] \in {"waiting", "running"} =>
            InTable(r, computed[r]) \subseteq valid
       /\ r \in receiving /\ status[r] = "remote" =>
            InTable(r, computed[r]) \subseteq valid \cup writes[r] \cup bad
       /\ r \in recvd /\ status[r] = "remote" =>
            InTable(r, computed[r]) \subseteq valid

KeptInv == LoadInv /\ Placed /\ Listed /\ Filled

LEMMA KeptInit == LoadInit => KeptInv
<1> SUFFICES ASSUME LoadInit PROVE KeptInv
  OBVIOUS
<1>1. LoadInv
  BY LoadInvInit
<1>2. Placed
  BY DEF LoadInit, Init, Placed
<1>3. /\ table = [r \in Reqs |-> <<>>] /\ computed = [r \in Reqs |-> 0]
      /\ status = [r \in Reqs |-> "waiting"] /\ held = [r \in Reqs |-> {}]
      /\ cached = {} /\ ending = {} /\ receiving = {} /\ recvd = {}
  BY DEF LoadInit, Init
<1>4. \A r \in Reqs : table[r] = <<>> /\ Len(table[r]) = 0 /\ table[r] \in Seq(Blocks)
  <2>1. <<>> \in Seq(Blocks) /\ Len(<<>>) = 0
    OBVIOUS
  <2> QED
    BY <1>3, <2>1
<1>5. \A r \in Reqs : InTable(r, 0) = {}
  BY DEF InTable
<1>6. Listed
  BY <1>3, <1>4, <1>5 DEF Listed
<1>7. Filled
  BY <1>3, <1>4, <1>5 DEF Filled
<1> QED
  BY <1>1, <1>2, <1>6, <1>7 DEF KeptInv

\* Rows of a table: inside it, and of none.
LEMMA InTableFacts ==
  ASSUME Listed, NEW r \in Reqs
  PROVE  /\ InTable(r, 0) = {}
         /\ table[r] \in Seq(Blocks) /\ Len(table[r]) \in Nat /\ computed[r] \in Nat
         /\ held[r] = {} => table[r] = <<>>
         /\ computed[r] <= Len(table[r]) => InTable(r, computed[r]) \subseteq held[r]
<1>1. /\ table[r] \in Seq(Blocks) /\ Len(table[r]) \in Nat /\ computed[r] \in Nat
      /\ held[r] = InTable(r, Len(table[r]))
  BY DEF Listed
<1>2. ASSUME held[r] = {} PROVE table[r] = <<>>
  <2>1. \A i \in 1..Len(table[r]) : table[r][i] \in held[r]
    BY <1>1 DEF InTable
  <2>2. Len(table[r]) = 0
    BY <1>1, <1>2, <2>1
  <2> QED
    BY <1>1, <2>2
<1>3. InTable(r, 0) = {}
  BY DEF InTable
<1>4. ASSUME computed[r] <= Len(table[r])
      PROVE  InTable(r, computed[r]) \subseteq held[r]
  <2>1. \A i \in 1..computed[r] : i \in 1..Len(table[r])
    BY <1>1, <1>4
  <2> QED
    BY <1>1, <2>1 DEF InTable
<1> QED
  BY <1>1, <1>2, <1>3, <1>4

\* A call of schedule() lists what it hands out, after what was there.
Handed(batch, loads, new, copied) ==
  /\ ScheduleLoads(batch, loads, new, copied)
  /\ \A r \in Reqs :
       /\ r \notin batch \cup loads => new[r] = {}
       /\ r \in batch => Len(table[r]) + Cardinality(new[r]) = Need[r]
       /\ r \in loads => Cardinality(new[r]) = External[r]
       /\ Cardinality(new[r]) \in Nat
       /\ table'[r] \in Seq(Blocks)
       /\ Len(table'[r]) = Len(table[r]) + Cardinality(new[r])
       /\ \A i \in 1..Len(table[r]) : table'[r][i] = table[r][i]
       /\ \A i \in (Len(table[r]) + 1)..Len(table'[r]) : table'[r][i] \in new[r]
       /\ \A b \in new[r] : \E i \in 1..Len(table'[r]) : table'[r][i] = b

LEMMA ScheduledTables ==
  ASSUME KeptInv, NEW batch \in SUBSET Reqs, NEW loads \in SUBSET Reqs,
         batch \cap loads = {}, ScheduleSome(batch, loads)
  PROVE  \E new \in [Reqs -> SUBSET free], copied \in SUBSET free :
           Handed(batch, loads, new, copied)
<1>1. PICK got \in [batch \cup loads -> SUBSET free],
           copied \in {{}} \cup (IF MayCopy(batch) THEN {{b} : b \in free} ELSE {}) :
        /\ \A r \in DOMAIN got : Cardinality(got[r]) = Wants(r, loads)
        /\ ScheduleLoads(batch, loads,
             [r \in Reqs |-> IF r \in DOMAIN got THEN got[r] ELSE {}], copied)
  BY DEF ScheduleSome
<1> DEFINE new == [r \in Reqs |-> IF r \in DOMAIN got THEN got[r] ELSE {}]
<1>2. new \in [Reqs -> SUBSET free] /\ copied \in SUBSET free
  OBVIOUS
<1>3. ScheduleLoads(batch, loads, new, copied)
  BY <1>1
<1>4. \A r \in Reqs : /\ r \notin batch \cup loads => new[r] = {}
                      /\ r \in batch \cup loads => Cardinality(new[r]) = Wants(r, loads)
  BY <1>1
<1> HIDE DEF new
<1>5. /\ Listed /\ free \subseteq Blocks
      /\ table' = [r \in Reqs |-> table[r] \o SetToSeq(new[r])]
  BY <1>3 DEF KeptInv, LoadInv, TypeOK, ScheduleLoads
<1>6. Need \in [Reqs -> Nat \ {0}] /\ External \in [Reqs -> Nat] /\ IsFiniteSet(Blocks)
  BY KVLoadAssumption
<1>7. ASSUME NEW r \in Reqs
      PROVE  /\ r \in batch => Len(table[r]) + Cardinality(new[r]) = Need[r]
             /\ r \in loads => Cardinality(new[r]) = External[r]
             /\ Cardinality(new[r]) \in Nat
             /\ table'[r] \in Seq(Blocks)
             /\ Len(table'[r]) = Len(table[r]) + Cardinality(new[r])
             /\ \A i \in 1..Len(table[r]) : table'[r][i] = table[r][i]
             /\ \A i \in (Len(table[r]) + 1)..Len(table'[r]) : table'[r][i] \in new[r]
             /\ \A b \in new[r] : \E i \in 1..Len(table'[r]) : table'[r][i] = b
  <2> DEFINE q == SetToSeq(new[r])
             t == table[r]
             c == Cardinality(new[r])
  <2>1. new[r] \in SUBSET Blocks
    BY <1>2, <1>5
  <2>2. IsFiniteSet(new[r])
    BY <1>6, <2>1, FS_Subset
  <2>3. /\ q \in Seq(new[r]) /\ Len(q) = c /\ c \in Nat
        /\ \A x \in new[r] : \E i \in 1..c : q[i] = x
    BY <2>2, ListsSet
  <2>4. t \in Seq(Blocks) /\ Len(t) \in Nat
    BY <1>5, InTableFacts
  <2>5. table'[r] = t \o q
    BY <1>5
  <2>6. r \in batch => Len(t) + c = Need[r]
    <3>1. r \in batch => c = Need[r] - Len(t)
      BY <1>4 DEF Wants
    <3> HIDE DEF t, c
    <3> QED
      BY <1>6, <2>3, <2>4, <3>1
  <2>7. r \in loads => c = External[r]
    BY <1>4 DEF Wants
  <2> DEFINE w == table'[r]
  <2>8. w = t \o q
    BY <2>5
  <2> HIDE DEF q, t, c, w
  <2>9. q \in Seq(Blocks) /\ \A i \in 1..c : q[i] \in new[r]
    BY <2>1, <2>3
  <2>10. w \in Seq(Blocks) /\ Len(w) = Len(t) + c
    BY <2>3, <2>4, <2>8, <2>9, ConcatProperties
  <2>11. \A i \in 1..Len(t) : w[i] = t[i]
    BY <2>3, <2>4, <2>8, <2>9
  <2>12. \A i \in (Len(t) + 1)..Len(w) : w[i] = q[i - Len(t)] /\ i - Len(t) \in 1..c
    BY <2>3, <2>4, <2>8, <2>9, <2>10
  <2>13. ASSUME NEW b \in new[r] PROVE \E i \in 1..Len(w) : w[i] = b
    <3>1. PICK i \in 1..c : q[i] = b
      BY <2>3
    <3>2. i + Len(t) \in (Len(t) + 1)..Len(w) /\ (i + Len(t)) - Len(t) = i
      BY <2>3, <2>4, <2>10, <3>1
    <3>3. w[i + Len(t)] = b
      BY <2>12, <3>1, <3>2
    <3>4. i + Len(t) \in 1..Len(w)
      BY <2>4, <2>10, <3>2
    <3> QED
      BY <3>3, <3>4
  <2>14. \A i \in (Len(t) + 1)..Len(w) : w[i] \in new[r]
    BY <2>9, <2>12
  <2>15. c \in Nat
    BY <2>3
  <2>16. \A b \in new[r] : \E i \in 1..Len(w) : w[i] = b
    BY <2>13
  <2> QED
    BY <2>6, <2>7, <2>10, <2>11, <2>14, <2>15, <2>16 DEF t, c, w
<1>8. Handed(batch, loads, new, copied)
  BY <1>3, <1>4, <1>7 DEF Handed
<1> QED
  BY <1>2, <1>8

LEMMA ScheduleKept ==
  ASSUME KeptInv, NEW batch \in SUBSET Reqs, NEW loads \in SUBSET Reqs,
         batch \cap loads = {}, ScheduleSome(batch, loads)
  PROVE  Listed' /\ Filled'
<1>0. PICK new \in [Reqs -> SUBSET free], copied \in SUBSET free :
        Handed(batch, loads, new, copied)
  BY ScheduledTables
<1>1. /\ ScheduleLoads(batch, loads, new, copied)
      /\ \A r \in Reqs :
           /\ r \notin batch \cup loads => new[r] = {}
           /\ r \in batch => Len(table[r]) + Cardinality(new[r]) = Need[r]
           /\ r \in loads => Cardinality(new[r]) = External[r]
           /\ Cardinality(new[r]) \in Nat
           /\ table'[r] \in Seq(Blocks)
           /\ Len(table'[r]) = Len(table[r]) + Cardinality(new[r])
           /\ \A i \in 1..Len(table[r]) : table'[r][i] = table[r][i]
           /\ \A i \in (Len(table[r]) + 1)..Len(table'[r]) : table'[r][i] \in new[r]
           /\ \A b \in new[r] : \E i \in 1..Len(table'[r]) : table'[r][i] = b
  BY <1>0 DEF Handed
<1> DEFINE taken  == UNION {new[r] : r \in Reqs}
           wrote  == UNION {{table'[r][i] : i \in (computed[r] + 1)..Need[r]} : r \in batch}
           hashed == UNION {{table'[r][i] : i \in 1..Need[r]} : r \in batch}
<1>2. /\ table' = [r \in Reqs |-> table[r] \o SetToSeq(new[r])]
      /\ status' = [r \in Reqs |-> IF r \in batch THEN "running"
                                    ELSE IF r \in loads THEN "remote" ELSE status[r]]
      /\ computed' = [r \in Reqs |-> IF r \in batch THEN Need[r]
                                      ELSE IF r \in loads THEN External[r] ELSE computed[r]]
      /\ receiving' = receiving \cup loads
      /\ writes' = [r \in Reqs |-> IF r \in loads THEN new[r] ELSE writes[r]]
      /\ recvd' = recvd /\ sending' = sending /\ ending' = ending /\ bad' = bad
      /\ valid' = (valid \ taken) \cup wrote
      /\ cached' = (cached \ taken) \cup hashed
      /\ held' = [r \in Reqs |-> held[r] \cup new[r]]
  BY <1>1 DEF ScheduleLoads, Schedule
<1>3. /\ ending = {}
      /\ \A r \in batch : status[r] \in {"running", "waiting"}
      /\ \A r \in loads : status[r] = "waiting" /\ computed[r] = 0
  BY DEF ScheduleSome, Admits, Admissible, LoadsAsync
<1>4. /\ LoadTypes /\ Books /\ Listed /\ Filled
      /\ \A r \in Reqs : held[r] \cap free = {}
      /\ \A r \in Reqs : status[r] = "waiting" /\ computed[r] = 0 => held[r] = {}
      /\ held \in [Reqs -> SUBSET Blocks]
  BY <1>3 DEF KeptInv, LoadInv, TypeOK, Fenced, OnePlace, Alone
<1>5. taken \subseteq free /\ \A r \in Reqs : new[r] \subseteq taken
  OBVIOUS
<1>6. /\ Need \in [Reqs -> Nat \ {0}] /\ External \in [Reqs -> Nat]
  BY KVLoadAssumption
<1> HIDE DEF taken
<1>7. \A r \in Reqs : /\ r \in batch => status'[r] = "running" /\ computed'[r] = Need[r]
                      /\ r \in loads => status'[r] = "remote" /\ computed'[r] = External[r]
                                        /\ writes'[r] = new[r]
                      /\ r \notin batch \cup loads =>
                           status'[r] = status[r] /\ computed'[r] = computed[r]
                      /\ r \notin loads => writes'[r] = writes[r]
  BY <1>2
<1>8. ASSUME NEW r \in Reqs
      PROVE  /\ table[r] \in Seq(Blocks) /\ Len(table[r]) \in Nat /\ computed[r] \in Nat
             /\ Len(table'[r]) \in Nat /\ Len(table[r]) <= Len(table'[r])
             /\ \A i \in 1..Len(table'[r]) :
                  IF i <= Len(table[r]) THEN table'[r][i] = table[r][i] /\ i \in 1..Len(table[r])
                                        ELSE table'[r][i] \in new[r]
  <2>1. table[r] \in Seq(Blocks) /\ Len(table[r]) \in Nat /\ computed[r] \in Nat
    BY <1>4, InTableFacts
  <2> DEFINE t == Len(table[r])
             u == Len(table'[r])
             c == Cardinality(new[r])
  <2>2. c \in Nat /\ u = t + c
    BY <1>1
  <2>3. \A i \in 1..t : table'[r][i] = table[r][i]
    BY <1>1
  <2>4. \A i \in (t + 1)..u : table'[r][i] \in new[r]
    BY <1>1
  <2>5. t \in Nat
    BY <2>1
  <2> HIDE DEF t, u, c
  <2>6. u \in Nat /\ t <= u
    BY <2>2, <2>5
  <2>7. ASSUME NEW i \in 1..u
        PROVE  IF i <= t THEN table'[r][i] = table[r][i] /\ i \in 1..t
                         ELSE table'[r][i] \in new[r]
    BY <2>3, <2>4, <2>5, <2>6
  <2> QED
    BY <2>1, <2>6, <2>7 DEF t, u
<1>9. \A r \in Reqs : held[r] = InTable(r, Len(table[r]))
  BY <1>4 DEF Listed
<1>10. ASSUME NEW r \in Reqs
       PROVE  held'[r] = InTable(r, Len(table[r]))'
  <2>1. held'[r] = held[r] \cup new[r]
    BY <1>2
  <2>2. ASSUME NEW b \in held[r] PROVE \E i \in 1..Len(table'[r]) : table'[r][i] = b
    <3>1. PICK i \in 1..Len(table[r]) : table[r][i] = b
      BY <1>9, <2>2 DEF InTable
    <3>2. i \in 1..Len(table'[r]) /\ table'[r][i] = table[r][i]
      BY <1>8, <3>1
    <3> QED
      BY <3>1, <3>2
  <2>3. ASSUME NEW i \in 1..Len(table'[r]) PROVE table'[r][i] \in held[r] \cup new[r]
    <3>1. \A k \in 1..Len(table[r]) : table[r][k] \in held[r]
      BY <1>9 DEF InTable
    <3> QED
      BY <1>8, <3>1
  <2>4. \A b \in new[r] : \E i \in 1..Len(table'[r]) : table'[r][i] = b
    BY <1>1
  <2>5. InTable(r, Len(table[r]))' = {table'[r][i] : i \in 1..Len(table'[r])}
    BY DEF InTable
  <2> QED
    BY <2>1, <2>2, <2>3, <2>4, <2>5
<1>11. Listed'
  <2>1. table' \in [Reqs -> Seq(Blocks)]
    BY <1>1, <1>2
  <2>2. computed' \in [Reqs -> Nat]
    BY <1>2, <1>4, <1>6 DEF Listed
  <2>3. ASSUME NEW r \in Reqs
        PROVE  /\ status'[r] = "gone" => held'[r] = {}
               /\ status'[r] = "finished" => r \in receiving' \cup sending' \cup ending'
               /\ status'[r] = "remote" => r \in receiving' \cup recvd'
    <3>1. CASE r \in batch \cup loads
      BY <1>2, <1>7, <3>1
    <3>2. CASE r \notin batch \cup loads
      BY <1>1, <1>2, <1>4, <1>7, <3>2 DEF Listed
    <3> QED
      BY <3>1, <3>2
  <2> QED
    BY <1>10, <2>1, <2>2, <2>3 DEF Listed
\* What was computed is not among the blocks taken.
<1>12. ASSUME NEW r \in Reqs, status[r] \in {"waiting", "remote", "running"}
       PROVE  /\ computed[r] <= Len(table[r])
              /\ \A i \in 1..computed[r] :
                   /\ table'[r][i] = table[r][i] /\ table'[r][i] \notin taken
                   /\ table'[r][i] \in InTable(r, computed[r])
  <2>1. computed[r] <= Len(table[r])
    BY <1>3, <1>4, <1>12 DEF Filled
  <2>2. InTable(r, computed[r]) \subseteq held[r]
    BY <1>4, <2>1, InTableFacts
  <2>3. ASSUME NEW i \in 1..computed[r]
        PROVE  /\ table'[r][i] = table[r][i]
               /\ table'[r][i] \in InTable(r, computed[r])
    <3>1. i \in 1..Len(table'[r]) /\ i <= Len(table[r])
      BY <1>8, <2>1
    <3>2. table'[r][i] = table[r][i]
      BY <1>8, <3>1
    <3> QED
      BY <3>2 DEF InTable
  <2> QED
    BY <1>4, <1>5, <2>1, <2>2, <2>3
<1>13. ASSUME NEW r \in batch PROVE InTable(r, Need[r])' \subseteq valid'
  <2>1. status[r] \in {"waiting", "running"} /\ r \notin ending
    BY <1>3
  <2>2. InTable(r, computed[r]) \subseteq valid
    BY <1>4, <2>1 DEF Filled
  <2>3. ASSUME NEW i \in 1..Need[r] PROVE table'[r][i] \in valid'
    <3>1. CASE i <= computed[r]
      <4>1. i \in 1..computed[r]
        BY <1>6, <1>8, <3>1
      <4>2. table'[r][i] \in valid /\ table'[r][i] \notin taken
        BY <1>12, <2>1, <2>2, <4>1
      <4> QED
        BY <1>2, <4>2
    <3>2. CASE ~(i <= computed[r])
      <4>1. i \in (computed[r] + 1)..Need[r]
        BY <1>6, <1>8, <3>2
      <4>2. table'[r][i] \in wrote
        BY <4>1
      <4> QED
        BY <1>2, <4>2
    <3> QED
      BY <3>1, <3>2
  <2> QED
    BY <2>3 DEF InTable
<1>14. cached' \subseteq valid'
  <2>1. cached \ taken \subseteq valid'
    BY <1>2, <1>4 DEF Filled
  <2>2. hashed \subseteq valid'
    <3>1. SUFFICES ASSUME NEW r \in batch, NEW i \in 1..Need[r]
                   PROVE  table'[r][i] \in valid'
      OBVIOUS
    <3>2. table'[r][i] \in InTable(r, Need[r])'
      BY DEF InTable
    <3> QED
      BY <1>13, <3>2
  <2> QED
    BY <1>2, <2>1, <2>2
<1>15. ASSUME NEW r \in Reqs, status'[r] \in {"waiting", "remote", "running"}
       PROVE  computed'[r] <= Len(table'[r])
  <2>1. CASE r \in batch
    <3>1. Len(table'[r]) = Need[r] /\ Need[r] \in Nat
      BY <1>1, <1>6, <2>1
    <3> QED
      BY <1>7, <2>1, <3>1
  <2>2. CASE r \in loads
    <3>1. Len(table'[r]) = Len(table[r]) + External[r] /\ External[r] \in Nat
      BY <1>1, <1>6, <2>2
    <3> QED
      BY <1>7, <1>8, <2>2, <3>1
  <2>3. CASE r \notin batch \cup loads
    <3>1. status[r] \in {"waiting", "remote", "running"} /\ computed'[r] = computed[r]
      BY <1>7, <1>15, <2>3
    <3> QED
      BY <1>8, <1>12, <3>1
  <2> QED
    BY <2>1, <2>2, <2>3
\* A request that neither runs nor loads keeps what it had.
<1>16. ASSUME NEW r \in Reqs, r \notin batch \cup loads,
              status[r] \in {"waiting", "remote", "running"}
       PROVE  \A b \in InTable(r, computed[r])' :
                b \in InTable(r, computed[r]) /\ (b \in valid => b \in valid')
  <2>1. InTable(r, computed[r])' = {table'[r][i] : i \in 1..computed[r]}
    BY <1>7, <1>16 DEF InTable
  <2>2. SUFFICES ASSUME NEW i \in 1..computed[r]
                 PROVE  /\ table'[r][i] \in InTable(r, computed[r])
                        /\ table'[r][i] \in valid => table'[r][i] \in valid'
    BY <2>1
  <2>3. table'[r][i] \in InTable(r, computed[r]) /\ table'[r][i] \notin taken
    BY <1>12, <1>16
  <2> QED
    BY <1>2, <2>3
<1>17. ASSUME NEW r \in Reqs, status'[r] \in {"waiting", "running"}
       PROVE  InTable(r, computed[r])' \subseteq valid'
  <2>1. CASE r \in batch
    <3>1. InTable(r, computed[r])' = InTable(r, Need[r])'
      BY <1>7, <2>1 DEF InTable
    <3> QED
      BY <1>13, <2>1, <3>1
  <2>2. CASE r \notin batch
    <3>1. r \notin loads /\ status[r] \in {"waiting", "running"}
      BY <1>7, <1>17, <2>2
    <3>2. InTable(r, computed[r]) \subseteq valid
      BY <1>3, <1>4, <3>1 DEF Filled
    <3> QED
      BY <1>16, <2>2, <3>1, <3>2
  <2> QED
    BY <2>1, <2>2
<1>18. ASSUME NEW r \in Reqs, r \in receiving', status'[r] = "remote"
       PROVE  InTable(r, computed[r])' \subseteq valid' \cup writes'[r] \cup bad'
  <2>1. CASE r \in loads
    <3>1. table[r] = <<>>
      BY <1>3, <1>4, <2>1, InTableFacts
    <3>2. Len(table[r]) = 0 /\ External[r] \in Nat
      BY <1>6, <3>1
    <3>3. \A i \in 1..External[r] : table'[r][i] \in new[r]
      <4>1. Len(table'[r]) = External[r]
        BY <1>1, <1>6, <2>1, <3>2
      <4> QED
        BY <1>8, <3>2, <4>1
    <3>4. InTable(r, computed[r])' = {table'[r][i] : i \in 1..External[r]}
      BY <1>7, <2>1 DEF InTable
    <3> QED
      BY <1>7, <2>1, <3>3, <3>4
  <2>2. CASE r \notin loads
    <3>1. r \notin batch /\ status[r] = "remote" /\ r \in receiving
      BY <1>2, <1>7, <1>18, <2>2
    <3>2. InTable(r, computed[r]) \subseteq valid \cup writes[r] \cup bad
      BY <1>4, <3>1 DEF Filled
    <3> QED
      BY <1>2, <1>7, <1>16, <2>2, <3>1, <3>2
  <2> QED
    BY <2>1, <2>2
<1>19. ASSUME NEW r \in Reqs, r \in recvd', status'[r] = "remote"
       PROVE  InTable(r, computed[r])' \subseteq valid'
  <2>1. r \in recvd /\ status[r] \notin {"waiting", "running"}
    BY <1>2, <1>4, <1>19 DEF Books
  <2>2. r \notin batch \cup loads /\ status[r] = "remote"
    BY <1>3, <1>7, <1>19, <2>1
  <2>3. InTable(r, computed[r]) \subseteq valid
    BY <1>4, <2>1, <2>2 DEF Filled
  <2> QED
    BY <1>16, <2>2, <2>3
<1>20. Filled'
  BY <1>2, <1>3, <1>14, <1>15, <1>17, <1>18, <1>19 DEF Filled
<1> QED
  BY <1>11, <1>20

\* The least of some naturals.
LEMMA LeastIs ==
  ASSUME NEW S \in SUBSET Nat, S # {}
  PROVE  Min(S) \in S /\ \A x \in S : Min(S) <= x
<1> DEFINE R == {p \in Nat \X Nat : p[1] < p[2]}
<1>1. IsWellFoundedOn(R, Nat)
  BY NatLessThanWellFounded, Zenon DEF OpToRel
<1>2. \A x, y \in Nat : y < x => <<y, x>> \in R
  OBVIOUS
<1> HIDE DEF R
<1>3. PICK x \in S : \A y \in S : ~(<<y, x>> \in R)
  BY <1>1, WFMin, Zenon
<1>4. \A y \in S : x \in Nat /\ y \in Nat /\ ~(y < x)
  BY <1>2, <1>3, Zenon
<1>5. \A y \in S : x <= y
  BY <1>4
<1> QED
  BY <1>5 DEF Min

\* A load is cut before its first block that failed.
LEMMA TruncatedIs ==
  ASSUME Listed, NEW r \in Reqs, NEW invalid
  PROVE  /\ Truncated(r, invalid) \in Nat /\ Truncated(r, invalid) <= computed[r]
         /\ \A i \in 1..Truncated(r, invalid) : table[r][i] \notin invalid
<1> DEFINE J == {j \in 1..computed[r] : table[r][j] \in invalid}
           S == {computed[r]} \cup {i - 1 : i \in J}
           m == Truncated(r, invalid)
<1>1. computed[r] \in Nat
  BY DEF Listed
<1>2. S \in SUBSET Nat /\ computed[r] \in S
  BY <1>1
<1>3. m = Min(S)
  BY DEF Truncated
<1>4. m \in S /\ \A x \in S : m <= x
  <2> HIDE DEF S, m
  <2> QED
    BY <1>2, <1>3, LeastIs
<1>5. \A j \in J : j - 1 \in S
  OBVIOUS
<1> HIDE DEF S, m
<1>6. m \in Nat /\ m <= computed[r]
  BY <1>2, <1>4
<1>7. ASSUME NEW i \in 1..m, table[r][i] \in invalid PROVE FALSE
  <2>1. i \in J
    BY <1>1, <1>6, <1>7
  <2>2. m <= i - 1 /\ i \in Nat
    BY <1>4, <1>5, <1>6, <2>1
  <2> QED
    BY <1>6, <1>7, <2>2
<1> QED
  BY <1>6, <1>7 DEF m

LEMMA UpdateKept ==
  ASSUME KeptInv, NEW done \in SUBSET receiving, NEW invalid, NEW sent \in SUBSET sending,
         NEW sends \in SUBSET Reqs, UpdateTransfers(done, invalid, sent, sends)
  PROVE  Listed' /\ Filled'
<1> DEFINE hit    == {r \in Reqs : status[r] = "remote"
                         /\ InTable(r, computed[r]) \cap invalid # {}}
           errors == IF policy = "recompute" THEN {} ELSE hit
           stops  == {r \in Reqs : Stops(r)}
           ended  == errors \cup stops
<1>1. /\ ending = {}
      /\ \A r \in done : writes[r] = {} /\ held[r] \cap bad \subseteq invalid
      /\ \A b \in invalid : b \in bad /\ \E r \in Reqs : b \in held[r] /\ r \in receiving
      /\ sends \subseteq stops
      /\ held' = held /\ table' = table
      /\ computed' = [r \in Reqs |-> IF r \in hit THEN Truncated(r, invalid) ELSE computed[r]]
      /\ status' = [r \in Reqs |-> IF r \in ended THEN "finished" ELSE status[r]]
      /\ recvd' = recvd \cup {r \in done : status[r] = "remote" /\ r \notin errors}
      /\ ending' = (stops \ sends) \cup sent \cup FreedBy(done, errors)
      /\ receiving' = receiving \ done
      /\ sending' = (sending \ sent) \cup sends
      /\ bad' = bad \ invalid
      /\ writes' = writes /\ valid' = valid /\ cached' = cached
  BY DEF UpdateTransfers, UpdateFromOutput, Reportable, dataVars
<1>2. \A r \in stops : status[r] \in {"waiting", "running"}
  BY DEF Stops
<1>3. errors \subseteq hit /\ \A r \in hit : r \in Reqs /\ status[r] = "remote"
  OBVIOUS
<1>4. \A r \in Reqs : r \in FreedBy(done, errors) <=>
                        r \in done /\ (status[r] = "finished" \/ r \in errors)
  BY DEF FreedBy
<1>5. /\ LoadTypes /\ Books /\ Listed /\ Filled
      /\ \A r, s \in Reqs : r # s => held[r] \cap held[s] = {}
  BY DEF KeptInv, LoadInv, Fenced, OnePlace
<1>6. \A r \in Reqs : /\ table[r] \in Seq(Blocks) /\ Len(table[r]) \in Nat
                      /\ computed[r] \in Nat
  BY <1>5, InTableFacts
<1>7. ASSUME NEW r \in Reqs, status[r] = "remote"
      PROVE  computed[r] <= Len(table[r]) /\ InTable(r, computed[r]) \subseteq held[r]
  <2>1. computed[r] <= Len(table[r])
    BY <1>1, <1>5, <1>7 DEF Filled
  <2> QED
    BY <1>5, <2>1, InTableFacts
<1>8. ASSUME NEW r \in hit PROVE r \in receiving
  <2>1. PICK b \in InTable(r, computed[r]) : b \in invalid
    OBVIOUS
  <2>2. r \in Reqs /\ b \in held[r]
    BY <1>3, <1>7, <2>1
  <2>3. PICK q \in Reqs : b \in held[q] /\ q \in receiving
    BY <1>1, <2>1
  <2>4. q = r
    BY <1>5, <2>2, <2>3
  <2> QED
    BY <2>3, <2>4
<1>9. \A r \in Reqs : status[r] = "remote" /\ r \notin hit =>
                        InTable(r, computed[r]) \cap invalid = {}
  OBVIOUS
<1>10. \A r \in Reqs : /\ r \in stops => r \in ended
                       /\ r \in errors => r \in ended
                       /\ r \in ended => r \in stops \/ r \in errors
  OBVIOUS
<1>11. \A r \in Reqs : /\ r \in ended => status'[r] = "finished"
                       /\ r \notin ended => status'[r] = status[r]
                       /\ r \in hit => computed'[r] = Truncated(r, invalid)
                       /\ r \notin hit => computed'[r] = computed[r]
  BY <1>1
<1> HIDE DEF hit, errors, stops, ended
<1>12. \A r \in Reqs : computed'[r] \in Nat /\ computed'[r] <= computed[r]
  BY <1>5, <1>6, <1>11, TruncatedIs
<1>13. Listed'
  <2>1. table' \in [Reqs -> Seq(Blocks)] /\ computed' \in [Reqs -> Nat]
    BY <1>1, <1>5, <1>12 DEF Listed
  <2>2. \A r \in Reqs : InTable(r, Len(table[r]))' = InTable(r, Len(table[r]))
    BY <1>1 DEF InTable
  <2>3. \A r \in Reqs : held'[r] = InTable(r, Len(table[r]))'
    BY <1>1, <1>5, <2>2 DEF Listed
  <2>4. ASSUME NEW r \in Reqs
        PROVE  /\ status'[r] = "gone" => held'[r] = {}
               /\ status'[r] = "remote" => r \in receiving' \cup recvd'
    BY <1>1, <1>5, <1>10, <1>11 DEF Listed
  <2>5. ASSUME NEW r \in Reqs, status'[r] = "finished"
        PROVE  r \in receiving' \cup sending' \cup ending'
    <3>1. CASE r \in stops
      BY <1>1, <3>1
    <3>2. CASE r \in errors
      BY <1>1, <1>3, <1>4, <1>8, <3>2
    <3>3. CASE r \notin ended
      <4>1. status[r] = "finished"
        BY <1>11, <2>5, <3>3
      <4>2. r \in receiving \cup sending
        BY <1>1, <1>5, <4>1 DEF Listed
      <4> QED
        BY <1>1, <1>4, <4>1, <4>2
    <3> QED
      BY <1>10, <3>1, <3>2, <3>3
  <2> QED
    BY <2>1, <2>3, <2>4, <2>5 DEF Listed
\* What is left of a load has not failed.
<1>14. ASSUME NEW r \in Reqs, status[r] = "remote"
       PROVE  InTable(r, computed[r])' \subseteq InTable(r, computed[r]) \ invalid
  <2>1. InTable(r, computed[r])' = {table[r][i] : i \in 1..computed'[r]}
    BY <1>1 DEF InTable
  <2>2. ASSUME NEW i \in 1..computed'[r] PROVE table[r][i] \in InTable(r, computed[r]) \ invalid
    <3>1. i \in 1..computed[r]
      BY <1>6, <1>12
    <3>2. table[r][i] \in InTable(r, computed[r])
      BY <3>1 DEF InTable
    <3>3. CASE r \in hit
      BY <1>5, <1>11, <3>2, <3>3, TruncatedIs
    <3>4. CASE r \notin hit
      BY <1>9, <1>14, <3>2, <3>4
    <3> QED
      BY <3>3, <3>4
  <2> QED
    BY <2>1, <2>2
<1>15. ASSUME NEW r \in Reqs, r \in ending' PROVE status'[r] # "waiting"
  <2>1. r \in stops \/ r \in sent \/ r \in FreedBy(done, errors)
    BY <1>1, <1>15
  <2> QED
    BY <1>4, <1>5, <1>10, <1>11, <2>1 DEF Books
<1>16. ASSUME NEW r \in Reqs, status'[r] \in {"waiting", "remote", "running"}
       PROVE  computed'[r] <= Len(table'[r]) /\ status[r] = status'[r]
  <2>1. status[r] = status'[r]
    BY <1>11, <1>16
  <2>2. computed[r] <= Len(table[r])
    BY <1>1, <1>5, <1>16, <2>1 DEF Filled
  <2> QED
    BY <1>1, <1>6, <1>12, <2>1, <2>2
<1>17. ASSUME NEW r \in Reqs, status'[r] \in {"waiting", "running"}
       PROVE  InTable(r, computed[r])' \subseteq valid'
  <2>1. status[r] \in {"waiting", "running"}
    BY <1>16, <1>17
  <2>2. computed'[r] = computed[r]
    BY <1>3, <1>11, <2>1
  <2>3. InTable(r, computed[r])' = InTable(r, computed[r])
    BY <1>1, <2>2 DEF InTable
  <2> QED
    BY <1>1, <1>5, <2>1, <2>3 DEF Filled
<1>18. ASSUME NEW r \in Reqs, r \in receiving', status'[r] = "remote"
       PROVE  InTable(r, computed[r])' \subseteq valid' \cup writes'[r] \cup bad'
  <2>1. r \in receiving /\ status[r] = "remote"
    BY <1>1, <1>16, <1>18
  <2>2. InTable(r, computed[r]) \subseteq valid \cup writes[r] \cup bad
    BY <1>5, <2>1 DEF Filled
  <2> QED
    BY <1>1, <1>14, <2>1, <2>2
<1>19. ASSUME NEW r \in Reqs, r \in recvd', status'[r] = "remote"
       PROVE  InTable(r, computed[r])' \subseteq valid'
  <2>1. status[r] = "remote"
    BY <1>16, <1>19
  <2>2. CASE r \in recvd
    BY <1>1, <1>5, <1>14, <2>1, <2>2 DEF Filled
  <2>3. CASE r \in done
    <3>1. writes[r] = {} /\ held[r] \cap bad \subseteq invalid
      BY <1>1, <2>3
    <3>2. InTable(r, computed[r]) \subseteq valid \cup bad
      BY <1>5, <2>1, <2>3, <3>1 DEF Filled
    <3>3. InTable(r, computed[r]) \subseteq held[r]
      BY <1>7, <2>1
    <3> QED
      BY <1>1, <1>14, <2>1, <3>1, <3>2, <3>3
  <2> QED
    BY <1>1, <1>19, <2>2, <2>3
<1>20. Filled'
  BY <1>1, <1>5, <1>15, <1>16, <1>17, <1>18, <1>19 DEF Filled
<1> QED
  BY <1>13, <1>20

\* A request whose blocks are given up has an empty table.
LEMMA EmptiedKept ==
  ASSUME KeptInv, NEW r \in Reqs, r \notin receiving,
         held' = [held EXCEPT ![r] = {}], table' = [table EXCEPT ![r] = <<>>],
         computed' = computed, valid' = valid, cached' = cached, bad' = bad,
         writes' = writes, receiving' = receiving, sending' = sending,
         recvd' \subseteq recvd, \A s \in recvd : s # r => s \in recvd',
         ending' \subseteq ending, \A s \in ending : s # r => s \in ending',
         \A s \in Reqs : s # r => status'[s] = status[s],
         status'[r] \notin {"finished", "remote"},
         status'[r] # "gone" => computed[r] = 0
  PROVE  Listed' /\ Filled'
<1>1. /\ Listed /\ Filled /\ LoadTypes /\ Books
      /\ held \in [Reqs -> SUBSET Blocks]
  BY DEF KeptInv, LoadInv, TypeOK
<1>2. /\ table \in [Reqs -> Seq(Blocks)] /\ computed \in [Reqs -> Nat]
      /\ status \in [Reqs -> Statuses]
  BY <1>1 DEF Listed, LoadTypes
<1>3. <<>> \in Seq(Blocks) /\ Len(<<>>) = 0
  OBVIOUS
<1>4. /\ table' \in [Reqs -> Seq(Blocks)] /\ table'[r] = <<>> /\ held'[r] = {}
      /\ \A s \in Reqs : s # r => table'[s] = table[s] /\ held'[s] = held[s]
  BY <1>1, <1>2, <1>3
<1>5. /\ InTable(r, Len(table[r]))' = {}
      /\ status'[r] # "gone" => InTable(r, computed[r])' = {} /\ computed[r] <= Len(table'[r])
  <2>1. Len(table'[r]) = 0
    BY <1>3, <1>4
  <2> QED
    BY <2>1 DEF InTable
<1>6. \A s \in Reqs : s # r => /\ InTable(s, Len(table[s]))' = InTable(s, Len(table[s]))
                               /\ InTable(s, computed[s])' = InTable(s, computed[s])
  BY <1>4 DEF InTable
<1>7. Listed'
  <2>1. \A s \in Reqs : held'[s] = InTable(s, Len(table[s]))'
    BY <1>1, <1>4, <1>5, <1>6 DEF Listed
  <2>2. ASSUME NEW s \in Reqs
        PROVE  /\ status'[s] = "gone" => held'[s] = {}
               /\ status'[s] = "finished" => s \in receiving' \cup sending' \cup ending'
               /\ status'[s] = "remote" => s \in receiving' \cup recvd'
    <3>1. CASE s = r
      BY <1>4, <3>1
    <3>2. CASE s # r
      BY <1>1, <1>4, <3>2 DEF Listed
    <3> QED
      BY <3>1, <3>2
  <2> QED
    BY <1>2, <1>4, <2>1, <2>2 DEF Listed
<1>8. ASSUME NEW s \in Reqs
      PROVE  /\ s \in ending' /\ status'[s] = "waiting" => computed'[s] = 0
             /\ s \notin ending' /\ status'[s] \in {"waiting", "remote", "running"} =>
                  computed'[s] <= Len(table'[s])
             /\ s \notin ending' /\ status'[s] \in {"waiting", "running"} =>
                  InTable(s, computed[s])' \subseteq valid'
             /\ s \in receiving' /\ status'[s] = "remote" =>
                  InTable(s, computed[s])' \subseteq valid' \cup writes'[s] \cup bad'
             /\ s \in recvd' /\ status'[s] = "remote" =>
                  InTable(s, computed[s])' \subseteq valid'
  <2>1. CASE s = r
    BY <1>5, <2>1
  <2>2. CASE s # r
    <3>1. /\ s \in ending' <=> s \in ending
          /\ s \in recvd' <=> s \in recvd
          /\ status'[s] = status[s] /\ table'[s] = table[s]
      BY <1>4, <2>2
    <3> QED
      BY <1>1, <1>6, <2>2, <3>1 DEF Filled
  <2> QED
    BY <2>1, <2>2
<1>9. Filled'
  BY <1>1, <1>8 DEF Filled
<1> QED
  BY <1>7, <1>9

LEMMA PromoteKept ==
  ASSUME KeptInv, NEW r \in Reqs, PromoteLoaded(r)
  PROVE  Listed' /\ Filled'
<1>1. /\ status[r] = "remote" /\ r \in recvd /\ ending = {} /\ ending' = ending
      /\ status' = [status EXCEPT ![r] = "waiting"] /\ recvd' = recvd \ {r}
      /\ computed' = computed /\ valid' = valid /\ bad' = bad /\ writes' = writes
      /\ receiving' = receiving /\ sending' = sending
  BY DEF PromoteLoaded, xferVars
<1>2. Listed /\ Filled /\ LoadTypes /\ Books
  BY DEF KeptInv, LoadInv
<1>3. r \notin receiving
  BY <1>1, <1>2 DEF Books
<1>4. /\ status'[r] = "waiting" /\ \A s \in Reqs : s # r => status'[s] = status[s]
  BY <1>1, <1>2 DEF LoadTypes
<1>5. CASE computed[r] = 0
  <2>1. /\ held' = [held EXCEPT ![r] = {}] /\ table' = [table EXCEPT ![r] = <<>>]
        /\ cached' = cached
    BY <1>5 DEF PromoteLoaded, FreeAtOnce
  <2> QED
    BY <1>1, <1>3, <1>4, <1>5, <2>1, EmptiedKept
<1>6. CASE computed[r] # 0
  <2>1. /\ cached' = cached \cup InTable(r, computed[r]) /\ held' = held /\ table' = table
    BY <1>6 DEF PromoteLoaded, vars
  <2>2. InTable(r, computed[r]) \subseteq valid
    BY <1>1, <1>2 DEF Filled
  <2>3. \A s \in Reqs : /\ InTable(s, Len(table[s]))' = InTable(s, Len(table[s]))
                        /\ InTable(s, computed[s])' = InTable(s, computed[s])
    BY <1>1, <2>1 DEF InTable
  <2>4. Listed'
    BY <1>1, <1>2, <1>4, <2>1, <2>3 DEF Listed
  <2>5. Filled'
    BY <1>1, <1>2, <1>4, <2>1, <2>2, <2>3 DEF Filled
  <2> QED
    BY <2>4, <2>5
<1> QED
  BY <1>5, <1>6

LEMMA ReleaseKept ==
  ASSUME KeptInv, NEW r \in Reqs, Release(r)
  PROVE  Listed' /\ Filled'
<1>1. /\ r \in ending /\ ending' = ending \ {r}
      /\ table' = [table EXCEPT ![r] = <<>>]
      /\ status' = [status EXCEPT ![r] = IF @ = "finished" THEN "gone" ELSE @]
      /\ computed' = computed /\ valid' = valid /\ cached' = cached /\ bad' = bad
      /\ writes' = writes /\ receiving' = receiving /\ sending' = sending
      /\ recvd' = recvd
  BY DEF Release, xferVars, dataVars
<1>2. Listed /\ Filled /\ LoadTypes /\ Books /\ TypeOK
  BY DEF KeptInv, LoadInv
<1>3. held' = [held EXCEPT ![r] = {}]
  BY <1>2 DEF Release, FreeRequestBlocks, vars, TypeOK
<1>4. r \notin receiving /\ status[r] \in {"waiting", "finished"}
  BY <1>1, <1>2 DEF Books
<1>5. /\ \A s \in Reqs : s # r => status'[s] = status[s]
      /\ status[r] = "finished" => status'[r] = "gone"
      /\ status[r] = "waiting" => status'[r] = "waiting"
  BY <1>1, <1>2 DEF LoadTypes
<1>6. status[r] = "waiting" => computed[r] = 0
  BY <1>1, <1>2 DEF Filled
<1> QED
  BY <1>1, <1>3, <1>4, <1>5, <1>6, EmptiedKept

LEMMA WriteKept ==
  ASSUME KeptInv, NEW r \in Reqs, NEW b, Write(r, b) \/ Fail(r, b)
  PROVE  Listed' /\ Filled'
<1>1. Listed /\ Filled /\ LoadTypes /\ \A s \in Reqs : writes[s] \subseteq held[s]
  BY DEF KeptInv, LoadInv, Alone
<1>2. /\ b \in writes[r] /\ writes' = [writes EXCEPT ![r] = @ \ {b}]
      /\ held' = held /\ table' = table /\ computed' = computed /\ status' = status
      /\ ending' = ending /\ receiving' = receiving /\ sending' = sending
      /\ recvd' = recvd /\ cached' = cached
      /\ \/ valid' = valid \cup {b} /\ bad' = bad
         \/ valid' = valid /\ bad' = bad \cup {b}
  BY <1>1 DEF Write, Fail, vars, kvVars, dataVars
<1>3. \A s \in Reqs : /\ InTable(s, Len(table[s]))' = InTable(s, Len(table[s]))
                      /\ InTable(s, computed[s])' = InTable(s, computed[s])
  BY <1>2 DEF InTable
<1>4. /\ valid \subseteq valid'
      /\ \A s \in Reqs : valid \cup writes[s] \cup bad \subseteq valid' \cup writes'[s] \cup bad'
  BY <1>1, <1>2 DEF LoadTypes
<1>5. Listed'
  BY <1>1, <1>2, <1>3 DEF Listed
<1>6. Filled'
  BY <1>1, <1>2, <1>3, <1>4 DEF Filled
<1> QED
  BY <1>5, <1>6

LEMMA AbortKept ==
  ASSUME KeptInv, NEW r \in Reqs, Abort(r)
  PROVE  Listed' /\ Filled'
<1>1. /\ ending = {} /\ status[r] \in {"waiting", "remote", "running"}
      /\ status' = [status EXCEPT ![r] = "finished"] /\ recvd' = recvd \ {r}
      /\ ending' = IF DelaysFree(r) THEN {} ELSE {r}
      /\ held' = held /\ table' = table /\ computed' = computed /\ valid' = valid
      /\ cached' = cached /\ bad' = bad /\ writes' = writes /\ receiving' = receiving
      /\ sending' = sending
  BY DEF Abort, vars, xferVars, dataVars
<1>2. Listed /\ Filled /\ LoadTypes
  BY DEF KeptInv, LoadInv
<1>3. status'[r] = "finished" /\ \A s \in Reqs : s # r => status'[s] = status[s]
  BY <1>1, <1>2 DEF LoadTypes
<1>4. r \in receiving' \cup ending'
  BY <1>1, <1>2 DEF DelaysFree, Listed
<1>5. \A s \in Reqs : /\ InTable(s, Len(table[s]))' = InTable(s, Len(table[s]))
                      /\ InTable(s, computed[s])' = InTable(s, computed[s])
  BY <1>1 DEF InTable
<1>6. Listed'
  <2>1. ASSUME NEW s \in Reqs
        PROVE  /\ status'[s] = "gone" => held'[s] = {}
               /\ status'[s] = "finished" => s \in receiving' \cup sending' \cup ending'
               /\ status'[s] = "remote" => s \in receiving' \cup recvd'
    <3>1. CASE s = r
      BY <1>3, <1>4, <3>1
    <3>2. CASE s # r
      BY <1>1, <1>2, <1>3, <3>2 DEF Listed
    <3> QED
      BY <3>1, <3>2
  <2> QED
    BY <1>1, <1>2, <1>5, <2>1 DEF Listed
<1>7. Filled'
  <2>1. ASSUME NEW s \in Reqs
        PROVE  /\ s \in ending' /\ status'[s] = "waiting" => computed'[s] = 0
               /\ s \notin ending' /\ status'[s] \in {"waiting", "remote", "running"} =>
                    computed'[s] <= Len(table'[s])
               /\ s \notin ending' /\ status'[s] \in {"waiting", "running"} =>
                    InTable(s, computed[s])' \subseteq valid'
               /\ s \in receiving' /\ status'[s] = "remote" =>
                    InTable(s, computed[s])' \subseteq valid' \cup writes'[s] \cup bad'
               /\ s \in recvd' /\ status'[s] = "remote" =>
                    InTable(s, computed[s])' \subseteq valid'
    <3>1. CASE s = r
      BY <1>3, <3>1
    <3>2. CASE s # r
      BY <1>1, <1>2, <1>3, <1>5, <3>2 DEF Filled
    <3> QED
      BY <3>1, <3>2
  <2> QED
    BY <1>1, <1>2, <2>1 DEF Filled
<1> QED
  BY <1>6, <1>7

LEMMA PreemptKept ==
  ASSUME KeptInv, NEW r \in Reqs, Preempt(r)
  PROVE  Listed' /\ Filled'
<1>1. /\ ending = {} /\ status[r] = "running"
      /\ status' = [status EXCEPT ![r] = "waiting"]
      /\ computed' = [computed EXCEPT ![r] = 0]
      /\ ending' = {r}
      /\ held' = held /\ table' = table /\ valid' = valid
      /\ cached' = cached /\ bad' = bad /\ writes' = writes /\ receiving' = receiving
      /\ sending' = sending /\ recvd' = recvd
  BY DEF Preempt, vars, xferVars, dataVars
<1>2. Listed /\ Filled /\ LoadTypes
  BY DEF KeptInv, LoadInv
<1>3. /\ status'[r] = "waiting" /\ \A s \in Reqs : s # r => status'[s] = status[s]
      /\ computed'[r] = 0 /\ \A s \in Reqs : s # r => computed'[s] = computed[s]
      /\ computed' \in [Reqs -> Nat]
  BY <1>1, <1>2 DEF LoadTypes, Listed
<1>4. \A s \in Reqs : InTable(s, Len(table[s]))' = InTable(s, Len(table[s]))
  BY <1>1 DEF InTable
<1>5. \A s \in Reqs : s # r => InTable(s, computed[s])' = InTable(s, computed[s])
  BY <1>1, <1>3 DEF InTable
<1>6. Listed'
  <2>1. ASSUME NEW s \in Reqs
        PROVE  /\ status'[s] = "gone" => held'[s] = {}
               /\ status'[s] = "finished" => s \in receiving' \cup sending' \cup ending'
               /\ status'[s] = "remote" => s \in receiving' \cup recvd'
    <3>1. CASE s = r
      BY <1>3, <3>1
    <3>2. CASE s # r
      BY <1>1, <1>2, <1>3, <3>2 DEF Listed
    <3> QED
      BY <3>1, <3>2
  <2> QED
    BY <1>1, <1>2, <1>3, <1>4, <2>1 DEF Listed
<1>7. Filled'
  <2>1. ASSUME NEW s \in Reqs
        PROVE  /\ s \in ending' /\ status'[s] = "waiting" => computed'[s] = 0
               /\ s \notin ending' /\ status'[s] \in {"waiting", "remote", "running"} =>
                    computed'[s] <= Len(table'[s])
               /\ s \notin ending' /\ status'[s] \in {"waiting", "running"} =>
                    InTable(s, computed[s])' \subseteq valid'
               /\ s \in receiving' /\ status'[s] = "remote" =>
                    InTable(s, computed[s])' \subseteq valid' \cup writes'[s] \cup bad'
               /\ s \in recvd' /\ status'[s] = "remote" =>
                    InTable(s, computed[s])' \subseteq valid'
    <3>1. CASE s = r
      BY <1>1, <1>3, <3>1
    <3>2. CASE s # r
      BY <1>1, <1>2, <1>3, <1>5, <3>2 DEF Filled
    <3> QED
      BY <3>1, <3>2
  <2> QED
    BY <1>1, <1>2, <2>1 DEF Filled
<1> QED
  BY <1>6, <1>7

LEMMA KeptStep == KeptInv /\ [LoadNext]_loadVars => KeptInv'
<1> SUFFICES ASSUME KeptInv, [LoadNext]_loadVars PROVE KeptInv'
  OBVIOUS
<1>1. LoadInv' /\ Placed'
  BY LoadInvStep, LoadStepFences, PlacedStep DEF KeptInv, LoadInv
<1>2. ASSUME UNCHANGED loadVars PROVE Listed' /\ Filled'
  <2>1. \A r \in Reqs : /\ InTable(r, Len(table[r]))' = InTable(r, Len(table[r]))
                        /\ InTable(r, computed[r])' = InTable(r, computed[r])
    BY <1>2 DEF loadVars, kvVars, InTable
  <2>2. Listed'
    BY <1>2, <2>1 DEF loadVars, vars, kvVars, xferVars, KeptInv, Listed
  <2>3. Filled'
    BY <1>2, <2>1 DEF loadVars, vars, kvVars, xferVars, dataVars, KeptInv, Filled
  <2> QED
    BY <2>2, <2>3
<1>3. ASSUME NEW batch \in SUBSET Reqs, NEW loads \in SUBSET Reqs,
             batch \cap loads = {}, ScheduleSome(batch, loads)
      PROVE  Listed' /\ Filled'
  BY <1>3, ScheduleKept
<1>4. ASSUME NEW r \in Reqs, PromoteLoaded(r) PROVE Listed' /\ Filled'
  BY <1>4, PromoteKept
<1>5. ASSUME NEW r \in Reqs, Release(r) PROVE Listed' /\ Filled'
  BY <1>5, ReleaseKept
<1>6. ASSUME NEW r \in Reqs, Abort(r) PROVE Listed' /\ Filled'
  BY <1>6, AbortKept
<1>7. ASSUME NEW r \in Reqs, Preempt(r) PROVE Listed' /\ Filled'
  BY <1>7, PreemptKept
<1>8. ASSUME NEW r \in Reqs, NEW b, Write(r, b) \/ Fail(r, b) PROVE Listed' /\ Filled'
  BY <1>8, WriteKept
<1>9. ASSUME NEW d \in SUBSET receiving, NEW i, NEW s \in SUBSET sending,
             NEW e \in SUBSET Reqs, UpdateTransfers(d, i, s, e)
      PROVE  Listed' /\ Filled'
  BY <1>9, UpdateKept
<1>10. Listed' /\ Filled'
  BY <1>2, <1>3, <1>4, <1>5, <1>6, <1>7, <1>8, <1>9 DEF LoadNext
<1> QED
  BY <1>1, <1>10 DEF KeptInv

LEMMA KeptInvHolds == LoadSpec => []KeptInv
BY KeptInit, KeptStep, PTL DEF LoadSpec

(***************************************************************************)
(* No block is lost, whatever is loaded, fails, is aborted or preempted:   *)
(* all are in the pool, a request's or behind a fence, and a request that  *)
(* ended keeps its blocks only for a transfer that will report             *)
(* (_free_request_blocks, _update_from_kv_xfer_finished).                  *)
(***************************************************************************)
THEOREM NoBlockLost == LoadSpec => []NoneLost
<1>1. KeptInv => NoneLost
  <2> SUFFICES ASSUME KeptInv PROVE NoneLost
    OBVIOUS
  <2>1. TypeOK /\ Placed /\ Listed
    BY DEF KeptInv, LoadInv
  <2>2. \A j \in DOMAIN deferred : deferred[j].blocks \subseteq Blocks
    <3>1. \A j \in DOMAIN deferred : deferred[j] \in Entry
      BY <2>1, ElementOfSeq DEF TypeOK
    <3> QED
      BY <3>1 DEF Entry
  <2>3. Blocks = free \cup (UNION {held[r] : r \in Reqs})
                      \cup (UNION {deferred[j].blocks : j \in DOMAIN deferred})
    BY <2>1, <2>2 DEF TypeOK, Placed
  <2> QED
    BY <2>1, <2>3 DEF NoneLost, Listed
<1> QED
  BY <1>1, KeptInvHolds, PTL

(***************************************************************************)
(* What is counted as computed has its KV, although loads fail in part,    *)
(* are reported late and are aborted: no request reads, and the prefix     *)
(* cache never offers, a block without it (_handle_invalid_blocks,         *)
(* _update_waiting_for_remote_kv).                                         *)
(***************************************************************************)
THEOREM ComputedAlwaysValid == LoadSpec => []ComputedValid
<1>1. KeptInv => ComputedValid
  BY DEF KeptInv, Filled, ComputedValid
<1> QED
  BY <1>1, KeptInvHolds, PTL
-----------------------------------------------------------------------------
(* The queues: KVSchedule implements KVLoad, so what was proved of any     *)
(* admission holds of the one the scheduler's queues make.                 *)

\* Local variables of schedule(): what it starts to load are requests.
LoopTypes ==
  /\ loop = [loads |-> loop.loads, skipped |-> loop.skipped,
             preempted |-> loop.preempted]
  /\ loop.loads \subseteq Reqs

LEMMA LoopInit == OrderInit => LoopTypes
BY DEF OrderInit, NoLoop, LoopTypes

LEMMA LoopStep == LoopTypes /\ [OrderNext]_allVars => LoopTypes'
<1> SUFFICES ASSUME LoopTypes, [OrderNext]_allVars PROVE LoopTypes'
  OBVIOUS
<1>1. ASSUME loop' = loop \/ loop' = NoLoop PROVE LoopTypes'
  BY <1>1 DEF LoopTypes, NoLoop
<1>2. ASSUME NEW r \in Reqs, PreemptForRoom(r) \/ SkipWaiting(r) \/ AdmitLoad(r)
      PROVE  LoopTypes'
  <2>1. \/ loop' = [loop EXCEPT !.preempted = TRUE]
        \/ loop' = [loop EXCEPT !.skipped = Append(@, r)]
        \/ loop' = [loop EXCEPT !.loads = @ \cup {r}, !.skipped = Append(@, r)]
    BY <1>2 DEF PreemptForRoom, SkipWaiting, AdmitLoad
  <2>2. \E S, skip, pre :
          S \subseteq Reqs /\ loop' = [loads |-> S, skipped |-> skip, preempted |-> pre]
    <3>1. loop = [loads |-> loop.loads, skipped |-> loop.skipped,
                  preempted |-> loop.preempted]
          /\ loop.loads \subseteq Reqs
      BY DEF LoopTypes
    <3>2. CASE loop' = [loop EXCEPT !.preempted = TRUE]
      <4>1. loop' = [loads |-> loop.loads, skipped |-> loop.skipped, preempted |-> TRUE]
        BY <3>1, <3>2
      <4> QED
        BY <3>1, <4>1
    <3>3. CASE loop' = [loop EXCEPT !.skipped = Append(@, r)]
      <4>1. loop' = [loads |-> loop.loads, skipped |-> Append(loop.skipped, r),
                     preempted |-> loop.preempted]
        BY <3>1, <3>3
      <4> QED
        BY <3>1, <4>1
    <3>4. CASE loop' = [loop EXCEPT !.loads = @ \cup {r}, !.skipped = Append(@, r)]
      <4>1. loop' = [loads |-> loop.loads \cup {r}, skipped |-> Append(loop.skipped, r),
                     preempted |-> loop.preempted]
        BY <3>1, <3>4
      <4>2. loop.loads \cup {r} \subseteq Reqs
        BY <3>1
      <4> QED
        BY <4>1, <4>2
    <3> QED
      BY <2>1, <3>2, <3>3, <3>4
  <2> QED
    BY <2>2 DEF LoopTypes
<1>3. ASSUME EndWaiting PROVE LoopTypes'
  <2>1. loop' = [loop EXCEPT !.skipped = <<>>]
    BY <1>3 DEF EndWaiting
  <2>2. loop' = [loads |-> loop.loads, skipped |-> <<>>, preempted |-> loop.preempted]
    BY <2>1 DEF LoopTypes
  <2> QED
    BY <2>2 DEF LoopTypes
<1>4. CASE UNCHANGED allVars
  BY <1>1, <1>4 DEF allVars, orderVars
<1>5. ASSUME NEW r \in Reqs, AddRequest(r) \/ AbortRequest(r) \/ Arrives(r) \/ Breaks(r)
      PROVE  LoopTypes'
  BY <1>1, <1>5 DEF AddRequest, AbortRequest, Arrives, Breaks, orderVars
<1>6. ASSUME Turn PROVE LoopTypes'
  <2>1. ASSUME NEW r \in Reqs, PromoteCandidate(r) \/ Admit(r) PROVE loop' = loop
    BY <2>1 DEF PromoteCandidate, Admit, orderVars
  <2>2. ASSUME ProcessOldest PROVE loop' = loop
    BY <2>2 DEF ProcessOldest, Process
  <2>3. ASSUME BeginSchedule \/ EndRunning \/ ScheduleAhead \/ ReleaseBlocks
        PROVE  loop' = loop
    BY <2>3 DEF BeginSchedule, EndRunning, ScheduleAhead, ReleaseBlocks, orderVars
  <2>4. ASSUME EndSchedule PROVE loop' = NoLoop
    BY <2>4 DEF EndSchedule
  <2> QED
    BY <1>1, <1>2, <1>3, <1>6, <2>1, <2>2, <2>3, <2>4 DEF Turn
<1> QED
  BY <1>4, <1>5, <1>6 DEF OrderNext

\* schedule()'s calls of KVLoad: running requests and loads are not the same.
LEMMA EndScheduleLoads ==
  ASSUME LoopTypes, EndSchedule
  PROVE  LoadNext
<1> DEFINE batch == {r \in Reqs : r \in Elements(running) /\ left[r] > 0}
<1>1. ScheduleSome(batch, loop.loads)
  BY DEF EndSchedule
<1>2. batch \in SUBSET Reqs /\ loop.loads \in SUBSET Reqs
  BY DEF LoopTypes
<1>3. Admits(batch, loop.loads)
  BY <1>1 DEF ScheduleSome
<1> HIDE DEF batch
<1>4. batch \cap loop.loads = {}
  BY <1>3 DEF Admits, Admissible
<1> QED
  BY <1>1, <1>2, <1>4 DEF LoadNext

LEMMA OrderStepLoads == LoopTypes /\ [OrderNext]_allVars => [LoadNext]_loadVars
<1> SUFFICES ASSUME LoopTypes, [OrderNext]_allVars PROVE [LoadNext]_loadVars
  OBVIOUS
<1>1. CASE UNCHANGED allVars
  BY <1>1 DEF allVars
<1>2. ASSUME NEW r \in Reqs, AddRequest(r) PROVE UNCHANGED loadVars
  BY <1>2 DEF AddRequest
<1>3. ASSUME NEW r \in Reqs, AbortRequest(r) PROVE LoadNext
  <2>1. Abort(r)
    BY <1>3 DEF AbortRequest
  <2> QED
    BY <2>1 DEF LoadNext
<1>4. ASSUME NEW r \in Reqs, Arrives(r) \/ Breaks(r) PROVE LoadNext
  <2>1. \E b \in writes[r] : Write(r, b) \/ Fail(r, b)
    BY <1>4 DEF Arrives, Breaks
  <2> QED
    BY <2>1 DEF LoadNext
<1>5. ASSUME NEW r \in Reqs, PreemptForRoom(r) PROVE LoadNext
  <2>1. Preempt(r)
    BY <1>5 DEF PreemptForRoom
  <2> QED
    BY <2>1 DEF LoadNext
<1>6. ASSUME NEW r \in Reqs, PromoteCandidate(r) PROVE LoadNext
  <2>1. PromoteLoaded(r)
    BY <1>6 DEF PromoteCandidate
  <2> QED
    BY <2>1 DEF LoadNext
<1>7. ASSUME NEW r \in Reqs, SkipWaiting(r) \/ AdmitLoad(r) \/ Admit(r)
      PROVE  UNCHANGED loadVars
  BY <1>7 DEF SkipWaiting, AdmitLoad, Admit
<1>8. ASSUME BeginSchedule \/ EndRunning \/ EndWaiting \/ ScheduleAhead
      PROVE  UNCHANGED loadVars
  BY <1>8 DEF BeginSchedule, EndRunning, EndWaiting, ScheduleAhead
<1>9. ASSUME EndSchedule PROVE LoadNext
  BY <1>9, EndScheduleLoads
<1>10. ASSUME ProcessOldest PROVE LoadNext
  <2>1. \E done \in SUBSET receiving, invalid \in SUBSET bad, sent \in SUBSET sending,
           sends \in SUBSET Reqs : UpdateTransfers(done, invalid, sent, sends)
    BY <1>10 DEF ProcessOldest, Process
  <2> QED
    BY <2>1 DEF LoadNext
<1>11. ASSUME ReleaseBlocks PROVE LoadNext
  <2>1. \E r \in Reqs : Release(r)
    BY <1>11 DEF ReleaseBlocks
  <2> QED
    BY <2>1 DEF LoadNext
<1>12. ASSUME Turn PROVE [LoadNext]_loadVars
  BY <1>5, <1>6, <1>7, <1>8, <1>9, <1>10, <1>11, <1>12 DEF Turn
<1> QED
  BY <1>1, <1>2, <1>3, <1>4, <1>12 DEF OrderNext

(***************************************************************************)
(* The scheduler's traversal of its queues admits, promotes, preempts and  *)
(* ends requests only as KVLoad allows; in particular no call of           *)
(* schedule() both runs a request and starts to load it.                   *)
(***************************************************************************)
THEOREM QueuesImplementLoads == OrderSpec => LoadSpec
<1>1. OrderInit => LoadInit
  BY DEF OrderInit
<1> QED
  BY <1>1, LoopInit, LoopStep, OrderStepLoads, PTL DEF OrderSpec, LoadSpec

(***************************************************************************)
(* With the scheduler's queues, under either policy: no step in flight     *)
(* uses a block of the pool, loads write only blocks of their own, only    *)
(* blocks with KV are read or offered, and no block is lost.               *)
(***************************************************************************)
THEOREM QueuesKeepLoadsSafe ==
  OrderSpec => [](FenceInv /\ LoadsAlone /\ ComputedValid /\ NoneLost)
BY QueuesImplementLoads, LoadsKeepFences, LoadsAlwaysAlone, ComputedAlwaysValid,
   NoBlockLost, PTL
=============================================================================
