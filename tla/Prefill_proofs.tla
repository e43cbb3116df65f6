--------------------------- MODULE Prefill_proofs ---------------------------
(***************************************************************************)
(* Proofs about Prefill: what every chunk of a prefill does, whatever the  *)
(* budgets, for every prompt, replay and shared-prefix junction.           *)
(***************************************************************************)
EXTENDS Prefill, ChunkSplit_proofs

\* One step of Schedule: the chunk is what is left of the split.
LEMMA ScheduleIs ==
  ASSUME TypeOK, NEW budget \in 1..ChunkLimit, Schedule(budget)
  PROVE  \E m \in Nat :
           /\ computed + m <= tokens
           /\ computed' = computed + Reserve(computed, m, tokens)
           /\ Reserve(computed, m, tokens) > 0
           /\ from' = computed
           /\ UNCHANGED <<prompt, tokens, junction>>
           /\ computed < PrefillEnd(prompt, tokens) /\ m > 0 =>
                \/ (computed + m) % BlockSize = 0
                \/ computed + m >= PrefillEnd(prompt, tokens)
                \/ computed + m = TailBoundary(prompt)
                \/ BlockSize > ChunkLimit
<1> USE ChunkSplitAssumption
<1> DEFINE left == tokens - computed
           want == IF left < budget THEN left ELSE budget
           m    == Split(computed, want, prompt, tokens, junction)
<1>1. /\ prompt \in Nat /\ tokens \in Nat /\ junction \in Nat
      /\ computed \in Nat /\ computed < tokens
  BY DEF TypeOK, Schedule, Prefilling
<1>2. want \in Nat /\ computed + want <= tokens
  BY <1>1
<1>3. /\ computed' = computed + Reserve(computed, m, tokens)
      /\ Reserve(computed, m, tokens) > 0
      /\ from' = computed
      /\ UNCHANGED <<prompt, tokens, junction>>
  BY DEF Schedule, Chunk
<1> HIDE DEF want
<1>4. m \in 0..want
  BY <1>1, <1>2, SplitBounded
<1>5. computed < PrefillEnd(prompt, tokens) /\ m > 0 =>
        \/ (computed + m) % BlockSize = 0
        \/ computed + m >= PrefillEnd(prompt, tokens)
        \/ computed + m = TailBoundary(prompt)
        \/ BlockSize > ChunkLimit
  <2> SUFFICES ASSUME computed < PrefillEnd(prompt, tokens), m > 0
               PROVE  \/ (computed + m) % BlockSize = 0
                      \/ computed + m >= PrefillEnd(prompt, tokens)
                      \/ computed + m = TailBoundary(prompt)
                      \/ BlockSize > ChunkLimit
    OBVIOUS
  <2>1. m = Split(computed, want, prompt, tokens, junction)
    OBVIOUS
  <2> HIDE DEF m
  <2>2. m \in Nat
    BY <1>2, <1>4
  <2> QED
    BY <1>1, <1>2, <2>1, <2>2, SplitAligned
<1> HIDE DEF m
<1>6. m \in Nat /\ computed + m <= tokens
  BY <1>1, <1>2, <1>4
<1> QED
  BY <1>3, <1>5, <1>6

LEMMA PrefillTypeStep == TypeOK /\ [Next]_vars => TypeOK'
<1> SUFFICES ASSUME TypeOK, [Next]_vars PROVE TypeOK'
  OBVIOUS
<1>1. CASE UNCHANGED vars
  BY <1>1 DEF TypeOK, vars
<1>2. ASSUME NEW budget \in 1..ChunkLimit, Schedule(budget) PROVE TypeOK'
  <2>1. PICK m \in Nat :
          /\ computed + m <= tokens
          /\ computed' = computed + Reserve(computed, m, tokens)
          /\ Reserve(computed, m, tokens) > 0
          /\ from' = computed
          /\ UNCHANGED <<prompt, tokens, junction>>
    BY <1>2, ScheduleIs
  <2>2. computed \in Nat /\ tokens \in Nat
    BY DEF TypeOK
  <2>3. Reserve(computed, m, tokens) \in 0..m
    BY <2>1, <2>2, ReserveIs
  <2>4. computed' \in 0..tokens' /\ from' \in 0..computed'
    BY <2>1, <2>2, <2>3
  <2> QED
    BY <2>1, <2>4 DEF TypeOK
<1> QED
  BY <1>1, <1>2 DEF Next

LEMMA PrefillTypeInit == Init => TypeOK
BY PrefillAssumption DEF Init, TypeOK

LEMMA PrefillTypes == Spec => []TypeOK
BY PrefillTypeInit, PrefillTypeStep, PTL DEF Spec

(***************************************************************************)
(* Whatever the budgets, a chunk ends the prefill or leaves the drafter    *)
(* its look-ahead (_reserve_prefill_lookahead).                            *)
(***************************************************************************)
THEOREM LookaheadAlwaysLeft == Spec => []LookaheadLeft
<1>1. Init => LookaheadLeft
  BY DEF Init, LookaheadLeft
<1>2. TypeOK /\ LookaheadLeft /\ [Next]_vars => LookaheadLeft'
  <2> SUFFICES ASSUME TypeOK, LookaheadLeft, [Next]_vars PROVE LookaheadLeft'
    OBVIOUS
  <2>1. CASE UNCHANGED vars
    BY <2>1 DEF LookaheadLeft, vars
  <2>2. ASSUME NEW budget \in 1..ChunkLimit, Schedule(budget) PROVE LookaheadLeft'
    <3>1. PICK m \in Nat :
            /\ computed + m <= tokens
            /\ computed' = computed + Reserve(computed, m, tokens)
            /\ Reserve(computed, m, tokens) > 0
            /\ UNCHANGED <<prompt, tokens, junction>>
      BY <2>2, ScheduleIs
    <3>2. computed \in Nat /\ tokens \in Nat
      BY DEF TypeOK
    <3>3. \/ computed' = tokens
          \/ tokens - computed' >= Lookahead
      BY <3>1, <3>2, ReserveIs
    <3> QED
      BY <3>1, <3>3 DEF LookaheadLeft
  <2> QED
    BY <2>1, <2>2 DEF Next
<1> QED
  BY <1>1, <1>2, PrefillTypes, PTL DEF Spec

(***************************************************************************)
(* With a look-ahead of at most one token, every prefill chunk but the     *)
(* last ends where a recurrent state may be cached                         *)
(* (_mamba_block_aligned_split).                                           *)
(***************************************************************************)
THEOREM ChunkEndsAlwaysAligned == Lookahead <= 1 => (Spec => []ChunkEndsAligned)
<1> SUFFICES ASSUME Lookahead <= 1 PROVE Spec => []ChunkEndsAligned
  OBVIOUS
<1>1. Init => ChunkEndsAligned
  BY DEF Init, ChunkEndsAligned
<1>2. TypeOK /\ ChunkEndsAligned /\ [Next]_vars => ChunkEndsAligned'
  <2> SUFFICES ASSUME TypeOK, ChunkEndsAligned, [Next]_vars
               PROVE  ChunkEndsAligned'
    OBVIOUS
  <2>1. CASE UNCHANGED vars
    BY <2>1 DEF ChunkEndsAligned, vars
  <2>2. ASSUME NEW budget \in 1..ChunkLimit, Schedule(budget)
        PROVE  ChunkEndsAligned'
    <3>1. PICK m \in Nat :
            /\ computed + m <= tokens
            /\ computed' = computed + Reserve(computed, m, tokens)
            /\ Reserve(computed, m, tokens) > 0
            /\ from' = computed
            /\ UNCHANGED <<prompt, tokens, junction>>
            /\ computed < PrefillEnd(prompt, tokens) /\ m > 0 =>
                 \/ (computed + m) % BlockSize = 0
                 \/ computed + m >= PrefillEnd(prompt, tokens)
                 \/ computed + m = TailBoundary(prompt)
                 \/ BlockSize > ChunkLimit
      BY <2>2, ScheduleIs
    <3>2. computed \in Nat /\ tokens \in Nat
      BY DEF TypeOK
    <3>3. Reserve(computed, m, tokens) = m
      BY <3>1, <3>2, ReserveIs
    <3>4. computed' = computed + m /\ m > 0
      BY <3>1, <3>3
    <3>5. computed < PrefillEnd(prompt, tokens) =>
            \/ computed' % BlockSize = 0
            \/ computed' >= PrefillEnd(prompt, tokens)
            \/ computed' = TailBoundary(prompt)
            \/ BlockSize > ChunkLimit
      BY <3>1, <3>4
    <3> QED
      BY <3>1, <3>5 DEF ChunkEndsAligned
  <2> QED
    BY <2>1, <2>2 DEF Next
<1> QED
  BY <1>1, <1>2, PrefillTypes, PTL DEF Spec
-----------------------------------------------------------------------------
(* The boundaries inside a chunk.                                          *)

\* A multiple of b above x - b and at most x is the largest one.
LEMMA LargestMultiple ==
  ASSUME NEW b \in Nat \ {0}, NEW x \in Nat, NEW y \in Nat,
         y % b = 0, y <= x, x < y + b
  PROVE  x - (x % b) = y
<1> DEFINE q == x \div b
           p == y \div b
           i == x % b
<1>1. x = b * q + i /\ q \in Nat /\ i \in 0..(b - 1) /\ y = b * p /\ p \in Nat
  <2>1. x = b * q + i /\ q \in Nat /\ i \in 0..(b - 1)
    BY Quotient
  <2>2. y = b * p + (y % b) /\ p \in Nat
    BY Quotient
  <2> HIDE DEF p
  <2>3. b * p \in Nat
    BY <2>2
  <2> QED
    BY <2>1, <2>2, <2>3
<1> HIDE DEF q, p, i
<1>2. b * q \in Nat /\ b * p \in Nat
  BY <1>1
<1>3. p <= q
  <2> SUFFICES ASSUME p >= q + 1 PROVE FALSE
    BY <1>1
  <2>1. b * p >= b * (q + 1) /\ b * (q + 1) = b * q + b
    BY <1>1
  <2> QED
    BY <1>1, <1>2, <2>1
<1>4. q <= p
  <2> SUFFICES ASSUME q >= p + 1 PROVE FALSE
    BY <1>1
  <2>1. b * q >= b * (p + 1) /\ b * (p + 1) = b * p + b
    BY <1>1
  <2> QED
    BY <1>1, <1>2, <2>1
<1>5. p = q
  BY <1>1, <1>3, <1>4
<1>6. x - i = y
  BY <1>1, <1>2, <1>5
<1> QED
  BY <1>6 DEF i

\* A chunk that ends at or before each of its stops has no boundary inside.
LEMMA NoneInside ==
  ASSUME NEW start \in Nat, NEW end \in Nat, NEW pr \in Nat, NEW tk \in Nat, NEW jn \in Nat,
         NEW c \in Nat, c <= end, \A t \in Stops(start, end, pr, tk, jn) : c <= t,
         NEW s \in Nat, start < s, s < c
  PROVE  /\ s % BlockSize = 0 => start % BlockSize = 0
         /\ s # LastCachePosition(tk)
         /\ s = TailBoundary(pr) /\ s < pr => s <= LastCachePosition(tk)
         /\ s % BlockSize = 0 /\ s <= jn /\ jn < c => s + BlockSize <= jn
<1> USE ChunkSplitAssumption
<1> DEFINE S == Stops(start, end, pr, tk, jn)
<1>1. s \notin S /\ s < end
  BY DEF S
<1>2. s # BlockStop(start) /\ s # LastCachePosition(tk) /\ s # TailStop(pr, tk)
      /\ s # JunctionStop(start, end, jn)
  BY <1>1 DEF S, Stops
<1>3. \A t \in S : c <= t
  BY DEF S
<1>4. s % BlockSize = 0 => start % BlockSize = 0
  <2> SUFFICES ASSUME s % BlockSize = 0, start % BlockSize # 0 PROVE FALSE
    OBVIOUS
  <2>1. /\ Floor(start) \in Nat /\ Floor(start) <= start /\ start < Floor(start) + BlockSize
        /\ Floor(start) % BlockSize = 0
    BY FloorIs
  <2> DEFINE a == Floor(start) + BlockSize
  <2>2. a = BlockStop(start) /\ a \in Nat /\ start < a
    BY <2>1 DEF BlockStop
  <2>3. a <= s
    <3> SUFFICES ASSUME s < a PROVE FALSE
      BY <2>2
    <3>1. s - (s % BlockSize) = Floor(start)
      BY <2>1, <2>2, LargestMultiple
    <3> QED
      BY <2>1, <3>1
  <2>4. a \in S
    BY <1>1, <2>2, <2>3 DEF S, Stops
  <2>5. c <= a
    BY <1>3, <2>4
  <2> QED
    BY <2>2, <2>3, <2>5
<1>5. s = TailBoundary(pr) /\ s < pr => s <= LastCachePosition(tk)
  <2>1. LastCachePosition(tk) \in Nat
    BY SplitTypes
  <2> QED
    BY <1>2, <2>1 DEF TailStop
<1>6. s % BlockSize = 0 /\ s <= jn /\ jn < c => s + BlockSize <= jn
  <2> SUFFICES ASSUME s % BlockSize = 0, s <= jn, jn < c, jn < s + BlockSize PROVE FALSE
    OBVIOUS
  <2>1. start % BlockSize = 0 /\ s >= start
    BY <1>4
  <2>2. JunctionStop(start, end, jn) = start + Floor(jn - start)
    BY DEF JunctionStop
  <2>3. s - start \in Nat /\ (s - start) % BlockSize = 0
    <3>1. BlockSize * (start \div BlockSize) = start /\ BlockSize * (s \div BlockSize) = s
      BY <2>1, Quotient
    <3> DEFINE p == start \div BlockSize
               q == s \div BlockSize
    <3>2. p \in Nat /\ q \in Nat
      BY Quotient
    <3> HIDE DEF p, q
    <3>3. q >= p
      <4> SUFFICES ASSUME p >= q + 1 PROVE FALSE
        BY <3>2
      <4>1. BlockSize * p >= BlockSize * (q + 1) /\ BlockSize * (q + 1) = BlockSize * q + BlockSize
        BY <3>2
      <4> QED
        BY <3>1, <3>2, <4>1 DEF p, q
    <3>4. BlockSize * (q - p) = BlockSize * q - BlockSize * p /\ q - p \in Nat
      BY <3>2, <3>3
    <3>5. s - start = BlockSize * (q - p)
      BY <3>1, <3>4 DEF p, q
    <3>6. s - start \in Nat
      BY <2>1
    <3> QED
      BY <3>4, <3>5, <3>6, Multiple
  <2>4. (jn - start) - ((jn - start) % BlockSize) = s - start
    <3>1. jn - start \in Nat /\ s - start <= jn - start /\ jn - start < (s - start) + BlockSize
      BY <2>1
    <3> QED
      BY <2>3, <3>1, LargestMultiple
  <2>5. JunctionStop(start, end, jn) = s
    BY <2>2, <2>3, <2>4 DEF Floor
  <2> QED
    BY <1>2, <2>5
<1> QED
  BY <1>2, <1>4, <1>5, <1>6

\* The chunk that a call of schedule() takes ends at or before its stops.
LEMMA ChunkInside ==
  ASSUME TypeOK, NEW budget \in 1..ChunkLimit, Schedule(budget)
  PROVE  /\ computed' \in Nat /\ from' = computed /\ UNCHANGED <<prompt, tokens, junction>>
         /\ computed < PrefillEnd(prompt, tokens) =>
              \E end \in Nat :
                /\ computed' <= end
                /\ \A t \in Stops(computed, end, prompt, tokens, junction) : computed' <= t
<1> USE ChunkSplitAssumption
<1> DEFINE left == tokens - computed
           want == IF left < budget THEN left ELSE budget
           m    == Split(computed, want, prompt, tokens, junction)
           end  == AlignedEnd(computed, computed + want, prompt, tokens)
           S    == Stops(computed, end, prompt, tokens, junction)
           e    == EarliestStop(S, end)
<1>1. /\ prompt \in Nat /\ tokens \in Nat /\ junction \in Nat
      /\ computed \in Nat /\ computed < tokens
  BY DEF TypeOK, Schedule, Prefilling
<1>2. want \in Nat /\ computed + want <= tokens
  BY <1>1
<1>3. /\ computed' = computed + Reserve(computed, m, tokens)
      /\ Reserve(computed, m, tokens) > 0
      /\ from' = computed
      /\ UNCHANGED <<prompt, tokens, junction>>
  BY DEF Schedule, Chunk
<1>4. computed < PrefillEnd(prompt, tokens) => m = Larger(e - computed, 0)
  <2>1. PrefillEnd(prompt, tokens) \in Int
    BY <1>1, SplitTypes
  <2> QED
    BY <1>1, <2>1 DEF Split
<1> HIDE DEF want
<1>5. m \in 0..want /\ end \in Nat
  BY <1>1, <1>2, SplitBounded
<1> HIDE DEF end, m
<1>6. /\ S = {} => e = end
      /\ S # {} => e \in S /\ \A t \in S : e <= t
      /\ \A t \in S : t \in Int /\ computed < t /\ t < end
  BY <1>1, <1>5, StopIs
<1> HIDE DEF e, S
<1>7. Reserve(computed, m, tokens) \in 0..m
  BY <1>1, <1>2, <1>5, ReserveIs
<1>8. e \in Int /\ e <= end /\ \A t \in S : e <= t
  BY <1>5, <1>6
<1>9. ASSUME computed < PrefillEnd(prompt, tokens) PROVE computed' <= e
  BY <1>1, <1>3, <1>4, <1>5, <1>7, <1>8, <1>9 DEF Larger
<1>10. computed' \in Nat
  BY <1>1, <1>3, <1>5, <1>7
<1>11. computed < PrefillEnd(prompt, tokens) =>
         computed' <= end /\ \A t \in S : computed' <= t
  BY <1>5, <1>6, <1>8, <1>9, <1>10
<1> QED
  BY <1>3, <1>5, <1>10, <1>11 DEF S

LEMMA Inside ==
  ASSUME NEW a \in Nat, NEW b \in Nat, NEW s, s \in (a + 1)..(b - 1)
  PROVE  s \in Nat /\ a < s /\ s < b
OBVIOUS


(***************************************************************************)
(* No chunk runs past the end of the block it starts inside, the last      *)
(* cacheable boundary, the registered tail or a boundary of the shared     *)
(* prefix, whatever the budgets and the lookahead                          *)
(* (_mamba_block_aligned_split).                                           *)
(***************************************************************************)
THEOREM NoBoundaryEverJumped == Spec => []NoBoundaryJumped
<1>1. Init => NoBoundaryJumped
  <2> SUFFICES ASSUME Init, NEW s \in (from + 1)..(computed - 1) PROVE FALSE
    BY DEF NoBoundaryJumped
  <2>1. computed \in Int /\ from = computed
    BY PrefillAssumption DEF Init
  <2> QED
    BY <2>1
<1>2. TypeOK /\ NoBoundaryJumped /\ [Next]_vars => NoBoundaryJumped'
  <2> SUFFICES ASSUME TypeOK, NoBoundaryJumped, [Next]_vars PROVE NoBoundaryJumped'
    OBVIOUS
  <2>1. CASE UNCHANGED vars
    BY <2>1 DEF NoBoundaryJumped, vars
  <2>2. ASSUME NEW budget \in 1..ChunkLimit, Schedule(budget) PROVE NoBoundaryJumped'
    <3>1. /\ computed' \in Nat /\ from' = computed /\ UNCHANGED <<prompt, tokens, junction>>
          /\ computed < PrefillEnd(prompt, tokens) =>
               \E end \in Nat :
                 /\ computed' <= end
                 /\ \A t \in Stops(computed, end, prompt, tokens, junction) : computed' <= t
      BY <2>2, ChunkInside
    <3>2. prompt \in Nat /\ tokens \in Nat /\ junction \in Nat /\ computed \in Nat
      BY DEF TypeOK
    <3> SUFFICES ASSUME NEW s, s \in (computed + 1)..(computed' - 1),
                        computed < PrefillEnd(prompt, tokens)
                 PROVE  /\ s % BlockSize = 0 => computed % BlockSize = 0
                        /\ s # LastCachePosition(tokens)
                        /\ s = TailBoundary(prompt) /\ s < prompt => s <= LastCachePosition(tokens)
                        /\ s % BlockSize = 0 /\ s <= junction /\ junction < computed' =>
                             s + BlockSize <= junction
      BY <3>1 DEF NoBoundaryJumped
    <3>3. PICK end \in Nat :
            /\ computed' <= end
            /\ \A t \in Stops(computed, end, prompt, tokens, junction) : computed' <= t
      BY <3>1
    <3>4. s \in Nat /\ computed < s /\ s < computed'
      <4>1. computed' \in Nat
        BY <3>1
      <4>2. computed \in Nat
        BY <3>2
      <4>3. s \in (computed + 1)..(computed' - 1)
        OBVIOUS
      <4> QED
        BY <4>1, <4>2, <4>3, Inside
    <3> HIDE DEF LastCachePosition
    <3> QED
      BY <3>1, <3>2, <3>3, <3>4, NoneInside
  <2> QED
    BY <2>1, <2>2 DEF Next
<1> QED
  BY <1>1, <1>2, PrefillTypes, PTL DEF Spec
=============================================================================
