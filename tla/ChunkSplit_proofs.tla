------------------------- MODULE ChunkSplit_proofs -------------------------
(***************************************************************************)
(* Proofs about the operators of ChunkSplit, for every block size, hash    *)
(* block, chunk limit, look-ahead, prompt and shared-prefix junction.      *)
(***************************************************************************)
EXTENDS ChunkSplit, TLAPS

-----------------------------------------------------------------------------
(* Multiples.                                                              *)

LEMMA Quotient ==
  ASSUME NEW a \in Nat, NEW b \in Nat \ {0}
  PROVE  /\ a = b * (a \div b) + (a % b)
         /\ (a \div b) \in Nat /\ (a % b) \in 0..(b - 1)
OBVIOUS

LEMMA Multiple ==
  ASSUME NEW b \in Nat \ {0}, NEW q \in Nat, NEW a \in Nat, a = b * q
  PROVE  a % b = 0
OBVIOUS

LEMMA MultipleSum ==
  ASSUME NEW a \in Nat, NEW c \in Nat, NEW b \in Nat \ {0}, a % b = 0, c % b = 0
  PROVE  (a + c) % b = 0
<1> DEFINE q == a \div b
           p == c \div b
<1>1. a = b * q /\ q \in Nat /\ c = b * p /\ p \in Nat
  BY Quotient
<1> HIDE DEF q, p
<1>2. a + c = b * (q + p)
  BY <1>1
<1> QED
  BY <1>1, <1>2, Multiple

LEMMA MultipleDifference ==
  ASSUME NEW a \in Nat, NEW b \in Nat \ {0}, a >= b, a % b = 0
  PROVE  (a - b) % b = 0
<1> DEFINE q == a \div b
<1>1. a = b * q /\ q \in Nat
  BY Quotient
<1> HIDE DEF q
<1>2. q # 0
  BY <1>1
<1>3. a - b = b * (q - 1) /\ q - 1 \in Nat
  BY <1>1, <1>2
<1> QED
  BY <1>1, <1>3, Multiple

LEMMA MultipleAtLeast ==
  ASSUME NEW a \in Nat, NEW b \in Nat \ {0}, a % b = 0, a # 0
  PROVE  a >= b
<1> DEFINE q == a \div b
<1>1. a = b * q /\ q \in Nat
  BY Quotient
<1> HIDE DEF q
<1>2. q >= 1
  BY <1>1
<1> QED
  BY <1>1, <1>2

\* The boundary at or below a position is a boundary, less than a block away.
LEMMA FloorIs ==
  ASSUME NEW x \in Nat
  PROVE  /\ Floor(x) \in Nat /\ Floor(x) <= x /\ x < Floor(x) + BlockSize
         /\ Floor(x) % BlockSize = 0
<1> USE ChunkSplitAssumption
<1> DEFINE q == x \div BlockSize
           m == x % BlockSize
<1>1. x = BlockSize * q + m /\ q \in Nat /\ m \in 0..(BlockSize - 1)
  BY Quotient
<1>2. Floor(x) = x - m
  BY DEF Floor
<1> HIDE DEF q, m
<1>3. BlockSize * q \in Nat
  BY <1>1
<1>4. Floor(x) = BlockSize * q
  BY <1>1, <1>2, <1>3
<1>5. Floor(x) % BlockSize = 0
  BY <1>1, <1>3, <1>4, Multiple
<1>6. Floor(x) <= x /\ x < Floor(x) + BlockSize
  BY <1>1, <1>2
<1> QED
  BY <1>3, <1>4, <1>5, <1>6

-----------------------------------------------------------------------------
(* The helpers of the split.                                               *)

LEMMA LeastWithOneMore ==
  ASSUME NEW T \in SUBSET Int, NEW x \in Int,
         T # {} => \E s \in T : \A t \in T : s <= t
  PROVE  \E s \in T \cup {x} : \A t \in T \cup {x} : s <= t
<1>1. CASE T = {}
  BY <1>1
<1>2. CASE T # {}
  <2>1. PICK s \in T : \A t \in T : s <= t
    BY <1>2
  <2>2. CASE s <= x
    BY <2>1, <2>2
  <2>3. CASE x < s
    BY <2>1, <2>3
  <2> QED
    BY <2>1, <2>2, <2>3
<1> QED
  BY <1>1, <1>2

LEMMA SplitTypes ==
  ASSUME NEW start \in Nat, NEW end \in Nat, NEW prompt \in Nat,
         NEW tokens \in Nat, NEW junction \in Nat
  PROVE  /\ PrefillEnd(prompt, tokens) \in Int
         /\ LastCachePosition(tokens) \in Nat
         /\ LastCachePosition(tokens) % BlockSize = 0
         /\ TailBoundary(prompt) \in Int
         /\ TailStop(prompt, tokens) \in Int
         /\ TailStop(prompt, tokens) \in {0, TailBoundary(prompt)}
         /\ BlockStop(start) \in Nat /\ BlockStop(start) % BlockSize = 0
         /\ start % BlockSize # 0 => start < BlockStop(start)
                                     /\ BlockStop(start) <= start + BlockSize
         /\ JunctionStop(start, end, junction) \in Nat
         /\ start % BlockSize = 0 => JunctionStop(start, end, junction) % BlockSize = 0
         /\ start < JunctionStop(start, end, junction) =>
              start + BlockSize <= JunctionStop(start, end, junction)
<1> USE ChunkSplitAssumption
<1>1. PrefillEnd(prompt, tokens) \in Int
  BY DEF PrefillEnd, Larger
<1>2. 0 % BlockSize = 0 /\ BlockSize % BlockSize = 0
  <2>1. BlockSize = BlockSize * 1 /\ 0 = BlockSize * 0
    OBVIOUS
  <2> QED
    BY <2>1, Multiple
<1>3. Floor(tokens) \in Nat /\ Floor(tokens) % BlockSize = 0
  BY FloorIs
<1>4. LastCachePosition(tokens) \in Nat /\ LastCachePosition(tokens) % BlockSize = 0
  <2>1. CASE ~UseEagle
    BY <1>3, <2>1 DEF LastCachePosition
  <2>2. CASE UseEagle /\ Floor(tokens) >= BlockSize
    <3>1. (Floor(tokens) - BlockSize) % BlockSize = 0
      BY <1>3, <2>2, MultipleDifference
    <3> QED
      BY <1>3, <2>2, <3>1 DEF LastCachePosition, Larger
  <2>3. CASE UseEagle /\ Floor(tokens) < BlockSize
    BY <1>2, <1>3, <2>3 DEF LastCachePosition, Larger
  <2> QED
    BY <1>3, <2>1, <2>2, <2>3
<1>5. TailBoundary(prompt) \in Int
  <2>1. prompt % HashBlock \in Int
    BY Quotient
  <2> QED
    BY <2>1 DEF TailBoundary
<1>6. TailStop(prompt, tokens) \in Int
      /\ TailStop(prompt, tokens) \in {0, TailBoundary(prompt)}
  BY <1>5 DEF TailStop
<1>7. /\ BlockStop(start) \in Nat /\ BlockStop(start) % BlockSize = 0
      /\ start % BlockSize # 0 => start < BlockStop(start)
                                  /\ BlockStop(start) <= start + BlockSize
  <2>1. /\ Floor(start) \in Nat /\ Floor(start) % BlockSize = 0
        /\ Floor(start) <= start /\ start < Floor(start) + BlockSize
    BY FloorIs
  <2>2. (Floor(start) + BlockSize) % BlockSize = 0
    BY <1>2, <2>1, MultipleSum
  <2> HIDE DEF Floor
  <2> QED
    BY <1>2, <2>1, <2>2 DEF BlockStop
<1>8. CASE ~(start < junction /\ junction < end)
  <2>1. JunctionStop(start, end, junction) = 0
    BY <1>8 DEF JunctionStop
  <2> QED
    BY <1>1, <1>2, <1>4, <1>5, <1>6, <1>7, <2>1
<1>9. CASE start < junction /\ junction < end
  <2> DEFINE d == junction - start
  <2>1. d \in Nat
    BY <1>9
  <2>2. Floor(d) \in Nat /\ Floor(d) % BlockSize = 0
    BY <2>1, FloorIs
  <2>3. JunctionStop(start, end, junction) = start + Floor(d)
    BY <1>9 DEF JunctionStop
  <2>4. Floor(d) # 0 => Floor(d) >= BlockSize
    BY <2>2, MultipleAtLeast
  <2>5. start % BlockSize = 0 => (start + Floor(d)) % BlockSize = 0
    BY <2>2, MultipleSum
  <2> DEFINE f == Floor(d)
  <2>6. f \in Nat /\ (f # 0 => f >= BlockSize)
    BY <2>2, <2>4
  <2> HIDE DEF d, f
  <2>7. start < start + f => start + BlockSize <= start + f
    BY <2>6
  <2>8. start + f \in Nat
    BY <2>6
  <2>9. /\ JunctionStop(start, end, junction) \in Nat
        /\ start % BlockSize = 0 => JunctionStop(start, end, junction) % BlockSize = 0
        /\ start < JunctionStop(start, end, junction) =>
             start + BlockSize <= JunctionStop(start, end, junction)
    BY <2>3, <2>5, <2>7, <2>8 DEF f
  <2> QED
    BY <1>1, <1>4, <1>5, <1>6, <1>7, <2>9
<1> QED
  BY <1>8, <1>9

\* The stop a chunk makes is the first one strictly inside it, if any.
LEMMA StopIs ==
  ASSUME NEW start \in Nat, NEW end \in Nat, NEW prompt \in Nat,
         NEW tokens \in Nat, NEW junction \in Nat
  PROVE  LET S == Stops(start, end, prompt, tokens, junction)
             e == EarliestStop(S, end)
         IN  /\ S = {} => e = end
             /\ S # {} => e \in S /\ \A t \in S : e <= t
             /\ \A s \in S : s \in Int /\ start < s /\ s < end
             /\ \A s \in S : \/ s = BlockStop(start)
                             \/ s = LastCachePosition(tokens)
                             \/ s = TailStop(prompt, tokens)
                             \/ s = JunctionStop(start, end, junction)
<1> DEFINE a == BlockStop(start)
           b == LastCachePosition(tokens)
           c == TailStop(prompt, tokens)
           d == JunctionStop(start, end, junction)
           S == Stops(start, end, prompt, tokens, junction)
           Has(T) == T # {} => \E s \in T : \A t \in T : s <= t
<1>1. a \in Int /\ b \in Int /\ c \in Int /\ d \in Int
  <2>1. a \in Nat
    BY SplitTypes
  <2>2. b \in Nat
    BY SplitTypes
  <2>3. c \in Int
    BY SplitTypes
  <2>4. d \in Nat
    BY SplitTypes
  <2> QED
    BY <2>1, <2>2, <2>3, <2>4
<1>2. S \subseteq {a, b, c, d} /\ \A s \in S : start < s /\ s < end
  BY DEF Stops
<1> HIDE DEF a, b, c, d, S
<1>3. Has(S)
  <2>1. Has(S \cap {a})
    BY <1>1
  <2>2. Has(S \cap {a, b})
    <3>1. S \cap {a, b} = IF b \in S THEN (S \cap {a}) \cup {b} ELSE S \cap {a}
      OBVIOUS
    <3>2. S \cap {a} \in SUBSET Int
      BY <1>1
    <3> QED
      BY <1>1, <2>1, <3>1, <3>2, LeastWithOneMore
  <2>3. Has(S \cap {a, b, c})
    <3>1. S \cap {a, b, c} = IF c \in S THEN (S \cap {a, b}) \cup {c} ELSE S \cap {a, b}
      OBVIOUS
    <3>2. S \cap {a, b} \in SUBSET Int
      BY <1>1
    <3> QED
      BY <1>1, <2>2, <3>1, <3>2, LeastWithOneMore
  <2>4. Has(S \cap {a, b, c, d})
    <3>1. S \cap {a, b, c, d} = IF d \in S THEN (S \cap {a, b, c}) \cup {d}
                                ELSE S \cap {a, b, c}
      OBVIOUS
    <3>2. S \cap {a, b, c} \in SUBSET Int
      BY <1>1
    <3> QED
      BY <1>1, <2>3, <3>1, <3>2, LeastWithOneMore
  <2>5. S \cap {a, b, c, d} = S
    BY <1>2
  <2> QED
    BY <2>4, <2>5
<1>4. /\ S = {} => EarliestStop(S, end) = end
      /\ S # {} => /\ EarliestStop(S, end) \in S
                   /\ \A t \in S : EarliestStop(S, end) <= t
  BY <1>3 DEF EarliestStop
<1>5. \A s \in S : s \in Int /\ start < s /\ s < end
  BY <1>1, <1>2
<1>6. \A s \in S : s = a \/ s = b \/ s = c \/ s = d
  BY <1>2
<1> QED
  BY <1>4, <1>5, <1>6 DEF a, b, c, d, S

-----------------------------------------------------------------------------
(* The split and the reservation.                                          *)

\* The split takes at most what is wanted, and only moves the end back.
LEMMA SplitBounded ==
  ASSUME NEW start \in Nat, NEW n \in Nat, NEW prompt \in Nat,
         NEW tokens \in Nat, NEW junction \in Nat
  PROVE  /\ AlignedEnd(start, start + n, prompt, tokens) \in Nat
         /\ AlignedEnd(start, start + n, prompt, tokens) <= start + n
         /\ Split(start, n, prompt, tokens, junction) \in 0..n
<1> DEFINE end == AlignedEnd(start, start + n, prompt, tokens)
           S   == Stops(start, end, prompt, tokens, junction)
<1>1. end \in Nat /\ end <= start + n
  BY FloorIs DEF AlignedEnd
<1> HIDE DEF end
<1>2. /\ S = {} => EarliestStop(S, end) = end
      /\ S # {} => EarliestStop(S, end) \in S
      /\ \A s \in S : s \in Int /\ s < end
  BY <1>1, StopIs
<1> HIDE DEF S
<1>4. EarliestStop(S, end) \in Int /\ EarliestStop(S, end) <= end
  BY <1>1, <1>2
<1>5. Larger(EarliestStop(S, end) - start, 0) \in 0..n
  BY <1>1, <1>4 DEF Larger
<1> QED
  BY <1>1, <1>5 DEF Split, S, end

\* Where a split chunk ends while the prefill goes on.
LEMMA SplitAligned ==
  ASSUME NEW start \in Nat, NEW n \in Nat, NEW prompt \in Nat,
         NEW tokens \in Nat, NEW junction \in Nat, NEW m \in Nat,
         m = Split(start, n, prompt, tokens, junction), m > 0,
         start < PrefillEnd(prompt, tokens)
  PROVE  \/ (start + m) % BlockSize = 0
         \/ start + m >= PrefillEnd(prompt, tokens)
         \/ start + m = TailBoundary(prompt)
         \/ BlockSize > ChunkLimit
<1> USE ChunkSplitAssumption
<1> DEFINE end == AlignedEnd(start, start + n, prompt, tokens)
           S   == Stops(start, end, prompt, tokens, junction)
           e   == EarliestStop(S, end)
<1>0. PrefillEnd(prompt, tokens) \in Int
  BY SplitTypes
<1>1. end \in Nat
  BY SplitBounded
<1>2. \/ end % BlockSize = 0
      \/ end >= PrefillEnd(prompt, tokens)
      \/ BlockSize > ChunkLimit
  <2>1. start + n \in Nat
    OBVIOUS
  <2>2. Floor(start + n) % BlockSize = 0
    BY <2>1, FloorIs
  <2> QED
    BY <1>0, <2>1, <2>2 DEF AlignedEnd
<1>3. m = Larger(e - start, 0)
  BY <1>0 DEF Split
<1> HIDE DEF end
<1>4. BlockStop(start) \in Nat
  BY <1>1, SplitTypes
<1>5. /\ S = {} => e = end
      /\ S # {} => e \in S /\ \A t \in S : e <= t
      /\ \A s \in S : s \in Int /\ start < s /\ s < end
      /\ \A s \in S : \/ s = BlockStop(start)
                      \/ s = LastCachePosition(tokens)
                      \/ s = TailStop(prompt, tokens)
                      \/ s = JunctionStop(start, end, junction)
  BY <1>1, StopIs
<1>6. CASE S = {}
  <2>1. e = end
    BY <1>5, <1>6
  <2>2. start + m = end
    BY <1>1, <1>3, <2>1 DEF Larger
  <2> QED
    BY <1>2, <2>2
<1>7. CASE S # {}
  <2>1. e \in S /\ \A t \in S : e <= t
    BY <1>5, <1>7
  <2>2. BlockStop(start) \in S <=> start < BlockStop(start) /\ BlockStop(start) < end
    BY DEF Stops
  <2> HIDE DEF S, e
  <2>3. e \in Int /\ start < e /\ e < end
    BY <1>5, <2>1
  <2>4. start + m = e
    BY <1>3, <2>3 DEF Larger
  <2>5. CASE e = BlockStop(start)
    BY <2>4, <2>5, SplitTypes
  <2>6. CASE e = LastCachePosition(tokens)
    BY <2>4, <2>6, SplitTypes
  <2>7. CASE e = TailStop(prompt, tokens)
    <3>1. e = 0 \/ e = TailBoundary(prompt)
      BY <2>7, SplitTypes
    <3> QED
      BY <2>3, <2>4, <3>1
  <2>8. CASE e = JunctionStop(start, end, junction)
    <3>1. CASE start % BlockSize = 0
      BY <1>1, <2>4, <2>8, <3>1, SplitTypes
    <3>2. CASE start % BlockSize # 0
      <4>1. start + BlockSize <= e
        BY <1>1, <2>3, <2>8, SplitTypes
      <4>2. start < BlockStop(start) /\ BlockStop(start) <= start + BlockSize
        BY <3>2, SplitTypes
      <4>3. BlockStop(start) \in S
        BY <1>1, <1>4, <2>2, <2>3, <4>1, <4>2
      <4>4. e <= BlockStop(start)
        BY <2>1, <4>3
      <4>5. e = BlockStop(start)
        BY <1>4, <2>3, <4>1, <4>2, <4>4
      <4> QED
        BY <2>4, <4>5, SplitTypes
    <3> QED
      BY <3>1, <3>2
  <2> QED
    BY <1>5, <2>1, <2>5, <2>6, <2>7, <2>8
<1> QED
  BY <1>6, <1>7

\* A full chunk always moves a prefill forward, before the reservation.
LEMMA SplitProgress ==
  ASSUME NEW prompt \in Nat, NEW tokens \in Nat, NEW junction \in Nat,
         prompt <= tokens,
         NEW start \in Nat, start < tokens,
         NEW n \in Nat,
         n = IF tokens - start < ChunkLimit THEN tokens - start ELSE ChunkLimit
  PROVE  Split(start, n, prompt, tokens, junction) > 0
<1> USE ChunkSplitAssumption
<1> DEFINE end == AlignedEnd(start, start + n, prompt, tokens)
           S   == Stops(start, end, prompt, tokens, junction)
           e   == EarliestStop(S, end)
<1>1. PrefillEnd(prompt, tokens) \in Int /\ PrefillEnd(prompt, tokens) <= tokens
  BY DEF PrefillEnd, Larger
<1>2. CASE start >= PrefillEnd(prompt, tokens)
  BY <1>2 DEF Split
<1>3. CASE start < PrefillEnd(prompt, tokens)
  <2>1. end \in Nat
    BY SplitBounded
  <2>2. start < end
    <3>1. CASE start + n >= PrefillEnd(prompt, tokens)
      BY <1>1, <3>1 DEF AlignedEnd
    <3>2. CASE start + n < PrefillEnd(prompt, tokens) /\ Floor(start + n) <= start
      <4>1. n = ChunkLimit
        BY <1>1, <3>2
      <4>2. /\ Floor(start + n) \in Nat /\ start + n < Floor(start + n) + BlockSize
        <5>1. start + n \in Nat
          OBVIOUS
        <5> QED
          BY <5>1, FloorIs
      <4>3. ~(BlockSize <= ChunkLimit)
        BY <3>2, <4>1, <4>2
      <4> QED
        BY <1>1, <3>2, <4>1, <4>2, <4>3 DEF AlignedEnd
    <3>3. CASE start + n < PrefillEnd(prompt, tokens) /\ Floor(start + n) > start
      BY <1>1, <3>3 DEF AlignedEnd
    <3>4. Floor(start + n) \in Nat
      <4>1. start + n \in Nat
        OBVIOUS
      <4> QED
        BY <4>1, FloorIs
    <3> QED
      BY <1>1, <3>1, <3>2, <3>3, <3>4
  <2> HIDE DEF end
  <2>3. /\ S = {} => e = end
        /\ S # {} => e \in S
        /\ \A s \in S : s \in Int /\ start < s
    BY <2>1, StopIs
  <2> HIDE DEF S
  <2>5. e \in Int /\ start < e
    BY <2>1, <2>2, <2>3
  <2>6. Split(start, n, prompt, tokens, junction) = Larger(e - start, 0)
    BY <1>1, <1>3 DEF Split, S, end
  <2> HIDE DEF e
  <2> QED
    BY <2>5, <2>6 DEF Larger
<1> QED
  BY <1>1, <1>2, <1>3

\* What the reservation takes away, and what it leaves.
LEMMA ReserveIs ==
  ASSUME NEW start \in Nat, NEW tokens \in Nat, NEW n \in Nat, start + n <= tokens
  PROVE  /\ Reserve(start, n, tokens) \in 0..n
         /\ Reserve(start, n, tokens) > 0 =>
              \/ start + Reserve(start, n, tokens) = tokens
              \/ tokens - (start + Reserve(start, n, tokens)) >= Lookahead
         /\ Lookahead <= 1 => Reserve(start, n, tokens) = n
BY ChunkSplitAssumption DEF Reserve, Larger

-----------------------------------------------------------------------------
(* A full chunk.                                                           *)

(***************************************************************************)
(* With a look-ahead of at most one token (every drafter but the           *)
(* multi-module one) a full chunk always moves an unfinished prefill       *)
(* forward: no alignment or mandatory stop of schedule() can stall it.     *)
(***************************************************************************)
THEOREM ChunkProgress ==
  ASSUME Lookahead <= 1,
         NEW prompt \in Nat, NEW tokens \in Nat, NEW junction \in Nat,
         prompt <= tokens,
         NEW start \in Nat, start < tokens,
         NEW n \in Nat,
         n = IF tokens - start < ChunkLimit THEN tokens - start ELSE ChunkLimit
  PROVE  Chunk(start, n, prompt, tokens, junction) > 0
<1> DEFINE m == Split(start, n, prompt, tokens, junction)
<1>1. m \in 0..n
  BY SplitBounded
<1>2. m > 0
  BY SplitProgress
<1>3. Chunk(start, n, prompt, tokens, junction) = Reserve(start, m, tokens)
  BY DEF Chunk
<1> HIDE DEF m
<1>4. start + n <= tokens
  BY ChunkSplitAssumption
<1>5. m \in Nat /\ start + m <= tokens
  BY <1>1, <1>4
<1> QED
  BY <1>2, <1>3, <1>5, ReserveIs
=============================================================================
