------------------------- MODULE AsyncOutput_proofs -------------------------
(***************************************************************************)
(* Proofs about the steps in flight: stale output, the counters advanced   *)
(* before the ranks compute, the rows the ranks get, the output the        *)
(* clients get, and the cadence of the decodes.                            *)
(*                                                                         *)
(* Flights says what of a request is in flight and what of that is stale.  *)
(* FitSteps says that every step, when its turn comes, finds the last      *)
(* rank's row where its own share of rows and drafts fits; Counteds that   *)
(* the scheduler's counters are what that row will be after all of them,   *)
(* nothing being rejected.  What is rejected lowers the forecast of every  *)
(* later step by the same number, as it lowers the counter; a step that    *)
(* sends the request anew cuts that chain, and what precedes it is stale.  *)
(* Delivereds says that what will be delivered is the next token in order. *)
(* NaturalRows and Queue complete the types.  None of them is inductive    *)
(* alone, together with Base and Slots they are: Counting.                 *)
(*                                                                         *)
(* PaddedRowsFit, assumed by the theorems that rest on Counting, excludes  *)
(* a new decode that is padded to more rows than a chunk holds: without    *)
(* the alignment split the scheduler then sends drafts that have no rows.  *)
(***************************************************************************)
EXTENDS AsyncScheduler_proofs

-----------------------------------------------------------------------------
(* The steps in flight.                                                     *)

\* What a sequence of steps computes for a request in some of its places.
TokensOf(ss, r, S) == SumFunctionOnSet([j \in S |-> ss[j].n[r]], S)

\* What is in flight for a request, and the part of it that is not of its current
\* incarnation.
InFlight(r) == TokensIn(r, StepsOf(r))
StaleIn(r)  == TokensIn(r, StepsOf(r) \ CurrentSteps(r))

\* The steps are numbered, and every row of one computes tokens.
LEMMA StepsFacts ==
  ASSUME Base, NEW r
  PROVE  /\ Len(steps) \in Nat /\ DOMAIN steps = 1..Len(steps)
         /\ \A j \in DOMAIN steps : /\ steps[j] \in StepType /\ RowsFit(steps[j])
                                    /\ DOMAIN steps[j].n \in SUBSET Reqs
         /\ StepsOf(r) \in SUBSET (1..Len(steps)) /\ StepsOf(r) \in SUBSET Int
         /\ IsFiniteSet(StepsOf(r)) /\ CurrentSteps(r) \in SUBSET StepsOf(r)
         /\ \A j \in StepsOf(r) : steps[j].n[r] \in Counts
<1>1. steps \in Seq(StepType) /\ \A j \in DOMAIN steps : RowsFit(steps[j])
  BY DEF Base, Types
<1>2. Len(steps) \in Nat /\ DOMAIN steps = 1..Len(steps)
  BY <1>1
<1>3. \A j \in DOMAIN steps : steps[j] \in StepType
  BY <1>1
<1>4. \A j \in DOMAIN steps : steps[j].n \in Maps(Counts)
  BY <1>3 DEF StepType, Rows
<1>5. \A j \in DOMAIN steps : /\ DOMAIN steps[j].n \in SUBSET Reqs
                              /\ \A s \in DOMAIN steps[j].n : steps[j].n[s] \in Counts
  BY <1>4, MapIs
<1>6. StepsOf(r) \in SUBSET (1..Len(steps)) /\ CurrentSteps(r) \in SUBSET StepsOf(r)
  BY <1>2 DEF StepsOf, CurrentSteps
<1>7. IsFiniteSet(1..Len(steps))
  BY <1>2, FS_Interval
<1>8. IsFiniteSet(StepsOf(r))
  BY <1>6, <1>7, FS_Subset
<1>9. StepsOf(r) \in SUBSET Int
  BY <1>2, <1>6
<1> QED
  BY <1>1, <1>2, <1>3, <1>5, <1>6, <1>8, <1>9 DEF StepsOf

\* Nothing is computed in no step, and something in every other set of them.
LEMMA TokensNat ==
  ASSUME NEW ss, NEW r, NEW S, IsFiniteSet(S), \A j \in S : ss[j].n[r] \in Counts
  PROVE  /\ TokensOf(ss, r, S) \in Nat /\ TokensOf(ss, r, {}) = 0
         /\ TokensOf(ss, r, S) = 0 => S = {}
         /\ \A j \in S : ss[j].n[r] <= TokensOf(ss, r, S)
<1> DEFINE f == [j \in S |-> ss[j].n[r]]
<1>1. \A j \in S : f[j] = ss[j].n[r] /\ f[j] \in Nat /\ f[j] >= 1
  BY DEF Counts
<1>2. TokensOf(ss, r, S) = SumFunctionOnSet(f, S)
  BY DEF TokensOf
<1>3. TokensOf(ss, r, {}) = 0
  BY SumEmpty DEF TokensOf
<1> HIDE DEF f
<1>4. /\ SumFunctionOnSet(f, S) \in Nat
      /\ \A x \in S : f[x] <= SumFunctionOnSet(f, S)
  BY <1>1, SumNat
<1>5. TokensOf(ss, r, S) = 0 => S = {}
  BY <1>1, <1>2, <1>4
<1> QED
  BY <1>1, <1>2, <1>3, <1>4, <1>5

\* The same rows in the same places.
SameRows(ss, tt, r, S) == \A j \in S : tt[j].n[r] = ss[j].n[r]

\* The tokens of some steps depend on those steps' rows only.
LEMMA TokensSame ==
  ASSUME NEW ss, NEW tt, NEW r, NEW S, SameRows(ss, tt, r, S)
  PROVE  TokensOf(tt, r, S) = TokensOf(ss, r, S)
<1>1. [j \in S |-> tt[j].n[r]] = [j \in S |-> ss[j].n[r]]
  BY DEF SameRows
<1> QED
  BY <1>1 DEF TokensOf

\* One step more.
OneMore(ss, r, S, k) ==
  TokensOf(ss, r, S \cup {k}) = TokensOf(ss, r, S) + ss[k].n[r]
RowsInt(ss, r, S) == \A j \in S : ss[j].n[r] \in Int

\* The tokens of some steps and one more.
LEMMA TokensMore ==
  ASSUME NEW ss, NEW r, NEW S, IsFiniteSet(S), NEW k, k \notin S, RowsInt(ss, r, S \cup {k})
  PROVE  OneMore(ss, r, S, k)
<1> DEFINE f == [j \in S |-> ss[j].n[r]]
           g == [j \in S \cup {k} |-> ss[j].n[r]]
<1>1. /\ \A y \in S : f[y] = g[y]
      /\ \A y \in S \cup {k} : g[y] \in Int
      /\ g[k] = ss[k].n[r]
  BY DEF RowsInt
<1>2. TokensOf(ss, r, S) = SumFunctionOnSet(f, S)
      /\ TokensOf(ss, r, S \cup {k}) = SumFunctionOnSet(g, S \cup {k})
  BY DEF TokensOf
<1> HIDE DEF f, g
<1>3. SumFunctionOnSet(g, S \cup {k}) = SumFunctionOnSet(f, S) + g[k]
  BY <1>1, SumAdd
<1> QED
  BY <1>1, <1>2, <1>3 DEF OneMore

\* The steps move up by one.
\* The places S, moved up by one.
Earlier(S) == {j - 1 : j \in S}

ShiftedRows(ss, tt, r, S) == \A j \in S : tt[j - 1].n[r] = ss[j].n[r]

\* The tokens of the same steps, one place nearer to the front.
LEMMA TokensShift ==
  ASSUME NEW ss, NEW tt, NEW r, NEW S \in SUBSET Int, IsFiniteSet(S),
         RowsInt(ss, r, S), ShiftedRows(ss, tt, r, S)
  PROVE  TokensOf(tt, r, Earlier(S)) = TokensOf(ss, r, S)
<1> DEFINE f == [j \in S |-> ss[j].n[r]]
           D == Earlier(S)
           g == [j \in D |-> tt[j].n[r]]
<1>1. \A x \in S : f[x] = g[x - 1] /\ f[x] \in Int
  BY DEF RowsInt, ShiftedRows, Earlier
<1>2. TokensOf(ss, r, S) = SumFunctionOnSet(f, S)
      /\ TokensOf(tt, r, D) = SumFunctionOnSet(g, D)
  BY DEF TokensOf
<1> HIDE DEF f, g
<1>3. SumFunctionOnSet(g, D) = SumFunctionOnSet(f, S)
  BY <1>1, SumShift DEF D, Earlier
<1> QED
  BY <1>2, <1>3

\* One step less.
LEMMA TokensLess ==
  ASSUME NEW ss, NEW r, NEW S, IsFiniteSet(S), \A j \in S : ss[j].n[r] \in Int, NEW k \in S
  PROVE  TokensOf(ss, r, S \ {k}) = TokensOf(ss, r, S) - ss[k].n[r]
<1> DEFINE T == S \ {k}
<1>1. IsFiniteSet(T) /\ k \notin T /\ T \cup {k} = S
  BY FS_RemoveElement
<1>2. \A j \in T : ss[j].n[r] \in Int
  OBVIOUS
<1>3. TokensOf(ss, r, T \cup {k}) = TokensOf(ss, r, T) + ss[k].n[r]
  <2>1. RowsInt(ss, r, T \cup {k})
    BY DEF RowsInt
  <2> HIDE DEF T
  <2>2. OneMore(ss, r, T, k)
    BY <1>1, <2>1, TokensMore
  <2> QED
    BY <2>2 DEF OneMore
<1>4. TokensOf(ss, r, T) \in Int
  <2> DEFINE f == [j \in T |-> ss[j].n[r]]
  <2>1. \A j \in T : f[j] \in Int
    BY <1>2
  <2>2. TokensOf(ss, r, T) = SumFunctionOnSet(f, T)
    BY DEF TokensOf
  <2> HIDE DEF f, T
  <2> QED
    BY <1>1, <2>1, <2>2, SumInt
<1>5. ss[k].n[r] \in Int
  OBVIOUS
<1>6. TokensOf(ss, r, S) = TokensOf(ss, r, T) + ss[k].n[r]
  BY <1>1, <1>3
<1>7. TokensOf(ss, r, T) = TokensOf(ss, r, S) - ss[k].n[r]
  <2> HIDE DEF T
  <2> QED
    BY <1>4, <1>5, <1>6
<1> QED
  BY <1>7

\* A step with the rows s is appended.
LEMMA AppendedSteps ==
  ASSUME Base, NEW s, s \in StepType, RowsFit(s), steps' = Append(steps, s), NEW r \in Reqs
  PROVE  /\ r \in DOMAIN s.n => /\ StepsOf(r)' = StepsOf(r) \cup {Len(steps) + 1}
                                /\ InFlight(r)' = InFlight(r) + s.n[r]
         /\ r \notin DOMAIN s.n => /\ StepsOf(r)' = StepsOf(r) /\ InFlight(r)' = InFlight(r)
                                   /\ CurrentSteps(r)' = CurrentSteps(r)
         /\ IF r \in DOMAIN s.fresh
            THEN CurrentSteps(r)' = {Len(steps) + 1} /\ StaleIn(r)' = InFlight(r)
            ELSE StaleIn(r)' = StaleIn(r)
<1> DEFINE k == Len(steps) + 1
           S == StepsOf(r)
           C == CurrentSteps(r)
<1>1. /\ Len(steps) \in Nat /\ DOMAIN steps = 1..Len(steps)
      /\ S \in SUBSET (1..Len(steps)) /\ S \in SUBSET Int /\ IsFiniteSet(S)
      /\ C \in SUBSET S /\ \A j \in S : steps[j].n[r] \in Counts
  BY StepsFacts
<1>2. steps \in Seq(StepType)
  BY DEF Base, Types
<1>3. /\ DOMAIN steps' = 1..k /\ Len(steps') = k /\ steps'[k] = s
      /\ \A j \in 1..Len(steps) : steps'[j] = steps[j]
  BY <1>1, <1>2
<1>4. k \notin 1..Len(steps) /\ 1..k = (1..Len(steps)) \cup {k}
      /\ \A j \in 1..Len(steps) : k > j /\ ~(j > k)
  BY <1>1
<1>5. DOMAIN s.fresh \subseteq DOMAIN s.n
  BY DEF RowsFit
<1>6. s.n \in Rows
  BY DEF StepType
<1>7. r \in DOMAIN s.n => s.n[r] \in Counts
  BY <1>6, MapIs DEF Rows
<1>8. StepsOf(r)' = IF r \in DOMAIN s.n THEN S \cup {k} ELSE S
  <2>1. StepsOf(r)' = {j \in DOMAIN steps' : r \in DOMAIN steps'[j].n}
    BY DEF StepsOf
  <2>2. S = {j \in 1..Len(steps) : r \in DOMAIN steps[j].n}
    BY <1>1 DEF StepsOf
  <2> HIDE DEF S, k
  <2> QED
    BY <1>3, <1>4, <2>1, <2>2
<1>9. CurrentSteps(r)' = IF r \in DOMAIN s.fresh THEN {k}
                         ELSE IF r \in DOMAIN s.n THEN C \cup {k} ELSE C
  <2>1. CurrentSteps(r)' = {j \in StepsOf(r)' : \A i \in 1..k : i > j => r \notin DOMAIN steps'[i].fresh}
    BY <1>3 DEF CurrentSteps
  <2>2. C = {j \in S : \A i \in 1..Len(steps) : i > j => r \notin DOMAIN steps[i].fresh}
    BY <1>1 DEF CurrentSteps
  <2>3. \A j \in S : j \in 1..Len(steps)
    BY <1>1
  <2>4. ~(k > k)
    BY <1>1
  <2> HIDE DEF S, k, C
  <2>5. CASE r \in DOMAIN s.fresh
    BY <1>3, <1>4, <1>5, <1>8, <2>1, <2>3, <2>4, <2>5
  <2>6. CASE r \notin DOMAIN s.fresh
    <3>1. \A j \in 1..k : (\A i \in 1..k : i > j => r \notin DOMAIN steps'[i].fresh) <=>
                          (\A i \in 1..Len(steps) : i > j => r \notin DOMAIN steps[i].fresh)
      BY <1>3, <1>4, <2>6
    <3>2. StepsOf(r)' \in SUBSET (1..k)
      BY <1>4, <1>8, <2>3
    <3>3. \A i \in 1..Len(steps) : ~(i > k)
      BY <1>4
    <3> QED
      BY <1>4, <1>8, <2>1, <2>2, <2>6, <3>1, <3>2, <3>3
  <2> QED
    BY <2>5, <2>6
<1>10. \A T \in SUBSET S : TokensOf(steps', r, T) = TokensOf(steps, r, T)
  <2> SUFFICES ASSUME NEW T \in SUBSET S PROVE TokensOf(steps', r, T) = TokensOf(steps, r, T)
    OBVIOUS
  <2>1. SameRows(steps, steps', r, T)
    BY <1>1, <1>3 DEF SameRows
  <2> QED
    BY <2>1, TokensSame
<1>11. InFlight(r) = TokensOf(steps, r, S) /\ StaleIn(r) = TokensOf(steps, r, S \ C)
  BY DEF InFlight, StaleIn, TokensIn, TokensOf
<1>12. /\ InFlight(r)' = TokensOf(steps', r, StepsOf(r)')
       /\ StaleIn(r)' = TokensOf(steps', r, StepsOf(r)' \ CurrentSteps(r)')
  BY DEF InFlight, StaleIn, TokensIn, TokensOf
<1>13. r \in DOMAIN s.n => TokensOf(steps', r, S \cup {k}) = TokensOf(steps', r, S) + s.n[r]
  <2> SUFFICES ASSUME r \in DOMAIN s.n
               PROVE  TokensOf(steps', r, S \cup {k}) = TokensOf(steps', r, S) + s.n[r]
    OBVIOUS
  <2>1. RowsInt(steps', r, S \cup {k})
    BY <1>1, <1>3, <1>7 DEF Counts, RowsInt
  <2>2. k \notin S /\ steps'[k].n[r] = s.n[r]
    BY <1>1, <1>3, <1>4
  <2> HIDE DEF S, k
  <2>3. IsFiniteSet(S) /\ k \notin S
    BY <1>1, <2>2
  <2>4. OneMore(steps', r, S, k)
    BY <2>1, <2>3, TokensMore
  <2> QED
    BY <2>2, <2>4 DEF OneMore
<1> HIDE DEF S, k, C
<1>14. k \notin S
  BY <1>1, <1>4
<1>15. StepsOf(r)' \ CurrentSteps(r)' = IF r \in DOMAIN s.fresh THEN S ELSE S \ C
  BY <1>5, <1>8, <1>9, <1>14
<1>16. InFlight(r)' = IF r \in DOMAIN s.n THEN InFlight(r) + s.n[r] ELSE InFlight(r)
  BY <1>8, <1>10, <1>11, <1>12, <1>13
<1>17. StaleIn(r)' = IF r \in DOMAIN s.fresh THEN InFlight(r) ELSE StaleIn(r)
  BY <1>10, <1>11, <1>12, <1>15
<1> QED
  BY <1>5, <1>8, <1>9, <1>16, <1>17 DEF S, k, C

\* The oldest step is done.
LEMMA TailSteps ==
  ASSUME Base, steps # <<>>, steps' = Tail(steps), NEW r \in Reqs
  PROVE  /\ StepsOf(r)' = Earlier(StepsOf(r) \ {1})
         /\ CurrentSteps(r)' = Earlier(CurrentSteps(r) \ {1})
         /\ InFlight(r)' = IF r \in OldestRows THEN InFlight(r) - steps[1].n[r]
                           ELSE InFlight(r)
         /\ StaleIn(r)' = IF r \in OldestRows /\ 1 \notin CurrentSteps(r)
                          THEN StaleIn(r) - steps[1].n[r] ELSE StaleIn(r)
<1> DEFINE L == Len(steps)
           S == StepsOf(r)
           C == CurrentSteps(r)
<1>1. /\ L \in Nat /\ DOMAIN steps = 1..L
      /\ S \in SUBSET (1..L) /\ S \in SUBSET Int /\ IsFiniteSet(S)
      /\ C \in SUBSET S /\ \A j \in S : steps[j].n[r] \in Counts
  BY StepsFacts
<1>2. steps \in Seq(StepType)
  BY DEF Base, Types
<1>3. /\ L >= 1 /\ 1 \in 1..L /\ Len(steps') = L - 1 /\ DOMAIN steps' = 1..(L - 1)
      /\ \A j \in 1..(L - 1) : steps'[j] = steps[j + 1]
  BY <1>2
<1>4. r \in OldestRows <=> 1 \in S
  BY <1>1, <1>3 DEF StepsOf, OldestRows
<1>5. /\ \A j \in 1..(L - 1) : j + 1 \in 1..L /\ j + 1 # 1 /\ j = (j + 1) - 1 /\ j \in Int
      /\ \A j \in 1..L : j # 1 => j - 1 \in 1..(L - 1) /\ (j - 1) + 1 = j
  BY <1>1
<1>6. StepsOf(r)' = Earlier(S \ {1})
  <2>1. StepsOf(r)' = {j \in 1..(L - 1) : r \in DOMAIN steps[j + 1].n}
    BY <1>3 DEF StepsOf
  <2>2. S = {j \in 1..L : r \in DOMAIN steps[j].n}
    BY <1>1 DEF StepsOf
  <2> HIDE DEF S, L
  <2>3. \A j \in StepsOf(r)' : j + 1 \in S \ {1} /\ j = (j + 1) - 1
    BY <1>5, <2>1, <2>2
  <2>4. \A j \in S \ {1} : j - 1 \in StepsOf(r)'
    BY <1>5, <2>1, <2>2
  <2> QED
    BY <2>3, <2>4 DEF Earlier
<1>7. CurrentSteps(r)' = Earlier(C \ {1})
  <2>1. CurrentSteps(r)' =
          {j \in StepsOf(r)' : \A i \in 1..(L - 1) : i > j => r \notin DOMAIN steps[i + 1].fresh}
    BY <1>3 DEF CurrentSteps
  <2>2. C = {j \in S : \A i \in 1..L : i > j => r \notin DOMAIN steps[i].fresh}
    BY <1>1 DEF CurrentSteps
  <2>3. \A j \in S \ {1} : /\ j \in 1..L /\ j \in Int /\ j > 1
                           /\ \A i \in 1..(L - 1) : i > j - 1 <=> i + 1 > j
                           /\ \A i \in 1..L : i > j => i # 1 /\ i - 1 > j - 1
    BY <1>1
  <2> HIDE DEF S, L, C
  <2>4. ASSUME NEW j \in S \ {1}
        PROVE  (\A i \in 1..(L - 1) : i > j - 1 => r \notin DOMAIN steps[i + 1].fresh) <=>
               (\A i \in 1..L : i > j => r \notin DOMAIN steps[i].fresh)
    <3>1. ASSUME \A i \in 1..(L - 1) : i > j - 1 => r \notin DOMAIN steps[i + 1].fresh,
                 NEW i \in 1..L, i > j
          PROVE  r \notin DOMAIN steps[i].fresh
      <4>1. i - 1 \in 1..(L - 1) /\ i - 1 > j - 1 /\ (i - 1) + 1 = i
        BY <1>5, <2>3, <3>1
      <4>2. r \notin DOMAIN steps[(i - 1) + 1].fresh
        BY <3>1, <4>1
      <4> QED
        BY <4>1, <4>2
    <3>2. ASSUME \A i \in 1..L : i > j => r \notin DOMAIN steps[i].fresh,
                 NEW i \in 1..(L - 1), i > j - 1
          PROVE  r \notin DOMAIN steps[i + 1].fresh
      BY <1>5, <2>3, <3>2
    <3> QED
      BY <3>1, <3>2
  <2>5. \A j \in S \ {1} : j - 1 \in StepsOf(r)' => (j - 1 \in CurrentSteps(r)' <=> j \in C)
    BY <2>1, <2>2, <2>4
  <2>6. CurrentSteps(r)' \in SUBSET StepsOf(r)'
    BY <2>1
  <2> QED
    BY <1>1, <1>6, <2>5, <2>6 DEF Earlier
<1>8. ASSUME NEW T \in SUBSET (S \ {1})
      PROVE  TokensOf(steps', r, Earlier(T)) = TokensOf(steps, r, T)
  <2>1. RowsInt(steps, r, T) /\ ShiftedRows(steps, steps', r, T)
    BY <1>1, <1>3, <1>5 DEF Counts, RowsInt, ShiftedRows
  <2>2. T \in SUBSET Int /\ IsFiniteSet(T)
    BY <1>1, FS_Subset
  <2> QED
    BY <2>1, <2>2, TokensShift
<1>9. InFlight(r) = TokensOf(steps, r, S) /\ StaleIn(r) = TokensOf(steps, r, S \ C)
  BY DEF InFlight, StaleIn, TokensIn, TokensOf
<1>10. /\ InFlight(r)' = TokensOf(steps', r, StepsOf(r)')
       /\ StaleIn(r)' = TokensOf(steps', r, StepsOf(r)' \ CurrentSteps(r)')
  BY DEF InFlight, StaleIn, TokensIn, TokensOf
<1>11. ASSUME NEW T \in SUBSET S
       PROVE  TokensOf(steps, r, T \ {1}) =
                IF 1 \in T THEN TokensOf(steps, r, T) - steps[1].n[r] ELSE TokensOf(steps, r, T)
  <2>1. IsFiniteSet(T) /\ \A j \in T : steps[j].n[r] \in Int
    BY <1>1, FS_Subset DEF Counts
  <2>2. CASE 1 \in T
    BY <2>1, <2>2, TokensLess
  <2>3. CASE 1 \notin T
    <3>1. T \ {1} = T
      BY <2>3
    <3> QED
      BY <2>3, <3>1
  <2> QED
    BY <2>2, <2>3
<1>12. StepsOf(r)' \ CurrentSteps(r)' = Earlier((S \ C) \ {1})
  <2>1. \A i, j \in S : i - 1 = j - 1 => i = j
    BY <1>1
  <2> HIDE DEF S, C
  <2> QED
    <3>1. Earlier((S \ C) \ {1}) \cap Earlier(C \ {1}) = {}
      BY <1>1, <2>1 DEF Earlier
    <3>2. Earlier(S \ {1}) = Earlier((S \ C) \ {1}) \cup Earlier(C \ {1})
      BY <1>1 DEF Earlier
    <3> QED
      BY <1>6, <1>7, <3>1, <3>2
<1> HIDE DEF S, C, L
<1>13. InFlight(r)' = TokensOf(steps, r, S \ {1})
  BY <1>6, <1>8, <1>10
<1>14. StaleIn(r)' = TokensOf(steps, r, (S \ C) \ {1})
  BY <1>8, <1>10, <1>12
<1>15. InFlight(r)' = IF r \in OldestRows THEN InFlight(r) - steps[1].n[r] ELSE InFlight(r)
  <2>1. S \in SUBSET S
    OBVIOUS
  <2> QED
    BY <1>4, <1>9, <1>11, <1>13, <2>1
<1>16. StaleIn(r)' = IF r \in OldestRows /\ 1 \notin C THEN StaleIn(r) - steps[1].n[r] ELSE StaleIn(r)
  <2>1. S \ C \in SUBSET S /\ (1 \in S \ C <=> r \in OldestRows /\ 1 \notin C)
    BY <1>4
  <2> QED
    BY <1>9, <1>11, <1>14, <2>1
<1> QED
  BY <1>6, <1>7, <1>15, <1>16 DEF S, C

-----------------------------------------------------------------------------
(* What is in flight and what of it is stale.                               *)

\* Nothing is in flight for a request that never ran; all that is in flight for a
\* preempted one is stale, and comes from one incarnation unless it is dropped; what
\* is stale for a running one is what was in flight when it was last admitted, and
\* that is dropped.
Flight(r) ==
  LET p == req[r]
  IN  /\ p.status \in {"new", "waiting"} =>
           StepsOf(r) = {} /\ p.flight = 0 /\ p.stale = 0
      /\ p.status \in {"running", "preempted"} => p.flight = InFlight(r)
      /\ p.status = "preempted" =>
           p.stale = p.flight /\ (p.drop \/ CurrentSteps(r) = StepsOf(r))
      /\ p.status = "running" =>
           /\ p.stale > 0 => p.drop
           /\ p.stale = IF r \in DOMAIN loop.fresh THEN p.flight ELSE StaleIn(r)
Flights == \A r \in Reqs : Flight(r)

\* The sums are numbers; they are 0 only without a step.
LEMMA InFlightNat ==
  ASSUME Base, NEW r \in Reqs
  PROVE  /\ InFlight(r) \in Nat /\ StaleIn(r) \in Nat
         /\ StepsOf(r) = {} => InFlight(r) = 0 /\ StaleIn(r) = 0
         /\ InFlight(r) = 0 => StepsOf(r) = {}
         /\ StaleIn(r) = 0 => CurrentSteps(r) = StepsOf(r)
         /\ CurrentSteps(r) = StepsOf(r) => StaleIn(r) = 0
<1> DEFINE S == StepsOf(r)
           C == CurrentSteps(r)
<1>1. IsFiniteSet(S) /\ C \in SUBSET S /\ \A j \in S : steps[j].n[r] \in Counts
  BY StepsFacts
<1>2. IsFiniteSet(S \ C)
  BY <1>1, FS_Subset
<1>3. InFlight(r) = TokensOf(steps, r, S) /\ StaleIn(r) = TokensOf(steps, r, S \ C)
  BY DEF InFlight, StaleIn, TokensIn, TokensOf
<1> HIDE DEF S, C
<1>4. /\ TokensOf(steps, r, S) \in Nat /\ TokensOf(steps, r, {}) = 0
      /\ TokensOf(steps, r, S) = 0 => S = {}
  BY <1>1, TokensNat
<1>5. TokensOf(steps, r, S \ C) \in Nat /\ (TokensOf(steps, r, S \ C) = 0 => S \ C = {})
  BY <1>1, <1>2, TokensNat
<1>6. /\ S = {} => S \ C = {}
      /\ S \ C = {} <=> C = S
  BY <1>1
<1> QED
  BY <1>3, <1>4, <1>5, <1>6 DEF S, C

\* What the oldest step computes is in flight, and stale unless it is current.
LEMMA OldestInFlight ==
  ASSUME Base, steps # <<>>, NEW r \in OldestRows
  PROVE  /\ r \in Reqs /\ steps[1].n[r] \in Counts /\ steps[1].n[r] <= InFlight(r)
         /\ 1 \in StepsOf(r)
         /\ 1 \notin CurrentSteps(r) => steps[1].n[r] <= StaleIn(r)
         /\ 1 \in CurrentSteps(r) => CurrentSteps(r) = StepsOf(r)
<1> DEFINE S == StepsOf(r)
           C == CurrentSteps(r)
<1>1. /\ IsFiniteSet(S) /\ C \in SUBSET S /\ \A j \in S : steps[j].n[r] \in Counts
      /\ Len(steps) \in Nat /\ DOMAIN steps = 1..Len(steps) /\ S \in SUBSET (1..Len(steps))
  BY StepsFacts
<1>2. r \in Reqs /\ 1 \in DOMAIN steps /\ steps[1].n[r] \in Counts
  BY OldestIs
<1>3. 1 \in S
  BY <1>2 DEF StepsOf, OldestRows
<1>4. 1 \in C => C = S
  <2> SUFFICES ASSUME 1 \in C, NEW j \in S PROVE j \in C
    BY <1>1
  <2>1. \A k \in DOMAIN steps : k > 1 => r \notin DOMAIN steps[k].fresh
    BY DEF CurrentSteps
  <2>2. \A k \in DOMAIN steps : k > j => k > 1
    BY <1>1
  <2> QED
    BY <2>1, <2>2 DEF CurrentSteps
<1>5. InFlight(r) = TokensOf(steps, r, S) /\ StaleIn(r) = TokensOf(steps, r, S \ C)
  BY DEF InFlight, StaleIn, TokensIn, TokensOf
<1>6. IsFiniteSet(S \ C)
  BY <1>1, FS_Subset
<1> HIDE DEF S, C
<1>7. \A j \in S : steps[j].n[r] <= TokensOf(steps, r, S)
  BY <1>1, TokensNat
<1>8. \A j \in S \ C : steps[j].n[r] <= TokensOf(steps, r, S \ C)
  BY <1>1, <1>6, TokensNat
<1> QED
  BY <1>2, <1>3, <1>4, <1>5, <1>7, <1>8 DEF S, C

\* An admitted request runs.
LEMMA FreshRuns ==
  ASSUME Base, NEW r \in DOMAIN loop.fresh
  PROVE  r \in Reqs /\ req[r].status = "running" /\ r \in DOMAIN loop.n
         /\ r \in Elements(running)
<1>1. r \in DOMAIN loop.n /\ r \in Elements(running)
  BY DEF Base, Types, RowsFit, Cursor
<1>2. r \in Reqs
  BY <1>1, RunningSet
<1> QED
  BY <1>1, <1>2 DEF Base, Queues

\* Without a step that comes or goes, the sums stay.
LEMMA SameSteps ==
  ASSUME UNCHANGED steps, NEW r
  PROVE  UNCHANGED <<StepsOf(r), CurrentSteps(r), InFlight(r), StaleIn(r)>>
BY DEF StepsOf, CurrentSteps, InFlight, StaleIn, TokensIn

SameFlight(r) ==
  LET p == req[r]
      q == req'[r]
  IN  /\ q.status = p.status /\ q.flight = p.flight /\ q.stale = p.stale /\ q.drop = p.drop
      /\ r \in DOMAIN loop'.fresh <=> r \in DOMAIN loop.fresh

\* A request whose counters are left alone keeps its shares.
LEMMA FlightSame ==
  ASSUME UNCHANGED steps, NEW r, Flight(r), SameFlight(r)
  PROVE  Flight(r)'
BY SameSteps DEF Flight, SameFlight

\* A running request is preempted.
LEMMA FlightPreempted ==
  ASSUME Base, UNCHANGED steps, NEW r \in Reqs, Flight(r), req[r].status = "running",
         r \notin DOMAIN loop.fresh, NEW drop \in BOOLEAN,
         req'[r].status = "preempted", req'[r].flight = req[r].flight,
         req'[r].stale = req[r].flight, req'[r].drop = KeepsDropping(req[r], drop)
  PROVE  Flight(r)'
<1>1. /\ InFlight(r)' = InFlight(r) /\ StepsOf(r)' = StepsOf(r)
      /\ CurrentSteps(r)' = CurrentSteps(r)
  BY SameSteps
<1>2. /\ req[r].flight = InFlight(r) /\ (req[r].stale > 0 => req[r].drop)
      /\ req[r].stale = StaleIn(r)
  BY DEF Flight
<1>3. StaleIn(r) \in Nat /\ (StaleIn(r) = 0 => CurrentSteps(r) = StepsOf(r))
  BY InFlightNat
<1>4. req[r].stale > 0 => req'[r].drop
  BY <1>2 DEF KeepsDropping
<1>5. req'[r].drop \/ CurrentSteps(r) = StepsOf(r)
  BY <1>2, <1>3, <1>4
<1> QED
  BY <1>1, <1>2, <1>5 DEF Flight

\* A closed request.
LEMMA FlightClosed ==
  ASSUME NEW r, req'[r].status = "finished"
  PROVE  Flight(r)'
BY DEF Flight

-----------------------------------------------------------------------------
(* What an action that neither sends a step nor processes one does to a     *)
(* request.                                                                 *)

SameCounters(r) ==
  LET q == req'[r]
      p == req[r]
  IN  /\ q.computed = p.computed /\ q.holders = p.holders /\ q.flight = p.flight
      /\ q.stale = p.stale /\ q.drop = p.drop /\ q.chunk = p.chunk

\* Its part of the step under construction stays.
SameShare(r) ==
  /\ r \in DOMAIN loop'.n <=> r \in DOMAIN loop.n
  /\ r \in DOMAIN loop'.fresh <=> r \in DOMAIN loop.fresh
  /\ r \in DOMAIN loop.n => loop'.n[r] = loop.n[r] /\ loop'.d[r] = loop.d[r]
  /\ r \in DOMAIN loop.fresh => loop'.fresh[r] = loop.fresh[r]

Stays(r) ==
  /\ SameCounters(r) /\ SameShare(r) /\ req'[r].spec = req[r].spec
  /\ \/ req'[r].status = req[r].status
     \/ req[r].status = "new" /\ req'[r].status = "waiting"
  /\ \/ req'[r].cool = req[r].cool /\ (Settled' <=> Settled)
     \/ req'[r].cool = Larger(req[r].cool - 1, 0) /\ Settled /\ ~Settled' /\ DOMAIN loop'.n = {}

Closes(r) ==
  /\ req'[r] = Closed /\ SameShare(r) /\ Settled /\ Settled'
  /\ req[r].status \in {"waiting", "running", "preempted"}

Schedules(r) ==
  /\ req[r].status = "running" /\ req'[r].status = "running"
  /\ r \notin DOMAIN loop.n /\ r \notin DOMAIN loop.fresh /\ r \notin DOMAIN loop'.fresh
  /\ SameCounters(r) /\ req'[r].spec = 0 /\ req'[r].cool = req[r].cool
  /\ r \in DOMAIN loop'.n /\ loop'.n[r] \in Counts
  /\ loop'.d[r] = DraftsOf(r, loop'.n[r]) /\ WantFits(r, loop'.n[r])
  /\ ~Settled /\ ~Settled'

Evicts(r) ==
  LET q == req'[r]
  IN  /\ req[r].status = "running" /\ q.status = "preempted"
      /\ r \notin DOMAIN loop.fresh /\ r \notin DOMAIN loop'.fresh /\ r \notin DOMAIN loop'.n
      /\ q.computed = 0 /\ q.holders = 0 /\ q.spec = 0 /\ q.flight = req[r].flight
      /\ q.stale = req[r].flight
      /\ \E drop \in BOOLEAN : q.drop = KeepsDropping(req[r], drop)
      /\ Settled' <=> Settled

\* The rows and drafts schedule() offers a request with w.prefill known tokens, of
\* which w.computed are cached.
Offered(w, n, d) ==
  \/ d = 0 /\ w.computed + n <= w.prefill
  \/ /\ d = NumSpec /\ w.computed + 1 = w.prefill /\ PadNewReqs
     /\ n = IF AlignedSplit THEN 1 + NumSpec ELSE Smaller(1 + NumSpec, ChunkLimit)

Admits(r) ==
  LET q == req'[r]
      w == loop'.fresh[r]
  IN  /\ req[r].status \in {"waiting", "preempted"} /\ ~AwaitsOutput(r) /\ q.status = "running"
      /\ r \notin DOMAIN loop.n /\ r \in DOMAIN loop'.n /\ r \in DOMAIN loop'.fresh
      /\ w.computed \in Nat /\ w.computed < w.prefill /\ w.prefill = Tokens(r)
      /\ loop'.n[r] \in Counts /\ Offered(w, loop'.n[r], loop'.d[r])
      /\ q.computed = w.computed /\ q.holders = req[r].holders /\ q.spec = req[r].spec
      /\ q.flight = req[r].flight /\ q.stale = req[r].stale /\ q.drop = req[r].drop
      /\ ~Settled /\ ~Settled'

Moves(r) == Stays(r) \/ Closes(r) \/ Schedules(r) \/ Evicts(r) \/ Admits(r)
Quiet == UNCHANGED <<steps, out, worker>> /\ \A r \in Reqs : Moves(r)

\* A request an action does not touch.
LEMMA Untouched ==
  ASSUME NEW r, req'[r] = req[r], SameShare(r), Settled' <=> Settled
  PROVE  Moves(r)
BY DEF Moves, Stays, SameCounters

\* schedule()'s choices are left alone.
LEMMA SameLoopSame ==
  ASSUME NEW r, loop'.n = loop.n, loop'.d = loop.d, loop'.fresh = loop.fresh
  PROVE  SameShare(r)
BY DEF SameShare

\* Another request's entry does not change this one's.
LEMMA WithOther ==
  ASSUME NEW f, NEW v, NEW s, NEW r, r # s
  PROVE  /\ r \in DOMAIN With(f, s, v) <=> r \in DOMAIN f
         /\ r \in DOMAIN f => With(f, s, v)[r] = f[r]
BY DEF With

\* The entry a map was set to.
LEMMA WithThis ==
  ASSUME NEW f, NEW v, NEW s
  PROVE  s \in DOMAIN With(f, s, v) /\ With(f, s, v)[s] = v
BY DEF With

\* The other entries of a map an entry was removed from.
LEMMA DroppedOther ==
  ASSUME NEW f, NEW s, NEW r, r # s
  PROVE  /\ r \in DOMAIN Dropped(f, s) <=> r \in DOMAIN f
         /\ r \in DOMAIN f => Dropped(f, s)[r] = f[r]
         /\ s \notin DOMAIN Dropped(f, s)
BY DEF Dropped

\* Calls from outside.
LEMMA CallsQuiet ==
  ASSUME Base,
         \/ \E r \in Reqs : AddRequest(r) \/ AbortRequest(r)
         \/ ResetPrefixCache
         \/ \E p \in {"unpaused", "new", "all"} : SetPauseState(p)
  PROVE  Quiet
<1>1. ASSUME NEW s \in Reqs, AddRequest(s) PROVE Quiet
  <2>1. AddEffect(s)
    BY <1>1, AddIs
  <2>2. UNCHANGED <<steps, out, worker, loop>> /\ (Settled' <=> Settled)
        /\ \A r \in Reqs \ {s} : req'[r] = req[r]
    BY <2>1 DEF AddEffect, Settled
  <2>3. Stays(s)
    BY <2>1, <2>2, SameLoopSame DEF Stays, SameCounters, AddEffect
  <2>4. \A r \in Reqs \ {s} : Moves(r)
    BY <2>2, Untouched, SameLoopSame
  <2> QED
    BY <2>2, <2>3, <2>4 DEF Quiet, Moves
<1>2. ASSUME NEW s \in Reqs, AbortRequest(s) PROVE Quiet
  <2>1. AbortEffect(s)
    BY <1>2, AbortIs
  <2>2. UNCHANGED <<steps, out, worker, loop>> /\ Settled' /\ Settled
        /\ \A r \in Reqs \ {s} : req'[r] = req[r]
    BY <2>1 DEF AbortEffect, Settled
  <2>3. Closes(s)
    BY <2>1, <2>2, SameLoopSame DEF Closes, AbortEffect
  <2>4. \A r \in Reqs \ {s} : Moves(r)
    BY <2>2, Untouched, SameLoopSame
  <2> QED
    BY <2>2, <2>3, <2>4 DEF Quiet, Moves
<1>3. ASSUME ResetPrefixCache PROVE Quiet
  <2>1. ResetEffect
    BY <1>3, ResetIs
  <2>2. UNCHANGED <<steps, out, worker, loop>> /\ Settled' /\ Settled
        /\ \A r \in Reqs : r \notin Elements(running) => req'[r] = req[r]
    BY <2>1 DEF ResetEffect, Settled
  <2>3. loop.n = <<>> /\ loop.fresh = <<>> /\ DOMAIN loop.n = {} /\ DOMAIN loop.fresh = {}
    BY <2>1, NoLoopType DEF ResetEffect, Base, Places
  <2>4. ASSUME NEW r \in Reqs, r \in Elements(running) PROVE Evicts(r)
    <3>1. /\ req'[r].status = "preempted" /\ req'[r].computed = 0 /\ req'[r].holders = 0
          /\ req'[r].spec = 0 /\ req'[r].flight = req[r].flight /\ req'[r].stale = req[r].flight
          /\ req'[r].drop = KeepsDropping(req[r], TRUE)
      BY <2>1, <2>4 DEF ResetEffect
    <3>2. req[r].status = "running"
      BY <2>4 DEF Base, Queues
    <3>3. TRUE \in BOOLEAN
      OBVIOUS
    <3> QED
      BY <2>2, <2>3, <3>1, <3>2, <3>3 DEF Evicts
  <2>5. \A r \in Reqs : r \notin Elements(running) => Moves(r)
    BY <2>2, Untouched, SameLoopSame
  <2> QED
    BY <2>2, <2>4, <2>5 DEF Quiet, Moves
<1>4. ASSUME NEW p \in {"unpaused", "new", "all"}, SetPauseState(p) PROVE Quiet
  <2>1. UNCHANGED <<steps, out, worker, loop, req, pc>>
    BY <1>4 DEF SetPauseState
  <2> QED
    BY <2>1, Untouched, SameLoopSame DEF Quiet, Settled
<1> QED
  BY <1>1, <1>2, <1>3, <1>4

\* The actions of schedule() that move no tokens.
LEMMA LoopQuiet ==
  ASSUME Base,
         \/ UNCHANGED vars
         \/ BeginSchedule \/ SkipRunning \/ EndRunning \/ SkipWaiting \/ EndWaiting
         \/ ScheduleAhead
  PROVE  Quiet
<1>1. CASE UNCHANGED vars
  BY <1>1, Untouched, SameLoopSame DEF Quiet, Settled, vars
<1>2. CASE BeginSchedule
  <2>1. BeginEffect /\ loop = NoLoop
    BY <1>2, BeginIs DEF BeginEffect, Base, Places
  <2>2. UNCHANGED <<steps, out, worker>> /\ Settled /\ ~Settled' /\ DOMAIN loop'.n = {}
    BY <2>1 DEF BeginEffect, Settled
  <2>3. loop'.n = loop.n /\ loop'.d = loop.d /\ loop'.fresh = loop.fresh
    BY <2>1, NoLoopType DEF BeginEffect, NoLoop
  <2>4. ASSUME NEW r \in Reqs PROVE Stays(r)
    BY <2>1, <2>2, <2>3, SameLoopSame DEF Stays, SameCounters, BeginEffect
  <2> QED
    BY <2>2, <2>4 DEF Quiet, Moves
<1>3. CASE SkipRunning \/ SkipWaiting \/ EndWaiting
  <2>1. /\ UNCHANGED <<steps, out, worker, req>> /\ (Settled' <=> Settled)
        /\ loop'.n = loop.n /\ loop'.d = loop.d /\ loop'.fresh = loop.fresh
    BY <1>3, SkipRunningIs, SkipWaitingIs, EndWaitingIs DEF LoopButI, LoopButSkipped, Settled
  <2> QED
    BY <2>1, Untouched, SameLoopSame DEF Quiet
<1>4. CASE EndRunning \/ ScheduleAhead
  <2>1. UNCHANGED <<steps, out, worker, req, loop>> /\ (Settled' <=> Settled)
    BY <1>4 DEF EndRunning, ScheduleAhead, Settled
  <2> QED
    BY <2>1, Untouched, SameLoopSame DEF Quiet
<1> QED
  BY <1>1, <1>2, <1>3, <1>4

\* Scheduling a running request sends nothing.
LEMMA RunningQuiet ==
  ASSUME Base, ScheduleRunning
  PROVE  Quiet
<1>1. PICK s \in Reqs, n \in Counts : RunningEffect(s, n)
  BY RunningIs
<1>2. /\ UNCHANGED <<steps, out, worker>> /\ ~Settled /\ ~Settled'
      /\ \A r \in Reqs \ {s} : req'[r] = req[r]
      /\ loop'.n = With(loop.n, s, n) /\ loop'.d = With(loop.d, s, DraftsOf(s, n))
      /\ loop'.fresh = loop.fresh /\ s \in Elements(running) /\ s \notin DOMAIN loop.n
      /\ AtRunning /\ s = Current /\ n = WantedNow
  BY <1>1 DEF RunningEffect, Settled
<1>3. DOMAIN loop.d = DOMAIN loop.n /\ DOMAIN loop.fresh \subseteq DOMAIN loop.n
  BY DEF Base, Types, RowsFit
<1>4. ASSUME NEW r \in Reqs \ {s} PROVE Moves(r)
  <2>1. SameShare(r)
    BY <1>2, <1>3, WithOther DEF SameShare
  <2> QED
    BY <1>2, <2>1, Untouched
<1>5. Schedules(s)
  <2>1. req[s].status = "running" /\ s \notin DOMAIN loop.fresh
    BY <1>2, <1>3 DEF Base, Queues
  <2>2. WantFits(s, n)
    BY <1>2, WantedNowIs DEF Counts
  <2>3. s \in DOMAIN loop'.n /\ loop'.n[s] = n /\ loop'.d[s] = DraftsOf(s, n)
    BY <1>2, WithThis
  <2>4. SameCounters(s) /\ req'[s].spec = 0 /\ req'[s].cool = req[s].cool
        /\ req'[s].status = req[s].status
    BY <1>1 DEF RunningEffect, SameCounters
  <2> QED
    BY <1>2, <2>1, <2>2, <2>3, <2>4 DEF Schedules
<1> QED
  BY <1>2, <1>4, <1>5 DEF Quiet, Moves

\* A preemption sends nothing: the victim's output stays in flight.
LEMMA PreemptQuiet ==
  ASSUME Base, PreemptForRoom
  PROVE  Quiet
<1>1. PICK v, s, c : PreemptEffect(v, s, c)
  BY PreemptEffectIs
<1>2. /\ UNCHANGED <<steps, out, worker>> /\ ~Settled /\ ~Settled' /\ s \in Reqs
      /\ \A r \in Reqs \ {s} : req'[r] = req[r]
      /\ loop'.n = Dropped(loop.n, s) /\ loop'.d = Dropped(loop.d, s)
      /\ loop'.fresh = loop.fresh /\ s \in Elements(running) /\ pc = "running"
  BY <1>1 DEF PreemptEffect, Settled
<1>3. DOMAIN loop.d = DOMAIN loop.n /\ DOMAIN loop.fresh = {}
  BY <1>2 DEF Base, Types, RowsFit, Places
<1>4. ASSUME NEW r \in Reqs \ {s} PROVE Moves(r)
  <2>1. SameShare(r)
    BY <1>2, <1>3, DroppedOther DEF SameShare
  <2> QED
    BY <1>2, <2>1, Untouched
<1>5. Evicts(s)
  <2>1. req[s].status = "running"
    BY <1>2 DEF Base, Queues
  <2>2. s \notin DOMAIN loop'.n
    BY <1>2 DEF Dropped
  <2>3. KVDelivery \in BOOLEAN
    BY AsyncSchedulerAssumption
  <2>4. /\ req'[s].status = "preempted" /\ req'[s].computed = 0 /\ req'[s].holders = 0
        /\ req'[s].spec = 0 /\ req'[s].flight = req[s].flight /\ req'[s].stale = req[s].flight
        /\ req'[s].drop = KeepsDropping(req[s], KVDelivery)
    BY <1>1 DEF PreemptEffect
  <2> QED
    BY <1>2, <1>3, <2>1, <2>2, <2>3, <2>4 DEF Evicts
<1> QED
  BY <1>2, <1>4, <1>5 DEF Quiet, Moves

\* An admission sends nothing.
LEMMA AdmitQuiet ==
  ASSUME Base, NEW hit \in Hits, AtWaiting, hit \in HitsOf(Candidate), Admit(hit)
  PROVE  Quiet
<1>1. PICK s \in Reqs, n \in Counts, d \in 0..NumSpec : AdmitEffect(hit, s, n, d)
  BY AdmitIs
<1> DEFINE w == [computed |-> hit, prefill |-> Tokens(s)]
<1>2. /\ UNCHANGED <<steps, out, worker>> /\ ~Settled /\ ~Settled'
      /\ \A r \in Reqs \ {s} : req'[r] = req[r]
      /\ loop'.n = With(loop.n, s, n) /\ loop'.d = With(loop.d, s, d)
      /\ loop'.fresh = With(loop.fresh, s, w) /\ s \notin DOMAIN loop.n
      /\ hit \in Nat /\ hit < Tokens(s)
      /\ n = OfferToWaiting(s, hit).n /\ d = OfferToWaiting(s, hit).d
  BY <1>1 DEF AdmitEffect, Settled
<1>3. DOMAIN loop.d = DOMAIN loop.n /\ DOMAIN loop.fresh \subseteq DOMAIN loop.n
  BY DEF Base, Types, RowsFit
<1>4. ASSUME NEW r \in Reqs \ {s} PROVE Moves(r)
  <2>1. SameShare(r)
    BY <1>2, <1>3, WithOther DEF SameShare
  <2> QED
    BY <1>2, <2>1, Untouched
<1>5. Admits(s)
  <2>1. /\ s \in DOMAIN loop'.n /\ s \in DOMAIN loop'.fresh /\ loop'.n[s] = n /\ loop'.d[s] = d
        /\ loop'.fresh[s] = w
    BY <1>2, WithThis
  <2>2. w.computed = hit /\ w.prefill = Tokens(s)
    OBVIOUS
  <2>3. Offered(w, n, d)
    <3>1. /\ n > 0
          /\ \/ d = 0 /\ hit + n <= Tokens(s)
             \/ /\ d = NumSpec /\ hit + 1 = Tokens(s)
                /\ n = IF AlignedSplit THEN 1 + NumSpec ELSE Smaller(1 + NumSpec, ChunkLimit)
                /\ PadNewReqs
      BY <1>2, OfferIs DEF Counts
    <3> QED
      BY <2>2, <3>1 DEF Offered
  <2>4. /\ req[s].status \in {"waiting", "preempted"} /\ ~AwaitsOutput(s)
        /\ req'[s].status = "running" /\ req'[s].computed = hit
        /\ req'[s].holders = req[s].holders /\ req'[s].spec = req[s].spec
        /\ req'[s].flight = req[s].flight /\ req'[s].stale = req[s].stale
        /\ req'[s].drop = req[s].drop
    BY <1>1 DEF AdmitEffect
  <2> HIDE DEF w
  <2> QED
    BY <1>2, <2>1, <2>2, <2>3, <2>4 DEF Admits
<1> HIDE DEF w
<1> QED
  BY <1>2, <1>4, <1>5 DEF Quiet, Moves

\* Every action but those that send a step or process one.
LEMMA QuietSteps ==
  ASSUME Base, [Next]_vars
  PROVE  Quiet \/ UpdateAfterSchedule \/ ProcessOldest
<1>1. CASE UNCHANGED vars
  BY <1>1, LoopQuiet
<1>2. CASE \E r \in Reqs : AddRequest(r) \/ AbortRequest(r)
  BY <1>2, CallsQuiet
<1>3. CASE ResetPrefixCache \/ \E p \in {"unpaused", "new", "all"} : SetPauseState(p)
  BY <1>3, CallsQuiet
<1>4. CASE BeginSchedule \/ SkipRunning \/ EndRunning \/ SkipWaiting \/ EndWaiting
           \/ ScheduleAhead
  BY <1>4, LoopQuiet
<1>5. CASE ScheduleRunning \/ PreemptForRoom
  BY <1>5, RunningQuiet, PreemptQuiet
<1>6. CASE \E hit \in Hits : AtWaiting /\ hit \in HitsOf(Candidate) /\ Admit(hit)
  BY <1>6, AdmitQuiet
<1> QED
  BY <1>1, <1>2, <1>3, <1>4, <1>5, <1>6 DEF Next, Turn

\* Flights is kept by them.
LEMMA QuietFlight ==
  ASSUME Base, Flights, Quiet
  PROVE  Flights'
<1> SUFFICES ASSUME NEW r \in Reqs PROVE Flight(r)'
  BY DEF Flights
<1>1. UNCHANGED steps /\ Flight(r) /\ Moves(r)
  BY DEF Flights, Quiet
<1>2. CASE Stays(r)
  BY <1>1, <1>2, SameSteps, FreshRuns DEF Flight, Stays, SameCounters, SameShare
<1>3. CASE Closes(r)
  BY <1>3, FlightClosed, ClosedType DEF Closes
<1>4. CASE Schedules(r)
  BY <1>1, <1>4, FlightSame DEF Schedules, SameFlight, SameCounters
<1>5. CASE Evicts(r)
  <2>1. PICK drop \in BOOLEAN : req'[r].drop = KeepsDropping(req[r], drop)
    BY <1>5 DEF Evicts
  <2> QED
    BY <1>1, <1>5, <2>1, FlightPreempted DEF Evicts
<1>6. CASE Admits(r)
  <2>1. /\ InFlight(r)' = InFlight(r) /\ StepsOf(r)' = StepsOf(r)
        /\ CurrentSteps(r)' = CurrentSteps(r)
    BY <1>1, SameSteps
  <2>2. /\ r \in DOMAIN loop'.fresh /\ req'[r].status = "running"
        /\ req'[r].flight = req[r].flight /\ req'[r].stale = req[r].stale
        /\ req'[r].drop = req[r].drop /\ (req[r].stale > 0 => req[r].drop)
        /\ req[r].status \in {"waiting", "preempted"}
    BY <1>6 DEF Admits, AwaitsOutput
  <2>3. req[r].flight = InFlight(r) /\ req[r].stale = req[r].flight
    BY <1>1, <2>2, InFlightNat DEF Flight
  <2> QED
    BY <2>1, <2>2, <2>3 DEF Flight
<1> QED
  BY <1>1, <1>2, <1>3, <1>4, <1>5, <1>6 DEF Moves

\* The step that is sent, and what running requests become.
Sent == [n |-> loop.n, d |-> loop.d, fresh |-> loop.fresh]

\* What is sent is what schedule() gave to running requests.
LEMMA SentIs ==
  ASSUME Base, UpdateAfterSchedule
  PROVE  /\ Sent \in StepType /\ RowsFit(Sent) /\ steps' = Append(steps, Sent)
         /\ Sent.n = loop.n /\ Sent.d = loop.d /\ Sent.fresh = loop.fresh
         /\ DOMAIN loop'.n = {} /\ DOMAIN loop'.fresh = {} /\ UNCHANGED <<out, worker>>
         /\ Settled' /\ ~Settled
         /\ \A r \in Reqs : r \notin DOMAIN loop.n => /\ req'[r] = req[r]
                                                      /\ r \notin DOMAIN loop.fresh
         /\ \A r \in DOMAIN loop.n : /\ r \in Reqs /\ ScheduledIs(r, req'[r])
                                     /\ req[r].status = "running" /\ loop.n[r] \in Counts
                                     /\ loop.d[r] \in 0..NumSpec
<1>1. /\ steps' = Append(steps, Sent) /\ loop' = NoLoop /\ pc = "update" /\ pc' = "process"
      /\ \A r \in Reqs : r \notin DOMAIN loop.n => req'[r] = req[r]
      /\ \A r \in DOMAIN loop.n : r \in Reqs /\ ScheduledIs(r, req'[r])
      /\ UNCHANGED <<out, worker>>
  BY UpdateIs DEF Sent
<1>2. loop.n \in Rows /\ loop.d \in Drafts /\ loop.fresh \in RowStates /\ RowsFit(loop)
  BY LoopFacts
<1>3. Sent \in StepType /\ RowsFit(Sent)
  BY <1>2 DEF Sent, StepType, RowsFit
<1>4. DOMAIN loop'.n = {} /\ DOMAIN loop'.fresh = {}
  BY <1>1, NoLoopType DEF NoLoop
<1>5. \A r \in DOMAIN loop.n : loop.n[r] \in Counts
  BY <1>2, MapIs DEF Rows
<1>6. \A r \in DOMAIN loop.n : loop.d[r] \in 0..NumSpec
  <2>1. \A r \in DOMAIN loop.d : loop.d[r] \in 0..NumSpec
    BY <1>2, MapIs DEF Drafts
  <2> QED
    BY <1>2, <2>1 DEF RowsFit
<1>7. \A r \in DOMAIN loop.n : req[r].status = "running"
  BY <1>1 DEF Base, Cursor, Queues
<1> QED
  BY <1>1, <1>2, <1>3, <1>4, <1>5, <1>6, <1>7 DEF Sent, RowsFit, Settled

\* Sending a step adds its tokens to what is in flight; a new incarnation's
\* older output is stale.
LEMMA UpdateFlight ==
  ASSUME Base, Flights, UpdateAfterSchedule
  PROVE  Flights'
<1> SUFFICES ASSUME NEW r \in Reqs PROVE Flight(r)'
  BY DEF Flights
<1> DEFINE s == Sent
<1>1. /\ s \in StepType /\ RowsFit(s) /\ steps' = Append(steps, s)
      /\ s.n = loop.n /\ s.fresh = loop.fresh /\ DOMAIN loop'.fresh = {}
  BY SentIs
<1> HIDE DEF s
<1>2. /\ r \in DOMAIN s.n => InFlight(r)' = InFlight(r) + s.n[r]
      /\ r \notin DOMAIN s.n => /\ StepsOf(r)' = StepsOf(r) /\ InFlight(r)' = InFlight(r)
                                /\ CurrentSteps(r)' = CurrentSteps(r)
      /\ StaleIn(r)' = IF r \in DOMAIN s.fresh THEN InFlight(r) ELSE StaleIn(r)
  BY <1>1, AppendedSteps
<1>3. Flight(r)
  BY DEF Flights
<1>4. CASE r \notin DOMAIN loop.n
  <2>1. req'[r] = req[r] /\ r \notin DOMAIN loop.fresh
    BY <1>4, SentIs
  <2>2. /\ StepsOf(r)' = StepsOf(r) /\ InFlight(r)' = InFlight(r)
        /\ CurrentSteps(r)' = CurrentSteps(r) /\ StaleIn(r)' = StaleIn(r)
    BY <1>1, <1>2, <1>4, <2>1
  <2> QED
    BY <1>1, <1>3, <2>1, <2>2 DEF Flight
<1>5. CASE r \in DOMAIN loop.n
  <2>1. /\ req'[r].status = "running" /\ req[r].status = "running"
        /\ req'[r].flight = req[r].flight + loop.n[r]
        /\ req'[r].stale = req[r].stale /\ req'[r].drop = req[r].drop
    BY <1>5, SentIs DEF ScheduledIs
  <2>2. InFlight(r)' = InFlight(r) + loop.n[r]
        /\ StaleIn(r)' = IF r \in DOMAIN loop.fresh THEN InFlight(r) ELSE StaleIn(r)
    BY <1>1, <1>2, <1>5
  <2>3. /\ req[r].flight = InFlight(r) /\ (req[r].stale > 0 => req[r].drop)
        /\ req[r].stale = IF r \in DOMAIN loop.fresh THEN req[r].flight ELSE StaleIn(r)
    BY <1>3, <2>1 DEF Flight
  <2>4. /\ req'[r].flight = InFlight(r)' /\ (req'[r].stale > 0 => req'[r].drop)
        /\ req'[r].stale = StaleIn(r)'
    BY <2>1, <2>2, <2>3
  <2> QED
    BY <1>1, <2>1, <2>4 DEF Flight
<1> QED
  BY <1>4, <1>5

\* What the processing of the oldest step makes of a request in it.
LEMMA ProcessedIs ==
  ASSUME Base, NEW accepted, NEW given, NEW eos, Outcome(accepted, given, eos)
  PROVE  /\ steps # <<>> /\ steps' = Tail(steps) /\ loop' = loop
         /\ DOMAIN loop.n = {} /\ DOMAIN loop.fresh = {}
         /\ Settled /\ Settled' /\ pc' = "engine"
         /\ \A r \in Reqs :
              \/ r \notin OldestRows /\ UNCHANGED <<req[r], out[r], worker[r]>>
              \/ r \in OldestRows /\ req[r].status = "finished" /\ req'[r] = req[r]
              \/ r \in OldestRows /\ EndsWith(given, eos, r) /\ req'[r] = Closed
              \/ /\ r \in OldestRows /\ ~EndsWith(given, eos, r) /\ req[r].status # "finished"
                 /\ req'[r] = AfterOutput(accepted, given, r)
         /\ \A r \in OldestRows : r \in Reqs /\ out'[r] = out[r] \o Given(given, r)
<1>1. ProcessesOldest /\ steps # <<>>
  BY DEF Outcome
<1>2. /\ req' = [r \in Reqs |->
               IF r \notin OldestRows \/ req[r].status = "finished" THEN req[r]
               ELSE IF EndsWith(given, eos, r) THEN Closed
               ELSE AfterOutput(accepted, given, r)]
      /\ out' = [r \in Reqs |-> IF r \notin OldestRows THEN out[r]
                      ELSE out[r] \o Given(given, r)]
      /\ worker' = [r \in Reqs |->
              IF r \notin OldestRows THEN worker[r]
              ELSE [RowState(r) EXCEPT !.computed = @ + steps[1].n[r] - Rejects(accepted, r)]]
      /\ steps' = Tail(steps) /\ pc' = "engine" /\ loop' = loop
  BY OutcomeIs
<1>3. Settled /\ Settled' /\ loop = NoLoop
  BY <1>1, <1>2 DEF ProcessesOldest, Settled, Base, Places
<1>4. DOMAIN loop.n = {} /\ DOMAIN loop.fresh = {}
  BY <1>3, NoLoopType DEF NoLoop
<1>5. \A r \in OldestRows : r \in Reqs
  BY <1>1, OldestIs
<1>6. \A r \in OldestRows : out'[r] = out[r] \o Given(given, r)
  BY <1>2, <1>5
<1>7. ASSUME NEW r \in Reqs
      PROVE  \/ r \notin OldestRows /\ UNCHANGED <<req[r], out[r], worker[r]>>
             \/ r \in OldestRows /\ req[r].status = "finished" /\ req'[r] = req[r]
             \/ r \in OldestRows /\ EndsWith(given, eos, r) /\ req'[r] = Closed
             \/ /\ r \in OldestRows /\ ~EndsWith(given, eos, r) /\ req[r].status # "finished"
                /\ req'[r] = AfterOutput(accepted, given, r)
  BY <1>2, <1>7
<1> QED
  BY <1>1, <1>2, <1>3, <1>4, <1>5, <1>6, <1>7

\* Processing a step drains exactly its tokens.
LEMMA OutputFlight ==
  ASSUME Base, Flights, ProcessOldest
  PROVE  Flights'
<1> SUFFICES ASSUME NEW r \in Reqs PROVE Flight(r)'
  BY DEF Flights
<1>1. PICK accepted, given, eos : Outcome(accepted, given, eos)
  BY OutcomeExists
<1>2. /\ steps # <<>> /\ steps' = Tail(steps) /\ DOMAIN loop'.fresh = {} /\ DOMAIN loop.fresh = {}
      /\ \/ r \notin OldestRows /\ req'[r] = req[r]
         \/ r \in OldestRows /\ req[r].status = "finished" /\ req'[r] = req[r]
         \/ r \in OldestRows /\ EndsWith(given, eos, r) /\ req'[r] = Closed
         \/ /\ r \in OldestRows /\ ~EndsWith(given, eos, r) /\ req[r].status # "finished"
            /\ req'[r] = AfterOutput(accepted, given, r)
  BY <1>1, ProcessedIs
<1>3. Flight(r)
  BY DEF Flights
<1>4. /\ StepsOf(r)' = Earlier(StepsOf(r) \ {1})
      /\ CurrentSteps(r)' = Earlier(CurrentSteps(r) \ {1})
      /\ InFlight(r)' = IF r \in OldestRows THEN InFlight(r) - steps[1].n[r] ELSE InFlight(r)
      /\ StaleIn(r)' = IF r \in OldestRows /\ 1 \notin CurrentSteps(r)
                       THEN StaleIn(r) - steps[1].n[r] ELSE StaleIn(r)
  BY <1>2, TailSteps
<1>5. StepsOf(r) = {} => StepsOf(r)' = {}
  BY <1>4 DEF Earlier
<1>6. CurrentSteps(r) = StepsOf(r) => CurrentSteps(r)' = StepsOf(r)'
  BY <1>4
<1>7. CASE r \notin OldestRows
  BY <1>2, <1>3, <1>4, <1>5, <1>6, <1>7 DEF Flight
<1>8. CASE req'[r] = req[r] /\ req[r].status = "finished"
  BY <1>8, FlightClosed
<1>9. CASE req'[r] = Closed
  BY <1>9, FlightClosed, ClosedType
<1>10. CASE r \in OldestRows /\ req'[r] = AfterOutput(accepted, given, r)
  <2> DEFINE n == steps[1].n[r]
             p == req[r]
             q == req'[r]
  <2>1. /\ q.status = p.status /\ q.drop = p.drop /\ q.flight = p.flight - n
        /\ q.stale = IF p.stale > 0 THEN p.stale - n ELSE 0
    BY <1>1, <1>10, AfterOutputType
  <2>2. /\ n \in Counts /\ n <= InFlight(r) /\ 1 \in StepsOf(r)
        /\ 1 \notin CurrentSteps(r) => n <= StaleIn(r)
        /\ 1 \in CurrentSteps(r) => CurrentSteps(r) = StepsOf(r)
    BY <1>2, <1>10, OldestInFlight
  <2>3. InFlight(r) \in Nat /\ StaleIn(r) \in Nat /\ (CurrentSteps(r) = StepsOf(r) => StaleIn(r) = 0)
        /\ (StaleIn(r) = 0 => CurrentSteps(r) = StepsOf(r))
    BY InFlightNat
  <2>4. /\ InFlight(r)' = InFlight(r) - n
        /\ StaleIn(r)' = IF 1 \in CurrentSteps(r) THEN StaleIn(r) ELSE StaleIn(r) - n
    BY <1>4, <1>10
  <2> HIDE DEF n, p, q
  <2>5. p.status \notin {"new", "waiting"}
    BY <1>3, <2>2 DEF Flight, p
  <2>6. p.status = "preempted" =>
          /\ q.flight = InFlight(r)' /\ q.stale = q.flight
          /\ q.drop \/ CurrentSteps(r)' = StepsOf(r)'
    <3> SUFFICES ASSUME p.status = "preempted"
                 PROVE  /\ q.flight = InFlight(r)' /\ q.stale = q.flight
                        /\ q.drop \/ CurrentSteps(r)' = StepsOf(r)'
      OBVIOUS
    <3>1. p.flight = InFlight(r) /\ p.stale = p.flight
          /\ (p.drop \/ CurrentSteps(r) = StepsOf(r))
      BY <1>3 DEF Flight, p
    <3>2. p.stale > 0
      BY <2>2, <2>3, <3>1 DEF Counts
    <3> QED
      BY <1>6, <2>1, <2>4, <3>1, <3>2
  <2>7. p.status = "running" =>
          /\ q.flight = InFlight(r)' /\ q.stale = StaleIn(r)' /\ (q.stale > 0 => q.drop)
    <3> SUFFICES ASSUME p.status = "running"
                 PROVE  /\ q.flight = InFlight(r)' /\ q.stale = StaleIn(r)'
                        /\ q.stale > 0 => q.drop
      OBVIOUS
    <3>1. p.flight = InFlight(r) /\ p.stale = StaleIn(r) /\ (p.stale > 0 => p.drop)
      BY <1>2, <1>3 DEF Flight, p
    <3>2. CASE 1 \in CurrentSteps(r)
      BY <2>1, <2>2, <2>3, <2>4, <3>1, <3>2
    <3>3. CASE 1 \notin CurrentSteps(r)
      <4>1. p.stale > 0
        BY <2>2, <2>3, <3>1, <3>3 DEF Counts
      <4> QED
        BY <2>1, <2>4, <3>1, <3>3, <4>1
    <3> QED
      BY <3>2, <3>3
  <2> QED
    BY <1>2, <2>1, <2>5, <2>6, <2>7 DEF Flight, p, q
<1> QED
  BY <1>2, <1>7, <1>8, <1>9, <1>10

\* Initially nothing is in flight.
LEMMA FlightInit == Init => Flights
<1> SUFFICES ASSUME Init, NEW r \in Reqs PROVE Flight(r)
  BY DEF Flights
<1>1. StepsOf(r) = {}
  BY DEF StepsOf, Init
<1>2. req[r].status = "new" /\ req[r].flight = 0 /\ req[r].stale = 0
  BY DEF Init, NewRequest
<1> QED
  BY <1>1, <1>2 DEF Flight

\* Every step keeps the shares.
LEMMA FlightStep == Base /\ Flights /\ [Next]_vars => Flights'
BY QuietSteps, QuietFlight, UpdateFlight, OutputFlight

\* StaleExact follows.
LEMMA StaleFromFlights == Base /\ Flights => StaleExact
<1> SUFFICES ASSUME Base, Flights, Settled, NEW r \in Reqs,
                    req[r].status \in {"waiting", "running", "preempted"}
             PROVE  /\ req[r].flight = TokensIn(r, StepsOf(r))
                    /\ req[r].status = "preempted" => req[r].stale = req[r].flight
                    /\ req[r].status = "running" =>
                         req[r].stale = TokensIn(r, StepsOf(r) \ CurrentSteps(r))
  BY DEF StaleExact
<1>1. Flight(r) /\ InFlight(r) = TokensIn(r, StepsOf(r))
      /\ StaleIn(r) = TokensIn(r, StepsOf(r) \ CurrentSteps(r))
  BY DEF Flights, InFlight, StaleIn
<1>2. DOMAIN loop.fresh = {}
  BY NoLoopType DEF Base, Places, Settled, NoLoop
<1>3. req[r].status = "waiting" => req[r].flight = InFlight(r)
  BY <1>1, InFlightNat DEF Flight
<1> QED
  BY <1>1, <1>2, <1>3 DEF Flight

\* A preempted request's stale share is exactly what was in flight when it was
\* preempted, and is drained step by step even after it has resumed, whatever
\* is preempted or reset again meanwhile.
THEOREM StaleHolds == Spec => []StaleExact
<1>1. Init => Base /\ Flights
  BY BaseInit, FlightInit
<1>2. (Base /\ Flights) /\ [Next]_vars => (Base /\ Flights)'
  BY BaseStep, FlightStep
<1> QED
  BY <1>1, <1>2, StaleFromFlights, PTL DEF Spec

-----------------------------------------------------------------------------
(* The last rank's state of a row, step by step.                            *)

RowType == [computed : Int, prefill : Nat]
StepsTyped(ss) == ss \in Seq(StepType) /\ \A j \in DOMAIN ss : RowsFit(ss[j])

\* g is the row's state after each step of ss, from w on.
Follows(g, w, ss, r) ==
  /\ g \in [0..Len(ss) -> RowType] /\ g[0] = w
  /\ \A j \in 1..Len(ss) : g[j] = Advanced(g[j - 1], ss[j], r)

ForecastOf(ss, w, r) ==
  LET f[j \in 0..Len(ss)] == IF j = 0 THEN w ELSE Advanced(f[j - 1], ss[j], r)
  IN  f

\* No step of ss from a to b sends the request as a new one.
NoFresh(ss, r, a, b) == \A i \in a..b : r \notin DOMAIN ss[i].fresh

\* A typed step.
LEMMA TypedStep ==
  ASSUME NEW s \in StepType, NEW r
  PROVE  /\ r \in DOMAIN s.n => r \in Reqs /\ s.n[r] \in Counts /\ s.n[r] \in Int /\ s.n[r] > 0
         /\ r \in DOMAIN s.d => s.d[r] \in 0..NumSpec
         /\ r \in DOMAIN s.fresh => /\ s.fresh[r] \in RowType
                                    /\ s.fresh[r].computed \in Nat /\ s.fresh[r].prefill \in Nat
<1>1. s.n \in Maps(Counts) /\ s.d \in Maps(0..NumSpec)
      /\ s.fresh \in Maps([computed : Nat, prefill : Nat])
  BY DEF StepType, Rows, Drafts, RowStates
<1>2. r \in DOMAIN s.n => r \in Reqs /\ s.n[r] \in Counts
  BY <1>1, MapIs
<1>3. r \in DOMAIN s.d => s.d[r] \in 0..NumSpec
  BY <1>1, MapIs
<1>4. r \in DOMAIN s.fresh => s.fresh[r] \in [computed : Nat, prefill : Nat]
  BY <1>1, MapIs
<1> QED
  BY <1>2, <1>3, <1>4 DEF Counts, RowType

\* The state a row starts a step from.
LEMMA StartsIs ==
  ASSUME NEW s \in StepType, NEW w \in RowType, NEW r
  PROVE  /\ Starts(w, s, r) \in RowType
         /\ r \in DOMAIN s.fresh => Starts(w, s, r) = s.fresh[r]
         /\ r \notin DOMAIN s.fresh => Starts(w, s, r) = w
BY TypedStep DEF Starts

\* The state a row leaves a step with if nothing is rejected.
LEMMA AdvancedIs ==
  ASSUME NEW s \in StepType, NEW w \in RowType, NEW r
  PROVE  /\ Advanced(w, s, r) \in RowType
         /\ r \in DOMAIN s.n =>
              /\ Advanced(w, s, r).computed = Starts(w, s, r).computed + s.n[r]
              /\ Advanced(w, s, r).prefill = Starts(w, s, r).prefill
         /\ r \notin DOMAIN s.n => Advanced(w, s, r) = w
<1> DEFINE v == Starts(w, s, r)
<1>1. v \in RowType /\ (r \in DOMAIN s.n => s.n[r] \in Int)
  BY TypedStep, StartsIs
<1>2. Advanced(w, s, r) = IF r \in DOMAIN s.n THEN [v EXCEPT !.computed = @ + s.n[r]] ELSE w
  BY DEF Advanced
<1> HIDE DEF v
<1>3. CASE r \in DOMAIN s.n
  <2> DEFINE u == [v EXCEPT !.computed = @ + s.n[r]]
  <2>1. u \in RowType /\ u.computed = v.computed + s.n[r] /\ u.prefill = v.prefill
    BY <1>1, <1>3 DEF RowType
  <2> QED
    BY <1>2, <1>3, <2>1 DEF v
<1>4. CASE r \notin DOMAIN s.n
  BY <1>2, <1>4
<1> QED
  BY <1>3, <1>4

\* The recursion defines a function.
LEMMA ForecastOfIs ==
  ASSUME NEW ss, StepsTyped(ss), NEW w \in RowType, NEW r
  PROVE  Follows(ForecastOf(ss, w, r), w, ss, r)
<1> DEFINE L == Len(ss)
           G == [j \in 1..L |-> [z \in RowType |-> Advanced(z, ss[j], r)]]
           P(f) == f = [j \in 0..L |-> IF j = 0 THEN w ELSE Advanced(f[j - 1], ss[j], r)]
<1>1. L \in Nat /\ DOMAIN ss = 1..L /\ \A j \in 1..L : ss[j] \in StepType
  BY DEF StepsTyped
<1>2. \A j \in 1..L, z \in RowType : Advanced(z, ss[j], r) \in RowType
  BY <1>1, AdvancedIs
<1>3. CanRecur(L, RowType, w, G)
  BY <1>1, <1>2 DEF CanRecur
<1>4. \A j \in 1..L, z \in RowType : G[j][z] = Advanced(z, ss[j], r)
  OBVIOUS
<1> HIDE DEF G
<1>5. PICK g : Recurs(L, RowType, w, G, g)
  BY <1>3, Recursion, Zenon
<1>6. \A j \in 0..L : g[j] = IF j = 0 THEN w ELSE Advanced(g[j - 1], ss[j], r)
  <2> SUFFICES ASSUME NEW j \in 0..L, j # 0 PROVE g[j] = Advanced(g[j - 1], ss[j], r)
    BY <1>5 DEF Recurs
  <2>1. j \in 1..L /\ j - 1 \in 0..L
    BY <1>1
  <2>2. g[j] = G[j][g[j - 1]] /\ g[j - 1] \in RowType
    BY <1>5, <2>1 DEF Recurs
  <2> QED
    BY <1>4, <2>1, <2>2
<1>7. P(g)
  <2>1. g = [j \in 0..L |-> g[j]]
    BY <1>5 DEF Recurs
  <2>2. [j \in 0..L |-> g[j]] = [j \in 0..L |-> IF j = 0 THEN w ELSE Advanced(g[j - 1], ss[j], r)]
    BY <1>6, Zenon
  <2> QED
    BY <2>1, <2>2, Zenon
<1> DEFINE f == ForecastOf(ss, w, r)
<1>8. f = CHOOSE h : P(h)
  BY DEF ForecastOf
<1>9. P(f)
  <2> HIDE DEF P, f
  <2> QED
    BY <1>7, <1>8, Zenon
<1>10. /\ DOMAIN f = 0..L
       /\ \A j \in 0..L : f[j] = IF j = 0 THEN w ELSE Advanced(f[j - 1], ss[j], r)
  <2> HIDE DEF f
  <2>1. DOMAIN f = 0..L
    BY <1>9, Zenon
  <2>2. \A j \in 0..L : f[j] = IF j = 0 THEN w ELSE Advanced(f[j - 1], ss[j], r)
    BY <1>9, Zenon
  <2> QED
    BY <2>1, <2>2
<1> HIDE DEF f, P
<1> DEFINE T == {j \in 0..L : f[j] \in RowType}
<1>11. 0 \in 0..L /\ f[0] = w
  BY <1>1, <1>10
<1>12. \A j \in 0..L : j \in T
  <2>1. 0 \in T
    BY <1>11
  <2>2. ASSUME NEW i \in 0..L, i < L, i \in T PROVE i + 1 \in T
    <3>1. i + 1 \in 0..L /\ i + 1 \in 1..L /\ i + 1 # 0 /\ (i + 1) - 1 = i /\ f[i] \in RowType
      BY <1>1, <2>2
    <3>2. f[i + 1] = Advanced(f[i], ss[i + 1], r)
      BY <1>10, <3>1
    <3> QED
      BY <1>2, <3>1, <3>2
  <2> HIDE DEF T
  <2> QED
    BY <1>1, <2>1, <2>2, UpTo
<1>13. \A j \in 0..L : f[j] \in RowType
  BY <1>12
<1>14. f = [j \in 0..L |-> f[j]]
  <2>1. f = [j \in 0..L |-> IF j = 0 THEN w ELSE Advanced(f[j - 1], ss[j], r)]
    BY <1>9 DEF P
  <2>2. [j \in 0..L |-> IF j = 0 THEN w ELSE Advanced(f[j - 1], ss[j], r)] = [j \in 0..L |-> f[j]]
    BY <1>10, Zenon
  <2> QED
    BY <2>1, <2>2, Zenon
<1>15. f \in [0..L -> RowType]
  BY <1>13, <1>14
<1>16. \A j \in 1..L : f[j] = Advanced(f[j - 1], ss[j], r)
  <2> TAKE j \in 1..L
  <2>1. j \in 0..L /\ j # 0
    BY <1>1
  <2> QED
    BY <1>10, <2>1
<1> QED
  BY <1>11, <1>15, <1>16 DEF Follows, f

\* One step of the forecast.
LEMMA FollowsStep ==
  ASSUME NEW ss, StepsTyped(ss), NEW w, NEW r, NEW g, Follows(g, w, ss, r),
         NEW j \in 1..Len(ss)
  PROVE  /\ Len(ss) \in Nat /\ DOMAIN ss = 1..Len(ss) /\ j \in DOMAIN ss
         /\ j \in 0..Len(ss) /\ j - 1 \in 0..Len(ss)
         /\ ss[j] \in StepType /\ RowsFit(ss[j])
         /\ g[j - 1] \in RowType /\ g[j] \in RowType
         /\ g[j] = Advanced(g[j - 1], ss[j], r)
<1>1. Len(ss) \in Nat /\ DOMAIN ss = 1..Len(ss) /\ j \in DOMAIN ss
      /\ ss[j] \in StepType /\ RowsFit(ss[j])
  BY DEF StepsTyped
<1>2. j \in 0..Len(ss) /\ j - 1 \in 0..Len(ss)
  BY <1>1
<1> QED
  BY <1>1, <1>2 DEF Follows

\* a is behind b by k tokens that were rejected.
Lags(a, b, k) == a.computed = b.computed - k /\ a.prefill = b.prefill

\* A step that does not start the request anew keeps the distance, and computes
\* no token less.
LEMMA AdvanceLags ==
  ASSUME NEW s \in StepType, NEW a \in RowType, NEW b \in RowType, NEW k \in Int,
         Lags(a, b, k), NEW r, r \notin DOMAIN s.fresh
  PROVE  Lags(Advanced(a, s, r), Advanced(b, s, r), k)
<1>1. Starts(a, s, r) = a /\ Starts(b, s, r) = b
  BY StartsIs
<1>2. a.computed = b.computed - k /\ a.prefill = b.prefill /\ a.computed \in Int
      /\ b.computed \in Int
  BY DEF Lags, RowType
<1>3. CASE r \in DOMAIN s.n
  <2>1. /\ Advanced(a, s, r).computed = a.computed + s.n[r]
        /\ Advanced(a, s, r).prefill = a.prefill
        /\ Advanced(b, s, r).computed = b.computed + s.n[r]
        /\ Advanced(b, s, r).prefill = b.prefill
    BY <1>1, <1>3, AdvancedIs
  <2>2. s.n[r] \in Int
    BY <1>3, TypedStep
  <2> QED
    BY <1>2, <2>1, <2>2 DEF Lags
<1>4. CASE r \notin DOMAIN s.n
  <2>1. Advanced(a, s, r) = a /\ Advanced(b, s, r) = b
    BY <1>4, AdvancedIs
  <2> QED
    BY <2>1
<1> QED
  BY <1>3, <1>4

Grown(a, b) == a.computed <= b.computed /\ a.prefill = b.prefill

\* A step that does not start the request anew computes no token less.
LEMMA AdvanceGrows ==
  ASSUME NEW s \in StepType, NEW a \in RowType, NEW r, r \notin DOMAIN s.fresh
  PROVE  Grown(a, Advanced(a, s, r))
<1>1. Starts(a, s, r) = a /\ a.computed \in Int
  BY StartsIs DEF RowType
<1>2. CASE r \in DOMAIN s.n
  <2>1. /\ Advanced(a, s, r).computed = a.computed + s.n[r]
        /\ Advanced(a, s, r).prefill = a.prefill
    BY <1>1, <1>2, AdvancedIs
  <2>2. s.n[r] \in Int /\ s.n[r] > 0
    BY <1>2, TypedStep
  <2> QED
    BY <1>1, <2>1, <2>2 DEF Grown
<1>3. CASE r \notin DOMAIN s.n
  <2>1. Advanced(a, s, r) = a
    BY <1>3, AdvancedIs
  <2> QED
    BY <1>1, <2>1 DEF Grown
<1> QED
  BY <1>2, <1>3

\* A step that starts the request anew forgets its state.
LEMMA AdvanceFresh ==
  ASSUME NEW s \in StepType, RowsFit(s), NEW a \in RowType, NEW b \in RowType, NEW r,
         r \in DOMAIN s.fresh
  PROVE  Advanced(a, s, r) = Advanced(b, s, r) /\ r \in DOMAIN s.n
         /\ Advanced(a, s, r).computed >= 0
<1>1. Starts(a, s, r) = s.fresh[r] /\ Starts(b, s, r) = s.fresh[r] /\ r \in DOMAIN s.n
  BY StartsIs DEF RowsFit
<1>2. Advanced(a, s, r) = Advanced(b, s, r)
  BY <1>1 DEF Advanced
<1>3. Advanced(a, s, r).computed = s.fresh[r].computed + s.n[r]
  BY <1>1, AdvancedIs
<1>4. s.fresh[r].computed \in Nat /\ s.n[r] \in Int /\ s.n[r] > 0
  BY <1>1, TypedStep
<1> QED
  BY <1>1, <1>2, <1>3, <1>4

\* Between two new incarnations the row's computed tokens only grow.
LEMMA FollowsGrows ==
  ASSUME NEW ss, StepsTyped(ss), NEW w, NEW r, NEW g, Follows(g, w, ss, r),
         NEW a \in 0..Len(ss), NEW b \in 0..Len(ss), a <= b, NoFresh(ss, r, a + 1, b)
  PROVE  Grown(g[a], g[b])
<1> DEFINE L == Len(ss)
           T == {j \in 0..(b - a) : Grown(g[a], g[a + j])}
<1>1. L \in Nat /\ b - a \in Nat /\ a \in Int /\ b \in Int /\ b <= L /\ a >= 0
  BY DEF StepsTyped
<1>2. g[a] \in RowType
  BY DEF Follows
<1>3. 0 \in T
  <2>1. a + 0 = a /\ 0 \in 0..(b - a)
    BY <1>1
  <2>2. g[a].computed <= g[a].computed
    BY <1>2 DEF RowType
  <2> QED
    BY <2>1, <2>2 DEF Grown
<1>4. ASSUME NEW i \in 0..(b - a), i < b - a, i \in T PROVE i + 1 \in T
  <2>1. a + i + 1 \in 1..L /\ (a + i + 1) - 1 = a + i /\ a + i + 1 \in (a + 1)..b
        /\ i + 1 \in 0..(b - a) /\ a + (i + 1) = a + i + 1
    BY <1>1, <1>4
  <2>2. /\ ss[a + i + 1] \in StepType /\ g[a + i] \in RowType /\ g[a + i + 1] \in RowType
        /\ g[a + i + 1] = Advanced(g[a + i], ss[a + i + 1], r)
    BY <2>1, FollowsStep
  <2>3. r \notin DOMAIN ss[a + i + 1].fresh
    BY <2>1 DEF NoFresh
  <2>4. Grown(g[a + i], g[a + i + 1])
    BY <2>2, <2>3, AdvanceGrows
  <2>5. Grown(g[a], g[a + i])
    BY <1>4
  <2>6. Grown(g[a], g[a + i + 1])
    BY <1>2, <2>2, <2>4, <2>5 DEF Grown, RowType
  <2> QED
    BY <2>1, <2>6
<1>5. b - a \in T
  <2> HIDE DEF T
  <2>1. \A i \in 0..(b - a) : i \in T
    BY <1>1, <1>3, <1>4, UpTo
  <2> QED
    BY <1>1, <2>1
<1>6. a + (b - a) = b
  BY <1>1
<1> QED
  BY <1>5, <1>6

\* Positions stay naturals.
LEMMA FollowsNat ==
  ASSUME NEW ss, StepsTyped(ss), NEW w \in RowType, w.computed >= 0, NEW r,
         NEW g, Follows(g, w, ss, r)
  PROVE  \A j \in 0..Len(ss) : g[j].computed >= 0
<1> DEFINE T == {j \in 0..Len(ss) : g[j].computed >= 0}
<1>1. Len(ss) \in Nat
  BY DEF StepsTyped
<1>2. 0 \in T
  BY <1>1 DEF Follows
<1>3. ASSUME NEW i \in 0..Len(ss), i < Len(ss), i \in T PROVE i + 1 \in T
  <2>1. i + 1 \in 1..Len(ss) /\ (i + 1) - 1 = i /\ i + 1 \in 0..Len(ss)
    BY <1>1, <1>3
  <2>2. /\ ss[i + 1] \in StepType /\ RowsFit(ss[i + 1])
        /\ g[i] \in RowType /\ g[i + 1] \in RowType
        /\ g[i + 1] = Advanced(g[i], ss[i + 1], r)
    BY <2>1, FollowsStep
  <2>3. g[i].computed >= 0
    BY <1>3
  <2>4. CASE r \in DOMAIN ss[i + 1].fresh
    BY <2>1, <2>2, <2>4, AdvanceFresh
  <2>5. CASE r \notin DOMAIN ss[i + 1].fresh
    <3>1. Grown(g[i], g[i + 1])
      BY <2>2, <2>5, AdvanceGrows
    <3>2. g[i + 1].computed >= 0
      BY <2>2, <2>3, <3>1 DEF Grown, RowType
    <3> QED
      BY <2>1, <3>2
  <2> QED
    BY <2>4, <2>5
<1> HIDE DEF T
<1>4. \A j \in 0..Len(ss) : j \in T
  BY <1>1, <1>2, <1>3, UpTo
<1> QED
  BY <1>4 DEF T

\* One more step at the end.
Longer(tt, ss, s) == tt = Append(ss, s)

\* The forecast over one more step is the old one and one more state.
LEMMA FollowsAppend ==
  ASSUME NEW ss, StepsTyped(ss), NEW s \in StepType, RowsFit(s), NEW tt, Longer(tt, ss, s),
         NEW w, NEW r, NEW g, Follows(g, w, ss, r), NEW h, Follows(h, w, tt, r)
  PROVE  /\ \A j \in 0..Len(ss) : h[j] = g[j]
         /\ h[Len(ss) + 1] = Advanced(g[Len(ss)], s, r)
         /\ Len(tt) = Len(ss) + 1 /\ StepsTyped(tt)
<1> DEFINE L == Len(ss)
           T == {j \in 0..L : h[j] = g[j]}
<1>1. /\ L \in Nat /\ Len(tt) = L + 1 /\ tt \in Seq(StepType) /\ DOMAIN tt = 1..(L + 1)
      /\ DOMAIN ss = 1..L /\ tt[L + 1] = s /\ \A j \in 1..L : tt[j] = ss[j]
  BY DEF StepsTyped, Longer
<1>2. StepsTyped(tt)
  <2> SUFFICES ASSUME NEW j \in 1..(L + 1) PROVE RowsFit(tt[j])
    BY <1>1 DEF StepsTyped
  <2>1. j = L + 1 \/ j \in 1..L
    BY <1>1
  <2> QED
    BY <1>1, <2>1 DEF StepsTyped
<1>3. 0 \in T
  BY <1>1 DEF Follows
<1>4. ASSUME NEW i \in 0..L, i < L, i \in T PROVE i + 1 \in T
  <2>1. i + 1 \in 1..L /\ i + 1 \in 1..Len(tt) /\ (i + 1) - 1 = i /\ i + 1 \in 0..L
    BY <1>1, <1>4
  <2>2. g[i + 1] = Advanced(g[i], ss[i + 1], r) /\ h[i + 1] = Advanced(h[i], tt[i + 1], r)
    BY <2>1 DEF Follows
  <2> QED
    BY <1>1, <1>4, <2>1, <2>2
<1> HIDE DEF T
<1>5. \A j \in 0..L : j \in T
  BY <1>1, <1>3, <1>4, UpTo
<1>6. h[L + 1] = Advanced(h[L], tt[L + 1], r)
  <2>1. L + 1 \in 1..Len(tt) /\ (L + 1) - 1 = L
    BY <1>1
  <2> QED
    BY <2>1 DEF Follows
<1> QED
  BY <1>1, <1>2, <1>5, <1>6 DEF T

LagsOrSame(ss, r, j, a, b, k) ==
  IF NoFresh(ss, r, 2, j) THEN Lags(a, b, k) ELSE a = b

\* One step less at the front, of which k tokens are rejected.
LEMMA FollowsTail ==
  ASSUME NEW ss, StepsTyped(ss), ss # <<>>, NEW tt, tt = Tail(ss),
         NEW w, NEW r, NEW g, Follows(g, w, ss, r), NEW k \in Int,
         NEW v, Lags(v, g[1], k), NEW h, Follows(h, v, tt, r)
  PROVE  /\ Len(tt) = Len(ss) - 1 /\ StepsTyped(tt)
         /\ \A j \in 1..Len(tt) : tt[j] = ss[j + 1]
         /\ \A j \in 0..Len(tt) : LagsOrSame(ss, r, j + 1, h[j], g[j + 1], k)
<1> DEFINE L == Len(ss) - 1
           T == {j \in 0..L : LagsOrSame(ss, r, j + 1, h[j], g[j + 1], k)}
<1>1. /\ L \in Nat /\ Len(tt) = L /\ tt \in Seq(StepType) /\ DOMAIN tt = 1..L
      /\ DOMAIN ss = 1..(L + 1) /\ Len(ss) = L + 1 /\ \A j \in 1..L : tt[j] = ss[j + 1]
  BY DEF StepsTyped
<1>2. StepsTyped(tt)
  <2> SUFFICES ASSUME NEW j \in 1..L PROVE RowsFit(tt[j])
    BY <1>1 DEF StepsTyped
  <2>1. j + 1 \in DOMAIN ss
    BY <1>1
  <2> QED
    BY <1>1, <2>1 DEF StepsTyped
<1>3. 0 \in T
  <2>1. 2..1 = {} /\ 0 + 1 = 1 /\ 0 \in 0..L
    BY <1>1
  <2>2. NoFresh(ss, r, 2, 1)
    BY <2>1 DEF NoFresh
  <2>3. h[0] = v
    BY DEF Follows
  <2> QED
    BY <2>1, <2>2, <2>3 DEF LagsOrSame
<1>4. ASSUME NEW i \in 0..L, i < L, i \in T PROVE i + 1 \in T
  <2>1. /\ i + 1 \in 1..L /\ i + 1 \in 1..Len(tt) /\ (i + 1) - 1 = i /\ i + 1 \in 0..L
        /\ i + 2 \in 1..Len(ss) /\ (i + 2) - 1 = i + 1 /\ (i + 1) + 1 = i + 2 /\ i \in Nat
    BY <1>1, <1>4
  <2>2. /\ ss[i + 2] \in StepType /\ RowsFit(ss[i + 2])
        /\ g[i + 1] \in RowType /\ g[i + 2] = Advanced(g[i + 1], ss[i + 2], r)
    BY <2>1, FollowsStep
  <2>3. h[i] \in RowType /\ h[i + 1] = Advanced(h[i], tt[i + 1], r) /\ tt[i + 1] = ss[i + 2]
    <3>1. i \in 0..Len(tt)
      BY <1>1
    <3>2. h[i] \in RowType /\ h[i + 1] = Advanced(h[i], tt[i + 1], r)
      BY <2>1, <3>1 DEF Follows
    <3> QED
      BY <1>1, <2>1, <3>2
  <2>4. LagsOrSame(ss, r, i + 1, h[i], g[i + 1], k)
    BY <1>4
  <2>5. LagsOrSame(ss, r, i + 2, h[i + 1], g[i + 2], k)
    <3>1. CASE r \in DOMAIN ss[i + 2].fresh
      <4>1. ~NoFresh(ss, r, 2, i + 2)
        BY <2>1, <3>1 DEF NoFresh
      <4>2. h[i + 1] = g[i + 2]
        <5>1. Advanced(h[i], ss[i + 2], r) = Advanced(g[i + 1], ss[i + 2], r)
          BY <2>2, <2>3, <3>1, AdvanceFresh
        <5> QED
          BY <2>2, <2>3, <5>1
      <4> QED
        BY <4>1, <4>2 DEF LagsOrSame
    <3>2. CASE r \notin DOMAIN ss[i + 2].fresh
      <4>1. NoFresh(ss, r, 2, i + 2) <=> NoFresh(ss, r, 2, i + 1)
        <5>1. \A x \in 2..(i + 2) : x = i + 2 \/ x \in 2..(i + 1)
          BY <2>1
        <5>2. \A x \in 2..(i + 1) : x \in 2..(i + 2)
          BY <2>1
        <5> QED
          BY <3>2, <5>1, <5>2 DEF NoFresh
      <4>2. CASE NoFresh(ss, r, 2, i + 1)
        <5>1. Lags(h[i], g[i + 1], k)
          BY <2>4, <4>2 DEF LagsOrSame
        <5>2. Lags(h[i + 1], g[i + 2], k)
          BY <2>2, <2>3, <3>2, <5>1, AdvanceLags
        <5> QED
          BY <4>1, <4>2, <5>2 DEF LagsOrSame
      <4>3. CASE ~NoFresh(ss, r, 2, i + 1)
        BY <2>2, <2>3, <2>4, <4>1, <4>3 DEF LagsOrSame
      <4> QED
        BY <4>2, <4>3
    <3> QED
      BY <3>1, <3>2
  <2> QED
    BY <2>1, <2>5
<1> HIDE DEF T
<1>5. \A j \in 0..L : j \in T
  BY <1>1, <1>3, <1>4, UpTo
<1> QED
  BY <1>1, <1>2, <1>5 DEF T

-----------------------------------------------------------------------------
(* The tokens counted in advance.                                           *)

\* The rows n and drafts d of a step that starts at w: a decode verifies a draft per
\* row but the first, a prefill stops at the known tokens, a padded one has drafts.
Fit(w, n, d) ==
  LET left == w.prefill - w.computed
  IN  \/ left <= 0 /\ d = n - 1 /\ d <= NumSpec
      \/ left > 0 /\ n \in 1..left /\ d = 0
      \/ left = 1 /\ n = 1 + NumSpec /\ d = NumSpec

RowFits(g, s, r) ==
  r \in DOMAIN s.n => Fit(Starts(g, s, r), s.n[r], s.d[r])
RowsRun(ss, g, r) == \A j \in 1..Len(ss) : RowFits(g[j - 1], ss[j], r)

\* Rows that fit still do when one that fits is sent.
LEMMA RowsRunAppend ==
  ASSUME NEW ss, StepsTyped(ss), NEW s \in StepType, RowsFit(s), NEW tt, Longer(tt, ss, s),
         NEW w, NEW r, NEW g, Follows(g, w, ss, r), NEW h, Follows(h, w, tt, r),
         RowsRun(ss, g, r), RowFits(g[Len(ss)], s, r)
  PROVE  RowsRun(tt, h, r)
<1> DEFINE L == Len(ss)
<1>1. L \in Nat /\ Len(tt) = L + 1 /\ tt[L + 1] = s /\ \A j \in 1..L : tt[j] = ss[j]
  BY DEF StepsTyped, Longer
<1>2. \A j \in 0..L : h[j] = g[j]
  BY FollowsAppend
<1> HIDE DEF L
<1>3. ASSUME NEW j \in 1..(L + 1) PROVE RowFits(h[j - 1], tt[j], r)
  <2>1. j - 1 \in 0..L /\ (j \in 1..L \/ j = L + 1)
    BY <1>1
  <2>2. h[j - 1] = g[j - 1]
    BY <1>2, <2>1
  <2>3. CASE j \in 1..L
    <3>1. RowFits(g[j - 1], ss[j], r)
      BY <2>3 DEF RowsRun, L
    <3> QED
      BY <1>1, <2>2, <2>3, <3>1
  <2>4. CASE j = L + 1
    <3>1. j - 1 = L
      BY <1>1, <2>4
    <3>2. tt[j] = s
      BY <1>1, <2>4
    <3> QED
      BY <2>2, <3>1, <3>2 DEF L
  <2> QED
    BY <2>1, <2>3, <2>4
<1> QED
  BY <1>1, <1>3 DEF RowsRun

\* Rejected drafts leave the row past its prefill: what follows still fits.
LEMMA FitLags ==
  ASSUME NEW a \in RowType, NEW b \in RowType, NEW k \in Int, Lags(a, b, k), k >= 0,
         k > 0 => a.computed >= a.prefill, NEW n, NEW d, Fit(b, n, d)
  PROVE  Fit(a, n, d)
<1>1. a.computed = b.computed - k /\ a.prefill = b.prefill /\ a.computed \in Int
      /\ b.computed \in Int /\ a.prefill \in Nat
  BY DEF Lags, RowType
<1>2. CASE k = 0
  <2>1. a.computed = b.computed
    BY <1>1, <1>2
  <2> QED
    BY <1>1, <2>1 DEF Fit
<1>3. CASE k > 0
  <2>1. a.prefill - a.computed <= 0 /\ b.prefill - b.computed <= 0
    BY <1>1, <1>3
  <2>2. d = n - 1 /\ d <= NumSpec
    BY <1>1, <2>1 DEF Fit
  <2> QED
    BY <2>1, <2>2 DEF Fit
<1> QED
  BY <1>2, <1>3

\* Rows that fit still do when the oldest step is processed: a rejection only
\* moves the decodes after it back.
LEMMA RowsRunTail ==
  ASSUME NEW ss, StepsTyped(ss), ss # <<>>, NEW tt, tt = Tail(ss),
         NEW w, NEW r, NEW g, Follows(g, w, ss, r), NEW k \in Nat,
         NEW v \in RowType, Lags(v, g[1], k), NEW h, Follows(h, v, tt, r),
         k > 0 => v.computed >= v.prefill, RowsRun(ss, g, r)
  PROVE  RowsRun(tt, h, r)
<1> DEFINE L == Len(tt)
<1>1. /\ Len(ss) = L + 1 /\ L \in Nat /\ StepsTyped(tt)
      /\ \A j \in 1..L : tt[j] = ss[j + 1]
  BY FollowsTail DEF StepsTyped
<1>2. \A j \in 0..L : LagsOrSame(ss, r, j + 1, h[j], g[j + 1], k)
  <2>1. k \in Int
    OBVIOUS
  <2> QED
    BY <2>1, FollowsTail
<1>3. \A j \in 0..L : h[j] \in RowType
  BY DEF Follows
<1>4. \A j \in 0..(L + 1) : g[j] \in RowType
  BY <1>1 DEF Follows
<1> HIDE DEF L
<1>5. ASSUME NEW j \in 1..L, r \in DOMAIN tt[j].n
      PROVE  Fit(Starts(h[j - 1], tt[j], r), tt[j].n[r], tt[j].d[r])
  <2>1. /\ j - 1 \in 0..L /\ (j - 1) + 1 = j /\ j \in 0..(L + 1) /\ j + 1 \in 1..Len(ss)
        /\ (j + 1) - 1 = j /\ j \in Int /\ 0 \in 0..L
    BY <1>1
  <2> DEFINE s == tt[j]
             a == h[j - 1]
             b == g[j]
  <2>2. s = ss[j + 1] /\ a \in RowType /\ b \in RowType /\ s \in StepType
    <3>1. \A i \in DOMAIN ss : ss[i] \in StepType
      BY DEF StepsTyped
    <3>2. j + 1 \in DOMAIN ss
      BY <2>1 DEF StepsTyped
    <3> QED
      BY <1>1, <1>3, <1>4, <2>1, <3>1, <3>2
  <2>3. Fit(Starts(b, s, r), s.n[r], s.d[r])
    <3>1. RowFits(g[(j + 1) - 1], ss[j + 1], r)
      BY <2>1 DEF RowsRun
    <3>2. RowFits(b, s, r)
      BY <2>1, <2>2, <3>1
    <3> QED
      BY <1>5, <3>2 DEF RowFits
  <2>4. LagsOrSame(ss, r, j, a, b, k)
    BY <1>2, <2>1
  <2>5. k > 0 /\ NoFresh(ss, r, 2, j) => a.computed >= a.prefill
    <3> SUFFICES ASSUME k > 0, NoFresh(ss, r, 2, j) PROVE a.computed >= a.prefill
      OBVIOUS
    <3>1. NoFresh(tt, r, 0 + 1, j - 1)
      <4> SUFFICES ASSUME NEW i \in (0 + 1)..(j - 1) PROVE r \notin DOMAIN tt[i].fresh
        BY DEF NoFresh
      <4>1. i + 1 \in 2..j /\ i \in 1..L
        BY <1>1
      <4> QED
        BY <1>1, <4>1 DEF NoFresh
    <3>2. 0 <= j - 1
      BY <2>1
    <3>3. Grown(h[0], h[j - 1])
      BY <1>1, <2>1, <3>1, <3>2, FollowsGrows DEF L
    <3>4. h[0] = v
      BY DEF Follows
    <3>5. v.computed <= a.computed /\ v.prefill = a.prefill /\ v.computed >= v.prefill
      BY <3>3, <3>4 DEF Grown
    <3> QED
      BY <2>2, <3>5 DEF RowType
  <2> HIDE DEF s, a, b
  <2>6. CASE r \in DOMAIN s.fresh
    <3>1. Starts(a, s, r) = Starts(b, s, r)
      BY <2>2, <2>6, StartsIs
    <3> QED
      BY <2>3, <3>1 DEF s, a
  <2>7. CASE r \notin DOMAIN s.fresh
    <3>1. Starts(a, s, r) = a /\ Starts(b, s, r) = b
      BY <2>2, <2>7, StartsIs
    <3>2. Fit(b, s.n[r], s.d[r])
      BY <2>3, <3>1
    <3>3. Fit(a, s.n[r], s.d[r])
      <4>1. CASE NoFresh(ss, r, 2, j)
        <5>1. Lags(a, b, k) /\ k \in Int /\ k >= 0 /\ (k > 0 => a.computed >= a.prefill)
          BY <2>4, <2>5, <4>1 DEF LagsOrSame
        <5> QED
          BY <2>2, <3>2, <5>1, FitLags
      <4>2. CASE ~NoFresh(ss, r, 2, j)
        BY <2>4, <3>2, <4>2 DEF LagsOrSame
      <4> QED
        BY <4>1, <4>2
    <3> QED
      BY <3>1, <3>3 DEF s, a
  <2> QED
    BY <2>6, <2>7
<1> QED
  BY <1>1, <1>5 DEF RowsRun, RowFits, L

NextRow(r) == IF r \in DOMAIN loop.fresh THEN loop.fresh[r] ELSE Forecast(r)[Len(steps)]

\* The counters p of a running request that has so many tokens, against the last rank's
\* row w once all that is scheduled is computed.
Counters(p, w, tokens) ==
  /\ p.computed = w.computed
  /\ IF w.computed < w.prefill THEN w.prefill = tokens /\ p.holders = 0 /\ p.spec = 0
                               ELSE p.computed = tokens + p.holders - 1

Counted(r) ==
  /\ req[r].status # "running" => req[r].computed = 0 /\ req[r].holders = 0 /\ req[r].spec = 0
  /\ req[r].status = "running" =>
       /\ Counters(req[r], NextRow(r), Tokens(r))
       /\ r \notin DOMAIN loop.fresh =>
            (req[r].chunk <=> NextRow(r).computed < NextRow(r).prefill)
  /\ r \in DOMAIN loop.n => Fit(NextRow(r), loop.n[r], loop.d[r])
  /\ r \in DOMAIN loop.fresh => NextRow(r).computed < NextRow(r).prefill

FitSteps == \A r \in Reqs : RowsRun(steps, Forecast(r), r)
Counteds == \A r \in Reqs : Counted(r)

\* The forecast of the model is the one reasoned about here ...
LEMMA ForecastIs ==
  ASSUME Base, NEW r \in Reqs
  PROVE  /\ StepsTyped(steps) /\ worker[r] \in RowType
         /\ Follows(Forecast(r), worker[r], steps, r)
         /\ NextRow(r) \in RowType
<1>1. StepsTyped(steps) /\ worker[r] \in RowType /\ Len(steps) \in 0..Len(steps)
  BY DEF Base, Types, StepsTyped, RowType
<1>2. Forecast(r) = ForecastOf(steps, worker[r], r)
  BY DEF Forecast, ForecastOf
<1>3. Follows(Forecast(r), worker[r], steps, r)
  BY <1>1, <1>2, ForecastOfIs
<1>4. Forecast(r)[Len(steps)] \in RowType
  BY <1>1, <1>3 DEF Follows
<1>5. r \in DOMAIN loop.fresh => loop.fresh[r] \in RowType
  <2>1. loop.fresh \in Maps([computed : Nat, prefill : Nat])
    BY LoopFacts DEF RowStates
  <2>2. r \in DOMAIN loop.fresh => loop.fresh[r] \in [computed : Nat, prefill : Nat]
    BY <2>1, MapIs
  <2> QED
    BY <2>2 DEF RowType
<1> QED
  BY <1>1, <1>3, <1>4, <1>5 DEF NextRow

\* ... in the next state too.
LEMMA ForecastNext ==
  ASSUME Base', NEW r \in Reqs
  PROVE  /\ StepsTyped(steps') /\ worker'[r] \in RowType
         /\ Follows(Forecast(r)', worker'[r], steps', r)
<1>1. StepsTyped(steps') /\ worker'[r] \in RowType
  BY DEF Base, Types, StepsTyped, RowType
<1>2. Forecast(r)' = ForecastOf(steps', worker'[r], r)
  BY DEF Forecast, ForecastOf
<1> QED
  BY <1>1, <1>2, ForecastOfIs

\* A padded request gets all its rows: alignment keeps them, or a chunk holds them.
PaddedRowsFit == PadNewReqs /\ ~AlignedSplit => 1 + NumSpec <= ChunkLimit

\* What an admitted request is offered fits its row: this is where a padded row
\* needs its whole width.
LEMMA OfferedFit ==
  ASSUME PaddedRowsFit, NEW w, w.computed \in Int, w.prefill \in Nat, w.computed < w.prefill,
         NEW n \in Counts, NEW d,
         Offered(w, n, d)
  PROVE  Fit(w, n, d)
<1>1. w.computed \in Int /\ w.prefill \in Nat /\ n \in Nat /\ n >= 1 /\ NumSpec \in Nat
      /\ ChunkLimit \in Nat
  BY AsyncSchedulerAssumption, ChunkSplitAssumption DEF RowType, Counts
<1>2. CASE d = 0 /\ w.computed + n <= w.prefill
  BY <1>1, <1>2 DEF Fit
<1>3. CASE /\ d = NumSpec /\ w.computed + 1 = w.prefill /\ PadNewReqs
           /\ n = IF AlignedSplit THEN 1 + NumSpec ELSE Smaller(1 + NumSpec, ChunkLimit)
  <2>1. n = 1 + NumSpec
    BY <1>1, <1>3 DEF PaddedRowsFit, Smaller
  <2>2. w.prefill - w.computed = 1
    BY <1>1, <1>3
  <2> QED
    BY <1>3, <2>1, <2>2 DEF Fit
<1> QED
  BY <1>2, <1>3 DEF Offered

\* What a running request is given fits its row.
LEMMA ScheduledFit ==
  ASSUME Base, NEW r \in Reqs, NEW w \in RowType, Counters(req[r], w, Tokens(r)),
         NEW n \in Counts, WantFits(r, n)
  PROVE  Fit(w, n, DraftsOf(r, n))
<1> DEFINE p == req[r]
           t == Tokens(r)
<1>1. /\ p.spec \in 0..NumSpec /\ p.holders \in Int /\ p.computed \in Int /\ t \in Nat
      /\ NumSpec \in Nat /\ n \in Nat /\ n >= 1 /\ w.computed \in Int /\ w.prefill \in Nat
  <2>1. req[r] \in RequestType /\ Tokens(r) \in Nat
    BY RequestFacts
  <2>2. NumSpec \in Nat
    BY AsyncSchedulerAssumption
  <2>3. p.spec \in 0..NumSpec /\ p.holders \in Int /\ p.computed \in Int
    BY <2>1 DEF RequestType
  <2>4. w.computed \in Int /\ w.prefill \in Nat
    BY DEF RowType
  <2>5. n \in Nat /\ n >= 1
    BY DEF Counts
  <2> QED
    BY <2>1, <2>2, <2>3, <2>4, <2>5
<1>2. n <= t + p.spec + p.holders - p.computed
  BY DEF WantFits
<1>3. DraftsOf(r, n) = Smaller(p.spec, Larger(n + p.computed - t - p.holders, 0))
  BY DEF DraftsOf
<1>4. /\ p.computed = w.computed
      /\ IF w.computed < w.prefill THEN w.prefill = t /\ p.holders = 0 /\ p.spec = 0
                                   ELSE p.computed = t + p.holders - 1
  BY DEF Counters
<1> HIDE DEF p, t
<1>5. CASE w.computed < w.prefill
  <2>1. DraftsOf(r, n) = 0
    BY <1>1, <1>3, <1>4, <1>5 DEF Smaller, Larger
  <2>2. w.prefill - w.computed > 0 /\ n <= w.prefill - w.computed
    BY <1>1, <1>2, <1>4, <1>5
  <2> QED
    BY <1>1, <2>1, <2>2 DEF Fit
<1>6. CASE ~(w.computed < w.prefill)
  <2>1. n + p.computed - t - p.holders = n - 1 /\ n - 1 <= p.spec
    BY <1>1, <1>2, <1>4, <1>6
  <2>2. DraftsOf(r, n) = n - 1
    BY <1>1, <1>3, <2>1 DEF Smaller, Larger
  <2>3. w.prefill - w.computed <= 0 /\ n - 1 <= NumSpec
    BY <1>1, <1>6, <2>1
  <2> QED
    BY <2>2, <2>3 DEF Fit
<1> QED
  BY <1>5, <1>6

\* The forecast depends on the steps and the workers only.
LEMMA SameForecast ==
  ASSUME UNCHANGED <<steps, worker>>, NEW r
  PROVE  Forecast(r)' = Forecast(r)
BY DEF Forecast

\* So does the state a row will start its next step from.
LEMMA NextRowSame ==
  ASSUME UNCHANGED <<steps, worker>>, NEW r,
         r \in DOMAIN loop'.fresh <=> r \in DOMAIN loop.fresh,
         r \in DOMAIN loop.fresh => loop'.fresh[r] = loop.fresh[r]
  PROVE  NextRow(r)' = NextRow(r)
BY SameForecast DEF NextRow

\* What sends and processes no step keeps the counters exact.
LEMMA QuietCounted ==
  ASSUME Base, Counteds, Quiet, PaddedRowsFit
  PROVE  Counteds'
<1> SUFFICES ASSUME NEW r \in Reqs PROVE Counted(r)'
  BY DEF Counteds
<1>1. UNCHANGED <<steps, out, worker>> /\ Counted(r) /\ Moves(r)
  BY DEF Counteds, Quiet
<1>2. Tokens(r)' = Tokens(r)
  BY <1>1 DEF Tokens
<1>3. NextRow(r) \in RowType
  BY ForecastIs
<1>4. CASE Stays(r)
  <2>1. NextRow(r)' = NextRow(r)
    BY <1>1, <1>4, NextRowSame DEF Stays, SameShare
  <2>2. /\ req'[r].computed = req[r].computed /\ req'[r].holders = req[r].holders
        /\ req'[r].spec = req[r].spec /\ req'[r].chunk = req[r].chunk
        /\ req'[r].status = "running" <=> req[r].status = "running"
        /\ r \in DOMAIN loop'.n <=> r \in DOMAIN loop.n
        /\ r \in DOMAIN loop.n => loop'.n[r] = loop.n[r] /\ loop'.d[r] = loop.d[r]
        /\ r \in DOMAIN loop'.fresh <=> r \in DOMAIN loop.fresh
    BY <1>4 DEF Stays, SameShare, SameCounters
  <2>3. Counters(req[r], NextRow(r), Tokens(r)) => Counters(req'[r], NextRow(r), Tokens(r))
    BY <2>2 DEF Counters
  <2> HIDE DEF Counters
  <2> QED
    BY <1>1, <1>2, <2>1, <2>2, <2>3 DEF Counted
<1>5. CASE Closes(r)
  <2>1. DOMAIN loop.n = {} /\ DOMAIN loop.fresh = {}
    BY <1>5, NoLoopType DEF Closes, Base, Places, Settled, NoLoop
  <2>2. r \notin DOMAIN loop'.n /\ r \notin DOMAIN loop'.fresh
    BY <1>5, <2>1 DEF Closes, SameShare
  <2>3. req'[r].status = "finished" /\ req'[r].computed = 0 /\ req'[r].holders = 0
        /\ req'[r].spec = 0
    BY <1>5 DEF Closes, Closed, NewRequest
  <2> QED
    BY <2>2, <2>3 DEF Counted
<1>6. CASE Schedules(r)
  <2>1. /\ r \notin DOMAIN loop.fresh /\ r \notin DOMAIN loop'.fresh /\ r \in DOMAIN loop'.n
        /\ req[r].status = "running" /\ req'[r].status = "running"
        /\ req'[r].computed = req[r].computed /\ req'[r].holders = req[r].holders
        /\ req'[r].spec = 0 /\ req'[r].chunk = req[r].chunk
        /\ loop'.n[r] \in Counts /\ WantFits(r, loop'.n[r])
        /\ loop'.d[r] = DraftsOf(r, loop'.n[r])
    BY <1>6 DEF Schedules, SameCounters
  <2>2. NextRow(r)' = NextRow(r)
    BY <1>1, <2>1, NextRowSame
  <2>3. Counters(req[r], NextRow(r), Tokens(r))
    BY <1>1, <2>1 DEF Counted
  <2>4. Fit(NextRow(r), loop'.n[r], loop'.d[r])
    <3> DEFINE n == loop'.n[r]
    <3>1. n \in Counts /\ WantFits(r, n) /\ loop'.d[r] = DraftsOf(r, n)
      BY <2>1
    <3> HIDE DEF n
    <3>2. Fit(NextRow(r), n, DraftsOf(r, n))
      BY <1>3, <2>3, <3>1, ScheduledFit
    <3> QED
      BY <3>1, <3>2 DEF n
  <2>5. Counters(req'[r], NextRow(r), Tokens(r))
    BY <2>1, <2>3 DEF Counters
  <2> QED
    BY <1>1, <1>2, <2>1, <2>2, <2>4, <2>5 DEF Counted
<1>7. CASE Evicts(r)
  BY <1>7 DEF Evicts, Counted
<1>8. CASE Admits(r)
  <2> DEFINE w == loop'.fresh[r]
  <2>1. /\ req[r].status # "running" /\ req'[r].status = "running"
        /\ r \in DOMAIN loop'.n /\ r \in DOMAIN loop'.fresh
        /\ w.computed \in Nat /\ w.computed < w.prefill /\ w.prefill = Tokens(r)
        /\ loop'.n[r] \in Counts /\ Offered(w, loop'.n[r], loop'.d[r])
        /\ req'[r].computed = w.computed /\ req'[r].holders = req[r].holders
        /\ req'[r].spec = req[r].spec
    BY <1>8 DEF Admits
  <2>2. req'[r].holders = 0 /\ req'[r].spec = 0
    BY <1>1, <2>1 DEF Counted
  <2>3. NextRow(r)' = w
    BY <2>1 DEF NextRow
  <2>4. Fit(w, loop'.n[r], loop'.d[r])
    <3>1. w.computed \in Int /\ w.prefill \in Nat
      BY <2>1, RequestFacts
    <3> QED
      BY <2>1, <3>1, OfferedFit
  <2>5. Counters(req'[r], w, Tokens(r))
    BY <2>1, <2>2 DEF Counters
  <2> HIDE DEF w
  <2> QED
    BY <1>1, <1>2, <2>1, <2>3, <2>4, <2>5 DEF Counted
<1> QED
  BY <1>1, <1>4, <1>5, <1>6, <1>7, <1>8 DEF Moves

\* What sends and processes no step leaves the rows in flight alone.
LEMMA QuietFits ==
  ASSUME FitSteps, Quiet
  PROVE  FitSteps'
<1> SUFFICES ASSUME NEW r \in Reqs PROVE RowsRun(steps', Forecast(r)', r)
  BY DEF FitSteps
<1>1. UNCHANGED <<steps, worker>> /\ RowsRun(steps, Forecast(r), r)
  BY DEF FitSteps, Quiet
<1>2. Forecast(r)' = Forecast(r)
  BY <1>1, SameForecast
<1> QED
  BY <1>1, <1>2

\* What a step adds to a request's counters.
LEMMA CountsStep ==
  ASSUME NEW p \in RequestType, NEW q \in RequestType, NEW w \in RowType, NEW u \in RowType,
         NEW t \in Nat, NEW n \in Counts, NEW d, Counters(p, w, t), Fit(w, n, d),
         u.computed = w.computed + n, u.prefill = w.prefill,
         q.computed = p.computed + n,
         q.chunk <=> p.computed + n < t + p.holders,
         q.holders = IF q.chunk THEN p.holders ELSE p.holders + 1 + d,
         q.spec = IF q.chunk THEN p.spec ELSE NumSpec
  PROVE  Counters(q, u, t) /\ (q.chunk <=> u.computed < u.prefill)
<1>1. /\ p.holders \in Int /\ p.computed \in Int /\ NumSpec \in Nat
      /\ q.holders \in Int /\ q.computed \in Int /\ q.chunk \in BOOLEAN
      /\ n \in Nat /\ n >= 1 /\ w.computed \in Int /\ w.prefill \in Nat
  BY AsyncSchedulerAssumption DEF RequestType, RowType, Counts
<1>2. /\ p.computed = w.computed
      /\ IF w.computed < w.prefill THEN w.prefill = t /\ p.holders = 0 /\ p.spec = 0
                                   ELSE p.computed = t + p.holders - 1
  BY DEF Counters
<1>3. CASE w.computed < w.prefill
  <2>1. w.prefill = t /\ p.holders = 0 /\ p.spec = 0
    BY <1>2, <1>3
  <2>2. q.chunk <=> u.computed < u.prefill
    BY <1>1, <1>2, <2>1
  <2>3. CASE q.chunk
    <3>1. q.holders = 0 /\ q.spec = 0 /\ q.computed = u.computed /\ u.prefill = t
      BY <1>2, <2>1, <2>3
    <3>2. u.computed < u.prefill
      BY <2>2, <2>3
    <3> QED
      BY <2>2, <3>1, <3>2 DEF Counters
  <2>4. CASE ~q.chunk
    <3>1. q.holders = 1 + d /\ u.computed >= u.prefill
      BY <1>1, <2>1, <2>2, <2>4 DEF Fit
    <3>2. w.computed + n = t + d
      BY <1>1, <1>3, <2>1, <3>1 DEF Fit
    <3>3. q.computed = t + q.holders - 1 /\ q.computed = u.computed
      <4>1. d \in Int
        BY <1>1 DEF Fit
      <4> QED
        BY <1>1, <1>2, <3>1, <3>2, <4>1
    <3> QED
      BY <1>1, <2>2, <2>4, <3>1, <3>3 DEF Counters
  <2> QED
    BY <1>1, <2>3, <2>4
<1>4. CASE ~(w.computed < w.prefill)
  <2>1. p.computed = t + p.holders - 1 /\ d = n - 1
    BY <1>1, <1>2, <1>4 DEF Fit
  <2>2. ~q.chunk
    BY <1>1, <2>1
  <2>3. ~(u.computed < u.prefill)
    BY <1>1, <1>4
  <2>4. q.holders = p.holders + 1 + d
    BY <2>2
  <2>5. q.computed = u.computed /\ q.computed = t + q.holders - 1
    BY <1>1, <1>2, <2>1, <2>4
  <2> QED
    BY <2>2, <2>3, <2>5 DEF Counters
<1> QED
  BY <1>3, <1>4

\* The forecast when a step is sent.
LEMMA UpdateForecast ==
  ASSUME Base, Base', UpdateAfterSchedule, NEW r \in Reqs
  PROVE  /\ Longer(steps', steps, Sent) /\ Len(steps') = Len(steps) + 1
         /\ Forecast(r)'[Len(steps')] = Advanced(Forecast(r)[Len(steps)], Sent, r)
         /\ NextRow(r)' = Forecast(r)'[Len(steps')]
         /\ r \in DOMAIN loop.n =>
              /\ Starts(Forecast(r)[Len(steps)], Sent, r) = NextRow(r)
              /\ Forecast(r)'[Len(steps')] \in RowType
              /\ Forecast(r)'[Len(steps')].computed = NextRow(r).computed + loop.n[r]
              /\ Forecast(r)'[Len(steps')].prefill = NextRow(r).prefill
         /\ r \notin DOMAIN loop.n => NextRow(r)' = NextRow(r)
<1> DEFINE s == Sent
           g == Forecast(r)
           h == Forecast(r)'
           L == Len(steps)
           w == worker[r]
           ss == steps
           tt == steps'
<1>1. /\ s \in StepType /\ RowsFit(s) /\ Longer(tt, ss, s) /\ s.n = loop.n
      /\ s.fresh = loop.fresh /\ r \notin DOMAIN loop'.fresh /\ worker' = worker
      /\ r \notin DOMAIN loop.n => r \notin DOMAIN loop.fresh
  BY SentIs DEF Longer
<1>2. StepsTyped(ss) /\ Follows(g, w, ss, r) /\ w \in RowType
  BY ForecastIs
<1>3. StepsTyped(tt) /\ Follows(h, w, tt, r)
  BY <1>1, ForecastNext
<1>4. NextRow(r)' = h[Len(tt)]
  BY <1>1 DEF NextRow
<1>5. NextRow(r) = IF r \in DOMAIN s.fresh THEN s.fresh[r] ELSE g[L]
  BY <1>1 DEF NextRow
<1> HIDE DEF s, g, h, w, ss, tt
<1>6. h[Len(ss) + 1] = Advanced(g[Len(ss)], s, r) /\ Len(tt) = Len(ss) + 1
  BY <1>1, <1>2, <1>3, FollowsAppend
<1>7. g[Len(ss)] \in RowType
  BY <1>2 DEF Follows, StepsTyped
<1>8. L = Len(ss)
  BY DEF ss
<1>9. Starts(g[L], s, r) = NextRow(r)
  BY <1>1, <1>5, <1>7, <1>8, StartsIs
<1>10. /\ Advanced(g[L], s, r) \in RowType
       /\ r \in DOMAIN s.n => /\ Advanced(g[L], s, r).computed = NextRow(r).computed + s.n[r]
                              /\ Advanced(g[L], s, r).prefill = NextRow(r).prefill
       /\ r \notin DOMAIN s.n => Advanced(g[L], s, r) = g[L]
  BY <1>1, <1>7, <1>8, <1>9, AdvancedIs
<1> QED
  BY <1>1, <1>4, <1>5, <1>6, <1>8, <1>9, <1>10 DEF s, g, h, ss, tt

\* The rows of a sent step fit.
LEMMA UpdateFits ==
  ASSUME Base, Base', Counteds, FitSteps, UpdateAfterSchedule
  PROVE  FitSteps'
<1> SUFFICES ASSUME NEW r \in Reqs PROVE RowsRun(steps', Forecast(r)', r)
  BY DEF FitSteps
<1> DEFINE s == Sent
           g == Forecast(r)
           h == Forecast(r)'
           w == worker[r]
           ss == steps
           tt == steps'
<1>1. /\ s \in StepType /\ RowsFit(s) /\ s.n = loop.n /\ s.d = loop.d /\ worker' = worker
  BY SentIs
<1>2. StepsTyped(ss) /\ Follows(g, w, ss, r)
  BY ForecastIs
<1>3. StepsTyped(tt) /\ Follows(h, w, tt, r)
  BY <1>1, ForecastNext
<1>4. RowsRun(ss, g, r) /\ Counted(r)
  BY DEF FitSteps, Counteds
<1>5. Longer(tt, ss, s) /\ (r \in DOMAIN loop.n => Starts(g[Len(ss)], s, r) = NextRow(r))
  BY UpdateForecast
<1>6. RowFits(g[Len(ss)], s, r)
  BY <1>1, <1>4, <1>5 DEF RowFits, Counted
<1> HIDE DEF s, g, h, w, ss, tt
<1>7. RowsRun(tt, h, r)
  BY <1>1, <1>2, <1>3, <1>4, <1>5, <1>6, RowsRunAppend
<1> QED
  BY <1>7 DEF h, tt

\* Counting a sent step in advance keeps the counters exact.
LEMMA UpdateCounted ==
  ASSUME Base, Base', Counteds, UpdateAfterSchedule
  PROVE  Counteds'
<1> SUFFICES ASSUME NEW r \in Reqs PROVE Counted(r)'
  BY DEF Counteds
<1>1. Counted(r)
  BY DEF Counteds
<1>2. r \notin DOMAIN loop'.n /\ r \notin DOMAIN loop'.fresh /\ out' = out
      /\ (r \notin DOMAIN loop.n => req'[r] = req[r] /\ r \notin DOMAIN loop.fresh)
  BY SentIs
<1>3. Tokens(r)' = Tokens(r)
  BY <1>2 DEF Tokens
<1>4. CASE r \notin DOMAIN loop.n
  <2>1. NextRow(r)' = NextRow(r)
    BY <1>4, UpdateForecast
  <2> QED
    BY <1>1, <1>2, <1>3, <1>4, <2>1 DEF Counted
<1>5. CASE r \in DOMAIN loop.n
  <2> DEFINE p == req[r]
             q == req'[r]
             w == NextRow(r)
             u == NextRow(r)'
             n == loop.n[r]
             d == loop.d[r]
             t == Tokens(r)
  <2>1. /\ q \in RequestType /\ p.status = "running" /\ q.status = "running"
        /\ q.computed = p.computed + n /\ (q.chunk <=> p.computed + n < t + p.holders)
        /\ q.holders = IF q.chunk THEN p.holders ELSE p.holders + 1 + d
        /\ q.spec = IF q.chunk THEN p.spec ELSE NumSpec
        /\ n \in Counts
    BY <1>5, SentIs DEF ScheduledIs
  <2>2. w \in RowType /\ p \in RequestType /\ t \in Nat
    BY ForecastIs, RequestFacts
  <2>3. u \in RowType /\ u.computed = w.computed + n /\ u.prefill = w.prefill
    BY <1>5, UpdateForecast
  <2>4. Counters(p, w, t) /\ Fit(w, n, d)
    BY <1>1, <1>5, <2>1 DEF Counted
  <2> HIDE DEF p, q, w, u, n, d, t
  <2>5. Counters(q, u, t) /\ (q.chunk <=> u.computed < u.prefill)
    BY <2>1, <2>2, <2>3, <2>4, CountsStep
  <2> QED
    BY <1>2, <1>3, <2>1, <2>5 DEF Counted, q, u, t
<1> QED
  BY <1>4, <1>5

-----------------------------------------------------------------------------
(* What the workers know of the tokens that will be delivered.             *)

\* A row in step with the tokens t known before the next step: one is uncomputed.
NewestAt(w, t) == IF w.computed >= w.prefill THEN w.computed = t - 1 ELSE w.prefill = t

FreshSteps(r) == {j \in DOMAIN steps : r \in DOMAIN steps[j].fresh}
FreshRow(w, t) == w.prefill = t /\ w.computed < w.prefill

\* Everything in flight for the request will be delivered.
Trusted(r) ==
  \/ req[r].status = "running" /\ r \notin DOMAIN loop.fresh /\ req[r].stale = 0
  \/ req[r].status = "preempted" /\ ~req[r].drop /\ req[r].stale > 0

Delivered(r) ==
  req[r].status # "finished" =>
    /\ Len(out[r]) < MaxTokens[r] /\ Tokens(r) < MaxModelLen
    /\ \A j \in FreshSteps(r) : FreshRow(steps[j].fresh[r], Tokens(r))
    /\ Trusted(r) /\ FreshSteps(r) = {} => NewestAt(worker[r], Tokens(r))
Delivereds == \A r \in Reqs : Delivered(r)

\* What sends and processes no step leaves what the workers know alone.
LEMMA QuietDelivered ==
  ASSUME Base, Flights, Delivereds, Quiet
  PROVE  Delivereds'
<1> SUFFICES ASSUME NEW r \in Reqs PROVE Delivered(r)'
  BY DEF Delivereds
<1>1. UNCHANGED <<steps, out, worker>> /\ Delivered(r) /\ Moves(r) /\ Flight(r)
  BY DEF Delivereds, Quiet, Flights
<1>2. Tokens(r)' = Tokens(r) /\ FreshSteps(r)' = FreshSteps(r)
  BY <1>1 DEF Tokens, FreshSteps
<1>3. InFlight(r) \in Nat
  BY InFlightNat
<1>4. (req[r].status # "finished" /\ (Trusted(r)' => Trusted(r))) => Delivered(r)'
  BY <1>1, <1>2 DEF Delivered
<1>5. CASE Stays(r)
  <2>1. Trusted(r)' => Trusted(r)
    BY <1>5 DEF Stays, SameCounters, SameShare, Trusted
  <2>2. req[r].status = "finished" => req'[r].status = "finished"
    BY <1>5 DEF Stays
  <2> QED
    BY <1>4, <2>1, <2>2 DEF Delivered
<1>6. CASE Closes(r)
  BY <1>6, ClosedType DEF Closes, Delivered
<1>7. CASE Schedules(r)
  <2>1. (Trusted(r)' => Trusted(r)) /\ req[r].status # "finished"
    BY <1>7 DEF Schedules, SameCounters, Trusted
  <2> QED
    BY <1>4, <2>1
<1>8. CASE Evicts(r)
  <2>1. PICK drop \in BOOLEAN : req'[r].drop = KeepsDropping(req[r], drop)
    BY <1>8 DEF Evicts
  <2>2. /\ req[r].status = "running" /\ r \notin DOMAIN loop.fresh
        /\ req'[r].status = "preempted"
    BY <1>8 DEF Evicts
  <2>3. (req[r].stale > 0 => req[r].drop) /\ req[r].stale = StaleIn(r) /\ StaleIn(r) \in Nat
    BY <1>1, <2>2, InFlightNat DEF Flight
  <2>4. ~req'[r].drop => ~(req[r].drop /\ req[r].stale > 0)
    BY <2>1 DEF KeepsDropping
  <2>5. ~req'[r].drop => req[r].stale = 0
    BY <2>3, <2>4
  <2>6. (Trusted(r)' => Trusted(r)) /\ req[r].status # "finished"
    BY <2>2, <2>5 DEF Trusted
  <2> QED
    BY <1>4, <2>6
<1>9. CASE Admits(r)
  <2>1. (Trusted(r)' => Trusted(r)) /\ req[r].status # "finished"
    BY <1>9 DEF Admits, Trusted
  <2> QED
    BY <1>4, <2>1
<1> QED
  BY <1>1, <1>5, <1>6, <1>7, <1>8, <1>9 DEF Moves

\* The steps that start a request anew when a step is sent.
LEMMA AppendedFresh ==
  ASSUME Base, NEW s, steps' = Append(steps, s), NEW r
  PROVE  /\ r \notin DOMAIN s.fresh => FreshSteps(r)' = FreshSteps(r)
         /\ r \in DOMAIN s.fresh => FreshSteps(r)' = FreshSteps(r) \cup {Len(steps) + 1}
         /\ \A j \in FreshSteps(r) : steps'[j] = steps[j]
         /\ steps'[Len(steps) + 1] = s
<1>1. steps \in Seq(StepType)
  BY DEF Base, Types
<1>2. /\ Len(steps) \in Nat /\ DOMAIN steps = 1..Len(steps)
      /\ DOMAIN steps' = 1..(Len(steps) + 1) /\ steps'[Len(steps) + 1] = s
      /\ \A j \in 1..Len(steps) : steps'[j] = steps[j]
  BY <1>1
<1>3. 1..(Len(steps) + 1) = (1..Len(steps)) \cup {Len(steps) + 1}
  BY <1>2
<1> QED
  BY <1>2, <1>3 DEF FreshSteps

\* A sent step that starts a request anew knows all its tokens.
LEMMA UpdateDelivered ==
  ASSUME Base, Counteds, Delivereds, UpdateAfterSchedule
  PROVE  Delivereds'
<1> SUFFICES ASSUME NEW r \in Reqs, req'[r].status # "finished" PROVE Delivered(r)'
  BY DEF Delivereds, Delivered
<1> DEFINE s == Sent
<1>1. /\ steps' = Append(steps, s) /\ s.fresh = loop.fresh /\ UNCHANGED <<out, worker>>
      /\ DOMAIN loop'.fresh = {}
      /\ r \notin DOMAIN loop.n => req'[r] = req[r] /\ r \notin DOMAIN loop.fresh
  BY SentIs
<1>2. /\ req'[r].status = req[r].status /\ req'[r].stale = req[r].stale
      /\ req'[r].drop = req[r].drop
  <2>1. CASE r \in DOMAIN loop.n
    BY <2>1, SentIs DEF ScheduledIs
  <2> QED
    BY <1>1, <2>1
<1> HIDE DEF s
<1>3. /\ r \notin DOMAIN s.fresh => FreshSteps(r)' = FreshSteps(r)
      /\ r \in DOMAIN s.fresh => FreshSteps(r)' = FreshSteps(r) \cup {Len(steps) + 1}
      /\ \A j \in FreshSteps(r) : steps'[j] = steps[j]
      /\ steps'[Len(steps) + 1] = s
  BY <1>1, AppendedFresh
<1>4. Delivered(r) /\ Counted(r) /\ Tokens(r)' = Tokens(r) /\ req[r].status # "finished"
  BY <1>1, <1>2 DEF Delivereds, Counteds, Tokens
<1>5. r \in DOMAIN loop.fresh => FreshRow(loop.fresh[r], Tokens(r))
  <2> SUFFICES ASSUME r \in DOMAIN loop.fresh PROVE FreshRow(loop.fresh[r], Tokens(r))
    OBVIOUS
  <2>1. req[r].status = "running" /\ NextRow(r) = loop.fresh[r]
    BY FreshRuns DEF NextRow
  <2> QED
    BY <1>4, <2>1 DEF Counted, Counters, FreshRow
<1>6. \A j \in FreshSteps(r)' : FreshRow(steps'[j].fresh[r], Tokens(r))
  BY <1>1, <1>3, <1>4, <1>5 DEF Delivered
<1>7. (Trusted(r)' /\ FreshSteps(r)' = {}) => NewestAt(worker[r], Tokens(r))
  <2> SUFFICES ASSUME Trusted(r)', FreshSteps(r)' = {} PROVE NewestAt(worker[r], Tokens(r))
    OBVIOUS
  <2>1. r \notin DOMAIN loop.fresh /\ FreshSteps(r) = {}
    BY <1>1, <1>3
  <2>2. Trusted(r)
    BY <1>2, <2>1 DEF Trusted
  <2> QED
    BY <1>4, <2>1, <2>2 DEF Delivered
<1> QED
  BY <1>1, <1>4, <1>6, <1>7 DEF Delivered

\* Initially nothing is counted.
LEMMA CountersInit == Init => FitSteps /\ Counteds /\ Delivereds
<1> SUFFICES ASSUME Init, NEW r \in Reqs
             PROVE  RowsRun(steps, Forecast(r), r) /\ Counted(r) /\ Delivered(r)
  BY DEF FitSteps, Counteds, Delivereds
<1>1. /\ steps = <<>> /\ Len(steps) = 0 /\ out[r] = <<>> /\ loop = NoLoop
      /\ req[r].status = "new" /\ req[r].computed = 0 /\ req[r].holders = 0 /\ req[r].spec = 0
  BY DEF Init, NewRequest
<1>2. DOMAIN loop.n = {} /\ DOMAIN loop.fresh = {}
  BY <1>1, NoLoopType DEF NoLoop
<1>3. RowsRun(steps, Forecast(r), r)
  BY <1>1 DEF RowsRun
<1>4. Counted(r)
  BY <1>1, <1>2 DEF Counted
<1>5. Delivered(r)
  <2>1. Len(out[r]) = 0 /\ MaxTokens[r] \in Nat \ {0} /\ Prompt[r] < MaxModelLen
        /\ Prompt[r] \in Nat
    BY <1>1, AsyncSchedulerAssumption
  <2>2. FreshSteps(r) = {} /\ ~Trusted(r)
    BY <1>1 DEF FreshSteps, Trusted
  <2>3. Tokens(r) = Prompt[r] + 0
    BY <2>1 DEF Tokens
  <2> QED
    BY <2>1, <2>2, <2>3 DEF Delivered
<1> QED
  BY <1>3, <1>4, <1>5

-----------------------------------------------------------------------------
(* What the processing of the oldest step makes of the counters.            *)

\* What the last rank takes back of a row in the oldest step.
TakenBack(accepted, r) == IF r \in OldestRows THEN Rejects(accepted, r) ELSE 0

\* The row after the oldest step.
LEMMA WorkerNext ==
  ASSUME Base, NEW accepted, NEW given, NEW eos, Outcome(accepted, given, eos),
         NEW r \in OldestRows
  PROVE  /\ worker'[r].computed = RowState(r).computed + steps[1].n[r] - Rejects(accepted, r)
         /\ worker'[r].prefill = RowState(r).prefill
<1>1. worker' = [s \in Reqs |->
              IF s \notin OldestRows THEN worker[s]
              ELSE [RowState(s) EXCEPT !.computed = @ + steps[1].n[s] - Rejects(accepted, s)]]
  BY OutcomeIs
<1>2. r \in Reqs /\ RowState(r) \in RowType
  BY OldestIs DEF Outcome, RowType
<1> DEFINE v == RowState(r)
<1>3. worker'[r] = [v EXCEPT !.computed = @ + steps[1].n[r] - Rejects(accepted, r)]
  BY <1>1, <1>2
<1> HIDE DEF v
<1>4. v \in RowType
  BY <1>2 DEF v
<1>5. /\ worker'[r].computed = v.computed + steps[1].n[r] - Rejects(accepted, r)
      /\ worker'[r].prefill = v.prefill
  BY <1>3, <1>4 DEF RowType
<1> QED
  BY <1>5 DEF v

\* The forecast's first step, and what a row of it fits.
LEMMA FirstForecast ==
  ASSUME Base, steps # <<>>, NEW r \in Reqs
  PROVE  /\ Forecast(r)[1] \in RowType
         /\ r \in OldestRows =>
              /\ Forecast(r)[1].computed = RowState(r).computed + steps[1].n[r]
              /\ Forecast(r)[1].prefill = RowState(r).prefill
              /\ FitSteps => Fit(RowState(r), steps[1].n[r], steps[1].d[r])
         /\ r \notin OldestRows => Forecast(r)[1] = worker[r]
<1> DEFINE g == Forecast(r)
           ss == steps
           w == worker[r]
           s == ss[1]
<1>1. StepsTyped(ss) /\ w \in RowType /\ Follows(g, w, ss, r)
  BY ForecastIs
<1>2. 1 \in 1..Len(ss) /\ 1 - 1 = 0
  BY OldestIs
<1>3. RowState(r) = Starts(w, s, r) /\ (r \in OldestRows <=> r \in DOMAIN s.n)
  BY DEF RowState, Starts, OldestRows
<1>4. FitSteps => RowFits(g[1 - 1], s, r)
  BY <1>2 DEF FitSteps, RowsRun
<1> HIDE DEF g, ss, w
<1>5. s \in StepType /\ g[1] = Advanced(g[1 - 1], s, r) /\ g[0] = w /\ g[1] \in RowType
  <2>1. g[0] = w
    BY <1>1 DEF Follows
  <2>2. s \in StepType /\ g[1] = Advanced(g[1 - 1], s, r) /\ g[1] \in RowType
    BY <1>1, <1>2, FollowsStep
  <2> QED
    BY <2>1, <2>2
<1>6. g[1] = Advanced(w, s, r) /\ (FitSteps => RowFits(w, s, r))
  BY <1>2, <1>4, <1>5
<1> HIDE DEF s
<1>7. /\ r \in DOMAIN s.n =>
              /\ g[1].computed = Starts(w, s, r).computed + s.n[r]
              /\ g[1].prefill = Starts(w, s, r).prefill
              /\ FitSteps => Fit(Starts(w, s, r), s.n[r], s.d[r])
      /\ r \notin DOMAIN s.n => g[1] = w
  BY <1>1, <1>5, <1>6, AdvancedIs DEF RowFits
<1>8. /\ r \in OldestRows =>
              /\ g[1].computed = RowState(r).computed + s.n[r]
              /\ g[1].prefill = RowState(r).prefill
              /\ FitSteps => Fit(RowState(r), s.n[r], s.d[r])
      /\ r \notin OldestRows => g[1] = w
  BY <1>3, <1>7
<1> QED
  BY <1>5, <1>8 DEF g, s, ss, w

\* Whatever is rejected, the row is past its prefill.
LEMMA RejectsFit ==
  ASSUME NEW v \in RowType, NEW n \in Counts, NEW d \in 0..NumSpec, Fit(v, n, d),
         NEW k \in 0..d, k > 0
  PROVE  v.computed + n - k >= v.prefill
<1>1. v.computed \in Int /\ v.prefill \in Nat /\ n \in Nat /\ n >= 1 /\ NumSpec \in Nat
      /\ d \in Nat /\ k \in Nat /\ k <= d /\ d > 0
  BY AsyncSchedulerAssumption DEF RowType, Counts
<1> QED
  BY <1>1 DEF Fit

\* The worker is behind its forecast by what was rejected.
LEMMA OutputLags ==
  ASSUME Base, FitSteps, NEW accepted, NEW given, NEW eos, Outcome(accepted, given, eos),
         NEW r \in Reqs
  PROVE  LET k == TakenBack(accepted, r)
         IN  /\ k \in Nat
             /\ Lags(worker'[r], Forecast(r)[1], k)
             /\ k > 0 => /\ worker'[r].computed >= worker'[r].prefill /\ r \in OldestRows
                         /\ Samples(r)
<1>1. steps # <<>>
  BY DEF Outcome
<1>2. CASE r \notin OldestRows
  <2>1. worker'[r] = worker[r] /\ Forecast(r)[1] = worker[r] /\ worker[r] \in RowType
    BY <1>1, <1>2, ProcessedIs, FirstForecast, ForecastIs
  <2>2. TakenBack(accepted, r) = 0
    BY <1>2 DEF TakenBack
  <2> QED
    BY <2>1, <2>2 DEF Lags, RowType
<1>3. CASE r \in OldestRows
  <2> DEFINE v == RowState(r)
             n == steps[1].n[r]
             d == steps[1].d[r]
             k == Rejects(accepted, r)
  <2>1. v \in RowType /\ n \in Counts /\ d \in 0..NumSpec
    BY <1>1, <1>3, OldestIs DEF RowType
  <2>2. k \in 0..d /\ (k > 0 => Samples(r))
    BY <1>3, GivenIs DEF Rejects
  <2>3. worker'[r].computed = v.computed + n - k /\ worker'[r].prefill = v.prefill
    BY <1>3, WorkerNext
  <2>4. /\ Forecast(r)[1].computed = v.computed + n /\ Forecast(r)[1].prefill = v.prefill
        /\ Fit(v, n, d)
    BY <1>1, <1>3, FirstForecast
  <2>5. TakenBack(accepted, r) = k
    BY <1>3 DEF TakenBack
  <2> HIDE DEF v, n, d, k
  <2>6. k \in Nat /\ n \in Int /\ v.computed \in Int
    BY <2>1, <2>2, AsyncSchedulerAssumption DEF Counts, RowType
  <2>7. Lags(worker'[r], Forecast(r)[1], k)
    BY <2>3, <2>4, <2>6 DEF Lags
  <2>8. k > 0 => worker'[r].computed >= worker'[r].prefill
    BY <2>1, <2>2, <2>3, <2>4, RejectsFit
  <2> QED
    BY <1>3, <2>2, <2>5, <2>6, <2>7, <2>8
<1> QED
  BY <1>2, <1>3

\* The forecast when the oldest step has been processed: what was rejected is
\* missing up to the next new incarnation.
LEMMA OutputForecast ==
  ASSUME Base, Base', FitSteps, NEW accepted, NEW given, NEW eos,
         Outcome(accepted, given, eos), NEW r \in Reqs
  PROVE  LET k == TakenBack(accepted, r)
         IN  /\ RowsRun(steps', Forecast(r)', r)
             /\ LagsOrSame(steps, r, Len(steps), Forecast(r)'[Len(steps')],
                           Forecast(r)[Len(steps)], k)
             /\ k > 0 /\ NoFresh(steps, r, 2, Len(steps)) =>
                  Forecast(r)'[Len(steps')].computed >= Forecast(r)'[Len(steps')].prefill
             /\ NoFresh(steps, r, 2, Len(steps)) =>
                  Grown(Forecast(r)[1], Forecast(r)[Len(steps)])
<1> DEFINE k == TakenBack(accepted, r)
           g == Forecast(r)
           h == Forecast(r)'
           ss == steps
           tt == steps'
           w == worker[r]
           v == worker'[r]
<1>1. ss # <<>> /\ tt = Tail(ss)
  BY ProcessedIs
<1>2. StepsTyped(ss) /\ Follows(g, w, ss, r) /\ RowsRun(ss, g, r)
  BY ForecastIs DEF FitSteps
<1>3. StepsTyped(tt) /\ v \in RowType /\ Follows(h, v, tt, r)
  BY ForecastNext
<1>4. k \in Nat /\ Lags(v, g[1], k) /\ (k > 0 => v.computed >= v.prefill)
  BY OutputLags
<1> HIDE DEF k, g, h, ss, tt, w, v
<1>5. k \in Int
  BY <1>4
<1>6. RowsRun(tt, h, r)
  BY <1>1, <1>2, <1>3, <1>4, RowsRunTail
<1>7. /\ Len(tt) = Len(ss) - 1
      /\ \A j \in 1..Len(tt) : tt[j] = ss[j + 1]
      /\ \A j \in 0..Len(tt) : LagsOrSame(ss, r, j + 1, h[j], g[j + 1], k)
  BY <1>1, <1>2, <1>3, <1>4, <1>5, FollowsTail
<1>8. Len(tt) \in Nat /\ Len(tt) \in 0..Len(tt) /\ Len(tt) + 1 = Len(ss) /\ 0 \in 0..Len(tt)
      /\ Len(ss) \in 0..Len(ss) /\ 1 \in 0..Len(ss) /\ 1 <= Len(ss)
  BY <1>3, <1>7 DEF StepsTyped
<1>9. LagsOrSame(ss, r, Len(ss), h[Len(tt)], g[Len(ss)], k)
  BY <1>7, <1>8
<1>10. NoFresh(ss, r, 2, Len(ss)) => Grown(g[1], g[Len(ss)])
  <2>1. NoFresh(ss, r, 2, Len(ss)) => NoFresh(ss, r, 1 + 1, Len(ss))
    OBVIOUS
  <2> QED
    BY <1>2, <1>8, <2>1, FollowsGrows
<1>11. ASSUME k > 0, NoFresh(ss, r, 2, Len(ss)) PROVE h[Len(tt)].computed >= h[Len(tt)].prefill
  <2>1. NoFresh(tt, r, 0 + 1, Len(tt))
    <3> SUFFICES ASSUME NEW i \in (0 + 1)..Len(tt) PROVE r \notin DOMAIN tt[i].fresh
      BY DEF NoFresh
    <3>1. i + 1 \in 2..Len(ss) /\ i \in 1..Len(tt)
      BY <1>8
    <3> QED
      BY <1>7, <1>11, <3>1 DEF NoFresh
  <2>2. 0 <= Len(tt)
    BY <1>8
  <2>3. Grown(h[0], h[Len(tt)])
    BY <1>3, <1>8, <2>1, <2>2, FollowsGrows
  <2>4. h[0] = v /\ h[Len(tt)] \in RowType
    BY <1>3, <1>8 DEF Follows
  <2> QED
    BY <1>3, <1>4, <1>11, <2>3, <2>4 DEF Grown, RowType
<1> QED
  BY <1>6, <1>9, <1>10, <1>11 DEF k, g, h, ss, tt

\* Whether the oldest step of a request is of its current incarnation.
LEMMA CurrentAll ==
  ASSUME Base, steps # <<>>, NEW r \in OldestRows
  PROVE  /\ CurrentSteps(r) = StepsOf(r) =>
              NoFresh(steps, r, 2, Len(steps)) /\ FreshSteps(r) \subseteq {1}
         /\ CurrentSteps(r) # StepsOf(r) => ~NoFresh(steps, r, 2, Len(steps))
<1>1. Len(steps) \in Nat /\ DOMAIN steps = 1..Len(steps) /\ 1 \in StepsOf(r)
      /\ (1 \in CurrentSteps(r) => CurrentSteps(r) = StepsOf(r))
  BY StepsFacts, OldestInFlight
<1>2. ASSUME CurrentSteps(r) = StepsOf(r)
      PROVE  NoFresh(steps, r, 2, Len(steps)) /\ FreshSteps(r) \subseteq {1}
  <2>1. \A k \in DOMAIN steps : k > 1 => r \notin DOMAIN steps[k].fresh
    BY <1>1, <1>2 DEF CurrentSteps
  <2>2. \A k \in 2..Len(steps) : k \in DOMAIN steps /\ k > 1
    BY <1>1
  <2>3. \A k \in DOMAIN steps : k = 1 \/ k > 1
    BY <1>1
  <2> QED
    BY <2>1, <2>2, <2>3 DEF NoFresh, FreshSteps
<1>3. ASSUME CurrentSteps(r) # StepsOf(r) PROVE ~NoFresh(steps, r, 2, Len(steps))
  <2>1. 1 \notin CurrentSteps(r)
    BY <1>1, <1>3
  <2>2. PICK k \in DOMAIN steps : k > 1 /\ r \in DOMAIN steps[k].fresh
    BY <1>1, <2>1 DEF CurrentSteps
  <2>3. k \in 2..Len(steps)
    BY <1>1, <2>2
  <2> QED
    BY <2>2, <2>3 DEF NoFresh
<1> QED
  BY <1>2, <1>3

\* The steps that start a request anew when the oldest step is gone.
LEMMA TailFresh ==
  ASSUME Base, steps # <<>>, steps' = Tail(steps), NEW r
  PROVE  /\ \A j \in FreshSteps(r)' : j + 1 \in FreshSteps(r) /\ steps'[j] = steps[j + 1]
                                      /\ j + 1 # 1
         /\ ~NoFresh(steps, r, 2, Len(steps)) => FreshSteps(r)' # {}
         /\ 1 \notin FreshSteps(r) /\ FreshSteps(r)' = {} => FreshSteps(r) = {}
<1> DEFINE L == Len(steps)
<1>1. L \in Nat /\ L >= 1 /\ DOMAIN steps = 1..L /\ steps \in Seq(StepType)
  BY OldestIs DEF Base, Types
<1>2. DOMAIN steps' = 1..(L - 1) /\ \A j \in 1..(L - 1) : steps'[j] = steps[j + 1]
  BY <1>1
<1>3. \A j \in 1..(L - 1) : j + 1 \in 1..L /\ j + 1 # 1
  BY <1>1
<1>4. \A j \in FreshSteps(r)' : j + 1 \in FreshSteps(r) /\ steps'[j] = steps[j + 1] /\ j + 1 # 1
  BY <1>1, <1>2, <1>3 DEF FreshSteps
<1>5. ASSUME NEW k \in 2..L, r \in DOMAIN steps[k].fresh PROVE FreshSteps(r)' # {}
  <2>1. k - 1 \in 1..(L - 1) /\ (k - 1) + 1 = k
    BY <1>1
  <2>2. steps'[k - 1] = steps[k]
    BY <1>2, <2>1
  <2>3. k - 1 \in FreshSteps(r)'
    BY <1>2, <1>5, <2>1, <2>2 DEF FreshSteps
  <2> QED
    BY <2>3
<1>6. ASSUME 1 \notin FreshSteps(r), FreshSteps(r) # {} PROVE FreshSteps(r)' # {}
  <2>1. PICK k \in FreshSteps(r) : TRUE
    BY <1>6
  <2>2. k \in 2..L /\ r \in DOMAIN steps[k].fresh
    <3>1. k \in 1..L /\ k # 1 /\ r \in DOMAIN steps[k].fresh
      BY <1>1, <1>6, <2>1 DEF FreshSteps
    <3> QED
      BY <1>1, <3>1
  <2> QED
    BY <1>5, <2>2
<1> QED
  BY <1>4, <1>5, <1>6 DEF NoFresh

\* A row that goes on.
Goes(given, eos, r) ==
  r \in OldestRows /\ req[r].status # "finished" /\ ~EndsWith(given, eos, r)

\* A request that goes on after its output, and whether that was stale.
LEMMA GoesOn ==
  ASSUME Base, Flights, Delivereds, NEW accepted, NEW given, NEW eos,
         Outcome(accepted, given, eos), NEW r \in Reqs, Goes(given, eos, r)
  PROVE  /\ req[r].status \in {"running", "preempted"}
         /\ Len(out[r])' < MaxTokens[r] /\ Tokens(r)' < MaxModelLen
         /\ Tokens(r)' = Tokens(r) + given[r] /\ given[r] \in Nat
         /\ ~Delivers(r) => given[r] = 0
         /\ given[r] > 0 => CurrentSteps(r) = StepsOf(r)
         /\ Delivers(r) => given[r] = 1 + steps[1].d[r] - Rejects(accepted, r)
         /\ req[r].status = "running" => (req[r].stale = 0 <=> CurrentSteps(r) = StepsOf(r))
         /\ req[r].status = "preempted" => req[r].stale > 0
         /\ Trusted(r) => CurrentSteps(r) = StepsOf(r) /\ (Samples(r) => Delivers(r))
<1> DEFINE p == req[r]
           a == accepted[r]
           m == given[r]
           d == steps[1].d[r]
           k == Rejects(accepted, r)
<1>1. /\ steps # <<>> /\ r \in OldestRows /\ p.status # "finished" /\ ~EndsWith(given, eos, r)
      /\ DOMAIN loop.fresh = {}
  BY ProcessedIs DEF Goes
<1>2. Flight(r) /\ Delivered(r) /\ p \in RequestType
  BY RequestFacts DEF Flights, Delivereds
<1>3. /\ steps[1].n[r] \in Counts /\ steps[1].n[r] <= InFlight(r) /\ 1 \in StepsOf(r)
      /\ InFlight(r) \in Nat /\ StaleIn(r) \in Nat
      /\ (StaleIn(r) = 0 <=> CurrentSteps(r) = StepsOf(r))
  BY <1>1, OldestInFlight, InFlightNat
<1>4. p.status \in {"running", "preempted"}
  BY <1>1, <1>2, <1>3 DEF Flight, RequestType, Statuses
<1>5. p.status = "running" => /\ p.stale = StaleIn(r) /\ (p.stale > 0 => p.drop)
                              /\ (p.stale = 0 <=> CurrentSteps(r) = StepsOf(r))
  BY <1>1, <1>2, <1>3 DEF Flight
<1>6. p.status = "preempted" => p.stale > 0 /\ (p.drop \/ CurrentSteps(r) = StepsOf(r))
  BY <1>2, <1>3 DEF Flight, Counts
<1>7. /\ m \in 0..(1 + NumSpec) /\ a \in 0..NumSpec /\ k \in 0..d /\ Room(r) \in Int
      /\ m > 0 => Delivers(r) /\ m <= Room(r) /\ a = d - k
      /\ Delivers(r) /\ r \notin eos => m = Smaller(1 + a, Room(r))
      /\ r \in eos => Delivers(r) /\ m >= 1
  BY <1>1, GivenIs
<1>8. NumSpec \in Nat /\ m \in Nat /\ a \in Nat /\ d \in Nat
  <2>1. d \in 0..NumSpec
    BY <1>1, OldestIs
  <2> QED
    BY <1>7, <2>1, AsyncSchedulerAssumption
<1>9. ~(m > 0 /\ (r \in eos \/ m = Room(r)))
  BY <1>1 DEF EndsWith
<1>10. r \notin eos
  BY <1>7, <1>8, <1>9
<1>11. /\ Len(out[r]) \in Nat /\ Tokens(r) \in Nat /\ Len(out[r]) < MaxTokens[r]
       /\ Tokens(r) < MaxModelLen /\ MaxTokens[r] \in Nat /\ MaxModelLen \in Nat
       /\ Prompt[r] \in Nat /\ Tokens(r) = Prompt[r] + Len(out[r])
  BY <1>1, <1>2, RequestFacts, AsyncSchedulerAssumption DEF Delivered, Tokens
<1>12. Room(r) = Smaller(MaxTokens[r] - Len(out[r]), MaxModelLen - Tokens(r))
  BY DEF Room
<1>13. Len(out'[r]) = Len(out[r]) + m
  BY <1>1, OutputLength
<1>14. Tokens(r)' = Tokens(r) + m
  BY <1>8, <1>11, <1>13 DEF Tokens
<1> HIDE DEF p, a, m, d, k
<1>15. Room(r) >= 1 /\ Room(r) <= MaxTokens[r] - Len(out[r]) /\ Room(r) <= MaxModelLen - Tokens(r)
       /\ Room(r) \in Int
  BY <1>11, <1>12 DEF Smaller
<1>16. m < Room(r)
  BY <1>7, <1>8, <1>9, <1>15
<1>17. Len(out'[r]) < MaxTokens[r] /\ Tokens(r)' < MaxModelLen
  BY <1>8, <1>11, <1>13, <1>14, <1>15, <1>16
<1>18. Delivers(r) => m = 1 + d - k
  <2> SUFFICES ASSUME Delivers(r) PROVE m = 1 + d - k
    OBVIOUS
  <2>1. m = Smaller(1 + a, Room(r))
    BY <1>7, <1>10
  <2>2. m = 1 + a /\ m > 0
    BY <1>8, <1>15, <1>16, <2>1 DEF Smaller
  <2> QED
    BY <1>7, <1>8, <2>2
<1>19. m > 0 => CurrentSteps(r) = StepsOf(r)
  <2> SUFFICES ASSUME m > 0 PROVE CurrentSteps(r) = StepsOf(r)
    OBVIOUS
  <2>1. ~(p.stale > 0 /\ p.drop)
    BY <1>7 DEF Delivers, p
  <2>2. CASE p.status = "running"
    <3>1. p.stale = 0
      BY <1>3, <1>5, <2>1, <2>2
    <3> QED
      BY <1>5, <2>2, <3>1
  <2>3. CASE p.status = "preempted"
    BY <1>6, <2>1, <2>3
  <2> QED
    BY <1>4, <2>2, <2>3
<1>20. Trusted(r) => CurrentSteps(r) = StepsOf(r) /\ (Samples(r) => Delivers(r))
  <2> SUFFICES ASSUME Trusted(r)
               PROVE  CurrentSteps(r) = StepsOf(r) /\ (Samples(r) => Delivers(r))
    OBVIOUS
  <2>1. \/ p.status = "running" /\ p.stale = 0
        \/ p.status = "preempted" /\ ~p.drop
    BY DEF Trusted, p
  <2>2. CurrentSteps(r) = StepsOf(r)
    BY <1>5, <1>6, <2>1
  <2>3. ~(p.stale > 0 /\ p.drop)
    BY <2>1
  <2> QED
    BY <1>1, <2>2, <2>3 DEF Delivers, p
<1> QED
  BY <1>4, <1>5, <1>6, <1>7, <1>8, <1>14, <1>17, <1>18, <1>19, <1>20 DEF p, m, d, k

\* A row that knew all tokens but the newest still does, with those it was
\* given.
LEMMA NewestGoes ==
  ASSUME NEW v \in RowType, NEW t \in Nat, NEW n \in Counts, NEW d \in 0..NumSpec,
         Fit(v, n, d), NewestAt(v, t), NEW k \in 0..d, NEW m \in Nat,
         IF v.computed + n >= v.prefill THEN m = 1 + d - k ELSE m = 0 /\ k = 0,
         NEW u, u.computed = v.computed + n - k, u.prefill = v.prefill
  PROVE  /\ NewestAt(u, t + m)
         /\ v.computed + n >= v.prefill => v.computed + n >= t
<1>1. v.computed \in Int /\ v.prefill \in Nat /\ n \in Nat /\ n >= 1 /\ NumSpec \in Nat
      /\ d \in Nat /\ k \in Nat /\ k <= d
  BY AsyncSchedulerAssumption DEF RowType, Counts
<1>2. CASE v.computed >= v.prefill
  <2>1. v.computed = t - 1 /\ d = n - 1 /\ v.computed + n >= v.prefill
    BY <1>1, <1>2 DEF NewestAt, Fit
  <2>2. m = n - k /\ v.computed + n - k >= v.prefill
    BY <1>1, <1>2, <2>1
  <2>3. u.computed = (t + m) - 1 /\ u.computed >= u.prefill /\ v.computed + n >= t
    BY <1>1, <2>1, <2>2
  <2> QED
    BY <2>3 DEF NewestAt
<1>3. CASE v.computed < v.prefill
  <2>1. v.prefill = t
    BY <1>1, <1>3 DEF NewestAt
  <2>2. CASE v.computed + n >= v.prefill
    <3>1. m = 1 + d - k /\ v.computed + n = t + d
      BY <1>1, <1>3, <2>1, <2>2 DEF Fit
    <3>2. u.computed = (t + m) - 1 /\ u.computed >= u.prefill /\ v.computed + n >= t
      BY <1>1, <2>1, <3>1
    <3> QED
      BY <3>2 DEF NewestAt
  <2>3. CASE v.computed + n < v.prefill
    <3>1. m = 0 /\ k = 0
      BY <1>1, <2>3
    <3>2. u.computed < u.prefill /\ u.prefill = t + m
      BY <1>1, <2>1, <2>3, <3>1
    <3> QED
      BY <1>1, <2>3, <3>2 DEF NewestAt
  <2> QED
    BY <1>1, <2>2, <2>3
<1> QED
  BY <1>1, <1>2, <1>3

\* A row whose output is to be delivered starts from the newest token.
LEMMA RowNewest ==
  ASSUME Base, Delivereds, steps # <<>>, NEW r \in OldestRows, req[r].status # "finished",
         CurrentSteps(r) = StepsOf(r), Trusted(r)
  PROVE  NewestAt(RowState(r), Tokens(r))
<1>1. r \in Reqs /\ 1 \in DOMAIN steps
  BY OldestIs
<1>2. Delivered(r) /\ FreshSteps(r) \subseteq {1}
  BY <1>1, CurrentAll DEF Delivereds
<1>3. CASE r \in DOMAIN steps[1].fresh
  <2>1. RowState(r) = steps[1].fresh[r] /\ 1 \in FreshSteps(r)
    BY <1>1, <1>3 DEF RowState, FreshSteps
  <2>2. FreshRow(RowState(r), Tokens(r))
    BY <1>2, <2>1 DEF Delivered
  <2>3. RowState(r) \in RowType
    BY OldestIs, <1>1 DEF RowType
  <2> QED
    BY <2>2, <2>3 DEF FreshRow, NewestAt, RowType
<1>4. CASE r \notin DOMAIN steps[1].fresh
  <2>1. RowState(r) = worker[r] /\ FreshSteps(r) = {}
    BY <1>2, <1>4 DEF RowState, FreshSteps
  <2> QED
    BY <1>2, <2>1 DEF Delivered
<1> QED
  BY <1>3, <1>4

\* What a row that goes on leaves on the last rank.
LEMMA GoesNewest ==
  ASSUME Base, Flights, FitSteps, Delivereds, NEW accepted, NEW given, NEW eos,
         Outcome(accepted, given, eos), NEW r \in Reqs, Goes(given, eos, r), Trusted(r)
  PROVE  /\ NewestAt(worker'[r], Tokens(r)')
         /\ Samples(r) => RowState(r).computed + steps[1].n[r] >= Tokens(r)
<1> DEFINE v == RowState(r)
           n == steps[1].n[r]
           d == steps[1].d[r]
           k == Rejects(accepted, r)
           m == given[r]
           t == Tokens(r)
           u == worker'[r]
<1>1. steps # <<>> /\ r \in OldestRows /\ req[r].status # "finished"
  BY ProcessedIs DEF Goes
<1>2. /\ Tokens(r)' = t + m /\ m \in Nat /\ (~Delivers(r) => m = 0)
      /\ (Delivers(r) => m = 1 + d - k)
      /\ CurrentSteps(r) = StepsOf(r) /\ (Samples(r) => Delivers(r))
  BY GoesOn
<1>3. v \in RowType /\ n \in Counts /\ d \in 0..NumSpec /\ t \in Nat
  BY <1>1, OldestIs, RequestFacts DEF RowType
<1>4. Fit(v, n, d)
  BY <1>1, FirstForecast
<1>5. NewestAt(v, t)
  BY <1>1, <1>2, RowNewest
<1>6. k \in 0..d /\ (~Samples(r) => k = 0)
  BY <1>1, GivenIs DEF Rejects
<1>7. u.computed = v.computed + n - k /\ u.prefill = v.prefill
  BY <1>1, WorkerNext
<1>8. Samples(r) <=> v.computed + n >= v.prefill
  BY DEF Samples
<1>9. Delivers(r) => Samples(r)
  BY DEF Delivers
<1> HIDE DEF v, n, d, k, m, t, u
<1>10. IF v.computed + n >= v.prefill THEN m = 1 + d - k ELSE m = 0 /\ k = 0
  BY <1>2, <1>6, <1>8, <1>9
<1>11. NewestAt(u, t + m) /\ (v.computed + n >= v.prefill => v.computed + n >= t)
  BY <1>2, <1>3, <1>4, <1>5, <1>6, <1>7, <1>10, NewestGoes
<1> QED
  BY <1>2, <1>8, <1>11 DEF v, n, t, u

\* Processing a step leaves the worker with what the scheduler knows.
LEMMA OutputDelivered ==
  ASSUME Base, Flights, FitSteps, Delivereds, ProcessOldest
  PROVE  Delivereds'
<1> SUFFICES ASSUME NEW r \in Reqs PROVE Delivered(r)'
  BY DEF Delivereds
<1>1. PICK accepted, given, eos : Outcome(accepted, given, eos)
  BY OutcomeExists
<1>2. /\ steps # <<>> /\ steps' = Tail(steps) /\ DOMAIN loop'.fresh = {} /\ DOMAIN loop.fresh = {}
      /\ \/ r \notin OldestRows /\ UNCHANGED <<req[r], out[r], worker[r]>>
         \/ r \in OldestRows /\ req[r].status = "finished" /\ req'[r] = req[r]
         \/ r \in OldestRows /\ EndsWith(given, eos, r) /\ req'[r] = Closed
         \/ /\ r \in OldestRows /\ ~EndsWith(given, eos, r) /\ req[r].status # "finished"
            /\ req'[r] = AfterOutput(accepted, given, r)
  BY <1>1, ProcessedIs
<1>3. /\ \A j \in FreshSteps(r)' : j + 1 \in FreshSteps(r) /\ steps'[j] = steps[j + 1]
                                   /\ j + 1 # 1
      /\ ~NoFresh(steps, r, 2, Len(steps)) => FreshSteps(r)' # {}
      /\ 1 \notin FreshSteps(r) /\ FreshSteps(r)' = {} => FreshSteps(r) = {}
  BY <1>2, TailFresh
<1>4. Delivered(r)
  BY DEF Delivereds
<1>5. CASE r \notin OldestRows /\ UNCHANGED <<req[r], out[r], worker[r]>>
  <2>1. 1 \notin FreshSteps(r)
    BY <1>2, <1>5, OldestIs DEF FreshSteps, RowsFit, OldestRows
  <2>2. Tokens(r)' = Tokens(r)
    BY <1>5 DEF Tokens
  <2>3. Trusted(r)' => Trusted(r)
    BY <1>2, <1>5 DEF Trusted
  <2> QED
    BY <1>3, <1>4, <1>5, <2>1, <2>2, <2>3 DEF Delivered
<1>6. CASE req[r].status = "finished" /\ req'[r] = req[r]
  BY <1>6 DEF Delivered
<1>7. CASE req'[r] = Closed
  BY <1>7, ClosedType DEF Delivered
<1>8. CASE Goes(given, eos, r) /\ req'[r] = AfterOutput(accepted, given, r)
  <2>1. /\ req[r].status \in {"running", "preempted"}
        /\ Len(out[r])' < MaxTokens[r] /\ Tokens(r)' < MaxModelLen
        /\ Tokens(r)' = Tokens(r) + given[r] /\ given[r] \in Nat
        /\ given[r] > 0 => CurrentSteps(r) = StepsOf(r)
        /\ req[r].status = "running" => (req[r].stale = 0 <=> CurrentSteps(r) = StepsOf(r))
        /\ req[r].status = "preempted" => req[r].stale > 0
        /\ req[r].status # "finished" /\ r \in OldestRows
    BY <1>1, <1>8, GoesOn DEF Goes
  <2>2. /\ CurrentSteps(r) = StepsOf(r) => FreshSteps(r) \subseteq {1}
        /\ CurrentSteps(r) # StepsOf(r) => FreshSteps(r)' # {}
    BY <1>2, <1>3, <2>1, CurrentAll
  <2>3. \A j \in FreshSteps(r)' : FreshRow(steps'[j].fresh[r], Tokens(r)')
    <3> SUFFICES ASSUME NEW j \in FreshSteps(r)' PROVE FreshRow(steps'[j].fresh[r], Tokens(r)')
      OBVIOUS
    <3>1. j + 1 \in FreshSteps(r) /\ steps'[j] = steps[j + 1] /\ j + 1 # 1
      BY <1>3
    <3>2. given[r] = 0
      BY <2>1, <2>2, <3>1
    <3>3. Tokens(r)' = Tokens(r)
      BY <2>1, <3>2, RequestFacts
    <3> QED
      BY <1>4, <2>1, <3>1, <3>3 DEF Delivered
  <2>4. (Trusted(r)' /\ FreshSteps(r)' = {}) => NewestAt(worker'[r], Tokens(r)')
    <3> SUFFICES ASSUME Trusted(r)', FreshSteps(r)' = {}
                 PROVE  NewestAt(worker'[r], Tokens(r)')
      OBVIOUS
    <3>1. CurrentSteps(r) = StepsOf(r)
      BY <2>2
    <3>2. /\ req'[r].status = req[r].status /\ req'[r].drop = req[r].drop
      BY <1>1, <1>8, <2>1, AfterOutputType
    <3>3. Trusted(r)
      BY <1>2, <2>1, <3>1, <3>2 DEF Trusted
    <3> QED
      BY <1>1, <1>8, <3>3, GoesNewest
  <2> QED
    BY <2>1, <2>3, <2>4 DEF Delivered
<1> QED
  BY <1>2, <1>5, <1>6, <1>7, <1>8 DEF Goes

\* The rows of the other steps in flight fit.
LEMMA OutputFits ==
  ASSUME Base, Base', FitSteps, ProcessOldest
  PROVE  FitSteps'
<1>1. PICK accepted, given, eos : Outcome(accepted, given, eos)
  BY OutcomeExists
<1> QED
  BY <1>1, OutputForecast DEF FitSteps

\* The advance counts drop by what was rejected, and the placeholders by what is known.
Settles(p, q, k, m) ==
  /\ q.computed = IF p.computed > 0 THEN p.computed - k ELSE p.computed
  /\ q.holders = (IF p.holders > 0 THEN p.holders - k ELSE p.holders) - m

\* Both sides of the counters' equation.
Ahead(c, t, m, h) == c = t + m + h - 1
Less(b, a, k, m)  == b = a - k - m

\* Both counters go back by what was rejected, the placeholders also by what
\* was given.
LEMMA AheadLess ==
  ASSUME NEW c \in Int, NEW h \in Int, NEW t \in Int, NEW k \in Int, NEW m \in Int,
         NEW cc, NEW hh, Ahead(c, t, 0, h), Less(cc, c, k, 0), Less(hh, h, k, m)
  PROVE  Ahead(cc, t, m, hh)
BY DEF Ahead, Less

\* What the delivery of m tokens, k drafts rejected, does to the counters.
LEMMA CountsOutputRow ==
  ASSUME NEW p \in RequestType, NEW q \in RequestType, NEW w \in RowType, NEW u \in RowType,
         NEW t \in Nat, NEW k \in Nat, NEW m \in Nat, Counters(p, w, t),
         w.computed >= w.prefill, u.computed >= u.prefill, Lags(u, w, k),
         p.computed >= t, t >= 1, Settles(p, q, k, m)
  PROVE  Counters(q, u, t + m)
<1>1. /\ p.computed \in Int /\ p.holders \in Int /\ w.computed \in Int /\ w.prefill \in Nat
      /\ u.computed \in Int /\ u.prefill \in Nat
  BY DEF RequestType, RowType
<1>2. p.computed = w.computed /\ p.computed = t + p.holders - 1
  BY <1>1 DEF Counters
<1>3. p.computed > 0 /\ p.holders > 0
  BY <1>1, <1>2
<1>4. q.computed = p.computed - k /\ q.holders = p.holders - k - m
  BY <1>1, <1>3 DEF Settles
<1>5. u.computed = w.computed - k
  BY DEF Lags
<1>6. q.computed = u.computed /\ q.computed = t + m + q.holders - 1
  <2> DEFINE c == p.computed
             h == p.holders
             cc == q.computed
             hh == q.holders
  <2>1. c \in Int /\ h \in Int /\ Ahead(c, t, 0, h) /\ Less(cc, c, k, 0) /\ Less(hh, h, k, m)
    BY <1>1, <1>2, <1>4 DEF Ahead, Less
  <2>2. t \in Int /\ k \in Int /\ m \in Int
    OBVIOUS
  <2> HIDE DEF c, h, cc, hh
  <2>3. Ahead(cc, t, m, hh)
    BY <2>1, <2>2, AheadLess
  <2>4. q.computed = t + m + q.holders - 1
    BY <2>3 DEF Ahead, cc, hh
  <2>5. q.computed = u.computed
    BY <1>2, <1>4, <1>5
  <2> QED
    BY <2>4, <2>5
<1> QED
  BY <1>1, <1>6 DEF Counters

\* A request neither side of which moves.
LEMMA CountersSame ==
  ASSUME NEW p, NEW q, NEW w, NEW u, NEW t, Counters(p, w, t),
         q.computed = p.computed, q.holders = p.holders, q.spec = p.spec,
         u.computed = w.computed, u.prefill = w.prefill
  PROVE  Counters(q, u, t) /\ (u.computed < u.prefill <=> w.computed < w.prefill)
BY DEF Counters

\* The state a row will start its next step from, when the oldest step has been
\* processed.
LEMMA OutputEnds ==
  ASSUME Base, Base', FitSteps, NEW accepted, NEW given, NEW eos,
         Outcome(accepted, given, eos), NEW r \in Reqs
  PROVE  /\ NextRow(r) = Forecast(r)[Len(steps)] /\ NextRow(r)' = Forecast(r)'[Len(steps')]
         /\ NextRow(r) \in RowType /\ NextRow(r)' \in RowType
         /\ TakenBack(accepted, r) = 0 \/ ~NoFresh(steps, r, 2, Len(steps)) =>
              /\ NextRow(r)'.computed = NextRow(r).computed
              /\ NextRow(r)'.prefill = NextRow(r).prefill
         /\ NoFresh(steps, r, 2, Len(steps)) =>
              /\ Lags(NextRow(r)', NextRow(r), TakenBack(accepted, r))
              /\ Grown(Forecast(r)[1], NextRow(r))
              /\ TakenBack(accepted, r) > 0 => NextRow(r)'.computed >= NextRow(r)'.prefill
<1> DEFINE k == TakenBack(accepted, r)
           w == NextRow(r)
           u == NextRow(r)'
<1>1. DOMAIN loop.fresh = {} /\ DOMAIN loop'.fresh = {}
  BY ProcessedIs
<1>2. NextRow(r) = Forecast(r)[Len(steps)] /\ NextRow(r)' = Forecast(r)'[Len(steps')]
  BY <1>1 DEF NextRow
<1>3. w \in RowType
  BY ForecastIs
<1>4. u \in RowType
  <2>1. StepsTyped(steps') /\ Follows(Forecast(r)', worker'[r], steps', r)
    BY ForecastNext
  <2>2. Len(steps') \in 0..Len(steps')
    BY <2>1 DEF StepsTyped
  <2>3. Forecast(r)'[Len(steps')] \in RowType
    BY <2>1, <2>2 DEF Follows
  <2> QED
    BY <1>2, <2>3
<1>5. /\ LagsOrSame(steps, r, Len(steps), u, w, k)
      /\ k > 0 /\ NoFresh(steps, r, 2, Len(steps)) => u.computed >= u.prefill
      /\ NoFresh(steps, r, 2, Len(steps)) => Grown(Forecast(r)[1], w)
  BY <1>2, OutputForecast
<1>6. k \in Nat
  BY OutputLags
<1> HIDE DEF k, w, u
<1>7. /\ NoFresh(steps, r, 2, Len(steps)) => Lags(u, w, k)
      /\ ~NoFresh(steps, r, 2, Len(steps)) => u = w
  BY <1>5 DEF LagsOrSame
<1>8. k = 0 \/ ~NoFresh(steps, r, 2, Len(steps)) =>
           u.computed = w.computed /\ u.prefill = w.prefill
  BY <1>3, <1>7 DEF Lags, RowType
<1> QED
  BY <1>2, <1>3, <1>4, <1>5, <1>7, <1>8 DEF k, w, u

\* Taking back what was rejected keeps the counters exact.
LEMMA OutputCounted ==
  ASSUME Base, Base', Flights, FitSteps, Counteds, Delivereds, ProcessOldest
  PROVE  Counteds'
<1> SUFFICES ASSUME NEW r \in Reqs PROVE Counted(r)'
  BY DEF Counteds
<1>1. PICK accepted, given, eos : Outcome(accepted, given, eos)
  BY OutcomeExists
<1>2. /\ steps # <<>> /\ DOMAIN loop.n = {} /\ DOMAIN loop.fresh = {} /\ loop' = loop
      /\ \/ r \notin OldestRows /\ UNCHANGED <<req[r], out[r], worker[r]>>
         \/ r \in OldestRows /\ req[r].status = "finished" /\ req'[r] = req[r]
         \/ r \in OldestRows /\ EndsWith(given, eos, r) /\ req'[r] = Closed
         \/ /\ r \in OldestRows /\ ~EndsWith(given, eos, r) /\ req[r].status # "finished"
            /\ req'[r] = AfterOutput(accepted, given, r)
  BY <1>1, ProcessedIs
<1>3. r \notin DOMAIN loop'.n /\ r \notin DOMAIN loop'.fresh /\ r \notin DOMAIN loop.fresh
  BY <1>2
<1>4. Counted(r)
  BY DEF Counteds
<1> DEFINE p == req[r]
           q == req'[r]
           w == NextRow(r)
           u == NextRow(r)'
           k == TakenBack(accepted, r)
           t == Tokens(r)
<1>5. /\ w \in RowType /\ u \in RowType
      /\ k = 0 \/ ~NoFresh(steps, r, 2, Len(steps)) =>
           u.computed = w.computed /\ u.prefill = w.prefill
      /\ NoFresh(steps, r, 2, Len(steps)) =>
           /\ Lags(u, w, k) /\ Grown(Forecast(r)[1], w)
           /\ k > 0 => u.computed >= u.prefill
  BY <1>1, OutputEnds
<1>6. p.status = "running" => Counters(p, w, t) /\ (p.chunk <=> w.computed < w.prefill)
  BY <1>3, <1>4 DEF Counted
<1>7. p.status # "running" => p.computed = 0 /\ p.holders = 0 /\ p.spec = 0
  BY <1>4 DEF Counted
<1>8. /\ q.status # "running" => q.computed = 0 /\ q.holders = 0 /\ q.spec = 0
      /\ q.status = "running" =>
           Counters(q, u, Tokens(r)') /\ (q.chunk <=> u.computed < u.prefill)
  <2>1. CASE r \notin OldestRows /\ UNCHANGED <<req[r], out[r], worker[r]>>
    <3>1. k = 0 /\ Tokens(r)' = t /\ q = p
      BY <2>1 DEF TakenBack, Tokens
    <3>2. u.computed = w.computed /\ u.prefill = w.prefill
      BY <1>5, <3>1
    <3> HIDE DEF p, q, w, u, k, t
    <3>3. p.status = "running" => Counters(q, u, t) /\ (q.chunk <=> u.computed < u.prefill)
      BY <1>6, <3>1, <3>2, CountersSame
    <3> QED
      BY <1>7, <3>1, <3>3
  <2>2. CASE req[r].status = "finished" /\ req'[r] = req[r]
    BY <1>7, <2>2
  <2>3. CASE req'[r] = Closed
    BY <2>3 DEF Closed, NewRequest
  <2>4. CASE Goes(given, eos, r) /\ req'[r] = AfterOutput(accepted, given, r)
    <3> DEFINE m == given[r]
               d == steps[1].d[r]
               rej  == IF CountsOutput(r) THEN k ELSE 0
               kept == IF CountsOutput(r) THEN m ELSE 0
    <3>1. r \in OldestRows /\ p.status # "finished" /\ k = Rejects(accepted, r)
      BY <2>4 DEF Goes, TakenBack
    <3>2. /\ q \in RequestType /\ q.status = p.status /\ q.spec = p.spec /\ q.chunk = p.chunk
          /\ q.computed = IF p.computed > 0 THEN p.computed - rej ELSE p.computed
          /\ q.holders = (IF p.holders > 0 THEN p.holders - rej ELSE p.holders) - kept
      BY <1>1, <2>4, <3>1, AfterOutputType
    <3>3. /\ p.status \in {"running", "preempted"}
          /\ Tokens(r)' = t + m /\ m \in Nat
          /\ ~Delivers(r) => m = 0
          /\ m > 0 => CurrentSteps(r) = StepsOf(r)
          /\ p.status = "running" => (p.stale = 0 <=> CurrentSteps(r) = StepsOf(r))
          /\ p.status = "preempted" => p.stale > 0
      BY <1>1, <2>4, GoesOn
    <3>4. CountsOutput(r) <=> Delivers(r) /\ p.stale = 0
      BY DEF CountsOutput
    <3>5. p \in RequestType /\ t \in Nat /\ t >= 1 /\ k \in Nat
      BY <1>1, RequestFacts, OutputLags
    <3>6. /\ CurrentSteps(r) = StepsOf(r) => NoFresh(steps, r, 2, Len(steps))
          /\ CurrentSteps(r) # StepsOf(r) => ~NoFresh(steps, r, 2, Len(steps))
      BY <1>2, <3>1, CurrentAll
    <3>7. p.status = "running" /\ p.stale = 0 => Trusted(r)
      BY <1>3 DEF Trusted
    <3>8. Trusted(r) => /\ Samples(r) <=> Delivers(r)
                        /\ Samples(r) => RowState(r).computed + steps[1].n[r] >= t
      BY <1>1, <2>4, GoesOn, GoesNewest DEF Delivers
    <3>9. /\ Samples(r) <=> RowState(r).computed + steps[1].n[r] >= RowState(r).prefill
          /\ ~Samples(r) => k = 0
      BY <3>1 DEF Samples, Rejects
    <3>10. /\ Forecast(r)[1].computed = RowState(r).computed + steps[1].n[r]
           /\ Forecast(r)[1].prefill = RowState(r).prefill /\ Forecast(r)[1] \in RowType
      BY <1>2, <3>1, FirstForecast
    <3> HIDE DEF p, q, w, u, k, t, m, d
    <3>11. CASE p.status = "preempted"
      <4>1. ~CountsOutput(r) /\ p.computed = 0 /\ p.holders = 0 /\ p.spec = 0
        BY <1>7, <3>3, <3>4, <3>5, <3>11 DEF RequestType
      <4> QED
        BY <3>2, <3>11, <4>1
    <3>12. CASE p.status = "running" /\ ~CountsOutput(r)
      <4>1. q.computed = p.computed /\ q.holders = p.holders
        <5>1. p.computed \in Int /\ p.holders \in Int
          BY <3>5 DEF RequestType
        <5> QED
          BY <3>2, <3>12, <5>1
      <4>2. m = 0
        <5>1. CASE p.stale = 0
          BY <3>3, <3>4, <3>12, <5>1
        <5>2. CASE p.stale # 0
          <6>1. ~(m > 0)
            BY <3>3, <3>12, <5>2
          <6> QED
            BY <3>3, <6>1
        <5> QED
          BY <5>1, <5>2
      <4>3. k = 0 \/ ~NoFresh(steps, r, 2, Len(steps))
        <5>1. CASE p.stale = 0
          BY <3>4, <3>7, <3>8, <3>9, <3>12, <5>1
        <5>2. CASE p.stale # 0
          BY <3>3, <3>6, <3>12, <5>2
        <5> QED
          BY <5>1, <5>2
      <4>4. u.computed = w.computed /\ u.prefill = w.prefill
        BY <1>5, <4>3
      <4>5. Counters(p, w, t) /\ (p.chunk <=> w.computed < w.prefill)
        BY <1>6, <3>12
      <4>6. Counters(q, u, t) /\ (u.computed < u.prefill <=> w.computed < w.prefill)
        BY <3>2, <4>1, <4>4, <4>5, CountersSame
      <4>7. Tokens(r)' = t
        BY <3>3, <3>5, <4>2
      <4> QED
        BY <3>2, <3>12, <4>5, <4>6, <4>7
    <3>13. CASE p.status = "running" /\ CountsOutput(r)
      <4>1. p.stale = 0 /\ Delivers(r) /\ Trusted(r) /\ Samples(r)
        BY <3>4, <3>7, <3>8, <3>13
      <4>2. NoFresh(steps, r, 2, Len(steps))
        BY <3>3, <3>6, <3>13, <4>1
      <4> DEFINE f == Forecast(r)[1]
      <4>3. f.computed >= t /\ f.computed >= f.prefill /\ f \in RowType
        BY <3>8, <3>9, <3>10, <4>1
      <4> HIDE DEF f
      <4>4. Lags(u, w, k) /\ Grown(f, w) /\ (k > 0 => u.computed >= u.prefill)
        BY <1>5, <4>2 DEF f
      <4>5. w.computed >= w.prefill /\ w.computed >= t
        BY <1>5, <3>5, <4>3, <4>4 DEF Grown, RowType
      <4>6. u.computed >= u.prefill
        BY <1>5, <3>5, <4>4, <4>5 DEF Lags, RowType
      <4>7. Counters(p, w, t) /\ (p.chunk <=> w.computed < w.prefill)
        BY <1>6, <3>13
      <4>8. p.computed >= t
        BY <4>5, <4>7 DEF Counters
      <4>9. Settles(p, q, k, m)
        BY <3>2, <3>13 DEF Settles
      <4>10. Counters(q, u, t + m)
        BY <1>5, <3>2, <3>3, <3>5, <4>4, <4>5, <4>6, <4>7, <4>8, <4>9, CountsOutputRow
      <4>11. ~p.chunk /\ ~(u.computed < u.prefill)
        BY <1>5, <4>5, <4>6, <4>7 DEF RowType
      <4> QED
        BY <3>2, <3>3, <3>13, <4>10, <4>11
    <3> QED
      BY <3>3, <3>11, <3>12, <3>13
  <2> QED
    BY <1>2, <2>1, <2>2, <2>3, <2>4 DEF Goes
<1> HIDE DEF Counters
<1> QED
  BY <1>3, <1>8 DEF Counted

-----------------------------------------------------------------------------
(* Natural numbers, and the room in the batch queue.                       *)

\* Positions and counts are naturals, and nothing is kept of a closed request.
Natural(r) ==
  /\ worker[r].computed >= 0 /\ out[r] \in Seq(Nat)
  /\ req[r].status = "finished" => req[r].flight = 0 /\ req[r].stale = 0
NaturalRows == \A r \in Reqs : Natural(r)

\* Initially all counts are 0.
LEMMA NaturalInit == Init => NaturalRows
<1> SUFFICES ASSUME Init, NEW r \in Reqs PROVE Natural(r)
  BY DEF NaturalRows
<1> QED
  BY DEF Init, Natural, NewRequest

\* What sends and processes no step keeps them naturals.
LEMMA QuietNatural ==
  ASSUME NaturalRows, Quiet
  PROVE  NaturalRows'
<1> SUFFICES ASSUME NEW r \in Reqs PROVE Natural(r)'
  BY DEF NaturalRows
<1>1. UNCHANGED <<out, worker>> /\ Natural(r) /\ Moves(r)
  BY DEF NaturalRows, Quiet
<1>2. CASE Stays(r)
  BY <1>1, <1>2 DEF Stays, SameCounters, Natural
<1>3. CASE Closes(r)
  BY <1>1, <1>3 DEF Closes, Closed, NewRequest, Natural
<1>4. CASE Schedules(r) \/ Evicts(r) \/ Admits(r)
  BY <1>1, <1>4 DEF Schedules, Evicts, Admits, Natural
<1> QED
  BY <1>1, <1>2, <1>3, <1>4 DEF Moves

\* Sending a step keeps them naturals.
LEMMA UpdateNatural ==
  ASSUME Base, NaturalRows, UpdateAfterSchedule
  PROVE  NaturalRows'
<1> SUFFICES ASSUME NEW r \in Reqs PROVE Natural(r)'
  BY DEF NaturalRows
<1>1. UNCHANGED <<out, worker>> /\ Natural(r) /\ (r \notin DOMAIN loop.n => req'[r] = req[r])
  BY SentIs DEF NaturalRows
<1>2. r \in DOMAIN loop.n => req'[r].status = "running"
  BY SentIs DEF ScheduledIs
<1> QED
  BY <1>1, <1>2 DEF Natural

\* A step's first row has no draft.
LEMMA FitFirst ==
  ASSUME NEW v \in RowType, NEW n \in Counts, NEW d \in 0..NumSpec, Fit(v, n, d)
  PROVE  n - d >= 1
<1>1. v.computed \in Int /\ v.prefill \in Nat /\ n \in Nat /\ n >= 1 /\ NumSpec \in Nat
      /\ d \in Nat
  BY AsyncSchedulerAssumption DEF RowType, Counts
<1> QED
  BY <1>1 DEF Fit

\* Processing a step keeps them naturals: no more is rejected than was
\* computed.
LEMMA OutputNatural ==
  ASSUME Base, FitSteps, NaturalRows, ProcessOldest
  PROVE  NaturalRows'
<1> SUFFICES ASSUME NEW r \in Reqs PROVE Natural(r)'
  BY DEF NaturalRows
<1>1. PICK accepted, given, eos : Outcome(accepted, given, eos)
  BY OutcomeExists
<1>2. /\ steps # <<>>
      /\ \/ r \notin OldestRows /\ UNCHANGED <<req[r], out[r], worker[r]>>
         \/ r \in OldestRows /\ req[r].status = "finished" /\ req'[r] = req[r]
         \/ r \in OldestRows /\ EndsWith(given, eos, r) /\ req'[r] = Closed
         \/ /\ r \in OldestRows /\ ~EndsWith(given, eos, r) /\ req[r].status # "finished"
            /\ req'[r] = AfterOutput(accepted, given, r)
      /\ r \in OldestRows => out'[r] = out[r] \o Given(given, r)
  BY <1>1, ProcessedIs
<1>3. Natural(r)
  BY DEF NaturalRows
<1>4. CASE r \notin OldestRows
  BY <1>2, <1>3, <1>4 DEF Natural
<1>5. CASE r \in OldestRows
  <2> DEFINE v == RowState(r)
             n == steps[1].n[r]
             d == steps[1].d[r]
             k == Rejects(accepted, r)
             m == given[r]
  <2>1. v \in RowType /\ n \in Counts /\ d \in 0..NumSpec
    BY <1>2, <1>5, OldestIs DEF RowType
  <2>2. v.computed >= 0
    <3>1. steps[1] \in StepType
      BY <1>2, OldestIs
    <3>2. r \in DOMAIN steps[1].fresh => steps[1].fresh[r].computed \in Nat
      BY <3>1, TypedStep
    <3> QED
      BY <1>3, <3>2 DEF RowState, Natural
  <2>3. Fit(v, n, d)
    BY <1>2, <1>5, FirstForecast
  <2>4. k \in 0..d /\ m \in 0..(1 + NumSpec)
    BY <1>1, <1>5, GivenIs
  <2>5. worker'[r].computed = v.computed + n - k
    BY <1>1, <1>5, WorkerNext
  <2>6. FirstGiven(r) = v.computed + n - d
    BY DEF FirstGiven
  <2> HIDE DEF v, n, d, k, m
  <2>7. n - d >= 1 /\ n \in Int /\ d \in Int /\ k \in Int /\ k <= d /\ v.computed \in Int
        /\ NumSpec \in Nat
    BY <2>1, <2>3, <2>4, FitFirst, AsyncSchedulerAssumption DEF RowType, Counts
  <2>8. worker'[r].computed >= 0 /\ FirstGiven(r) \in Nat
    BY <2>2, <2>5, <2>6, <2>7
  <2>9. Given(given, r) \in Seq(Nat)
    <3>1. m \in Nat
      BY <2>4, <2>7
    <3>2. Given(given, r) = [i \in 1..m |-> FirstGiven(r) + i - 1]
      BY DEF Given, m
    <3>3. \A i \in 1..m : FirstGiven(r) + i - 1 \in Nat
      BY <2>8, <3>1
    <3> DEFINE e(i) == FirstGiven(r) + i - 1
    <3>4. \A i \in 1..m : e(i) \in Nat
      BY <3>3
    <3> HIDE DEF e
    <3>5. [i \in 1..m |-> e(i)] \in Seq(Nat)
      BY <3>1, <3>4
    <3> QED
      BY <3>2, <3>5 DEF e
  <2>10. out'[r] \in Seq(Nat)
    <3>1. out[r] \in Seq(Nat)
      BY <1>3 DEF Natural
    <3>2. out'[r] = out[r] \o Given(given, r)
      BY <1>2, <1>5
    <3> QED
      BY <2>9, <3>1, <3>2
  <2>11. req'[r].status = "finished" => req'[r].flight = 0 /\ req'[r].stale = 0
    <3>1. CASE req[r].status = "finished" /\ req'[r] = req[r]
      BY <1>3, <3>1 DEF Natural
    <3>2. CASE req'[r] = Closed
      BY <3>2 DEF Closed, NewRequest
    <3>3. CASE req[r].status # "finished" /\ req'[r] = AfterOutput(accepted, given, r)
      BY <1>1, <1>5, <3>3, AfterOutputType
    <3> QED
      BY <1>2, <1>5, <3>1, <3>2, <3>3
  <2> QED
    BY <2>8, <2>10, <2>11 DEF Natural
<1> QED
  BY <1>4, <1>5

\* The engine's batch queue.
Queue == Len(steps) <= MaxBatches /\ (pc # "process" => Len(steps) < MaxBatches)

\* Initially the batch queue is empty.
LEMMA QueueInit == Init => Queue
BY AsyncSchedulerAssumption DEF Init, Queue

\* Its bound where neither the queue nor the turn changes.
LEMMA QueueSame ==
  ASSUME Queue, steps' = steps, pc' = pc \/ (pc # "process" /\ pc' # "process")
  PROVE  Queue'
BY DEF Queue

\* The engine only schedules while the batch queue has room.
LEMMA QueueStep == Base /\ Queue /\ [Next]_vars => Queue'
<1> SUFFICES ASSUME Base, Queue, [Next]_vars PROVE Queue'
  OBVIOUS
<1>1. steps \in Seq(StepType) /\ Len(steps) \in Nat /\ MaxBatches \in Nat
  BY AsyncSchedulerAssumption DEF Base, Types
<1>3. CASE UpdateAfterSchedule
  <2>1. steps' = Append(steps, Sent) /\ pc = "update" /\ pc' = "process"
    BY <1>3, SentIs, UpdateIs
  <2>2. Len(steps') = Len(steps) + 1
    BY <1>1, <2>1
  <2> QED
    BY <1>1, <2>1, <2>2 DEF Queue
<1>4. CASE ScheduleAhead
  BY <1>4 DEF ScheduleAhead, Queue
<1>5. CASE ProcessOldest
  <2>1. PICK accepted, given, eos : Outcome(accepted, given, eos)
    BY <1>5, OutcomeExists
  <2>2. steps # <<>> /\ steps' = Tail(steps)
    BY <2>1, ProcessedIs
  <2>3. Len(steps') = Len(steps) - 1
    BY <1>1, <2>2
  <2> QED
    BY <1>1, <2>3 DEF Queue
<1>6. CASE UNCHANGED vars
  <2>1. steps' = steps /\ pc' = pc
    BY <1>6 DEF vars
  <2> QED
    BY <2>1, QueueSame
<1>7. CASE \E r \in Reqs : AddRequest(r) \/ AbortRequest(r)
  <2>1. steps' = steps /\ pc' = pc
    BY <1>7 DEF AddRequest, AbortRequest
  <2> QED
    BY <2>1, QueueSame
<1>8. CASE ResetPrefixCache \/ \E p \in {"unpaused", "new", "all"} : SetPauseState(p)
  <2>1. steps' = steps /\ pc' = pc
    BY <1>8 DEF ResetPrefixCache, SetPauseState
  <2> QED
    BY <2>1, QueueSame
<1>9. CASE BeginSchedule \/ EndRunning \/ EndWaiting
  <2>1. steps' = steps /\ pc # "process" /\ pc' # "process"
    BY <1>9 DEF BeginSchedule, EndRunning, EndWaiting
  <2> QED
    BY <2>1, QueueSame
<1>10. CASE SkipRunning \/ SkipWaiting
  <2>1. steps' = steps /\ pc' = pc
    BY <1>10 DEF SkipRunning, SkipWaiting
  <2> QED
    BY <2>1, QueueSame
<1>11. CASE ScheduleRunning
  <2>1. steps' = steps /\ pc' = pc
    BY <1>11 DEF ScheduleRunning
  <2> QED
    BY <2>1, QueueSame
<1>12. CASE PreemptForRoom
  <2>1. PICK v, s, c : PreemptEffect(v, s, c)
    BY <1>12, PreemptEffectIs
  <2>2. steps' = steps /\ pc = "running" /\ pc' \in {"update", "running"}
    BY <2>1 DEF PreemptEffect
  <2> QED
    BY <2>2, QueueSame
<1>13. CASE \E hit \in Hits : AtWaiting /\ hit \in HitsOf(Candidate) /\ Admit(hit)
  <2>1. steps' = steps /\ pc' = pc
    BY <1>13 DEF Admit
  <2> QED
    BY <2>1, QueueSame
<1> QED
  BY <1>3, <1>4, <1>5, <1>6, <1>7, <1>8, <1>9, <1>10, <1>11, <1>12, <1>13 DEF Next, Turn

\* If every step that sends the request anew knows t tokens, its row knows t
\* tokens from the first such step on.
LEMMA FollowsKnown ==
  ASSUME NEW ss, StepsTyped(ss), NEW w, NEW r, NEW g, Follows(g, w, ss, r), NEW t,
         \A j \in 1..Len(ss) : r \in DOMAIN ss[j].fresh => ss[j].fresh[r].prefill = t
  PROVE  \A j \in 0..Len(ss) : NoFresh(ss, r, 1, j) \/ g[j].prefill = t
<1> DEFINE T == {j \in 0..Len(ss) : NoFresh(ss, r, 1, j) \/ g[j].prefill = t}
<1>1. Len(ss) \in Nat
  BY DEF StepsTyped
<1>2. 0 \in T
  <2>1. 1..0 = {} /\ 0 \in 0..Len(ss)
    BY <1>1
  <2> QED
    BY <2>1 DEF NoFresh
<1>3. ASSUME NEW i \in 0..Len(ss), i < Len(ss), i \in T PROVE i + 1 \in T
  <2>1. /\ i + 1 \in 1..Len(ss) /\ (i + 1) - 1 = i /\ i + 1 \in 0..Len(ss)
        /\ 1..(i + 1) = (1..i) \cup {i + 1}
    BY <1>1, <1>3
  <2>2. /\ ss[i + 1] \in StepType /\ RowsFit(ss[i + 1])
        /\ g[i] \in RowType /\ g[i + 1] = Advanced(g[i], ss[i + 1], r)
    BY <2>1, FollowsStep
  <2>3. CASE r \in DOMAIN ss[i + 1].fresh
    <3>1. r \in DOMAIN ss[i + 1].n /\ Starts(g[i], ss[i + 1], r) = ss[i + 1].fresh[r]
      BY <2>2, <2>3, StartsIs DEF RowsFit
    <3>2. g[i + 1].prefill = ss[i + 1].fresh[r].prefill
      BY <2>2, <3>1, AdvancedIs
    <3> QED
      BY <2>1, <2>3, <3>2
  <2>4. CASE r \notin DOMAIN ss[i + 1].fresh
    <3>1. g[i + 1].prefill = g[i].prefill
      BY <2>2, <2>4, AdvanceGrows DEF Grown
    <3>2. NoFresh(ss, r, 1, i) => NoFresh(ss, r, 1, i + 1)
      BY <2>1, <2>4 DEF NoFresh
    <3> QED
      BY <1>3, <2>1, <3>1, <3>2
  <2> QED
    BY <2>3, <2>4
<1> HIDE DEF T
<1>4. \A j \in 0..Len(ss) : j \in T
  BY <1>1, <1>2, <1>3, UpTo
<1> QED
  BY <1>4 DEF T

-----------------------------------------------------------------------------
(* All of it together is inductive.                                        *)

\* All that the counters of a running request rest on.
Counting ==
  /\ Base /\ Slots /\ Flights /\ FitSteps /\ Counteds /\ Delivereds /\ NaturalRows /\ Queue

\* Initially all of it holds.
LEMMA CountingInit == Init => Counting
BY BaseInit, SlotsInit, FlightInit, CountersInit, NaturalInit, QueueInit DEF Counting

\* Every step keeps all of it.
LEMMA CountingStep ==
  ASSUME PaddedRowsFit, Counting, [Next]_vars
  PROVE  Counting'
<1>1. Base /\ Slots /\ Flights /\ FitSteps /\ Counteds /\ Delivereds /\ NaturalRows /\ Queue
  BY DEF Counting
<1>2. Base' /\ Slots' /\ Flights' /\ Queue'
  BY <1>1, BaseStep, SlotsStep, FlightStep, QueueStep
<1>3. CASE Quiet
  BY <1>1, <1>2, <1>3, QuietFits, QuietCounted, QuietDelivered, QuietNatural DEF Counting
<1>4. CASE UpdateAfterSchedule
  BY <1>1, <1>2, <1>4, UpdateFits, UpdateCounted, UpdateDelivered, UpdateNatural DEF Counting
<1>5. CASE ProcessOldest
  BY <1>1, <1>2, <1>5, OutputFits, OutputCounted, OutputDelivered, OutputNatural DEF Counting
<1> QED
  BY <1>1, <1>3, <1>4, <1>5, QuietSteps

\* CountersExact follows.
LEMMA CountersFromCounting == Counting => CountersExact
<1> SUFFICES ASSUME Counting, Settled, NEW r \in Elements(running)
             PROVE  /\ req[r].computed = Forecast(r)[Len(steps)].computed
                    /\ IF req[r].chunk
                       THEN req[r].holders = 0 /\ req[r].computed < Tokens(r)
                       ELSE req[r].computed = Tokens(r) + req[r].holders - 1
  BY DEF CountersExact
<1>1. Base /\ Counteds
  BY DEF Counting
<1>2. r \in Reqs
  BY <1>1, RunningSet
<1>3. req[r].status = "running"
  BY <1>1, <1>2 DEF Base, Queues
<1>4. r \notin DOMAIN loop.fresh
  BY <1>1, NoLoopType DEF Base, Places, Settled
<1>5. NextRow(r) = Forecast(r)[Len(steps)]
  BY <1>4 DEF NextRow
<1>6. /\ Counters(req[r], NextRow(r), Tokens(r))
      /\ req[r].chunk <=> NextRow(r).computed < NextRow(r).prefill
  BY <1>1, <1>2, <1>3, <1>4 DEF Counteds, Counted
<1> QED
  BY <1>5, <1>6 DEF Counters

\* The tokens counted in advance are those the ranks will have computed.
THEOREM CountersHold == ASSUME PaddedRowsFit PROVE Spec => []CountersExact
<1>1. Init => Counting
  BY CountingInit
<1>2. Counting /\ [Next]_vars => Counting'
  BY CountingStep
<1> QED
  BY <1>1, <1>2, CountersFromCounting, PTL DEF Spec

\* StepsFitRanks follows.
LEMMA StepsFitFromCounting == Counting => StepsFitRanks
<1> SUFFICES ASSUME Counting, steps # <<>>, NEW r \in OldestRows
             PROVE  Fit(RowState(r), steps[1].n[r], steps[1].d[r])
  BY DEF StepsFitRanks, OldestRows, Fit
<1>1. Base /\ FitSteps
  BY DEF Counting
<1>2. r \in Reqs
  BY <1>1, OldestIs
<1> QED
  BY <1>1, <1>2, FirstForecast

\* Every batch a rank gets is one PPRanks takes for granted: a decode verifies
\* one draft per row but the first, a prefill stops at the end of the known
\* tokens, and only a padded one-token prefill has drafts.
THEOREM StepsFitHold == ASSUME PaddedRowsFit PROVE Spec => []StepsFitRanks
<1>1. Init => Counting
  BY CountingInit
<1>2. Counting /\ [Next]_vars => Counting'
  BY CountingStep
<1> QED
  BY <1>1, <1>2, StepsFitFromCounting, PTL DEF Spec

\* Flight and stale shares are sums of rows in flight.
LEMMA FlightNat ==
  ASSUME Counting, NEW r \in Reqs
  PROVE  req[r].flight \in Nat /\ req[r].stale \in Nat
<1>1. Base /\ Flight(r) /\ Natural(r) /\ req[r].status \in Statuses
  <2>1. Base
    BY DEF Counting
  <2>2. req[r].status \in Statuses
    BY <2>1, RequestFacts DEF RequestType
  <2> QED
    BY <2>1, <2>2 DEF Counting, Flights, NaturalRows
<1>2. InFlight(r) \in Nat /\ StaleIn(r) \in Nat
  BY <1>1, InFlightNat
<1> QED
  BY <1>1, <1>2 DEF Flight, Natural, Statuses

\* The row the ranks will have next is never behind the newest token once its
\* prefill is over.
LEMMA NextRowNat ==
  ASSUME Counting, NEW r \in Reqs, req[r].status = "running"
  PROVE  /\ NextRow(r) \in RowType /\ NextRow(r).computed >= 0
         /\ NextRow(r).computed >= NextRow(r).prefill => NextRow(r).computed >= Tokens(r) - 1
<1>1. Base /\ Flight(r) /\ Counted(r) /\ Delivered(r) /\ Natural(r)
  BY DEF Counting, Flights, Counteds, Delivereds, NaturalRows
<1>2. /\ StepsTyped(steps) /\ worker[r] \in RowType
      /\ Follows(Forecast(r), worker[r], steps, r) /\ NextRow(r) \in RowType
  BY <1>1, ForecastIs
<1>3. Tokens(r) \in Nat /\ Len(steps) \in Nat
  BY <1>1, <1>2, RequestFacts DEF StepsTyped
<1>4. CASE r \in DOMAIN loop.fresh
  <2>1. NextRow(r) = loop.fresh[r] /\ NextRow(r).computed < NextRow(r).prefill
    BY <1>1, <1>4 DEF NextRow, Counted
  <2>2. loop.fresh[r].computed \in Nat
    <3>1. loop.fresh \in Maps([computed : Nat, prefill : Nat])
      BY <1>1, LoopFacts DEF RowStates
    <3>2. loop.fresh[r] \in [computed : Nat, prefill : Nat]
      BY <1>4, <3>1, MapIs
    <3> QED
      BY <3>2
  <2> QED
    BY <1>2, <2>1, <2>2 DEF RowType
<1>5. CASE r \notin DOMAIN loop.fresh
  <2> DEFINE g == Forecast(r)
  <2>1. NextRow(r) = g[Len(steps)]
    BY <1>5 DEF NextRow
  <2>2. NextRow(r).computed >= 0
    BY <1>1, <1>2, <1>3, <2>1, FollowsNat DEF Natural
  <2>3. CASE FreshSteps(r) = {}
    <3>1. NoFresh(steps, r, 1, Len(steps))
      BY <1>2, <2>3 DEF FreshSteps, NoFresh, StepsTyped
    <3>2. StaleIn(r) = 0
      <4>1. CurrentSteps(r) = StepsOf(r)
        BY <2>3 DEF FreshSteps, CurrentSteps
      <4> QED
        BY <1>1, <4>1, InFlightNat
    <3>3. Trusted(r)
      BY <1>1, <1>5, <3>2 DEF Trusted, Flight
    <3>4. NewestAt(worker[r], Tokens(r))
      BY <1>1, <2>3, <3>3 DEF Delivered
    <3>5. Grown(worker[r], NextRow(r))
      <4>1. 0 \in 0..Len(steps) /\ Len(steps) \in 0..Len(steps) /\ 0 <= Len(steps)
            /\ 0 + 1 = 1
        BY <1>3
      <4>2. NoFresh(steps, r, 0 + 1, Len(steps))
        BY <3>1, <4>1
      <4>3. Grown(g[0], g[Len(steps)])
        BY <1>2, <4>1, <4>2, FollowsGrows
      <4> QED
        BY <1>2, <2>1, <4>3 DEF Follows
    <3> QED
      BY <1>2, <1>3, <2>2, <3>4, <3>5 DEF NewestAt, Grown, RowType
  <2>4. CASE FreshSteps(r) # {}
    <3> DEFINE t == Tokens(r)
    <3>1. \A j \in 1..Len(steps) :
             r \in DOMAIN steps[j].fresh => steps[j].fresh[r].prefill = t
      BY <1>1, <1>2 DEF Delivered, FreshSteps, FreshRow, StepsTyped
    <3>2. ~NoFresh(steps, r, 1, Len(steps))
      BY <1>2, <2>4 DEF FreshSteps, NoFresh, StepsTyped
    <3> HIDE DEF t
    <3>3. NoFresh(steps, r, 1, Len(steps)) \/ g[Len(steps)].prefill = t
      <4>1. Len(steps) \in 0..Len(steps)
        BY <1>3
      <4> QED
        BY <1>2, <3>1, <4>1, FollowsKnown
    <3>4. NextRow(r).prefill = Tokens(r)
      BY <2>1, <3>2, <3>3 DEF t
    <3> QED
      BY <1>2, <1>3, <2>2, <3>4 DEF RowType
  <2> QED
    BY <1>2, <2>2, <2>3, <2>4
<1> QED
  BY <1>4, <1>5

\* Computed tokens and placeholders are never taken back too often.
LEMMA CountersNat ==
  ASSUME Counting, NEW r \in Reqs
  PROVE  req[r].computed \in Nat /\ req[r].holders \in Nat
<1>1. Base /\ Counted(r)
  BY DEF Counting, Counteds
<1>2. req[r].computed \in Int /\ req[r].holders \in Int
  BY <1>1, RequestFacts DEF RequestType
<1>3. CASE req[r].status # "running"
  BY <1>1, <1>3 DEF Counted
<1>4. CASE req[r].status = "running"
  <2>1. Counters(req[r], NextRow(r), Tokens(r))
    BY <1>1, <1>4 DEF Counted
  <2>2. /\ NextRow(r) \in RowType /\ NextRow(r).computed >= 0
        /\ NextRow(r).computed >= NextRow(r).prefill => NextRow(r).computed >= Tokens(r) - 1
    BY <1>4, NextRowNat
  <2>3. Tokens(r) \in Nat
    BY <1>1, RequestFacts
  <2> QED
    BY <1>2, <2>1, <2>2, <2>3 DEF Counters, RowType
<1> QED
  BY <1>3, <1>4

\* The pool never holds more blocks than there are.
LEMMA FreeFits ==
  ASSUME Base, Slots
  PROVE  free \in 0..NumBlocks
<1>1. IsFiniteSet(Elements(running)) /\ Elements(running) \in SUBSET Reqs
  BY RunningSet
<1> DEFINE f == [r \in Reqs |-> req[r].blocks]
<1>2. \A r \in Elements(running) : f[r] \in Nat
  BY <1>1, BlocksNat
<1>3. BlocksOf(Elements(running)) = SumFunctionOnSet(f, Elements(running))
  BY DEF BlocksOf
<1> HIDE DEF f
<1>4. BlocksOf(Elements(running)) \in Nat
  BY <1>1, <1>2, <1>3, SumNat
<1>5. free >= 0 /\ free + BlocksOf(Elements(running)) = NumBlocks
  BY DEF Slots
<1>6. free \in Int /\ NumBlocks \in Nat
  BY AsyncSchedulerAssumption DEF Base, Types
<1> QED
  BY <1>4, <1>5, <1>6

\* TypeOK follows.
LEMMA TypeFromCounting == Counting => TypeOK
<1> SUFFICES ASSUME Counting PROVE TypeOK
  OBVIOUS
<1> DEFINE TrueType ==
      [status : {"new", "waiting", "running", "preempted", "finished"},
       computed : Nat, holders : Nat, spec : 0..NumSpec,
       flight : Nat, stale : Nat, drop : BOOLEAN, chunk : BOOLEAN,
       cool : 0..PPSize, blocks : Nat]
<1>1. Base /\ Types /\ Queues
  BY DEF Counting, Base
<1>2. req \in [Reqs -> TrueType]
  <2> SUFFICES ASSUME NEW r \in Reqs PROVE req[r] \in TrueType
    BY <1>1 DEF Types
  <2>1. req[r] \in RequestType
    BY <1>1, RequestFacts
  <2>2. /\ req[r].flight \in Nat /\ req[r].stale \in Nat
        /\ req[r].computed \in Nat /\ req[r].holders \in Nat
    BY FlightNat, CountersNat
  <2> QED
    BY <2>1, <2>2 DEF RequestType, Statuses
<1>3. \A r \in Reqs : out[r] \in Seq(Nat)
  BY DEF Counting, NaturalRows, Natural
<1>4. running \in Seq(Reqs) /\ waiting \in Seq(Reqs) /\ skipped \in Seq(Reqs)
  BY <1>1 DEF Queues, IsQueue
<1>5. free \in 0..NumBlocks
  BY <1>1, FreeFits DEF Counting
<1>6. Len(steps) <= MaxBatches
  BY DEF Counting, Queue
<1>7. worker \in [Reqs -> [computed : Nat, prefill : Nat]]
  <2> SUFFICES ASSUME NEW r \in Reqs PROVE worker[r] \in [computed : Nat, prefill : Nat]
    BY <1>1 DEF Types
  <2>1. worker[r] \in [computed : Int, prefill : Nat] /\ worker[r].computed >= 0
    BY <1>1 DEF Types, Counting, NaturalRows, Natural
  <2>2. worker[r].computed \in Nat
    BY <2>1
  <2> QED
    BY <2>1, <2>2
<1> HIDE DEF TrueType
<1>8. /\ finished \subseteq Reqs /\ pause \in {"unpaused", "new", "all"}
      /\ pc \in {"engine", "running", "waiting", "update", "process"}
      /\ controls \in 0..MaxControls
  BY <1>1 DEF Types
<1> QED
  BY <1>2, <1>3, <1>4, <1>5, <1>6, <1>7, <1>8 DEF TypeOK, TrueType

\* The counters stay naturals: no rejection, preemption or stale output takes
\* back more tokens or placeholders than were counted, the batch queue keeps
\* its bound, and so does the block pool.
THEOREM TypeHolds == ASSUME PaddedRowsFit PROVE Spec => []TypeOK
<1>1. Init => Counting
  BY CountingInit
<1>2. Counting /\ [Next]_vars => Counting'
  BY CountingStep
<1> QED
  BY <1>1, <1>2, TypeFromCounting, PTL DEF Spec

-----------------------------------------------------------------------------
(* The service to the clients.                                             *)

\* The most output tokens of a request.
LimitOf(r) == Smaller(MaxTokens[r], MaxModelLen - Prompt[r])

\* A row that samples ends one token ahead of its drafts: the first token it
\* generates is the newest one.
LEMMA SamplesNewest ==
  ASSUME NEW v \in RowType, NEW t \in Nat, NEW n \in Counts, NEW d \in 0..NumSpec,
         Fit(v, n, d), NewestAt(v, t), v.computed + n >= v.prefill
  PROVE  v.computed + n - d = t
<1>1. v.computed \in Int /\ v.prefill \in Nat /\ n \in Int /\ d \in Int /\ NumSpec \in Nat
  BY AsyncSchedulerAssumption DEF RowType, Counts
<1>2. CASE v.prefill - v.computed <= 0 /\ d = n - 1
  BY <1>1, <1>2 DEF NewestAt
<1>3. CASE v.prefill - v.computed > 0 /\ n \in 1..(v.prefill - v.computed) /\ d = 0
  BY <1>1, <1>3 DEF NewestAt
<1>4. CASE v.prefill - v.computed = 1 /\ n = 1 + NumSpec /\ d = NumSpec
  BY <1>1, <1>4 DEF NewestAt
<1> QED
  BY <1>2, <1>3, <1>4 DEF Fit

\* Output that is delivered is the request's next tokens, and was computed from
\* its newest token.
LEMMA DeliveredIs ==
  ASSUME Counting, steps # <<>>, DOMAIN loop.fresh = {}, NEW r \in OldestRows, Delivers(r)
  PROVE  FirstGiven(r) = Tokens(r) /\ req[r].status \in {"running", "preempted"}
<1>1. Base /\ FitSteps /\ Delivereds /\ Flights
  BY DEF Counting
<1>2. /\ r \in Reqs /\ steps[1].n[r] \in Counts /\ steps[1].d[r] \in 0..NumSpec
      /\ RowState(r) \in RowType
  BY <1>1, OldestIs DEF RowType
<1>3. /\ Samples(r) /\ req[r].status # "finished" /\ ~(req[r].stale > 0 /\ req[r].drop)
  BY DEF Delivers
<1>4. Flight(r) /\ req[r].status \in Statuses /\ req[r].stale \in Nat
  BY <1>1, <1>2, RequestFacts, FlightNat DEF Flights, RequestType
<1>5. /\ steps[1].n[r] <= InFlight(r) /\ 1 \in StepsOf(r)
      /\ InFlight(r) \in Nat /\ StaleIn(r) \in Nat
      /\ (StaleIn(r) = 0 <=> CurrentSteps(r) = StepsOf(r))
  BY <1>1, <1>2, OldestInFlight, InFlightNat
<1>6. req[r].status \in {"running", "preempted"}
  BY <1>3, <1>4, <1>5 DEF Flight, Statuses
<1>7. Trusted(r) /\ CurrentSteps(r) = StepsOf(r)
  <2>1. CASE req[r].status = "running"
    <3>1. req[r].stale = StaleIn(r) /\ req[r].stale = 0
      BY <1>3, <1>4, <2>1 DEF Flight
    <3> QED
      BY <1>5, <2>1, <3>1 DEF Trusted
  <2>2. CASE req[r].status = "preempted"
    <3>1. req[r].stale = InFlight(r) /\ (req[r].drop \/ CurrentSteps(r) = StepsOf(r))
      BY <1>4, <2>2 DEF Flight
    <3>2. req[r].stale > 0
      BY <1>2, <1>5, <3>1 DEF Counts
    <3> QED
      BY <1>3, <2>2, <3>1, <3>2 DEF Trusted
  <2> QED
    BY <1>6, <2>1, <2>2
<1>8. NewestAt(RowState(r), Tokens(r))
  BY <1>1, <1>3, <1>7, RowNewest
<1>9. Fit(RowState(r), steps[1].n[r], steps[1].d[r])
  BY <1>1, <1>2, FirstForecast
<1>10. RowState(r).computed + steps[1].n[r] >= RowState(r).prefill
  BY <1>3 DEF Samples
<1>11. Tokens(r) \in Nat
  BY <1>1, <1>2, RequestFacts
<1> QED
  BY <1>2, <1>6, <1>8, <1>9, <1>10, <1>11, SamplesNewest DEF FirstGiven

\* Initially no client has submitted anything.
LEMMA ServiceStarts == Init => Service!Init
BY DEF Init, Service!Init, Phase, NewRequest

\* Steps of the scheduler clients do not see.
LEMMA PhaseSame ==
  ASSUME \A r \in Reqs : Phase(r)' = Phase(r), UNCHANGED out
  PROVE  UNCHANGED Service!vars
<1>1. [r \in Reqs |-> Phase(r)]' = [r \in Reqs |-> Phase(r)]
  OBVIOUS
<1> QED
  BY <1>1 DEF Service!vars

\* Tokens each request gets from the oldest step.
CountOf(given) == [r \in Reqs |-> IF r \in OldestRows THEN given[r] ELSE 0]

\* Output that is processed is the next tokens of the requests it is for, and
\* they end at their limit.
LEMMA ServiceDelivers ==
  ASSUME Counting, NEW accepted, NEW given, NEW eos, Outcome(accepted, given, eos),
         \E r \in Reqs : CountOf(given)[r] > 0
  PROVE  Service!Deliver(CountOf(given), Stopped(given, eos))
<1> DEFINE c == CountOf(given)
           e == Stopped(given, eos)
<1>1. Base
  BY DEF Counting
<1>2. /\ steps # <<>> /\ DOMAIN loop.fresh = {}
      /\ \A r \in Reqs :
           \/ r \notin OldestRows /\ UNCHANGED <<req[r], out[r], worker[r]>>
           \/ r \in OldestRows /\ req[r].status = "finished" /\ req'[r] = req[r]
           \/ r \in OldestRows /\ EndsWith(given, eos, r) /\ req'[r] = Closed
           \/ /\ r \in OldestRows /\ ~EndsWith(given, eos, r) /\ req[r].status # "finished"
              /\ req'[r] = AfterOutput(accepted, given, r)
      /\ \A r \in OldestRows : r \in Reqs /\ out'[r] = out[r] \o Given(given, r)
  BY <1>1, ProcessedIs
<1>3. ASSUME NEW r \in Reqs, c[r] > 0
      PROVE  /\ r \in OldestRows /\ c[r] = given[r] /\ Delivers(r)
             /\ given[r] \in Nat /\ given[r] <= Room(r)
             /\ FirstGiven(r) = Tokens(r) /\ req[r].status \in {"running", "preempted"}
  <2>1. r \in OldestRows /\ c[r] = given[r]
    BY <1>3 DEF CountOf
  <2>2. given[r] \in 0..(1 + NumSpec) /\ Delivers(r) /\ given[r] <= Room(r)
    BY <1>1, <1>3, <2>1, GivenIs
  <2>3. given[r] \in Nat
    BY <2>2, AsyncSchedulerAssumption
  <2> QED
    BY <1>2, <2>1, <2>2, <2>3, DeliveredIs
<1>4. ASSUME NEW r \in Reqs
      PROVE  /\ Len(out[r]) \in Nat /\ Prompt[r] \in Nat /\ MaxTokens[r] \in Nat
             /\ MaxModelLen \in Nat /\ Tokens(r) = Prompt[r] + Len(out[r])
             /\ Room(r) = LimitOf(r) - Len(out[r]) /\ LimitOf(r) \in Int
  <2>1. /\ Len(out[r]) \in Nat /\ Prompt[r] \in Nat /\ MaxTokens[r] \in Nat
        /\ MaxModelLen \in Nat /\ Tokens(r) = Prompt[r] + Len(out[r])
    BY <1>1, RequestFacts, AsyncSchedulerAssumption DEF Tokens
  <2>2. Room(r) = Smaller(MaxTokens[r] - Len(out[r]), MaxModelLen - (Prompt[r] + Len(out[r])))
    BY <2>1 DEF Room
  <2>3. Room(r) = LimitOf(r) - Len(out[r])
    BY <2>1, <2>2 DEF LimitOf, Smaller
  <2>4. LimitOf(r) \in Int
    BY <2>1 DEF LimitOf, Smaller
  <2> QED
    BY <2>1, <2>3, <2>4
<1>5. ASSUME NEW r \in Reqs, c[r] > 0
      PROVE  Phase(r) = "open" /\ Len(out[r]) + c[r] <= LimitOf(r)
  <2>1. Phase(r) = "open"
    BY <1>3, <1>5 DEF Phase
  <2> QED
    BY <1>3, <1>4, <1>5, <2>1
<1>6. \A r \in Reqs : r \in e <=> EndsWith(given, eos, r)
  BY DEF Stopped
<1>7. e \subseteq {r \in Reqs : c[r] > 0}
  BY DEF Stopped, EndsWith, CountOf
<1>8. ASSUME NEW r \in Reqs, c[r] > 0, Len(out[r]) + c[r] = LimitOf(r)
      PROVE  r \in e
  <2>1. given[r] = Room(r) /\ r \in OldestRows /\ given[r] > 0
    BY <1>3, <1>4, <1>8
  <2> QED
    BY <1>6, <2>1 DEF EndsWith
<1>9. ASSUME NEW r \in Reqs
      PROVE  out'[r] = out[r] \o [i \in 1..c[r] |-> Prompt[r] + Len(out[r]) + i - 1]
  <2>1. CASE c[r] > 0
    <3>1. /\ r \in OldestRows /\ c[r] = given[r] /\ out'[r] = out[r] \o Given(given, r)
          /\ FirstGiven(r) = Prompt[r] + Len(out[r])
      BY <1>2, <1>3, <1>4, <2>1
    <3> QED
      BY <3>1 DEF Given
  <2>2. CASE ~(c[r] > 0)
    <3>1. c[r] = 0 /\ out[r] \in Seq(Int)
      <4>1. r \in OldestRows => given[r] \in 0..(1 + NumSpec)
        BY <1>1, GivenIs
      <4>2. out[r] \in Seq(Int)
        BY <1>1, RequestFacts
      <4>3. NumSpec \in Nat
        BY AsyncSchedulerAssumption
      <4> QED
        BY <2>2, <4>1, <4>2, <4>3 DEF CountOf
    <3>2. out[r] \o [i \in 1..0 |-> Prompt[r] + Len(out[r]) + i - 1] = out[r]
      BY <3>1
    <3>3. CASE r \notin OldestRows
      BY <1>2, <3>1, <3>2, <3>3
    <3>4. CASE r \in OldestRows
      <4>1. given[r] = 0 /\ out'[r] = out[r] \o Given(given, r)
        BY <1>2, <3>1, <3>4 DEF CountOf
      <4>2. Given(given, r) = <<>>
        BY <4>1 DEF Given
      <4> QED
        BY <3>1, <3>2, <4>1, <4>2
    <3> QED
      BY <3>3, <3>4
  <2> QED
    BY <2>1, <2>2
<1>10. ASSUME NEW r \in Reqs
       PROVE  Phase(r)' = IF r \in e THEN "closed" ELSE Phase(r)
  <2>1. CASE r \in e
    <3>1. c[r] > 0 /\ EndsWith(given, eos, r)
      BY <1>6, <1>7, <2>1
    <3>2. req'[r] = Closed
      BY <1>2, <1>3, <3>1
    <3> QED
      BY <2>1, <3>2 DEF Phase, Closed, NewRequest
  <2>2. CASE r \notin e
    <3>1. req'[r].status = req[r].status
      <4>1. CASE r \in OldestRows /\ req'[r] = AfterOutput(accepted, given, r)
        BY <1>1, <4>1, AfterOutputType
      <4> QED
        BY <1>2, <1>6, <2>2, <4>1
    <3> QED
      BY <2>2, <3>1 DEF Phase
  <2> QED
    BY <2>1, <2>2
<1>11. out' = [r \in Reqs |-> out'[r]]
  <2>1. out' = [r \in Reqs |-> IF r \notin OldestRows THEN out[r]
                               ELSE out[r] \o Given(given, r)]
    BY OutcomeIs
  <2> QED
    BY <2>1
<1> HIDE DEF c, e
<1>12. out' = [r \in Reqs |-> out[r] \o [i \in 1..c[r] |-> Prompt[r] + Len(out[r]) + i - 1]]
  BY <1>9, <1>11
<1>13. [r \in Reqs |-> Phase(r)]' =
         [r \in Reqs |-> IF r \in e THEN "closed" ELSE [s \in Reqs |-> Phase(s)][r]]
  BY <1>10
<1>14. \E r \in Reqs : c[r] > 0
  BY DEF c
<1>15. \A r \in Reqs : c[r] > 0 =>
         [s \in Reqs |-> Phase(s)][r] = "open"
           /\ Len(out[r]) + c[r] <= [s \in Reqs |-> LimitOf(s)][r]
  BY <1>5
<1>16. \A r \in Reqs :
         c[r] > 0 /\ Len(out[r]) + c[r] = [s \in Reqs |-> LimitOf(s)][r] => r \in e
  BY <1>8
<1>17. Service!Deliver(c, e)
  BY <1>7, <1>12, <1>13, <1>14, <1>15, <1>16 DEF Service!Deliver, Service!NextTokens, LimitOf
<1> QED
  BY <1>17 DEF c, e

\* A step that is sent is not seen.
LEMMA ServiceUpdates ==
  ASSUME Base, UpdateAfterSchedule
  PROVE  UNCHANGED Service!vars
<1> SUFFICES ASSUME NEW r \in Reqs PROVE Phase(r)' = Phase(r)
  BY PhaseSame, SentIs
<1>1. r \notin DOMAIN loop.n => req'[r] = req[r]
  BY SentIs
<1>2. r \in DOMAIN loop.n => req'[r].status = req[r].status
  BY SentIs DEF ScheduledIs
<1> QED
  BY <1>1, <1>2 DEF Phase

\* Processing a step delivers tokens, or nothing is seen of it.
LEMMA ServiceOutput ==
  ASSUME Counting, ProcessOldest
  PROVE  Service!Next \/ UNCHANGED Service!vars
<1>1. Base
  BY DEF Counting
<1>2. PICK accepted, given, eos : Outcome(accepted, given, eos)
  BY <1>1, OutcomeExists
<1>3. CASE \E r \in Reqs : CountOf(given)[r] > 0
  <2>1. Service!Deliver(CountOf(given), Stopped(given, eos))
    BY <1>2, <1>3, ServiceDelivers
  <2>2. CountOf(given) \in [Reqs -> 0..(1 + NumSpec)]
    <3> SUFFICES ASSUME NEW r \in Reqs PROVE CountOf(given)[r] \in 0..(1 + NumSpec)
      BY DEF CountOf
    <3>1. r \in OldestRows => given[r] \in 0..(1 + NumSpec)
      BY <1>1, <1>2, GivenIs
    <3> QED
      BY <3>1, AsyncSchedulerAssumption DEF CountOf
  <2>3. Stopped(given, eos) \in SUBSET Reqs
    BY DEF Stopped
  <2> QED
    BY <2>1, <2>2, <2>3 DEF Service!Next
<1>4. CASE ~\E r \in Reqs : CountOf(given)[r] > 0
  <2>1. ASSUME NEW r \in OldestRows PROVE given[r] = 0 /\ r \in Reqs
    <3>1. r \in Reqs /\ given[r] \in 0..(1 + NumSpec)
      BY <1>1, <1>2, <2>1, ProcessedIs, GivenIs
    <3>2. ~(given[r] > 0)
      BY <1>4, <2>1, <3>1 DEF CountOf
    <3> QED
      BY <3>1, <3>2, AsyncSchedulerAssumption
  <2>2. ASSUME NEW r \in Reqs
        PROVE  req'[r].status = req[r].status /\ out'[r] = out[r]
    <3>1. ~EndsWith(given, eos, r)
      BY <2>1 DEF EndsWith
    <3>2. CASE r \notin OldestRows
      BY <1>1, <1>2, <3>2, ProcessedIs
    <3>3. CASE r \in OldestRows
      <4>1. out'[r] = out[r] \o Given(given, r) /\ out[r] \in Seq(Int)
        BY <1>1, <1>2, <3>3, ProcessedIs, RequestFacts
      <4>2. Given(given, r) = <<>>
        BY <2>1, <3>3 DEF Given
      <4>3. out'[r] = out[r]
        BY <4>1, <4>2
      <4>4. req'[r] = req[r] \/ req'[r] = AfterOutput(accepted, given, r)
        BY <1>1, <1>2, <3>1, <3>3, ProcessedIs
      <4> QED
        BY <1>1, <1>2, <3>3, <4>3, <4>4, AfterOutputType
    <3> QED
      BY <3>2, <3>3
  <2>3. out' = [r \in Reqs |-> out'[r]] /\ out = [r \in Reqs |-> out[r]]
    <3>1. out' = [r \in Reqs |-> IF r \notin OldestRows THEN out[r]
                                 ELSE out[r] \o Given(given, r)]
      BY <1>2, OutcomeIs
    <3>2. out \in [Reqs -> Seq(Int)]
      BY <1>1 DEF Base, Types
    <3> QED
      BY <3>1, <3>2
  <2>4. out' = out
    BY <2>2, <2>3
  <2>5. \A r \in Reqs : Phase(r)' = Phase(r)
    BY <2>2 DEF Phase
  <2> QED
    BY <2>4, <2>5, PhaseSame
<1> QED
  BY <1>3, <1>4

\* The calls from outside: a client submits or aborts a request.
LEMMA ServiceCalls ==
  ASSUME Base, NEW r \in Reqs, AddRequest(r) \/ AbortRequest(r)
  PROVE  Service!Next
<1> DEFINE p == [s \in Reqs |-> Phase(s)]
<1>1. CASE AddRequest(r)
  <2>1. /\ req[r].status = "new" /\ req'[r].status = "waiting" /\ UNCHANGED out
        /\ \A s \in Reqs \ {r} : req'[s] = req[s]
    BY <1>1, AddIs DEF AddEffect
  <2>2. p[r] = "new" /\ p' = [p EXCEPT ![r] = "open"]
    BY <2>1 DEF Phase
  <2>3. Service!Submit(r)
    BY <2>1, <2>2 DEF Service!Submit
  <2> QED
    BY <2>3 DEF Service!Next
<1>2. CASE AbortRequest(r)
  <2>1. /\ req[r].status \in {"waiting", "running", "preempted"} /\ req'[r] = Closed
        /\ UNCHANGED out /\ \A s \in Reqs \ {r} : req'[s] = req[s]
    BY <1>2, AbortIs DEF AbortEffect
  <2>2. p[r] = "open" /\ p' = [p EXCEPT ![r] = "closed"]
    BY <2>1 DEF Phase, Closed, NewRequest
  <2>3. Service!Abort(r)
    BY <2>1, <2>2 DEF Service!Abort
  <2> QED
    BY <2>3 DEF Service!Next
<1> QED
  BY <1>1, <1>2

\* What the engine does before a step is sent, a reset and a pause do not show.
LEMMA ServiceQuiet ==
  ASSUME Base,
         \/ UNCHANGED vars
         \/ ResetPrefixCache
         \/ \E p \in {"unpaused", "new", "all"} : SetPauseState(p)
         \/ BeginSchedule \/ SkipRunning \/ EndRunning \/ SkipWaiting \/ EndWaiting
         \/ ScheduleRunning \/ PreemptForRoom
         \/ \E hit \in Hits : AtWaiting /\ hit \in HitsOf(Candidate) /\ Admit(hit)
         \/ ScheduleAhead
  PROVE  UNCHANGED Service!vars
<1>1. CASE UNCHANGED <<req, out>>
  BY <1>1, PhaseSame DEF Phase
<1>2. CASE ResetPrefixCache
  <2>1. UNCHANGED out
    BY <1>2, ResetIs DEF ResetEffect
  <2>2. ASSUME NEW r \in Reqs PROVE Phase(r)' = Phase(r)
    <3>1. CASE r \in Elements(running)
      <4>1. req'[r].status = "preempted" /\ req[r].status = "running"
        BY <1>2, <3>1, ResetIs DEF ResetEffect, Base, Queues
      <4> QED
        BY <4>1 DEF Phase
    <3>2. CASE r \notin Elements(running)
      BY <1>2, <3>2, ResetIs DEF ResetEffect, Phase
    <3> QED
      BY <3>1, <3>2
  <2> QED
    BY <2>1, <2>2, PhaseSame
<1>3. CASE BeginSchedule
  <2>1. BeginEffect
    BY <1>3, BeginIs
  <2> QED
    BY <2>1, PhaseSame DEF BeginEffect, Phase
<1>4. CASE ScheduleRunning
  <2>1. PICK r \in Reqs, n \in Counts : RunningEffect(r, n)
    BY <1>4, RunningIs
  <2> QED
    BY <2>1, PhaseSame DEF RunningEffect, Phase
<1>5. CASE PreemptForRoom
  <2>1. PICK v, s, r : PreemptEffect(v, s, r)
    BY <1>5, PreemptEffectIs
  <2>2. /\ s \in Reqs /\ req[s].status = "running" /\ req'[s].status = "preempted"
        /\ \A t \in Reqs \ {s} : req'[t] = req[t]
        /\ UNCHANGED out
    BY <2>1 DEF PreemptEffect, Base, Queues
  <2> QED
    BY <2>2, PhaseSame DEF Phase
<1>6. CASE \E hit \in Hits : AtWaiting /\ hit \in HitsOf(Candidate) /\ Admit(hit)
  <2>1. PICK hit \in Hits, r \in Reqs, n \in Counts, d \in 0..NumSpec :
          AdmitEffect(hit, r, n, d)
    BY <1>6, AdmitIs
  <2>2. /\ req[r].status \in {"waiting", "preempted"} /\ req'[r].status = "running"
        /\ \A t \in Reqs \ {r} : req'[t] = req[t]
        /\ UNCHANGED out
    BY <2>1 DEF AdmitEffect
  <2> QED
    BY <2>2, PhaseSame DEF Phase
<1>7. UNCHANGED vars \/ SkipRunning \/ EndRunning \/ SkipWaiting \/ EndWaiting
        \/ ScheduleAhead \/ (\E p \in {"unpaused", "new", "all"} : SetPauseState(p))
      => UNCHANGED <<req, out>>
  BY DEF vars, SkipRunning, EndRunning, SkipWaiting, EndWaiting, ScheduleAhead, SetPauseState
<1> QED
  BY <1>1, <1>2, <1>3, <1>4, <1>5, <1>6, <1>7

\* Every step of the scheduler is one of the service or is not seen.
LEMMA ServiceStep ==
  ASSUME Counting, [Next]_vars
  PROVE  Service!Next \/ UNCHANGED Service!vars
<1>1. Base
  BY DEF Counting
<1>2. CASE \E r \in Reqs : AddRequest(r) \/ AbortRequest(r)
  BY <1>1, <1>2, ServiceCalls
<1>3. CASE UpdateAfterSchedule
  BY <1>1, <1>3, ServiceUpdates
<1>4. CASE ProcessOldest
  BY <1>4, ServiceOutput
<1> QED
  BY <1>1, <1>2, <1>3, <1>4, ServiceQuiet DEF Next, Turn

\* Whatever is preempted, reset, speculated or rejected, clients get every output
\* token once and in order, up to their limit and never after the end.
THEOREM ServiceKept == ASSUME PaddedRowsFit PROVE Spec => ServedInOrder
<1>1. Init => Counting
  BY CountingInit
<1>2. Counting /\ [Next]_vars => Counting'
  BY CountingStep
<1>3. Init => Service!Init
  BY ServiceStarts
<1>4. Counting /\ [Next]_vars => [Service!Next]_(Service!vars)
  BY ServiceStep
<1> QED
  BY <1>1, <1>2, <1>3, <1>4, PTL DEF Spec, ServedInOrder, Service!Safety

-----------------------------------------------------------------------------
(* The cadence of the decodes.                                             *)

\* The cadence of r's decodes: its sampling steps are PPSize calls of schedule()
\* apart; while it runs, its cooldown counts what is left to the next one; and it
\* has none left when it is scheduled.
Waits(r, j) == PPSize - (Len(steps) - j) - (IF Settled THEN 0 ELSE 1)
Cooled(r) ==
  /\ \A j, k \in SamplingSteps(r) : j < k => k - j >= PPSize
  /\ req[r].status = "running" /\ r \notin DOMAIN loop.fresh =>
       \A j \in SamplingSteps(r) : req[r].cool >= Waits(r, j)
  /\ r \in DOMAIN loop.n /\ r \notin DOMAIN loop.fresh => req[r].cool = 0
Cooleds == \A r \in Reqs : Cooled(r)

\* The sampling steps and the cooldown of a request.
LEMMA SamplingIs ==
  ASSUME Base, NEW r \in Reqs
  PROVE  /\ SamplingSteps(r) \subseteq 1..Len(steps) /\ Len(steps) \in Nat
         /\ SamplingSteps(r) \subseteq CurrentSteps(r)
         /\ req[r].cool \in 0..PPSize /\ PPSize \in Nat
<1>1. Len(steps) \in Nat /\ CurrentSteps(r) \subseteq 1..Len(steps)
  BY StepsFacts
<1>2. req[r].cool \in 0..PPSize /\ PPSize \in Nat
  BY RequestFacts, AsyncSchedulerAssumption DEF RequestType
<1> QED
  BY <1>1, <1>2 DEF SamplingSteps

\* Initially nothing samples.
LEMMA CooledInit == Init => Cooleds
<1> SUFFICES ASSUME Init, NEW r \in Reqs PROVE Cooled(r)
  BY DEF Cooleds
<1>1. Base /\ steps = <<>> /\ req[r].status = "new" /\ loop = NoLoop
  BY BaseInit DEF Init, NewRequest
<1>2. SamplingSteps(r) = {} /\ DOMAIN loop.n = {}
  <2>1. Len(steps) = 0 /\ 1..0 = {}
    BY <1>1
  <2> QED
    BY <1>1, <2>1, SamplingIs, NoLoopType
<1> QED
  BY <1>1, <1>2 DEF Cooled

\* What sends and processes no step keeps the cadence: schedule() counts every
\* cooldown down once, and passes over a request that has some left.
LEMMA QuietCooled ==
  ASSUME Base, Base', Cooleds, Quiet
  PROVE  Cooleds'
<1> SUFFICES ASSUME NEW r \in Reqs PROVE Cooled(r)'
  BY DEF Cooleds
<1> DEFINE S == SamplingSteps(r)
           L == Len(steps)
           c == req[r].cool
           e == req'[r].cool
<1>1. UNCHANGED <<steps, worker>> /\ Moves(r) /\ Cooled(r)
  BY DEF Cooleds, Quiet
<1>2. SamplingSteps(r)' = S
  BY <1>1, SameForecast DEF SamplingSteps, CurrentSteps, StepsOf
<1>3. L \in Nat /\ S \subseteq 1..L /\ c \in 0..PPSize /\ e \in 0..PPSize /\ PPSize \in Nat
  <2>1. L \in Nat /\ S \subseteq 1..L /\ c \in 0..PPSize /\ PPSize \in Nat
    BY SamplingIs
  <2>2. e \in 0..PPSize
    <3>1. req' \in [Reqs -> RequestType]
      BY DEF Base, Types
    <3> QED
      BY <3>1 DEF RequestType
  <2> QED
    BY <2>1, <2>2
<1>4. \A j, k \in S : j < k => k - j >= PPSize
  BY <1>1 DEF Cooled
<1>5. CASE Stays(r)
  <2>1. /\ r \in DOMAIN loop'.fresh <=> r \in DOMAIN loop.fresh
        /\ r \in DOMAIN loop'.n <=> r \in DOMAIN loop.n
        /\ req'[r].status = "running" => req[r].status = "running"
        /\ \/ e = c /\ (Settled' <=> Settled)
           \/ e = Larger(c - 1, 0) /\ Settled /\ ~Settled' /\ DOMAIN loop'.n = {}
    BY <1>5 DEF Stays, SameShare
  <2>2. CASE e = c /\ (Settled' <=> Settled)
    BY <1>1, <1>2, <1>4, <2>1, <2>2 DEF Cooled, Waits
  <2>3. CASE e = Larger(c - 1, 0) /\ Settled /\ ~Settled' /\ DOMAIN loop'.n = {}
    <3>1. ASSUME req'[r].status = "running", r \notin DOMAIN loop'.fresh, NEW j \in S
          PROVE  e >= Waits(r, j)'
      <4>1. c >= PPSize - (L - j) - 0
        BY <1>1, <2>1, <2>3, <3>1 DEF Cooled, Waits
      <4>2. e >= c - 1
        BY <1>3, <2>3 DEF Larger
      <4>3. e >= PPSize - (L - j) - 1
        BY <1>3, <4>1, <4>2
      <4> QED
        BY <1>1, <2>3, <4>3 DEF Waits
    <3> QED
      BY <1>2, <1>4, <2>3, <3>1 DEF Cooled
  <2> QED
    BY <2>1, <2>2, <2>3
<1>6. CASE Closes(r)
  <2>1. req'[r].status = "finished" /\ r \notin DOMAIN loop'.n
    BY <1>6, NoLoopType DEF Closes, Closed, NewRequest, SameShare, Settled, Base, Places
  <2> QED
    BY <1>2, <1>4, <2>1 DEF Cooled
<1>7. CASE Schedules(r)
  <2>1. /\ req[r].status = "running" /\ r \notin DOMAIN loop.fresh /\ r \notin DOMAIN loop'.fresh
        /\ e = c /\ ~Settled /\ ~Settled' /\ ~Throttled(r)
    BY <1>7 DEF Schedules, WantFits
  <2>2. e = 0
    BY <1>3, <2>1 DEF Throttled
  <2>3. \A j \in S : e >= Waits(r, j)'
    BY <1>1, <2>1 DEF Cooled, Waits
  <2> QED
    BY <1>2, <1>4, <2>2, <2>3 DEF Cooled
<1>8. CASE Evicts(r)
  <2>1. req'[r].status = "preempted" /\ r \notin DOMAIN loop'.n
    BY <1>8 DEF Evicts
  <2> QED
    BY <1>2, <1>4, <2>1 DEF Cooled
<1>9. CASE Admits(r)
  <2>1. r \in DOMAIN loop'.fresh
    BY <1>9 DEF Admits
  <2> QED
    BY <1>2, <1>4, <2>1 DEF Cooled
<1> QED
  BY <1>1, <1>5, <1>6, <1>7, <1>8, <1>9 DEF Moves

\* The sampling steps when another step is sent.
LEMMA AppendedSampling ==
  ASSUME Base, Base', UpdateAfterSchedule, NEW r \in Reqs
  PROVE  /\ r \notin DOMAIN loop.n => SamplingSteps(r)' = SamplingSteps(r)
         /\ r \in DOMAIN loop.n => SamplingSteps(r)' \subseteq SamplingSteps(r) \cup {Len(steps) + 1}
         /\ r \in DOMAIN loop.fresh => SamplingSteps(r)' \subseteq {Len(steps) + 1}
         /\ Len(steps) + 1 \in SamplingSteps(r)' =>
              NextRow(r)'.computed >= NextRow(r)'.prefill
<1> DEFINE s == Sent
           g == Forecast(r)
           h == Forecast(r)'
           w == worker[r]
           ss == steps
           tt == steps'
           L == Len(steps)
           C == CurrentSteps(r)
           D == CurrentSteps(r)'
<1>1. /\ s \in StepType /\ RowsFit(s) /\ s.n = loop.n /\ s.fresh = loop.fresh
      /\ worker' = worker /\ tt = Append(ss, s)
      /\ (r \notin DOMAIN loop.n => r \notin DOMAIN loop.fresh)
  BY SentIs
<1>2. StepsTyped(ss) /\ Follows(g, w, ss, r)
  BY ForecastIs
<1>3. Follows(h, w, tt, r)
  BY <1>1, ForecastNext
<1>4. Longer(tt, ss, s) /\ Len(tt) = L + 1 /\ NextRow(r)' = h[L + 1]
  BY UpdateForecast
<1>5. /\ r \notin DOMAIN s.n => D = C
      /\ r \in DOMAIN s.fresh => D = {L + 1}
      /\ StepsOf(r)' \subseteq StepsOf(r) \cup {L + 1}
  BY <1>1, AppendedSteps
<1>6. L \in Nat /\ C \subseteq 1..L /\ DOMAIN ss = 1..L /\ StepsOf(r) \subseteq 1..L
  BY StepsFacts
<1>7. DOMAIN tt = 1..(L + 1) /\ \A j \in 1..L : tt[j] = ss[j]
  BY <1>1, <1>2 DEF StepsTyped
<1>8. D \subseteq C \cup {L + 1}
  <2> SUFFICES ASSUME NEW j \in D, j # L + 1 PROVE j \in C
    OBVIOUS
  <2>1. /\ j \in StepsOf(r)'
        /\ \A k \in DOMAIN tt : k > j => r \notin DOMAIN tt[k].fresh
    BY DEF CurrentSteps
  <2>2. j \in StepsOf(r)
    BY <1>5, <2>1
  <2>3. \A k \in DOMAIN ss : k > j => r \notin DOMAIN ss[k].fresh
    BY <1>6, <1>7, <2>1
  <2> QED
    BY <2>2, <2>3 DEF CurrentSteps
<1>9. SamplingSteps(r)' = {j \in D : h[j].computed >= h[j].prefill}
      /\ SamplingSteps(r) = {j \in C : g[j].computed >= g[j].prefill}
  BY DEF SamplingSteps
<1> HIDE DEF s, g, h, w, ss, tt, L, C, D
<1>10. \A j \in 0..Len(ss) : h[j] = g[j]
  BY <1>1, <1>2, <1>3, <1>4, FollowsAppend
<1>11. \A j \in C : h[j] = g[j]
  BY <1>6, <1>10 DEF ss, L
<1>12. ASSUME r \notin DOMAIN loop.n PROVE SamplingSteps(r)' = SamplingSteps(r)
  BY <1>1, <1>5, <1>9, <1>11, <1>12
<1>13. SamplingSteps(r)' \subseteq SamplingSteps(r) \cup {L + 1}
  BY <1>8, <1>9, <1>11
<1>14. r \in DOMAIN loop.fresh => SamplingSteps(r)' \subseteq {L + 1}
  BY <1>1, <1>5, <1>9
<1>15. L + 1 \in SamplingSteps(r)' => NextRow(r)'.computed >= NextRow(r)'.prefill
  BY <1>4, <1>9
<1> QED
  BY <1>12, <1>13, <1>14, <1>15 DEF L

\* A step that samples starts the cooldown, and is far enough from the last
\* one.
LEMMA UpdateCooled ==
  ASSUME Base, Base', Counteds', Cooleds, UpdateAfterSchedule
  PROVE  Cooleds'
<1> SUFFICES ASSUME NEW r \in Reqs PROVE Cooled(r)'
  BY DEF Cooleds
<1> DEFINE S == SamplingSteps(r)
           U == SamplingSteps(r)'
           L == Len(steps)
           c == req[r].cool
           e == req'[r].cool
           P == PPSize
<1>1. L \in Nat /\ S \subseteq 1..L /\ c \in 0..P /\ P \in Nat /\ Len(steps') = L + 1
  BY SamplingIs, UpdateForecast
<1>2. /\ r \notin DOMAIN loop'.n /\ r \notin DOMAIN loop'.fresh /\ Settled' /\ ~Settled
      /\ r \notin DOMAIN loop.n => req'[r] = req[r] /\ r \notin DOMAIN loop.fresh
      /\ r \in DOMAIN loop.n => ScheduledIs(r, req'[r]) /\ req[r].status = "running"
  BY SentIs
<1>3. /\ \A j, k \in S : j < k => k - j >= P
      /\ req[r].status = "running" /\ r \notin DOMAIN loop.fresh =>
           \A j \in S : c >= P - (L - j) - 1
      /\ r \in DOMAIN loop.n /\ r \notin DOMAIN loop.fresh => c = 0
  BY <1>2 DEF Cooleds, Cooled, Waits
<1>5. /\ r \notin DOMAIN loop.n => U = S
      /\ r \in DOMAIN loop.n => U \subseteq S \cup {L + 1}
      /\ r \in DOMAIN loop.fresh => U \subseteq {L + 1}
      /\ L + 1 \in U => NextRow(r)'.computed >= NextRow(r)'.prefill
  BY AppendedSampling
<1>6. CASE r \notin DOMAIN loop.n
  <2> HIDE DEF S, U, L, P, c, e
  <2>1. ASSUME req'[r].status = "running" PROVE \A j \in U : e >= P - (L + 1 - j) - 0
    <3>1. e = c /\ req[r].status = "running"
      BY <1>2, <1>6, <2>1 DEF c, e
    <3>2. \A j \in S : c >= P - (L - j) - 1
      BY <1>2, <1>3, <1>6, <3>1
    <3>3. c \in Int /\ e \in Int
      BY <1>1, <3>1
    <3>4. ASSUME NEW j \in S PROVE e >= P - (L + 1 - j) - 0
      <4>1. j \in Int /\ L \in Int /\ P \in Int /\ c >= P - (L - j) - 1
        BY <1>1, <3>2
      <4> QED
        BY <3>1, <3>3, <4>1
    <3> QED
      BY <1>5, <1>6, <3>4
  <2> QED
    BY <1>1, <1>2, <1>3, <1>5, <1>6, <2>1 DEF Cooled, Waits, U, S, L, e, P
<1>7. CASE r \in DOMAIN loop.n
  <2>1. \A j, k \in U : j < k => k - j >= P
    <3> HIDE DEF S, U, L, P, c, e
    <3> SUFFICES ASSUME NEW j \in U, NEW k \in U, j < k PROVE k - j >= P
      OBVIOUS
    <3>1. CASE k \in S
      <4>1. j # L + 1 /\ j \in S \cup {L + 1}
        BY <1>1, <1>5, <1>7, <3>1
      <4> QED
        BY <1>3, <3>1, <4>1
    <3>2. CASE k \notin S
      <4>1. k = L + 1 /\ j \in S /\ r \notin DOMAIN loop.fresh
        BY <1>1, <1>5, <1>7, <3>2
      <4>2. 0 >= P - (L - j) - 1
        BY <1>2, <1>3, <1>7, <4>1
      <4>3. j \in Int /\ L \in Int /\ P \in Int
        BY <1>1, <4>1
      <4> QED
        BY <4>1, <4>2, <4>3
    <3> QED
      BY <3>1, <3>2
  <2>2. /\ e = IF req'[r].chunk THEN c ELSE P
        /\ req'[r].status = "running"
    BY <1>2, <1>7 DEF ScheduledIs
  <2>3. L + 1 \in U => ~req'[r].chunk
    <3>1. req'[r].chunk <=> NextRow(r)'.computed < NextRow(r)'.prefill
      BY <1>2, <2>2 DEF Counteds, Counted
    <3>2. NextRow(r)' \in RowType
      <4>1. NextRow(r)' = Forecast(r)'[L + 1] /\ Forecast(r)'[L + 1] \in RowType
        BY <1>1, <1>7, UpdateForecast
      <4> QED
        BY <4>1
    <3> QED
      BY <1>5, <3>1, <3>2 DEF RowType
  <2>4. \A j \in U : e >= P - (Len(steps') - j) - 0
    <3> HIDE DEF S, U, L, P, c
    <3> SUFFICES ASSUME NEW j \in U PROVE e >= P - (Len(steps') - j) - 0
      OBVIOUS
    <3>1. j \in Int /\ j <= L + 1
      <4>1. j \in S \/ j = L + 1
        BY <1>5, <1>7
      <4>2. j \in S => j \in Int /\ j <= L
        BY <1>1
      <4> QED
        BY <1>1, <4>1, <4>2
    <3>2. CASE req'[r].chunk
      <4>1. j \in S /\ j # L + 1
        BY <1>5, <1>7, <2>3, <3>2
      <4>2. r \notin DOMAIN loop.fresh
        BY <1>5, <4>1
      <4>3. c >= P - (L - j) - 1 /\ e = c
        BY <1>2, <1>3, <1>7, <2>2, <3>2, <4>1, <4>2
      <4>4. c \in Int
        BY <1>1
      <4> QED
        BY <1>1, <3>1, <4>3, <4>4
    <3>3. CASE ~req'[r].chunk
      <4>1. e = P
        BY <2>2, <3>3
      <4> QED
        BY <1>1, <3>1, <4>1
    <3> QED
      BY <3>2, <3>3
  <2> HIDE DEF S, U, L, P, c, e
  <2>5. /\ \A j, k \in SamplingSteps(r)' : j < k => k - j >= PPSize
        /\ \A j \in SamplingSteps(r)' : req'[r].cool >= PPSize - (Len(steps') - j) - 0
    BY <2>1, <2>4 DEF U, e, P
  <2> QED
    BY <1>2, <2>5 DEF Cooled, Waits
<1> QED
  BY <1>6, <1>7

\* A row that is behind samples no step the one it is behind of does not.
LEMMA LagsSample ==
  ASSUME NEW a \in RowType, NEW b \in RowType, NEW k \in Nat, Lags(a, b, k) \/ a = b,
         a.computed >= a.prefill
  PROVE  b.computed >= b.prefill
BY DEF Lags, RowType

\* The sampling steps that are left when the oldest step has been processed.
LEMMA TailSampling ==
  ASSUME Base, Base', FitSteps, NEW accepted, NEW given, NEW eos,
         Outcome(accepted, given, eos), NEW r \in Reqs
  PROVE  /\ Len(steps') = Len(steps) - 1
         /\ \A j \in SamplingSteps(r)' : j + 1 \in SamplingSteps(r) /\ j \in Int
<1> DEFINE k == TakenBack(accepted, r)
           g == Forecast(r)
           h == Forecast(r)'
           ss == steps
           tt == steps'
           w == worker[r]
           v == worker'[r]
           C == CurrentSteps(r)
           D == CurrentSteps(r)'
<1>1. ss # <<>> /\ tt = Tail(ss)
  BY ProcessedIs
<1>2. StepsTyped(ss) /\ Follows(g, w, ss, r)
  BY ForecastIs
<1>3. StepsTyped(tt) /\ v \in RowType /\ Follows(h, v, tt, r)
  BY ForecastNext
<1>4. k \in Nat /\ Lags(v, g[1], k)
  BY OutputLags
<1>5. D = Earlier(C \ {1}) /\ C \subseteq 1..Len(ss) /\ Len(ss) \in Nat
  BY <1>1, TailSteps, StepsFacts
<1>6. SamplingSteps(r)' = {j \in D : h[j].computed >= h[j].prefill}
      /\ SamplingSteps(r) = {j \in C : g[j].computed >= g[j].prefill}
  BY DEF SamplingSteps
<1> HIDE DEF k, g, h, ss, tt, w, v, C, D
<1>7. k \in Int
  BY <1>4
<1>8. /\ Len(tt) = Len(ss) - 1
      /\ \A j \in 0..Len(tt) : LagsOrSame(ss, r, j + 1, h[j], g[j + 1], k)
  BY <1>1, <1>2, <1>3, <1>4, <1>7, FollowsTail
<1>9. ASSUME NEW j \in SamplingSteps(r)' PROVE j + 1 \in SamplingSteps(r) /\ j \in Int
  <2>1. PICK i \in C \ {1} : j = i - 1
    BY <1>5, <1>6 DEF Earlier
  <2>2. /\ j + 1 = i /\ j + 1 \in C /\ j \in Int /\ j \in 0..Len(tt) /\ j + 1 \in 0..Len(ss)
    BY <1>5, <1>8, <2>1
  <2>3. Lags(h[j], g[j + 1], k) \/ h[j] = g[j + 1]
    BY <1>8, <2>2 DEF LagsOrSame
  <2>4. h[j] \in RowType /\ g[j + 1] \in RowType /\ h[j].computed >= h[j].prefill
    BY <1>2, <1>3, <1>6, <2>2 DEF Follows
  <2>5. g[j + 1].computed >= g[j + 1].prefill
    BY <1>4, <2>3, <2>4, LagsSample
  <2> QED
    BY <1>6, <2>2, <2>5
<1> QED
  BY <1>8, <1>9 DEF ss, tt

\* Processing a step keeps the distance of those left.
LEMMA OutputCooled ==
  ASSUME Base, Base', FitSteps, Cooleds, ProcessOldest
  PROVE  Cooleds'
<1> SUFFICES ASSUME NEW r \in Reqs PROVE Cooled(r)'
  BY DEF Cooleds
<1> DEFINE S == SamplingSteps(r)
           U == SamplingSteps(r)'
           P == PPSize
           c == req[r].cool
           e == req'[r].cool
           L == Len(steps)
           M == Len(steps')
<1>1. PICK accepted, given, eos : Outcome(accepted, given, eos)
  BY OutcomeExists
<1>2. /\ DOMAIN loop.n = {} /\ DOMAIN loop.fresh = {} /\ loop' = loop
      /\ Settled /\ Settled' /\ steps # <<>>
      /\ \/ r \notin OldestRows /\ UNCHANGED <<req[r], out[r], worker[r]>>
         \/ r \in OldestRows /\ req[r].status = "finished" /\ req'[r] = req[r]
         \/ r \in OldestRows /\ EndsWith(given, eos, r) /\ req'[r] = Closed
         \/ /\ r \in OldestRows /\ ~EndsWith(given, eos, r) /\ req[r].status # "finished"
            /\ req'[r] = AfterOutput(accepted, given, r)
  BY <1>1, ProcessedIs
<1>3. M = L - 1 /\ \A j \in U : j + 1 \in S /\ j \in Int
  BY <1>1, TailSampling
<1>4. L \in Nat /\ S \subseteq 1..L /\ P \in Nat /\ c \in 0..P
  BY SamplingIs
<1>5. /\ \A j, k \in S : j < k => k - j >= P
      /\ req[r].status = "running" => \A j \in S : c >= P - (L - j) - 0
  BY <1>2 DEF Cooleds, Cooled, Waits
<1>6. req'[r].status = "running" => req[r].status = "running" /\ e = c
  <2>1. CASE r \in OldestRows /\ req'[r] = AfterOutput(accepted, given, r)
    BY <1>1, <2>1, AfterOutputType
  <2>2. CASE req'[r] = Closed
    BY <2>2 DEF Closed, NewRequest
  <2> QED
    BY <1>2, <2>1, <2>2
<1> HIDE DEF S, U, P, c, e, L, M
<1>7. ASSUME NEW j \in U, NEW k \in U, j < k PROVE k - j >= P
  <2>1. j + 1 \in S /\ k + 1 \in S /\ j \in Int /\ k \in Int /\ j + 1 < k + 1
    BY <1>3, <1>7
  <2>2. (k + 1) - (j + 1) >= P
    BY <1>5, <2>1
  <2> QED
    BY <1>4, <2>1, <2>2
<1>8. ASSUME req'[r].status = "running", NEW j \in U PROVE e >= P - (M - j) - 0
  <2>1. c >= P - (L - (j + 1)) - 0 /\ e = c /\ j \in Int
    BY <1>3, <1>5, <1>6, <1>8
  <2>2. M - j = L - (j + 1)
    BY <1>3, <1>4, <2>1
  <2> QED
    BY <2>1, <2>2
<1> QED
  BY <1>2, <1>7, <1>8 DEF Cooled, Waits, U, P, e, M

\* Every step keeps the cadence.
LEMMA CooledStep ==
  ASSUME PaddedRowsFit, Counting, Cooleds, [Next]_vars
  PROVE  Cooleds'
<1>1. Base /\ FitSteps
  BY DEF Counting
<1>2. Base' /\ Counteds'
  BY CountingStep DEF Counting
<1> QED
  BY <1>1, <1>2, QuietSteps, QuietCooled, UpdateCooled, OutputCooled

\* Two steps that sample for a request are a pipeline's depth apart.
THEOREM CadenceHolds == ASSUME PaddedRowsFit PROVE Spec => []DecodesApart
<1>1. Init => Counting /\ Cooleds
  BY CountingInit, CooledInit
<1>2. (Counting /\ Cooleds) /\ [Next]_vars => (Counting /\ Cooleds)'
  BY CountingStep, CooledStep
<1>3. Counting /\ Cooleds => DecodesApart
  <2> SUFFICES ASSUME Counting, Cooleds, NEW r \in Elements(running)
               PROVE  \A j, k \in SamplingSteps(r) : j < k => k - j >= PPSize
    BY DEF DecodesApart
  <2>1. r \in Reqs
    BY RunningSet DEF Counting
  <2> QED
    BY <2>1 DEF Cooleds, Cooled
<1> QED
  BY <1>1, <1>2, <1>3, PTL DEF Spec
=============================================================================
