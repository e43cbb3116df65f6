--------------------------- MODULE PPRanks_proofs ---------------------------
(***************************************************************************)
(* Proofs about PPRanks, for every pipeline depth, number of rows, draft   *)
(* length, request shape and generation-counter width allowed by           *)
(* PPRanksAssumption, in both mirror modes.                                *)
(*                                                                         *)
(* Types need no scheduling assumption.  The agreement of the ranks needs  *)
(* the cadence (Cadence) and a mask that keeps every sampled row           *)
(* (~DropFinishing); PPRanks_exact and PPRanks_mask are the runs that show *)
(* what is left without them.  The deferred align decision needs the mask  *)
(* only.                                                                   *)
(***************************************************************************)
EXTENDS PPRanks, WellFoundedInduction, TLAPS

\* What the types of the counts rest on: a query is longer than its drafts.
TypeInv == TypeOK /\ \A r \in batch : drafts[r] < qlen[r]

-----------------------------------------------------------------------------
(* Generation counters.                                                    *)

\* One free makes an entry one generation older, as long as the counter has
\* not gone all the way round; an entry of age zero is the only valid one.
LEMMA AgeNext ==
  ASSUME NEW g \in 0..(GenMod - 1), NEW h \in 0..(GenMod - 1)
  PROVE  /\ NextGen(h) \in 0..(GenMod - 1)
         /\ Age(g, h) \in Nat
         /\ Age(g, h) = 0 <=> g = h
         /\ Age(g, h) + 1 < GenMod => Age(g, NextGen(h)) = Age(g, h) + 1
BY PPRanksAssumption DEF NextGen, Age

-----------------------------------------------------------------------------
(* Types.                                                                  *)

\* The types of one row and of one queue slot.
LEMMA RowTypes ==
  ASSUME TypeOK, NEW r \in Rows
  PROVE  /\ qlen[r] \in Nat /\ drafts[r] \in Nat /\ cpu[r] \in Nat
         /\ truth[r] \in Nat /\ tok[r] \in Nat /\ acc[r] \in Nat
         /\ mirror[r] \in Int /\ mTok[r] \in Nat /\ mAcc[r] \in Nat
         /\ gen[r] \in 0..(GenMod - 1)
         /\ cool[r] \in 0..Depth
         /\ lastStep[r].rej \in Nat /\ lastStep[r].floor \in Nat
         /\ Prefill(r) \in Nat
BY DEF TypeOK, Prefill

LEMMA SlotTypes ==
  ASSUME TypeOK, NEW j \in 1..Depth
  PROVE  /\ queue[j] \in [rows : SUBSET Rows, rej : [Rows -> Nat],
                          tok : [Rows -> Nat], acc : [Rows -> Nat],
                          gen : [Rows -> 0..(GenMod - 1)], after : [Rows -> Nat]]
         /\ queue[j].rows \subseteq Rows
         /\ \A r \in Rows :
              /\ queue[j].rej[r] \in Nat /\ queue[j].tok[r] \in Nat
              /\ queue[j].acc[r] \in Nat /\ queue[j].after[r] \in Nat
              /\ queue[j].gen[r] \in 0..(GenMod - 1)
<1>1. queue[j] \in [rows : SUBSET Rows, rej : [Rows -> Nat],
                   tok : [Rows -> Nat], acc : [Rows -> Nat],
                   gen : [Rows -> 0..(GenMod - 1)], after : [Rows -> Nat]]
  BY DEF TypeOK
<1> QED
  BY <1>1

LEMMA TypeInit == Init => TypeInv
BY PPRanksAssumption DEF Init, TypeInv, TypeOK, Zero, NoStep, NoRecv

\* The head of execute_model keeps the types, whatever the scheduler picks.
LEMMA TypeExecute ==
  ASSUME TypeInv,
         NEW gone \in SUBSET live, NEW started \in SUBSET Rows,
         NEW run \in SUBSET Rows,
         NEW new \in [started -> [shape : Shapes, computed : Hits]],
         NEW n \in [run -> 1..MaxQuery], NEW lag \in SUBSET run,
         Schedulable(gone, new, n, lag),
         ExecuteModel(gone, new, n, lag)
  PROVE  TypeInv'
<1>1. DOMAIN new = started /\ DOMAIN n = run
  OBVIOUS
<1>2. \A r \in started : new[r].shape \in (Nat \ {0}) \X Nat /\ new[r].computed \in Nat
  BY PPRanksAssumption
<1>3. \A r \in run : n[r] \in Nat /\ n[r] >= 1
  BY PPRanksAssumption
<1>4. 1 \in 1..Depth /\ Depth \in 1..Depth /\ slot \in 0..(Depth - 1)
  BY PPRanksAssumption DEF TypeInv, TypeOK
<1>t. TypeOK
  BY DEF TypeInv
<1>e. \A j \in {1, Depth} : \A r \in Rows :
        /\ queue[j].rej[r] \in Nat /\ queue[j].tok[r] \in Nat
        /\ queue[j].acc[r] \in Nat /\ queue[j].after[r] \in Nat
  BY <1>t, <1>4, SlotTypes
<1>5. /\ phase' = "forward" /\ batch' = run
      /\ slot' = NextSlot
      /\ queue' = Shifted /\ ring' = RingAtHead
  BY <1>1 DEF ExecuteModel
<1>6. phase' \in {"idle", "forward"} /\ slot' \in 0..(Depth - 1)
  BY <1>4, <1>5, PPRanksAssumption DEF NextSlot
<1>7. live' \subseteq Rows /\ batch' \subseteq live'
  BY <1>1 DEF TypeInv, TypeOK, ExecuteModel, Schedulable
<1>8. shape' \in [Rows -> (Nat \ {0}) \X Nat]
  BY <1>1, <1>2 DEF TypeInv, TypeOK, ExecuteModel
<1>9. qlen' \in [Rows -> Nat] /\ drafts' \in [Rows -> Nat]
      /\ \A r \in batch' : drafts'[r] < qlen'[r]
  <2>1. qlen' = [r \in Rows |-> IF r \in run THEN n[r] ELSE 0]
    BY <1>1 DEF ExecuteModel
  <2>2. drafts' \in [Rows -> Nat] /\ \A r \in run : drafts'[r] < n[r]
    BY <1>1, <1>3 DEF ExecuteModel
  <2> QED
    BY <1>3, <1>5, <2>1, <2>2
<1>10. truth' \in [Rows -> Nat] /\ tok' \in [Rows -> Nat] /\ acc' \in [Rows -> Nat]
  <2>1. truth' = [r \in Rows |-> IF r \in started THEN new[r].computed
                                 ELSE IF r \in gone THEN 0 ELSE truth[r]]
    BY <1>1 DEF ExecuteModel
  <2>2. tok' = [r \in Rows |-> IF r \in started \cup gone THEN 0 ELSE tok[r]]
    BY <1>1 DEF ExecuteModel
  <2>3. acc' = [r \in Rows |-> IF r \in started \cup gone THEN 1 ELSE acc[r]]
    BY <1>1 DEF ExecuteModel
  <2> QED
    BY <1>2, <2>1, <2>2, <2>3 DEF TypeInv, TypeOK
<1>11. cpu' \in [Rows -> Nat]
  <2>1. cpu' = [r \in Rows |->
                 IF r \notin run THEN 0
                 ELSE IF r \in lag THEN truth[r] + lastStep[r].rej
                 ELSE IF r \in started THEN new[r].computed
                 ELSE IF r \in gone THEN 0 ELSE truth[r]]
    BY <1>1 DEF ExecuteModel
  <2>2. \A r \in Rows : truth[r] \in Nat /\ lastStep[r].rej \in Nat
    BY DEF TypeInv, TypeOK
  <2>3. \A r \in Rows : truth[r] + lastStep[r].rej \in Nat
    BY <2>2
  <2> QED
    BY <1>2, <2>1, <2>2, <2>3
<1>12. \A r \in Rows : MirrorPopped[r] \in Int
  <2> SUFFICES ASSUME NEW r \in Rows PROVE MirrorPopped[r] \in Int
    OBVIOUS
  <2>1. mirror[r] \in Int /\ queue[1].rej[r] \in Nat /\ queue[Depth].rej[r] \in Nat
    BY <1>e DEF TypeInv, TypeOK
  <2>2. MirrorPeeked[r] \in Int
    BY <2>1 DEF MirrorPeeked
  <2> QED
    BY <2>1, <2>2 DEF MirrorPopped
<1>13. mirror' \in [Rows -> Int]
  BY <1>1, <1>2, <1>12 DEF ExecuteModel
<1>14. mTok' \in [Rows -> Nat] /\ mAcc' \in [Rows -> Nat]
  <2>1. mTok' = [r \in Rows |-> IF r \in started \cup gone THEN 0
                  ELSE IF r \in ValidRows(queue[1]) THEN queue[1].tok[r] ELSE mTok[r]]
    BY <1>1 DEF ExecuteModel
  <2>2. mAcc' = [r \in Rows |-> IF r \in started \cup gone THEN 1
                  ELSE IF r \in ValidRows(queue[1]) THEN queue[1].acc[r] ELSE mAcc[r]]
    BY <1>1 DEF ExecuteModel
  <2> QED
    BY <1>e, <2>1, <2>2 DEF TypeInv, TypeOK
<1>15. gen' \in [Rows -> 0..(GenMod - 1)]
  BY AgeNext DEF TypeInv, TypeOK, ExecuteModel
<1>16. queue' \in [1..Depth ->
         [rows : SUBSET Rows, rej : [Rows -> Nat], tok : [Rows -> Nat],
          acc : [Rows -> Nat], gen : [Rows -> 0..(GenMod - 1)],
          after : [Rows -> Nat]]]
  <2>1. NoRecv \in
         [rows : SUBSET Rows, rej : [Rows -> Nat], tok : [Rows -> Nat],
          acc : [Rows -> Nat], gen : [Rows -> 0..(GenMod - 1)],
          after : [Rows -> Nat]]
    BY PPRanksAssumption DEF NoRecv, Zero
  <2>2. \A j \in 1..Depth : j < Depth => j + 1 \in 1..Depth
    BY PPRanksAssumption
  <2> QED
    BY <1>5, <2>1, <2>2 DEF TypeInv, TypeOK, Shifted
<1>17. ring' \in [0..(Depth - 1) -> [Rows -> Int]]
  <2>1. \A s \in 0..(Depth - 1) : RingAtHead[s] \in [Rows -> Int]
    <3> SUFFICES ASSUME NEW s \in 0..(Depth - 1)
                 PROVE  RingAtHead[s] \in [Rows -> Int]
      OBVIOUS
    <3>1. ring[s] \in [Rows -> Int] /\ ring[slot] \in [Rows -> Int]
      BY <1>4 DEF TypeInv, TypeOK
    <3>2. \A r \in Rows : /\ ring[s][r] - queue[Depth].rej[r] \in Int
                          /\ ring[s][r] - 0 \in Int
      BY <1>e, <3>1
    <3> QED
      BY <3>1, <3>2 DEF RingAtHead, Zero
  <2>2. RingAtHead = [s \in 0..(Depth - 1) |-> RingAtHead[s]]
    BY DEF RingAtHead
  <2> QED
    BY <1>5, <2>1, <2>2
<1>18. owed' \in [Rows -> Nat]
  <2>1. owed' = [r \in Rows |-> IF r \in ValidRows(queue[1])
                                THEN queue[1].after[r] ELSE 0]
    BY DEF ExecuteModel
  <2> QED
    BY <1>e, <2>1
<1>19. cool' \in [Rows -> 0..Depth]
  <2>1. cool' = [r \in Rows |-> IF r \in started \cup gone \/ cool[r] = 0
                                THEN 0 ELSE cool[r] - 1]
    BY <1>1 DEF ExecuteModel
  <2>2. \A r \in Rows : cool[r] # 0 => cool[r] - 1 \in 0..Depth
    BY <1>t, RowTypes, PPRanksAssumption
  <2>3. 0 \in 0..Depth
    BY PPRanksAssumption
  <2> QED
    BY <2>1, <2>2, <2>3
<1>20. lastStep' \in [Rows -> [rej : Nat, floor : Nat]]
  <2>1. lastStep' = [r \in Rows |-> IF r \in started \cup gone \/ cool[r] <= 1
                                    THEN NoStep ELSE lastStep[r]]
    BY <1>1 DEF ExecuteModel
  <2> QED
    BY <2>1 DEF TypeInv, TypeOK, NoStep
<1> QED
  BY <1>6, <1>7, <1>8, <1>9, <1>10, <1>11, <1>13, <1>14, <1>15, <1>16,
     <1>17, <1>18, <1>19, <1>20
  DEF TypeInv, TypeOK

\* sample_tokens keeps the types, whatever the target model accepts.
LEMMA TypeSample ==
  ASSUME TypeInv,
         NEW accepted \in [Rows -> 0..NumSpec],
         \A r \in Rows : accepted[r] <= drafts[r],
         SampleTokens(accepted)
  PROVE  TypeInv'
<1> DEFINE sampling == {r \in batch : truth[r] + qlen[r] >= Prefill(r)}
           Rej(r)   == IF r \in sampling THEN drafts[r] - accepted[r] ELSE 0
           After(r) == IF r \in batch THEN truth[r] + qlen[r] - Rej(r) ELSE truth[r]
           Tok(r)   == IF r \in sampling THEN After(r) ELSE tok[r]
           Acc(r)   == IF r \in sampling THEN 1 + accepted[r] ELSE 1
<1>t. TypeOK /\ batch \subseteq Rows
  BY DEF TypeInv, TypeOK
<1>s. sampling \subseteq batch
  OBVIOUS
<1>1. \A r \in Rows : accepted[r] \in Nat
  BY PPRanksAssumption
<1>2. \A r \in Rows : Rej(r) \in Nat /\ Rej(r) <= drafts[r]
  BY <1>t, <1>1, RowTypes
<1>3. \A r \in Rows : After(r) \in Nat
  <2> SUFFICES ASSUME NEW r \in Rows PROVE After(r) \in Nat
    OBVIOUS
  <2>1. truth[r] \in Nat /\ qlen[r] \in Nat /\ drafts[r] \in Nat
        /\ Rej(r) \in Nat /\ Rej(r) <= drafts[r]
    BY <1>2, <1>t, RowTypes
  <2>2. r \in batch => drafts[r] < qlen[r]
    BY DEF TypeInv
  <2> HIDE DEF Rej
  <2> QED
    BY <2>1, <2>2
<1>4. \A r \in Rows : Tok(r) \in Nat /\ Acc(r) \in Nat
  BY <1>1, <1>3, <1>t, RowTypes
<1> HIDE DEF Rej, After, Tok, Acc
<1>5. Depth \in 1..Depth
  BY PPRanksAssumption
<1>6. truth' \in [Rows -> Nat] /\ tok' \in [Rows -> Nat] /\ acc' \in [Rows -> Nat]
  <2>1. truth' = [r \in Rows |-> After(r)] /\ tok' = [r \in Rows |-> Tok(r)]
        /\ acc' = [r \in Rows |-> IF r \in batch THEN Acc(r) ELSE acc[r]]
    BY DEF SampleTokens, Rej, After, Tok, Acc
  <2> QED
    BY <1>3, <1>4, <2>1 DEF TypeInv, TypeOK
<1>7. queue' \in [1..Depth ->
         [rows : SUBSET Rows, rej : [Rows -> Nat], tok : [Rows -> Nat],
          acc : [Rows -> Nat], gen : [Rows -> 0..(GenMod - 1)],
          after : [Rows -> Nat]]]
  <2> DEFINE need == NeedSampled
             entry ==
               [rows  |-> need,
                rej   |-> [r \in Rows |-> IF r \in need THEN Rej(r) ELSE 0],
                tok   |-> [r \in Rows |-> IF r \in need THEN Tok(r) ELSE 0],
                acc   |-> [r \in Rows |-> IF r \in need THEN Acc(r) ELSE 0],
                gen   |-> [r \in Rows |-> IF r \in need THEN gen[r] ELSE 0],
                after |-> [r \in Rows |-> IF r \in need THEN After(r) ELSE 0]]
  <2>1. queue' = IF need = {} THEN queue ELSE [queue EXCEPT ![Depth] = entry]
    BY DEF SampleTokens, Rej, After, Tok, Acc
  <2>2. need \in SUBSET Rows
    BY DEF NeedSampled, TypeInv, TypeOK
  <2>3. \A r \in Rows : gen[r] \in 0..(GenMod - 1) /\ 0 \in 0..(GenMod - 1)
    BY PPRanksAssumption DEF TypeInv, TypeOK
  <2> HIDE DEF need
  <2>4. entry \in
         [rows : SUBSET Rows, rej : [Rows -> Nat], tok : [Rows -> Nat],
          acc : [Rows -> Nat], gen : [Rows -> 0..(GenMod - 1)],
          after : [Rows -> Nat]]
    BY <1>2, <1>3, <1>4, <2>2, <2>3
  <2> HIDE DEF entry
  <2> QED
    BY <1>5, <2>1, <2>4 DEF TypeInv, TypeOK
<1>8. mirror' \in [Rows -> Int]
  <2>1. mirror' = [r \in Rows |-> mirror[r] + qlen[r]]
    BY DEF SampleTokens
  <2>2. \A r \in Rows : mirror[r] + qlen[r] \in Int
    BY <1>t, RowTypes
  <2> QED
    BY <2>1, <2>2
<1>9. ring' \in [0..(Depth - 1) -> [Rows -> Int]]
  <2>1. ring' = [ring EXCEPT ![slot] =
                   [r \in Rows |-> IF r \in batch THEN qlen[r] ELSE ring[slot][r]]]
    BY DEF SampleTokens, TypeInv, TypeOK
  <2>2. slot \in 0..(Depth - 1) /\ ring \in [0..(Depth - 1) -> [Rows -> Int]]
    BY <1>t DEF TypeOK
  <2>3. [r \in Rows |-> IF r \in batch THEN qlen[r] ELSE ring[slot][r]] \in [Rows -> Int]
    BY <2>2, <1>t, RowTypes
  <2> QED
    BY <2>1, <2>2, <2>3
<1>10. mAcc' \in [Rows -> Nat]
  BY DEF SampleTokens, TypeInv, TypeOK
<1>11. cool' \in [Rows -> 0..Depth]
  <2>1. cool' = [r \in Rows |-> IF r \in sampling THEN Depth ELSE cool[r]]
    BY DEF SampleTokens
  <2> QED
    BY <2>1, PPRanksAssumption DEF TypeInv, TypeOK
<1>12. lastStep' \in [Rows -> [rej : Nat, floor : Nat]]
  <2>1. lastStep' = [r \in Rows |-> IF r \in sampling
                       THEN [rej |-> Rej(r), floor |-> truth[r] + qlen[r] - drafts[r]]
                       ELSE lastStep[r]]
    BY DEF SampleTokens, Rej
  <2>2. \A r \in sampling : truth[r] + qlen[r] - drafts[r] \in Nat
    BY <1>t, <1>s, RowTypes DEF TypeInv
  <2> QED
    BY <1>2, <2>1, <2>2 DEF TypeInv, TypeOK
<1>13. batch' = {} /\ qlen' = Zero /\ drafts' = Zero /\ cpu' = Zero /\ owed' = Zero
       /\ phase' = "idle"
       /\ UNCHANGED <<live, shape, gen, mTok, slot>>
  BY DEF SampleTokens
<1> QED
  BY <1>6, <1>7, <1>8, <1>9, <1>10, <1>11, <1>12, <1>13
  DEF TypeInv, TypeOK, Zero

LEMMA TypeStep == TypeInv /\ [Next]_vars => TypeInv'
<1> SUFFICES ASSUME TypeInv, [Next]_vars PROVE TypeInv'
  OBVIOUS
<1>1. CASE \E gone \in SUBSET live, started \in SUBSET Rows, run \in SUBSET Rows :
             \E new \in [started -> [shape : Shapes, computed : Hits]],
                n \in [run -> 1..MaxQuery], lag \in SUBSET run :
               Schedulable(gone, new, n, lag) /\ ExecuteModel(gone, new, n, lag)
  BY <1>1, TypeExecute
<1>2. CASE EndEmptyStep
  BY <1>2 DEF EndEmptyStep, TypeInv, TypeOK, rankVars, schedVars, Zero
<1>3. CASE \E accepted \in [Rows -> 0..NumSpec] :
             (\A r \in Rows : accepted[r] <= drafts[r]) /\ SampleTokens(accepted)
  BY <1>3, TypeSample
<1>4. CASE UNCHANGED vars
  BY <1>4 DEF vars, rankVars, firstVars, batchVars, schedVars, TypeInv, TypeOK
<1> QED
  BY <1>1, <1>2, <1>3, <1>4 DEF Next

(***************************************************************************)
(* Every reachable state of the two ranks is well typed: in particular the *)
(* last rank's counts never go negative (a sampling step rejects fewer     *)
(* tokens than it ran), and a freed row's generation and the cadence stay  *)
(* in range.  No assumption on the cadence, the mirror mode or the mask.   *)
(***************************************************************************)
THEOREM TypeCorrect == Spec => []TypeOK
<1>1. Spec => []TypeInv
  BY TypeInit, TypeStep, PTL DEF Spec
<1>2. TypeInv => TypeOK
  BY DEF TypeInv
<1> QED
  BY <1>1, <1>2, PTL

-----------------------------------------------------------------------------
(* The ranks agree: the inductive invariant under the cadence.             *)

LEMMA RanksInit == Init => RanksInv
<1> SUFFICES ASSUME Init PROVE RanksInv
  OBVIOUS
<1>1. TypeOK
  BY TypeInit DEF TypeInv
<1>2. \A j \in 1..Depth : queue[j] = NoRecv /\ queue[j].rows = {}
  BY DEF Init, NoRecv
<1>3. \A j \in 1..Depth : \A r \in Rows : ~Pending(j, r)
  BY <1>2 DEF Pending, ValidRows
<1>4. AgeBounded /\ PendingWaits /\ PendingExact
  BY <1>2, <1>3 DEF AgeBounded, PendingWaits, PendingExact
<1>5. SettledExact /\ BatchSettled
  BY DEF Init, Zero, SettledExact, BatchSettled
<1> QED
  BY <1>1, <1>4, <1>5 DEF RanksInv

\* A row is corrected by one entry at most.
LEMMA OnePending ==
  ASSUME PendingWaits, NEW r \in Rows, NEW i \in 1..Depth, NEW j \in 1..Depth,
         Pending(i, r), Pending(j, r)
  PROVE  i = j
BY DEF PendingWaits

\* Only rows that hold a request have entries that correct them.
PendingLive == \A j \in 1..Depth : \A r \in Rows : Pending(j, r) => r \in live

\* What the head of execute_model does to the queue: every entry moves up one
\* slot, and a freed row's entries stop being valid.
LEMMA ExecuteQueue ==
  ASSUME TypeOK, AgeBounded, PendingLive,
         NEW gone \in SUBSET live,
         queue' = Shifted,
         gen' = [r \in Rows |-> IF r \in gone THEN NextGen(gen[r]) ELSE gen[r]]
  PROVE  /\ queue'[Depth] = NoRecv
         /\ AgeBounded'
         /\ \A j \in 1..Depth : \A r \in Rows :
              Pending(j, r)' <=> j < Depth /\ r \in live \ gone /\ Pending(j + 1, r)
<1> USE PPRanksAssumption
<1>1. TypeOK /\ AgeBounded /\ PendingLive
  OBVIOUS
<1>2. Depth \in 1..Depth /\ queue'[Depth] = NoRecv /\ queue'[Depth].rows = {}
  BY DEF Shifted, NoRecv
<1>3. \A j \in 1..Depth : j < Depth => j + 1 \in 1..Depth /\ queue'[j] = queue[j + 1]
  BY DEF Shifted
<1>4. \A j \in 1..Depth : \A r \in queue'[j].rows :
        /\ j < Depth /\ r \in Rows
        /\ r \in queue[j + 1].rows /\ queue'[j].gen[r] = queue[j + 1].gen[r]
        /\ Age(queue[j + 1].gen[r], gen[r]) \in Nat
        /\ Age(queue[j + 1].gen[r], gen[r]) <= Depth - (j + 1)
        /\ r \in gone => Age(queue[j + 1].gen[r], gen'[r]) =
                           Age(queue[j + 1].gen[r], gen[r]) + 1
        /\ r \notin gone => gen'[r] = gen[r]
  <2> SUFFICES ASSUME NEW j \in 1..Depth, NEW r \in queue'[j].rows
               PROVE  /\ j < Depth /\ r \in Rows
                      /\ r \in queue[j + 1].rows
                      /\ queue'[j].gen[r] = queue[j + 1].gen[r]
                      /\ Age(queue[j + 1].gen[r], gen[r]) \in Nat
                      /\ Age(queue[j + 1].gen[r], gen[r]) <= Depth - (j + 1)
                      /\ r \in gone => Age(queue[j + 1].gen[r], gen'[r]) =
                                         Age(queue[j + 1].gen[r], gen[r]) + 1
                      /\ r \notin gone => gen'[r] = gen[r]
    OBVIOUS
  <2>1. j < Depth /\ j + 1 \in 1..Depth /\ queue'[j] = queue[j + 1]
    BY <1>2, <1>3
  <2>2. r \in Rows /\ queue[j + 1].gen[r] \in 0..(GenMod - 1)
        /\ gen[r] \in 0..(GenMod - 1)
    BY <1>1, <2>1, SlotTypes, RowTypes
  <2>3. Age(queue[j + 1].gen[r], gen[r]) <= Depth - (j + 1)
        /\ Age(queue[j + 1].gen[r], gen[r]) \in Nat
    BY <1>1, <2>1, <2>2, AgeNext DEF AgeBounded
  <2>4. Age(queue[j + 1].gen[r], gen[r]) + 1 < GenMod
    BY <2>1, <2>3
  <2>5. r \in gone => gen'[r] = NextGen(gen[r])
    BY <2>2
  <2>6. r \notin gone => gen'[r] = gen[r]
    BY <2>2
  <2> QED
    BY <2>1, <2>2, <2>3, <2>4, <2>5, <2>6, AgeNext
<1>5. AgeBounded'
  <2> SUFFICES ASSUME NEW j \in 1..Depth, NEW r \in queue'[j].rows
               PROVE  Age(queue'[j].gen[r], gen'[r]) <= Depth - j
    BY DEF AgeBounded
  <2> QED
    BY <1>4
<1>6. ASSUME NEW j \in 1..Depth, NEW r \in Rows
      PROVE  Pending(j, r)' <=> j < Depth /\ r \in live \ gone /\ Pending(j + 1, r)
  <2>1. Pending(j, r)' <=> r \in queue'[j].rows /\ queue'[j].gen[r] = gen'[r]
    BY DEF Pending, ValidRows
  <2>2. j < Depth => (Pending(j + 1, r) <=>
                        r \in queue[j + 1].rows /\ queue[j + 1].gen[r] = gen[r])
    BY DEF Pending, ValidRows
  <2>3. j < Depth /\ Pending(j + 1, r) => r \in live
    BY <1>1, <1>3 DEF PendingLive
  <2>4. r \in gone /\ r \in queue'[j].rows => queue'[j].gen[r] # gen'[r]
    <3> SUFFICES ASSUME r \in gone, r \in queue'[j].rows
                 PROVE  queue'[j].gen[r] # gen'[r]
      OBVIOUS
    <3>1. j < Depth /\ j + 1 \in 1..Depth
      BY <1>3, <1>4
    <3>2. queue[j + 1].gen[r] \in 0..(GenMod - 1) /\ gen[r] \in 0..(GenMod - 1)
      BY <1>1, <3>1, SlotTypes, RowTypes
    <3>3. gen'[r] \in 0..(GenMod - 1)
      BY <3>2, AgeNext
    <3>4. Age(queue[j + 1].gen[r], gen'[r]) # 0
      <4>1. /\ Age(queue[j + 1].gen[r], gen[r]) \in Nat
            /\ Age(queue[j + 1].gen[r], gen'[r]) =
                 Age(queue[j + 1].gen[r], gen[r]) + 1
        BY <1>4
      <4> QED
        BY <4>1
    <3>5. queue[j + 1].gen[r] # gen'[r]
      BY <3>2, <3>3, <3>4, AgeNext
    <3> QED
      BY <1>4, <3>5
  <2>5. r \notin gone => gen'[r] = gen[r]
    OBVIOUS
  <2>6. j < Depth => queue'[j] = queue[j + 1]
    BY <1>3
  <2>7. ~(j < Depth) => r \notin queue'[j].rows
    BY <1>2
  <2> QED
    BY <2>1, <2>2, <2>3, <2>4, <2>5, <2>6, <2>7
<1> QED
  BY <1>2, <1>5, <1>6

\* The head of execute_model keeps the invariant when decodes wait for their
\* cadence: it consumes an entry exactly when its row may run again.
LEMMA RanksExecute ==
  ASSUME Cadence, RanksInv,
         NEW gone \in SUBSET live, NEW started \in SUBSET Rows,
         NEW run \in SUBSET Rows,
         NEW new \in [started -> [shape : Shapes, computed : Hits]],
         NEW n \in [run -> 1..MaxQuery], NEW lag \in SUBSET run,
         MayStop(gone, new), MayStart(new),
         Schedulable(gone, new, n, lag),
         ExecuteModel(gone, new, n, lag)
  PROVE  RanksInv'
<1> USE PPRanksAssumption
<1>1. TypeOK /\ AgeBounded /\ PendingWaits /\ PendingExact /\ SettledExact /\ BatchSettled
  BY DEF RanksInv
<1>2. TypeInv'
  <2>1. TypeInv
    <3>1. \A r \in batch : drafts[r] < qlen[r]
      BY <1>1 DEF BatchSettled
    <3> QED
      BY <1>1, <3>1 DEF TypeInv
  <2> QED
    BY <2>1, TypeExecute
<1>3. DOMAIN new = started /\ DOMAIN n = run
  OBVIOUS
<1>4. /\ phase' = "forward" /\ batch' = run
      /\ queue' = Shifted
      /\ gen' = [r \in Rows |-> IF r \in gone THEN NextGen(gen[r]) ELSE gen[r]]
      /\ live' = (live \ gone) \cup started
  BY <1>3 DEF ExecuteModel
<1>5. /\ queue'[Depth] = NoRecv
      /\ AgeBounded'
      /\ \A j \in 1..Depth : \A r \in Rows :
           Pending(j, r)' <=> j < Depth /\ r \in live \ gone /\ Pending(j + 1, r)
  <2>1. PendingLive
    BY <1>1 DEF PendingWaits, PendingLive
  <2> QED
    BY <1>1, <1>4, <2>1, ExecuteQueue
<1>6. /\ started \cap (live \ gone) = {}
      /\ run \subseteq (live \ gone) \cup started
      /\ started \subseteq run /\ lag \subseteq run \ started
  BY <1>3 DEF MayStop, Schedulable
<1>7. /\ 1 \in 1..Depth /\ Depth \in 1..Depth /\ Depth # 1
      /\ \A j \in 1..Depth : j < Depth => j + 1 \in 1..Depth /\ queue'[j] = queue[j + 1]
  BY <1>4 DEF Shifted
\* A row that holds on to its request.
<1>8. ASSUME NEW r \in Rows, r \notin started, r \notin gone
      PROVE  /\ truth'[r] = truth[r] /\ tok'[r] = tok[r] /\ acc'[r] = acc[r]
             /\ shape'[r] = shape[r] /\ Prefill(r)' = Prefill(r)
             /\ mirror'[r] = MirrorPopped[r]
             /\ mTok'[r] = IF r \in ValidRows(queue[1]) THEN queue[1].tok[r] ELSE mTok[r]
             /\ mAcc'[r] = IF r \in ValidRows(queue[1]) THEN queue[1].acc[r] ELSE mAcc[r]
             /\ cool'[r] = IF cool[r] = 0 THEN 0 ELSE cool[r] - 1
  BY <1>3, <1>8 DEF ExecuteModel, Prefill
\* A row that starts one.
<1>9. ASSUME NEW r \in started
      PROVE  /\ truth'[r] = new[r].computed /\ tok'[r] = 0 /\ acc'[r] = 1
             /\ mirror'[r] = new[r].computed /\ mTok'[r] = 0 /\ mAcc'[r] = 1
             /\ Prefill(r)' = new[r].shape[1]
  BY <1>3 DEF ExecuteModel, Prefill
\* The pop and, in exact-mirror mode, the peek.
<1>10. ASSUME NEW r \in Rows
       PROVE  MirrorPopped[r] =
                mirror[r]
                - (IF ExactMirror /\ Pending(Depth, r) THEN queue[Depth].rej[r] ELSE 0)
                - (IF ~ExactMirror /\ Pending(1, r) THEN queue[1].rej[r] ELSE 0)
  BY DEF MirrorPopped, MirrorPeeked, Peeked, Pending
<1>11. PendingWaits'
  <2> SUFFICES ASSUME NEW j \in 1..Depth, NEW r \in Rows, Pending(j, r)'
               PROVE  r \in live' /\ Decoding(r)' /\ cool'[r] = j
    BY DEF PendingWaits
  <2>1. j < Depth /\ r \in live \ gone /\ Pending(j + 1, r) /\ r \notin started
    BY <1>5, <1>6
  <2>2. Decoding(r) /\ cool[r] = j + 1
    BY <1>1, <1>7, <2>1 DEF PendingWaits
  <2>3. r \in live'
    BY <1>4, <2>1
  <2>4. Decoding(r)'
    BY <1>8, <2>1, <2>2 DEF Decoding
  <2>5. cool'[r] = j
    <3>1. cool'[r] = IF cool[r] = 0 THEN 0 ELSE cool[r] - 1
      BY <1>8, <2>1
    <3> QED
      BY <2>2, <3>1
  <2> QED
    BY <2>3, <2>4, <2>5
<1>12. PendingExact'
  <2> SUFFICES ASSUME NEW j \in 1..Depth, NEW r \in Rows, Pending(j, r)'
               PROVE  /\ queue'[j].tok[r] = tok'[r]
                      /\ queue'[j].acc[r] = acc'[r]
                      /\ mirror'[r] = truth'[r] +
                           (IF ExactMirror /\ j < Depth THEN 0 ELSE queue'[j].rej[r])
    BY DEF PendingExact
  <2>1. j < Depth /\ r \in live \ gone /\ Pending(j + 1, r) /\ r \notin started
    BY <1>5, <1>6
  <2>2. j + 1 \in 1..Depth /\ queue'[j] = queue[j + 1]
    BY <1>7, <2>1
  <2>3. /\ queue[j + 1].tok[r] = tok[r] /\ queue[j + 1].acc[r] = acc[r]
        /\ mirror[r] = truth[r] +
             (IF ExactMirror /\ j + 1 < Depth THEN 0 ELSE queue[j + 1].rej[r])
    BY <1>1, <2>1, <2>2 DEF PendingExact
  <2>4. ~Pending(1, r) /\ (Pending(Depth, r) <=> j + 1 = Depth)
    BY <1>1, <1>7, <2>1, <2>2, OnePending
  <2>5. truth[r] \in Nat /\ mirror[r] \in Int /\ queue[j + 1].rej[r] \in Nat
    BY <1>1, <2>2, RowTypes, SlotTypes
  <2>6. mirror'[r] = mirror[r] -
          (IF ExactMirror /\ j + 1 = Depth THEN queue[j + 1].rej[r] ELSE 0)
    BY <1>8, <1>10, <2>1, <2>4, <2>5
  <2>7. mirror'[r] = truth'[r] +
          (IF ExactMirror /\ j < Depth THEN 0 ELSE queue'[j].rej[r])
    BY <1>8, <2>1, <2>2, <2>3, <2>5, <2>6
  <2> QED
    BY <1>8, <2>1, <2>2, <2>3, <2>7
<1>13. SettledExact'
  <2> SUFFICES ASSUME NEW r \in live', Settled(r)'
               PROVE  mirror'[r] = truth'[r] /\ mTok'[r] = tok'[r] /\ mAcc'[r] = acc'[r]
    BY DEF SettledExact
  <2>1. CASE r \in started
    BY <1>9, <2>1
  <2>2. CASE r \notin started
    <3>1. r \in live /\ r \notin gone /\ r \in Rows
      BY <1>1, <1>4, <2>2 DEF TypeOK
    <3>2. \A j \in 1..Depth : j < Depth => ~Pending(j + 1, r)
      BY <1>5, <3>1 DEF Settled
    <3>3. ~Pending(Depth, r)
      <4>1. Depth - 1 \in 1..Depth /\ Depth - 1 < Depth /\ (Depth - 1) + 1 = Depth
        OBVIOUS
      <4> QED
        BY <3>2, <4>1
    <3>4. truth[r] \in Nat /\ mirror[r] \in Int /\ queue[1].rej[r] \in Nat
          /\ queue[Depth].rej[r] \in Nat
      BY <1>1, <1>7, <3>1, RowTypes, SlotTypes
    <3>5. CASE Pending(1, r)
      <4>1. /\ queue[1].tok[r] = tok[r] /\ queue[1].acc[r] = acc[r]
            /\ mirror[r] = truth[r] + (IF ExactMirror THEN 0 ELSE queue[1].rej[r])
        BY <1>1, <1>7, <3>1, <3>5 DEF PendingExact
      <4>2. mTok'[r] = tok'[r] /\ mAcc'[r] = acc'[r]
        BY <1>8, <2>2, <3>1, <3>5, <4>1 DEF Pending
      <4>3. mirror'[r] = truth'[r]
        BY <1>8, <1>10, <2>2, <3>1, <3>3, <3>4, <3>5, <4>1
      <4> QED
        BY <4>2, <4>3
    <3>6. CASE ~Pending(1, r)
      <4>1. Settled(r)
        <5> SUFFICES ASSUME NEW i \in 1..Depth PROVE ~Pending(i, r)
          BY DEF Settled
        <5>1. i # 1 => i - 1 \in 1..Depth /\ i - 1 < Depth /\ (i - 1) + 1 = i
          OBVIOUS
        <5> QED
          BY <3>2, <3>6, <5>1
      <4>2. mirror[r] = truth[r] /\ mTok[r] = tok[r] /\ mAcc[r] = acc[r]
        BY <1>1, <3>1, <4>1 DEF SettledExact
      <4>3. mTok'[r] = tok'[r] /\ mAcc'[r] = acc'[r]
        BY <1>8, <2>2, <3>1, <3>6, <4>2 DEF Pending
      <4>4. mirror'[r] = truth'[r]
        BY <1>8, <1>10, <2>2, <3>1, <3>3, <3>4, <3>6, <4>2
      <4> QED
        BY <4>3, <4>4
    <3> QED
      BY <3>5, <3>6
  <2> QED
    BY <2>1, <2>2
<1>14. BatchSettled'
  <2>1. qlen' = [r \in Rows |-> IF r \in run THEN n[r] ELSE 0]
    BY <1>3 DEF ExecuteModel
  <2>2. ASSUME NEW r \in run
        PROVE  /\ Settled(r)'
               /\ drafts'[r] < qlen'[r]
               /\ truth'[r] + qlen'[r] >= Prefill(r)' =>
                    truth'[r] + qlen'[r] - drafts'[r] >= Prefill(r)'
               /\ cpu'[r] >= truth'[r]
               /\ cpu'[r] # truth'[r] => Decoding(r)'
    <3>1. drafts'[r] < qlen'[r] /\ qlen'[r] = n[r] /\ n[r] \in Nat /\ n[r] >= 1
      BY <1>2, <1>4, <2>1 DEF TypeInv
    <3>2. CASE r \in started
      <4>1. Settled(r)'
        BY <1>5, <1>6, <3>2 DEF Settled
      <4>2. /\ new[r].computed \in Nat
            /\ new[r].shape[1] \in Nat /\ new[r].computed < new[r].shape[1]
        BY <1>3, <3>2 DEF MayStart
      <4>3. drafts'[r] = IF n[r] \in Padded(new[r]) THEN n[r] - 1 ELSE 0
        BY <1>3, <3>2 DEF ExecuteModel
      <4>4. n[r] \in Padded(new[r]) => new[r].computed + 1 >= new[r].shape[1]
        BY <4>2 DEF Padded, Left
      <4>5. cpu'[r] = truth'[r]
        BY <1>3, <1>6, <1>9, <3>2 DEF ExecuteModel
      <4>6. truth'[r] + qlen'[r] >= Prefill(r)' =>
              truth'[r] + qlen'[r] - drafts'[r] >= Prefill(r)'
        BY <1>9, <3>1, <3>2, <4>2, <4>3, <4>4
      <4> QED
        BY <1>9, <3>1, <3>2, <4>1, <4>2, <4>5, <4>6
    <3>3. CASE r \notin started
      <4>1. r \in live \ gone /\ MayRun(r, r \in lag)
        BY <1>3, <1>6, <3>3 DEF Schedulable
      <4>2. /\ truth[r] \in Nat /\ lastStep[r].rej \in Nat /\ Prefill(r) \in Nat
            /\ cool[r] \in 0..Depth
        BY <1>1, RowTypes
      <4>3. Settled(r)'
        <5> SUFFICES ASSUME NEW j \in 1..Depth, Pending(j, r)' PROVE FALSE
          BY DEF Settled
        <5>1. j < Depth /\ Pending(j + 1, r) /\ j + 1 \in 1..Depth
          BY <1>5, <1>7
        <5>2. Decoding(r) /\ cool[r] = j + 1
          BY <1>1, <5>1 DEF PendingWaits
        <5>3. cool[r] <= 1
          BY <4>1, <5>2 DEF MayRun
        <5> QED
          BY <5>2, <5>3
      <4>4. drafts'[r] = IF Decoding(r) THEN n[r] - 1 ELSE 0
        BY <1>3, <3>3 DEF ExecuteModel
      <4>5. /\ truth'[r] = truth[r] /\ Prefill(r)' = Prefill(r)
            /\ (Decoding(r)' <=> Decoding(r))
        BY <1>8, <3>3, <4>1 DEF Decoding
      <4>6. cpu'[r] = IF r \in lag THEN truth[r] + lastStep[r].rej ELSE truth[r]
        BY <1>3, <3>3, <4>1 DEF ExecuteModel
      <4>7. r \in lag => Decoding(r)
        BY <4>1 DEF MayRun
      <4>8. truth'[r] + qlen'[r] >= Prefill(r)' =>
              truth'[r] + qlen'[r] - drafts'[r] >= Prefill(r)'
        BY <3>1, <4>2, <4>4, <4>5 DEF Decoding
      <4> QED
        BY <3>1, <4>2, <4>3, <4>5, <4>6, <4>7, <4>8
    <3> QED
      BY <3>2, <3>3
  <2>3. \A r \in Rows : r \notin batch' => qlen'[r] = 0
    BY <1>4, <2>1
  <2> QED
    BY <1>4, <1>5, <2>2, <2>3 DEF BatchSettled
<1> QED
  BY <1>2, <1>5, <1>11, <1>12, <1>13, <1>14 DEF RanksInv, TypeInv

\* sample_tokens keeps the invariant when the mask keeps every sampled row: the
\* receive it enqueues is exactly what the first rank then lacks.
LEMMA RanksSample ==
  ASSUME ~DropFinishing, RanksInv,
         NEW accepted \in [Rows -> 0..NumSpec],
         \A r \in Rows : accepted[r] <= drafts[r],
         SampleTokens(accepted)
  PROVE  RanksInv'
<1> USE PPRanksAssumption
<1> DEFINE sampling == {r \in batch : truth[r] + qlen[r] >= Prefill(r)}
           Rej(r)   == IF r \in sampling THEN drafts[r] - accepted[r] ELSE 0
           After(r) == IF r \in batch THEN truth[r] + qlen[r] - Rej(r) ELSE truth[r]
           Tok(r)   == IF r \in sampling THEN After(r) ELSE tok[r]
           Acc(r)   == IF r \in sampling THEN 1 + accepted[r] ELSE 1
<1>1. /\ TypeOK /\ AgeBounded /\ PendingWaits /\ PendingExact /\ SettledExact
      /\ BatchSettled /\ Depth \in 1..Depth
  BY DEF RanksInv
<1>2. TypeInv'
  <2>1. \A r \in batch : drafts[r] < qlen[r]
    BY <1>1 DEF BatchSettled
  <2>2. TypeInv
    BY <1>1, <2>1 DEF TypeInv
  <2> QED
    BY <2>2, TypeSample
<1>3. ASSUME NEW r \in Rows
      PROVE  /\ truth[r] \in Nat /\ qlen[r] \in Nat /\ drafts[r] \in Nat
             /\ accepted[r] \in Nat /\ accepted[r] <= drafts[r]
             /\ cpu[r] \in Nat /\ Prefill(r) \in Nat /\ mirror[r] \in Int
             /\ Rej(r) \in Nat /\ Rej(r) <= drafts[r]
  BY <1>1, RowTypes
<1>4. NeedSampled = sampling /\ sampling \subseteq batch /\ batch \subseteq Rows
      /\ batch \subseteq live
  <2>1. batch \subseteq Rows /\ batch \subseteq live
    BY <1>1 DEF TypeOK
  <2>2. \A r \in batch : cpu[r] + qlen[r] >= Prefill(r) <=>
                         truth[r] + qlen[r] >= Prefill(r)
    <3> SUFFICES ASSUME NEW r \in batch
                 PROVE  cpu[r] + qlen[r] >= Prefill(r) <=>
                        truth[r] + qlen[r] >= Prefill(r)
      OBVIOUS
    <3>1. cpu[r] >= truth[r] /\ (cpu[r] # truth[r] => truth[r] >= Prefill(r))
      BY <1>1 DEF BatchSettled, Decoding
    <3> QED
      BY <1>3, <2>1, <3>1
  <2> QED
    BY <2>1, <2>2 DEF NeedSampled, ProducesSample
<1>5. /\ phase = "forward" /\ phase' = "idle" /\ batch' = {}
      /\ qlen' = Zero
      /\ live' = live /\ shape' = shape /\ gen' = gen /\ mTok' = mTok
      /\ truth' = [r \in Rows |-> After(r)]
      /\ tok' = [r \in Rows |-> Tok(r)]
      /\ acc' = [r \in Rows |-> IF r \in batch THEN Acc(r) ELSE acc[r]]
      /\ mirror' = [r \in Rows |-> mirror[r] + qlen[r]]
      /\ mAcc' = [r \in Rows |-> IF r \in batch /\ sampling # batch THEN 1 ELSE mAcc[r]]
      /\ cool' = [r \in Rows |-> IF r \in sampling THEN Depth ELSE cool[r]]
  BY <1>4 DEF SampleTokens
<1> DEFINE entry ==
      [rows  |-> sampling,
       rej   |-> [r \in Rows |-> IF r \in sampling THEN Rej(r) ELSE 0],
       tok   |-> [r \in Rows |-> IF r \in sampling THEN Tok(r) ELSE 0],
       acc   |-> [r \in Rows |-> IF r \in sampling THEN Acc(r) ELSE 0],
       gen   |-> [r \in Rows |-> IF r \in sampling THEN gen[r] ELSE 0],
       after |-> [r \in Rows |-> IF r \in sampling THEN After(r) ELSE 0]]
<1>6. queue' = IF sampling = {} THEN queue ELSE [queue EXCEPT ![Depth] = entry]
  BY <1>4 DEF SampleTokens
<1>7. queue[Depth] = NoRecv
  BY <1>1, <1>5 DEF BatchSettled
<1> HIDE DEF Rej, After, Tok, Acc
\* The receive, and the other entries.
<1>8. /\ \A j \in 1..Depth : j # Depth => queue'[j] = queue[j]
      /\ queue'[Depth].rows = sampling
      /\ \A r \in sampling :
           /\ queue'[Depth].rej[r] = Rej(r) /\ queue'[Depth].tok[r] = Tok(r)
           /\ queue'[Depth].acc[r] = Acc(r) /\ queue'[Depth].gen[r] = gen[r]
  <2>1. entry.rows = sampling
        /\ \A r \in sampling : /\ entry.rej[r] = Rej(r) /\ entry.tok[r] = Tok(r)
                               /\ entry.acc[r] = Acc(r) /\ entry.gen[r] = gen[r]
    BY <1>4
  <2> HIDE DEF entry
  <2>2. queue \in [1..Depth ->
       [rows : SUBSET Rows, rej : [Rows -> Nat], tok : [Rows -> Nat],
        acc : [Rows -> Nat], gen : [Rows -> 0..(GenMod - 1)],
        after : [Rows -> Nat]]]
    BY <1>1 DEF TypeOK
  <2>3. CASE sampling = {}
    BY <1>6, <1>7, <2>3 DEF NoRecv
  <2>4. CASE sampling # {}
    <3>1. queue' = [queue EXCEPT ![Depth] = entry]
      BY <1>6, <2>4
    <3>2. queue'[Depth] = entry /\ \A j \in 1..Depth : j # Depth => queue'[j] = queue[j]
      BY <1>1, <2>2, <3>1
    <3> QED
      BY <2>1, <3>2
  <2> QED
    BY <2>3, <2>4
<1> HIDE DEF entry
<1>9. \A j \in 1..Depth : \A r \in Rows :
        Pending(j, r)' <=> IF j = Depth THEN r \in sampling ELSE Pending(j, r)
  BY <1>5, <1>8 DEF Pending, ValidRows
<1>10. \A r \in batch : \A j \in 1..Depth : ~Pending(j, r)
  BY <1>1 DEF BatchSettled, Settled
<1>11. \A r \in Rows : r \notin batch => qlen[r] = 0 /\ After(r) = truth[r]
  BY <1>1 DEF BatchSettled, After
<1>12. AgeBounded'
  <2> SUFFICES ASSUME NEW j \in 1..Depth, NEW r \in queue'[j].rows
               PROVE  Age(queue'[j].gen[r], gen[r]) <= Depth - j
    BY <1>5 DEF AgeBounded
  <2>1. CASE j = Depth
    <3>1. r \in sampling /\ queue'[j].gen[r] = gen[r] /\ r \in Rows
      BY <1>4, <1>8, <2>1
    <3>2. gen[r] \in 0..(GenMod - 1)
      BY <1>1, <3>1, RowTypes
    <3>3. Age(gen[r], gen[r]) = 0
      BY <3>2, AgeNext
    <3> QED
      BY <2>1, <3>1, <3>3
  <2>2. CASE j # Depth
    BY <1>1, <1>8, <2>2 DEF AgeBounded
  <2> QED
    BY <2>1, <2>2
<1>13. PendingWaits'
  <2> SUFFICES ASSUME NEW j \in 1..Depth, NEW r \in Rows, Pending(j, r)'
               PROVE  r \in live' /\ Decoding(r)' /\ cool'[r] = j
    BY DEF PendingWaits
  <2>1. CASE j = Depth
    <3>1. r \in sampling /\ r \in batch
      BY <1>4, <1>9, <2>1
    <3>2. truth[r] + qlen[r] - drafts[r] >= Prefill(r)
      BY <1>1, <3>1 DEF BatchSettled
    <3>3. After(r) >= Prefill(r)
      BY <1>3, <3>1, <3>2 DEF After
    <3> QED
      BY <1>4, <1>5, <2>1, <3>1, <3>3 DEF Decoding, Prefill
  <2>2. CASE j # Depth
    <3>1. Pending(j, r) /\ r \notin batch
      BY <1>9, <1>10, <2>2
    <3>2. r \in live /\ Decoding(r) /\ cool[r] = j
      BY <1>1, <3>1 DEF PendingWaits
    <3> QED
      BY <1>4, <1>5, <1>11, <3>1, <3>2 DEF Decoding, Prefill
  <2> QED
    BY <2>1, <2>2
<1>14. PendingExact'
  <2> SUFFICES ASSUME NEW j \in 1..Depth, NEW r \in Rows, Pending(j, r)'
               PROVE  /\ queue'[j].tok[r] = tok'[r]
                      /\ queue'[j].acc[r] = acc'[r]
                      /\ mirror'[r] = truth'[r] +
                           (IF ExactMirror /\ j < Depth THEN 0 ELSE queue'[j].rej[r])
    BY DEF PendingExact
  <2>1. CASE j = Depth
    <3>1. r \in sampling /\ r \in batch /\ r \in live
      BY <1>4, <1>9, <2>1
    <3>2. Settled(r)
      BY <1>10, <3>1 DEF Settled
    <3>3. mirror[r] = truth[r]
      BY <1>1, <3>1, <3>2 DEF SettledExact
    <3>4. mirror'[r] = After(r) + Rej(r) /\ truth'[r] = After(r)
      BY <1>3, <1>5, <3>1, <3>3 DEF After
    <3>5. queue'[j].tok[r] = tok'[r] /\ queue'[j].acc[r] = acc'[r]
          /\ queue'[j].rej[r] = Rej(r)
      BY <1>5, <1>8, <2>1, <3>1
    <3> QED
      BY <2>1, <3>4, <3>5
  <2>2. CASE j # Depth
    <3>1. Pending(j, r) /\ r \notin batch /\ queue'[j] = queue[j]
      BY <1>8, <1>9, <1>10, <2>2
    <3>2. tok'[r] = tok[r] /\ acc'[r] = acc[r] /\ truth'[r] = truth[r]
      BY <1>4, <1>5, <1>11, <3>1 DEF Tok
    <3>3. mirror'[r] = mirror[r]
      BY <1>3, <1>5, <1>11, <3>1
    <3> QED
      BY <1>1, <3>1, <3>2, <3>3 DEF PendingExact
  <2> QED
    BY <2>1, <2>2
<1>15. SettledExact'
  <2> SUFFICES ASSUME NEW r \in live, Settled(r)'
               PROVE  mirror'[r] = truth'[r] /\ mTok'[r] = tok'[r] /\ mAcc'[r] = acc'[r]
    BY <1>5 DEF SettledExact
  <2>1. r \in Rows /\ r \notin sampling
    BY <1>1, <1>9 DEF TypeOK, Settled
  <2>2. Settled(r)
    <3>1. ~Pending(Depth, r)
      BY <1>7 DEF Pending, ValidRows, NoRecv
    <3> QED
      BY <1>9, <2>1, <3>1 DEF Settled
  <2>3. mirror[r] = truth[r] /\ mTok[r] = tok[r] /\ mAcc[r] = acc[r]
    BY <1>1, <2>2 DEF SettledExact
  <2>4. mTok'[r] = tok'[r]
    BY <1>5, <2>1, <2>3 DEF Tok
  <2>5. mirror'[r] = truth'[r]
    <3>1. After(r) = truth[r] + qlen[r]
      BY <1>3, <1>11, <2>1 DEF After, Rej
    <3> QED
      BY <1>5, <2>1, <2>3, <3>1
  <2>6. mAcc'[r] = acc'[r]
    <3>1. CASE r \in batch
      <4>1. sampling # batch /\ Acc(r) = 1
        BY <2>1, <3>1 DEF Acc
      <4> QED
        BY <1>5, <2>1, <3>1, <4>1
    <3>2. CASE r \notin batch
      BY <1>5, <2>1, <2>3, <3>2
    <3> QED
      BY <3>1, <3>2
  <2> QED
    BY <2>4, <2>5, <2>6
<1>16. BatchSettled'
  BY <1>5 DEF BatchSettled, Zero
<1> QED
  BY <1>2, <1>12, <1>13, <1>14, <1>15, <1>16 DEF RanksInv, TypeInv

LEMMA RanksStep ==
  ASSUME Cadence, ~DropFinishing
  PROVE  RanksInv /\ [Next]_vars => RanksInv'
<1> SUFFICES ASSUME RanksInv, [Next]_vars PROVE RanksInv'
  OBVIOUS
<1>1. CASE \E gone \in SUBSET live, started \in SUBSET Rows, run \in SUBSET Rows :
             \E new \in [started -> [shape : Shapes, computed : Hits]],
                n \in [run -> 1..MaxQuery], lag \in SUBSET run :
               /\ MayStop(gone, new)
               /\ MayStart(new)
               /\ Schedulable(gone, new, n, lag)
               /\ ExecuteModel(gone, new, n, lag)
  BY <1>1, RanksExecute
<1>2. CASE EndEmptyStep
  <2>1. TypeInv'
    BY <1>2, TypeStep DEF TypeInv, RanksInv, BatchSettled, Next
  <2> QED
    BY <1>2, <2>1
    DEF EndEmptyStep, RanksInv, TypeInv, rankVars, schedVars, AgeBounded, PendingWaits,
        PendingExact, SettledExact, BatchSettled, Pending, ValidRows, Settled,
        Decoding, Prefill
<1>3. CASE \E accepted \in [Rows -> 0..NumSpec] :
             (\A r \in Rows : accepted[r] <= drafts[r]) /\ SampleTokens(accepted)
  BY <1>3, RanksSample
<1>4. CASE UNCHANGED vars
  <2>1. TypeOK'
    BY <1>4, TypeStep DEF TypeInv, RanksInv, BatchSettled
  <2> QED
    BY <1>4, <2>1
    DEF vars, rankVars, firstVars, batchVars, schedVars, RanksInv, AgeBounded,
        PendingWaits, PendingExact, SettledExact, BatchSettled, Pending, ValidRows,
        Settled, Decoding, Prefill
<1> QED
  BY <1>1, <1>2, <1>3, <1>4 DEF Next

LEMMA RanksAlways ==
  ASSUME Cadence, ~DropFinishing
  PROVE  Spec => []RanksInv
BY RanksInit, RanksStep, PTL DEF Spec

\* In the forward pass every row of the batch is settled, so the ranks agree on it.
LEMMA SettledBatchAgrees ==
  RanksInv => PositionsAgree /\ TokensAgree /\ AcceptedAgree
<1> SUFFICES ASSUME RanksInv
             PROVE  \A r \in batch : mirror[r] = truth[r] /\ mTok[r] = tok[r]
                                     /\ mAcc[r] = acc[r]
  BY DEF PositionsAgree, TokensAgree, AcceptedAgree
<1> QED
  BY DEF RanksInv, SettledExact, BatchSettled, TypeOK

(***************************************************************************)
(* The inductive invariant: what is pending for a row is exactly what its  *)
(* first rank lacks, and it arrives in the step in which the cadence lets  *)
(* the row run again.                                                      *)
(***************************************************************************)
THEOREM RanksCorrect ==
  ASSUME Cadence, ~DropFinishing
  PROVE  Spec => []RanksInv
BY RanksAlways

(***************************************************************************)
(* With the cadence and the complete mask the first rank computes every    *)
(* scheduled token at the last rank's position, at any pipeline depth and  *)
(* in both mirror modes (postprocess_num_computed_tokens and               *)
(* update_pp_decode_requests).                                             *)
(***************************************************************************)
THEOREM PositionsCorrect ==
  ASSUME Cadence, ~DropFinishing
  PROVE  Spec => []PositionsAgree
BY RanksAlways, SettledBatchAgrees, PTL

(***************************************************************************)
(* With them the first rank feeds every decode the tokens that were        *)
(* sampled and drafted for it, never those of a step or a request before.  *)
(***************************************************************************)
THEOREM TokensCorrect ==
  ASSUME Cadence, ~DropFinishing
  PROVE  Spec => []TokensAgree
BY RanksAlways, SettledBatchAgrees, PTL

(***************************************************************************)
(* With them both ranks select the recurrent state of the same accepted    *)
(* token whenever a request runs.                                          *)
(***************************************************************************)
THEOREM AcceptedCorrect ==
  ASSUME Cadence, ~DropFinishing
  PROVE  Spec => []AcceptedAgree
BY RanksAlways, SettledBatchAgrees, PTL

-----------------------------------------------------------------------------
(* The deferred align decision: the sum over the ring takes the first      *)
(* rank's count back to what it was after the consumed step.               *)

\* The ring's slot of the step at place i of the last Depth steps, when slot n
\* is that of the last one.
SlotAt(n, i) == IF n + i >= Depth THEN (n + i) - Depth ELSE n + i

\* A set of numbers that is not empty has a least one.
LEMMA LeastNumber ==
  ASSUME NEW T \in SUBSET Nat, T # {}
  PROVE  \E x \in T : \A y \in T : x <= y
<1> DEFINE R == {p \in Nat \X Nat : p[1] < p[2]}
<1>1. IsWellFoundedOn(R, Nat)
  BY NatLessThanWellFounded, Zenon DEF OpToRel
<1>2. \A x, y \in Nat : y < x => <<y, x>> \in R
  OBVIOUS
<1> HIDE DEF R
<1>3. PICK x \in T : \A y \in T : ~(<<y, x>> \in R)
  BY <1>1, WFMin, Zenon
<1>4. \A y \in T : x \in Nat /\ y \in Nat /\ ~(y < x)
  BY <1>2, <1>3, Zenon
<1>5. \A y \in T : x <= y
  BY <1>4
<1> QED
  BY <1>5, Zenon

\* Two functions that add up the same numbers are equal.
LEMMA SumsEqual ==
  ASSUME NEW N \in Nat, NEW v \in [0..N -> Int], NEW e \in [0..N -> Int], NEW f,
         f = [s \in 0..N |-> (IF s = 0 THEN 0 ELSE f[s - 1]) + v[s]],
         e[0] = v[0], \A s \in 1..N : e[s] = e[s - 1] + v[s]
  PROVE  f[N] = e[N]
<1>1. f[0] = v[0] /\ \A s \in 1..N : f[s] = f[s - 1] + v[s]
  <2>1. \A s \in 0..N : f[s] = (IF s = 0 THEN 0 ELSE f[s - 1]) + v[s]
    <3> DEFINE X(s) == (IF s = 0 THEN 0 ELSE f[s - 1]) + v[s]
    <3>1. f = [s \in 0..N |-> X(s)]
      OBVIOUS
    <3> HIDE DEF X
    <3>2. \A s \in 0..N : f[s] = X(s)
      BY <3>1
    <3> QED
      BY <3>2 DEF X
  <2>2. 0 \in 0..N /\ v[0] \in Int
    OBVIOUS
  <2> QED
    BY <2>1, <2>2
<1> SUFFICES \A s \in 0..N : f[s] = e[s]
  OBVIOUS
<1> DEFINE T == {s \in 0..N : f[s] # e[s]}
<1> SUFFICES ASSUME T # {} PROVE FALSE
  OBVIOUS
<1>2. PICK x \in T : \A y \in T : x <= y
  <2>1. T \in SUBSET Nat
    OBVIOUS
  <2> QED
    BY <2>1, LeastNumber
<1>3. x # 0
  BY <1>1, <1>2
<1>4. x - 1 \in 0..N /\ x - 1 \notin T /\ x \in 1..N
  BY <1>2, <1>3
<1> QED
  BY <1>1, <1>2, <1>4

\* What Correction adds up, for any e that adds it up step by step.
LEMMA CorrectionSum ==
  ASSUME NEW rng \in [0..(Depth - 1) -> [Rows -> Int]], NEW r \in Rows,
         NEW e \in [0..(Depth - 1) -> Int],
         e[0] = rng[0][r],
         \A s \in 1..(Depth - 1) : e[s] = e[s - 1] + rng[s][r]
  PROVE  Correction(rng, r) = e[Depth - 1]
<1> DEFINE N == Depth - 1
           v == [s \in 0..N |-> rng[s][r]]
           F(f) == [s \in 0..N |-> (IF s = 0 THEN 0 ELSE f[s - 1]) + rng[s][r]]
           sum == CHOOSE f : f = F(f)
<1>0. N \in Nat
  BY PPRanksAssumption
<1>1. v \in [0..N -> Int]
  OBVIOUS
<1>2. e = F(e)
  <2>1. \A s \in 0..N : e[s] = F(e)[s]
    <3> SUFFICES ASSUME NEW s \in 0..N PROVE e[s] = (IF s = 0 THEN 0 ELSE e[s - 1]) + rng[s][r]
      OBVIOUS
    <3>1. rng[0][r] \in Int
      BY <1>0
    <3> QED
      BY <1>0, <3>1
  <2> QED
    BY <2>1
<1>3. sum = F(sum)
  BY <1>2
<1>4. Correction(rng, r) = sum[N]
  BY DEF Correction
<1> HIDE DEF sum
<1>5. sum = [s \in 0..N |-> (IF s = 0 THEN 0 ELSE sum[s - 1]) + v[s]]
  BY <1>3
<1>6. v[0] = e[0] /\ \A s \in 1..N : e[s] = e[s - 1] + v[s]
  BY <1>0
<1> HIDE DEF v, N
<1>7. sum[N] = e[N]
  BY <1>0, <1>1, <1>5, <1>6, SumsEqual DEF N
<1> QED
  BY <1>4, <1>7 DEF N

\* The ring's slots, oldest step first, are all its slots.
LEMMA RingSum ==
  ASSUME NEW rng \in [0..(Depth - 1) -> [Rows -> Int]], NEW r \in Rows,
         NEW n \in 0..(Depth - 1), NEW g \in [1..Depth -> Int],
         rng[SlotAt(n, 1)][r] = 0,
         \A j \in 2..Depth : g[j - 1] = g[j] - rng[SlotAt(n, j)][r]
  PROVE  Correction(rng, r) = g[Depth] - g[1]
<1> DEFINE base == IF n = Depth - 1 THEN g[1] ELSE g[(Depth - n) - 1]
           e == [s \in 0..(Depth - 1) |->
                   IF s <= n THEN g[s + (Depth - n)] - base
                   ELSE (g[Depth] - base) + (g[s - n] - g[1])]
<1>0. Depth \in Nat /\ Depth >= 2 /\ base \in Int
  BY PPRanksAssumption
<1> DEFINE w(s) == rng[s][r]
<1>w. \A s \in 0..(Depth - 1) : w(s) \in Int
  OBVIOUS
<1>g. \A j \in 1..Depth : g[j] \in Int
  OBVIOUS
<1>1. ASSUME NEW j \in 2..Depth, NEW s \in 0..(Depth - 1), s = SlotAt(n, j)
      PROVE  g[j - 1] = g[j] - w(s)
  BY <1>1
<1>2. ASSUME NEW s \in 0..(Depth - 1), s = SlotAt(n, 1) PROVE w(s) = 0
  BY <1>2
<1>3. e \in [0..(Depth - 1) -> Int]
  <2>1. \A s \in 0..(Depth - 1) : s <= n => s + (Depth - n) \in 1..Depth
    BY <1>0
  <2>2. \A s \in 0..(Depth - 1) : ~(s <= n) => s - n \in 1..Depth
    BY <1>0
  <2> HIDE DEF base
  <2> QED
    BY <1>0, <1>g, <2>1, <2>2
<1> HIDE DEF w
<1>4. e[0] = w(0)
  <2>1. e[0] = g[Depth - n] - base
    BY <1>0 DEF e
  <2>2. CASE n = Depth - 1
    <3>1. 0 = SlotAt(n, 1)
      BY <1>0, <2>2 DEF SlotAt
    <3>2. w(0) = 0 /\ base = g[1] /\ Depth - n = 1
      BY <1>0, <1>2, <2>2, <3>1
    <3> QED
      BY <1>0, <2>1, <3>2
  <2>3. CASE n # Depth - 1
    <3>1. Depth - n \in 2..Depth /\ 0 = SlotAt(n, Depth - n)
      BY <1>0, <2>3 DEF SlotAt
    <3>2. base = g[(Depth - n) - 1] /\ g[(Depth - n) - 1] = g[Depth - n] - w(0)
      BY <1>0, <1>1, <2>3, <3>1
    <3>3. g[Depth - n] \in Int /\ w(0) \in Int
      BY <1>0, <1>g, <1>w, <3>1
    <3> QED
      BY <2>1, <3>2, <3>3
  <2> QED
    BY <2>2, <2>3
<1>5. ASSUME NEW s \in 1..(Depth - 1) PROVE e[s] = e[s - 1] + w(s)
  <2>0. /\ s - 1 \in 0..(Depth - 1) /\ s \in 0..(Depth - 1) /\ w(s) \in Int
        /\ g[Depth] \in Int /\ g[1] \in Int
    BY <1>0, <1>w, <1>g
  <2>1. CASE s <= n
    <3>1. s + (Depth - n) \in 2..Depth /\ s = SlotAt(n, s + (Depth - n))
      BY <1>0, <2>1 DEF SlotAt
    <3>2. (s - 1) + (Depth - n) = (s + (Depth - n)) - 1
      BY <1>0
    <3>3. e[s] = g[s + (Depth - n)] - base /\ e[s - 1] = g[(s + (Depth - n)) - 1] - base
      BY <1>0, <2>0, <2>1, <3>2 DEF e
    <3> DEFINE j == s + (Depth - n)
    <3>4. g[j - 1] = g[j] - w(s)
      BY <1>1, <2>0, <3>1
    <3>5. g[j] \in Int
      BY <1>g, <3>1
    <3>6. e[s] = g[j] - base /\ e[s - 1] = g[j - 1] - base
      BY <3>3
    <3>7. g[j - 1] \in Int
      BY <1>g, <3>1
    <3> DEFINE X == g[j - 1]
               Y == g[j]
               Z == w(s)
               E == e[s]
               D == e[s - 1]
    <3>8. /\ X \in Int /\ Y \in Int /\ Z \in Int /\ base \in Int
          /\ X = Y - Z /\ E = Y - base /\ D = X - base
      BY <1>0, <2>0, <3>4, <3>5, <3>6, <3>7
    <3> HIDE DEF e, j, base, X, Y, Z, E, D
    <3>9. E = D + Z
      BY <3>8
    <3> QED
      BY <3>9 DEF E, D, Z
  <2>2. CASE s = n + 1
    <3>1. s = SlotAt(n, 1)
      BY <1>0, <2>2 DEF SlotAt
    <3>2. w(s) = 0
      BY <1>2, <2>0, <3>1
    <3>3. e[s] = (g[Depth] - base) + (g[1] - g[1]) /\ e[s - 1] = g[Depth] - base
      BY <1>0, <2>0, <2>2 DEF e
    <3> HIDE DEF e
    <3> QED
      BY <1>0, <2>0, <3>2, <3>3
  <2>3. CASE s > n + 1
    <3>1. s - n \in 2..Depth /\ s = SlotAt(n, s - n)
      BY <1>0, <2>3 DEF SlotAt
    <3>2. (s - 1) - n = (s - n) - 1
      BY <1>0
    <3>3. e[s] = (g[Depth] - base) + (g[s - n] - g[1])
          /\ e[s - 1] = (g[Depth] - base) + (g[(s - n) - 1] - g[1])
      BY <1>0, <2>0, <2>3, <3>2 DEF e
    <3> DEFINE j == s - n
    <3>4. g[j - 1] = g[j] - w(s)
      BY <1>1, <2>0, <3>1
    <3>5. g[j] \in Int
      BY <1>g, <3>1
    <3>6. e[s] = (g[Depth] - base) + (g[j] - g[1])
          /\ e[s - 1] = (g[Depth] - base) + (g[j - 1] - g[1])
      BY <3>3
    <3>7. g[j - 1] \in Int
      BY <1>g, <3>1
    <3> DEFINE X == g[j - 1]
               Y == g[j]
               Z == w(s)
               E == e[s]
               D == e[s - 1]
               F == g[1]
               L == g[Depth]
    <3>8. /\ X \in Int /\ Y \in Int /\ Z \in Int /\ base \in Int /\ F \in Int /\ L \in Int
          /\ X = Y - Z /\ E = (L - base) + (Y - F) /\ D = (L - base) + (X - F)
      BY <1>0, <2>0, <3>4, <3>5, <3>6, <3>7
    <3> HIDE DEF e, j, base, X, Y, Z, E, D, F, L
    <3>9. E = D + Z
      BY <3>8
    <3> QED
      BY <3>9 DEF E, D, Z
  <2> QED
    BY <1>0, <2>1, <2>2, <2>3
<1>6. e[Depth - 1] = g[Depth] - g[1]
  <2>0. Depth - 1 \in 0..(Depth - 1) /\ g[Depth] \in Int /\ g[1] \in Int
    BY <1>0, <1>g
  <2>1. CASE n = Depth - 1
    BY <1>0, <2>0, <2>1
  <2>2. CASE n # Depth - 1
    <3>1. e[Depth - 1] = (g[Depth] - base) + (g[(Depth - 1) - n] - g[1])
      BY <1>0, <2>0, <2>2
    <3>2. (Depth - 1) - n = (Depth - n) - 1 /\ base = g[(Depth - n) - 1]
      BY <1>0, <2>2
    <3> HIDE DEF e, base
    <3> QED
      BY <1>0, <2>0, <3>1, <3>2
  <2> QED
    BY <2>1, <2>2
<1> HIDE DEF e, base
<1> QED
  BY <1>0, <1>3, <1>4, <1>5, <1>6, CorrectionSum DEF w

-----------------------------------------------------------------------------
(* The count that an entry carries, in terms of the mirror and the ring.   *)

\* The rejections the entry at place j still brings for row r.
Rejected(j, r) == IF Pending(j, r) THEN queue[j].rej[r] ELSE 0

\* q: the rejections the mirror lacked after the step at each place, of that
\* step and of earlier ones.  The exact mirror lacks only those of the newest.
Lacks(r, q) ==
  \A j \in 1..Depth :
    q[j] = IF ExactMirror THEN (IF j = Depth THEN Rejected(j, r) ELSE 0)
           ELSE (IF j = 1 THEN 0 ELSE q[j - 1]) + Rejected(j, r)

\* g: the mirror without what later steps advanced it by; it is needed as far
\* back as the oldest entry of the row.
Traces(r, g) ==
  \A i, j \in 1..Depth :
    i < j /\ Pending(i, r) => g[j - 1] = g[j] - ring[SlotAt(slot, j)][r]

AlignedBy(r, g, q) ==
  /\ g \in [1..Depth -> Int] /\ q \in [1..Depth -> Int]
  /\ g[Depth] = mirror[r] /\ mirror[r] = truth[r] + q[Depth]
  /\ Lacks(r, q) /\ Traces(r, g)
  /\ \A j \in 1..Depth : Pending(j, r) => queue[j].after[r] = g[j] - q[j]

Aligned(r) == \E g, q : AlignedBy(r, g, q)

\* In the forward pass the step has neither an entry nor an advance yet, and
\* what the scheduler sent is never behind the last rank.
StepBegun ==
  /\ phase = "forward" => queue[Depth] = NoRecv /\ ring[slot] = Zero
  /\ \A r \in Rows : r \notin batch => qlen[r] = 0
  /\ \A r \in batch : cpu[r] >= truth[r]

AlignInv ==
  /\ TypeInv /\ AgeBounded /\ PendingLive /\ StepBegun /\ AlignExact
  /\ \A r \in Rows : Aligned(r)

LEMMA SlotPlaces ==
  ASSUME NEW n \in 0..(Depth - 1)
  PROVE  /\ SlotAt(n, Depth) = n
         /\ \A j \in 1..Depth : SlotAt(n, j) \in 0..(Depth - 1)
         /\ \A j \in 1..Depth : j # Depth => SlotAt(n, j) # n
         /\ \A j \in 2..Depth : SlotAt(n, j) # SlotAt(n, 1)
         /\ SlotAt(n, 1) = (IF n + 1 = Depth THEN 0 ELSE n + 1)
         /\ \A j \in 1..Depth : j # Depth =>
              SlotAt(IF n + 1 = Depth THEN 0 ELSE n + 1, j) = SlotAt(n, j + 1)
BY PPRanksAssumption DEF SlotAt

LEMMA AlignInit == Init => AlignInv
<1> SUFFICES ASSUME Init PROVE AlignInv
  OBVIOUS
<1>1. TypeInv
  BY TypeInit
<1>2. \A j \in 1..Depth : queue[j] = NoRecv /\ queue[j].rows = {}
  BY DEF Init, NoRecv
<1>3. \A j \in 1..Depth : \A r \in Rows : ~Pending(j, r)
  BY <1>2 DEF Pending, ValidRows
<1>4. AgeBounded /\ PendingLive /\ StepBegun /\ AlignExact
  BY <1>2, <1>3 DEF Init, Zero, AgeBounded, PendingLive, StepBegun, AlignExact
<1>5. ASSUME NEW r \in Rows PROVE Aligned(r)
  <2> DEFINE z == [j \in 1..Depth |-> 0]
  <2>1. mirror[r] = 0 /\ truth[r] = 0 /\ Depth \in 1..Depth
    BY PPRanksAssumption DEF Init, Zero
  <2>2. z \in [1..Depth -> Int] /\ \A j \in 1..Depth : z[j] = 0
    OBVIOUS
  <2> HIDE DEF z
  <2>3. Lacks(r, z)
    <3>1. \A j \in 1..Depth : j # 1 => j - 1 \in 1..Depth
      BY PPRanksAssumption
    <3> QED
      BY <1>3, <2>2, <3>1 DEF Lacks, Rejected
  <2>4. Traces(r, z)
    BY <1>3 DEF Traces
  <2> QED
    BY <1>3, <2>1, <2>2, <2>3, <2>4 DEF Aligned, AlignedBy
<1> QED
  BY <1>1, <1>4, <1>5 DEF AlignInv

-----------------------------------------------------------------------------
(* The head of execute_model.                                              *)

\* g with the newest entry's rejections folded in.
Folded(g, q) ==
  [j \in 1..Depth |-> g[j] - (IF ExactMirror /\ j = Depth THEN q[Depth] ELSE 0)]

\* The ring and the mirror once the newest entry is folded in.
LEMMA HeadTraces ==
  ASSUME TypeOK, NEW r \in Rows, NEW g, NEW q, AlignedBy(r, g, q),
         NEW h, h = Folded(g, q)
  PROVE  /\ RingAtHead \in [0..(Depth - 1) -> [Rows -> Int]]
         /\ NextSlot = SlotAt(slot, 1) /\ RingAtHead[NextSlot] = Zero
         /\ h \in [1..Depth -> Int] /\ h[Depth] = MirrorPeeked[r]
         /\ MirrorPopped[r] = h[Depth] - q[1]
         /\ \A i, j \in 1..Depth : i < j /\ Pending(i, r) =>
              h[j - 1] = h[j] - RingAtHead[SlotAt(slot, j)][r]
<1> USE DEF Folded
<1>0. Depth \in Nat /\ Depth >= 2 /\ slot \in 0..(Depth - 1)
  BY PPRanksAssumption DEF TypeOK
<1>1. /\ g \in [1..Depth -> Int] /\ q \in [1..Depth -> Int]
      /\ g[Depth] = mirror[r] /\ Lacks(r, q) /\ Traces(r, g)
  BY DEF AlignedBy
<1>2. /\ 1 \in 1..Depth /\ Depth \in 1..Depth /\ 1 # Depth
      /\ SlotAt(slot, Depth) = slot /\ NextSlot = SlotAt(slot, 1)
      /\ \A j \in 1..Depth : SlotAt(slot, j) \in 0..(Depth - 1)
  BY <1>0, SlotPlaces DEF NextSlot
<1>3. \A j \in 1..Depth : queue[j].rej[r] \in Nat
  BY SlotTypes
<1>4. q[1] = IF ~ExactMirror THEN Rejected(1, r) ELSE 0
  <2>1. Rejected(1, r) \in Int
    BY <1>2, <1>3 DEF Rejected
  <2> QED
    BY <1>1, <1>2, <2>1 DEF Lacks
<1>5. ExactMirror => q[Depth] = Rejected(Depth, r)
  BY <1>1, <1>2 DEF Lacks
<1>6. h \in [1..Depth -> Int]
  <2>1. \A j \in 1..Depth : g[j] \in Int /\ q[j] \in Int
    BY <1>1
  <2> QED
    BY <1>2, <2>1
<1>7. h[Depth] = MirrorPeeked[r]
  <2>1. MirrorPeeked[r] = mirror[r] - (IF r \in Peeked THEN queue[Depth].rej[r] ELSE 0)
    BY DEF MirrorPeeked
  <2>2. (IF r \in Peeked THEN queue[Depth].rej[r] ELSE 0)
          = (IF ExactMirror THEN Rejected(Depth, r) ELSE 0)
    BY DEF Peeked, Rejected, Pending
  <2> QED
    BY <1>1, <1>2, <1>5, <2>1, <2>2
<1>8. MirrorPopped[r] = h[Depth] - q[1]
  <2>1. MirrorPopped[r] = MirrorPeeked[r] -
          (IF ~ExactMirror /\ r \in ValidRows(queue[1]) THEN queue[1].rej[r] ELSE 0)
    BY DEF MirrorPopped
  <2> QED
    BY <1>4, <1>7, <2>1 DEF Rejected, Pending
<1>9. /\ RingAtHead \in [0..(Depth - 1) -> [Rows -> Int]]
      /\ RingAtHead[NextSlot] = Zero
      /\ \A j \in 2..Depth : RingAtHead[SlotAt(slot, j)][r] =
           ring[SlotAt(slot, j)][r] -
             (IF ExactMirror /\ j = Depth THEN Rejected(Depth, r) ELSE 0)
  <2>1. ring \in [0..(Depth - 1) -> [Rows -> Int]]
    BY DEF TypeOK
  <2>2. \A x \in Rows : queue[Depth].rej[x] \in Nat
    BY <1>2, SlotTypes
  <2>3. NextSlot \in 0..(Depth - 1)
    BY <1>2
  <2>4. RingAtHead \in [0..(Depth - 1) -> [Rows -> Int]] /\ RingAtHead[NextSlot] = Zero
    <3>1. ASSUME NEW s \in 0..(Depth - 1)
          PROVE  (IF s = NextSlot THEN Zero
                  ELSE IF s = slot
                       THEN [x \in Rows |-> ring[s][x] -
                               (IF x \in Peeked THEN queue[Depth].rej[x] ELSE 0)]
                       ELSE ring[s]) \in [Rows -> Int]
      BY <2>1, <2>2 DEF Zero
    <3> QED
      BY <2>3, <3>1 DEF RingAtHead
  <2>5. ASSUME NEW j \in 2..Depth
        PROVE  RingAtHead[SlotAt(slot, j)][r] = ring[SlotAt(slot, j)][r] -
                 (IF ExactMirror /\ j = Depth THEN Rejected(Depth, r) ELSE 0)
    <3> DEFINE s == SlotAt(slot, j)
    <3>1. s \in 0..(Depth - 1) /\ s # NextSlot /\ (s = slot <=> j = Depth)
      <4>1. j \in 1..Depth
        BY <1>0
      <4>2. s # SlotAt(slot, 1) /\ (j # Depth => s # slot)
        BY <1>0, <4>1, SlotPlaces
      <4> QED
        BY <1>2, <4>1, <4>2
    <3> HIDE DEF s
    <3>2. RingAtHead[s] = IF s = slot
                          THEN [x \in Rows |-> ring[s][x] -
                                  (IF x \in Peeked THEN queue[Depth].rej[x] ELSE 0)]
                          ELSE ring[s]
      BY <3>1 DEF RingAtHead
    <3>3. ring[s][r] \in Int
      BY <2>1, <3>1
    <3>4. CASE j = Depth
      <4>1. RingAtHead[s][r] = ring[s][r] -
              (IF r \in Peeked THEN queue[Depth].rej[r] ELSE 0)
        BY <3>1, <3>2, <3>4
      <4> QED
        BY <3>4, <4>1 DEF s, Peeked, Rejected, Pending
    <3>5. CASE j # Depth
      BY <3>1, <3>2, <3>3, <3>5 DEF s
    <3> QED
      BY <3>4, <3>5
  <2> QED
    BY <2>4, <2>5
<1>10. ASSUME NEW i \in 1..Depth, NEW j \in 1..Depth, i < j, Pending(i, r)
       PROVE  h[j - 1] = h[j] - RingAtHead[SlotAt(slot, j)][r]
  <2>1. j \in 2..Depth /\ j - 1 \in 1..Depth /\ j - 1 # Depth
    BY <1>0, <1>10
  <2>2. g[j - 1] = g[j] - ring[SlotAt(slot, j)][r]
    BY <1>1, <1>10 DEF Traces
  <2> DEFINE a == ring[SlotAt(slot, j)][r]
             b == RingAtHead[SlotAt(slot, j)][r]
             c == IF ExactMirror /\ j = Depth THEN q[Depth] ELSE 0
  <2>3. a \in Int
    BY <1>2 DEF TypeOK
  <2>4. b = a - c
    BY <1>5, <1>9, <2>1
  <2>5. h[j - 1] = g[j - 1] - 0 /\ h[j] = g[j] - c
    BY <2>1
  <2>6. c \in Int /\ g[j] \in Int /\ g[j - 1] \in Int
    <3>1. q[Depth] \in Int
      BY <1>1, <1>2
    <3>2. g[j] \in Int /\ g[j - 1] \in Int
      BY <1>1, <2>1
    <3> QED
      BY <3>1, <3>2
  <2>7. h[j - 1] = h[j] - b
    <3> DEFINE X == g[j - 1]
               Y == g[j]
               U == h[j - 1]
               V == h[j]
    <3>1. /\ X \in Int /\ Y \in Int /\ a \in Int /\ c \in Int
          /\ X = Y - a /\ b = a - c /\ U = X - 0 /\ V = Y - c
      BY <2>2, <2>3, <2>4, <2>5, <2>6
    <3> HIDE DEF X, Y, U, V, a, b, c
    <3>2. U = V - b
      BY <3>1
    <3> QED
      BY <3>2 DEF U, V
  <2> QED
    BY <2>7
<1> QED
  BY <1>2, <1>6, <1>7, <1>8, <1>9, <1>10

\* The kernel uses the count the consumed entry carries.
LEMMA AlignUsed ==
  ASSUME TypeOK, NEW r \in Rows, Aligned(r), Pending(1, r)
  PROVE  MirrorPopped[r] - Correction(RingAtHead, r) = queue[1].after[r]
<1>1. PICK g, q : AlignedBy(r, g, q)
  BY DEF Aligned
<1> DEFINE h == Folded(g, q)
<1>0. Depth \in Nat /\ Depth >= 2 /\ slot \in 0..(Depth - 1) /\ 1 \in 1..Depth
  BY PPRanksAssumption DEF TypeOK
<1>2. g \in [1..Depth -> Int] /\ q \in [1..Depth -> Int] /\ queue[1].after[r] = g[1] - q[1]
  BY <1>0, <1>1 DEF AlignedBy
<1>3. h[1] = g[1]
  <2>1. g[1] \in Int /\ 1 # Depth
    BY <1>0, <1>2
  <2> QED
    BY <1>0, <2>1 DEF Folded
<1>h. h = Folded(g, q)
  OBVIOUS
<1> HIDE DEF h
<1>4. /\ RingAtHead \in [0..(Depth - 1) -> [Rows -> Int]]
      /\ RingAtHead[SlotAt(slot, 1)] = Zero
      /\ h \in [1..Depth -> Int]
      /\ MirrorPopped[r] = h[Depth] - q[1]
      /\ \A j \in 2..Depth : h[j - 1] = h[j] - RingAtHead[SlotAt(slot, j)][r]
  <2>1. /\ RingAtHead \in [0..(Depth - 1) -> [Rows -> Int]]
        /\ NextSlot = SlotAt(slot, 1) /\ RingAtHead[NextSlot] = Zero
        /\ h \in [1..Depth -> Int]
        /\ MirrorPopped[r] = h[Depth] - q[1]
        /\ \A i, j \in 1..Depth : i < j /\ Pending(i, r) =>
             h[j - 1] = h[j] - RingAtHead[SlotAt(slot, j)][r]
    BY <1>1, <1>h, HeadTraces
  <2>2. \A j \in 2..Depth : j \in 1..Depth /\ 1 < j
    BY <1>0
  <2> QED
    BY <1>0, <2>1, <2>2
<1>5. Correction(RingAtHead, r) = h[Depth] - h[1]
  BY <1>0, <1>4, RingSum DEF Zero
<1>6. h[Depth] \in Int /\ h[1] \in Int /\ q[1] \in Int
  <2>1. Depth \in 1..Depth
    BY <1>0
  <2>2. h \in [1..Depth -> Int] /\ q \in [1..Depth -> Int]
    BY <1>2, <1>4
  <2> QED
    BY <1>0, <2>1, <2>2
<1> QED
  BY <1>2, <1>3, <1>4, <1>5, <1>6

\* A row that holds on to its request.
LEMMA AlignKept ==
  ASSUME AlignInv, NEW r \in Rows, Aligned(r),
         slot' = NextSlot, ring' = RingAtHead, queue' = Shifted,
         mirror'[r] = MirrorPopped[r], truth'[r] = truth[r],
         \A j \in 1..Depth : Pending(j, r)' <=> j < Depth /\ Pending(j + 1, r)
  PROVE  Aligned(r)'
<1>0. Depth \in Nat /\ Depth >= 2 /\ slot \in 0..(Depth - 1) /\ TypeOK
  BY PPRanksAssumption DEF AlignInv, TypeInv, TypeOK
<1>1. PICK g, q : AlignedBy(r, g, q)
  BY DEF Aligned
<1> DEFINE h == Folded(g, q)
           g1 == [j \in 1..Depth |-> (IF j < Depth THEN h[j + 1] ELSE h[Depth]) - q[1]]
           q1 == [j \in 1..Depth |-> IF ExactMirror THEN 0
                    ELSE (IF j < Depth THEN q[j + 1] ELSE q[Depth]) - q[1]]
<1>2. /\ g \in [1..Depth -> Int] /\ q \in [1..Depth -> Int]
      /\ mirror[r] = truth[r] + q[Depth] /\ g[Depth] = mirror[r]
      /\ Lacks(r, q) /\ truth[r] \in Nat
      /\ \A j \in 1..Depth : Pending(j, r) => queue[j].after[r] = g[j] - q[j]
  BY <1>0, <1>1, RowTypes DEF AlignedBy
<1>3. /\ 1 \in 1..Depth /\ Depth \in 1..Depth /\ 1 # Depth
      /\ \A j \in 1..Depth : j < Depth => j + 1 \in 1..Depth /\ queue'[j] = queue[j + 1]
      /\ \A j \in 1..Depth : j # 1 => j - 1 \in 1..Depth /\ j - 1 < Depth /\ (j - 1) + 1 = j
  BY <1>0 DEF Shifted
<1>4. \A j \in 1..Depth : h[j] = g[j] - (IF ExactMirror /\ j = Depth THEN q[Depth] ELSE 0)
  BY DEF Folded
<1>h. h = Folded(g, q)
  OBVIOUS
<1> HIDE DEF h
<1>t. TypeOK
  BY <1>0
<1>5. /\ RingAtHead \in [0..(Depth - 1) -> [Rows -> Int]]
      /\ NextSlot = SlotAt(slot, 1) /\ RingAtHead[NextSlot] = Zero
      /\ h \in [1..Depth -> Int] /\ h[Depth] = MirrorPeeked[r]
      /\ MirrorPopped[r] = h[Depth] - q[1]
      /\ \A i, j \in 1..Depth : i < j /\ Pending(i, r) =>
           h[j - 1] = h[j] - RingAtHead[SlotAt(slot, j)][r]
  BY <1>t, <1>1, <1>h, HeadTraces
<1>6. \A j \in 1..Depth : h[j] \in Int /\ q[j] \in Int /\ g[j] \in Int
  BY <1>2, <1>5
<1>7. /\ g1 \in [1..Depth -> Int] /\ q1 \in [1..Depth -> Int]
      /\ \A j \in 1..Depth : j < Depth => g1[j] = h[j + 1] - q[1]
      /\ g1[Depth] = h[Depth] - q[1]
      /\ \A j \in 1..Depth : ExactMirror => q1[j] = 0
      /\ \A j \in 1..Depth : j < Depth /\ ~ExactMirror => q1[j] = q[j + 1] - q[1]
      /\ ~ExactMirror => q1[Depth] = q[Depth] - q[1]
  BY <1>3, <1>6
<1> HIDE DEF g1, q1
<1>8. /\ \A j \in 1..Depth : ExactMirror => q[j] = IF j = Depth THEN Rejected(j, r) ELSE 0
      /\ \A j \in 1..Depth : ~ExactMirror /\ j # 1 => q[j] = q[j - 1] + Rejected(j, r)
  BY <1>2 DEF Lacks
<1>9. \A j \in 1..Depth : /\ Rejected(j, r) \in Int
                          /\ Rejected(j, r)' = IF j < Depth THEN Rejected(j + 1, r) ELSE 0
  <2>1. \A j \in 1..Depth : queue[j].rej[r] \in Nat
    BY <1>0, SlotTypes
  <2>2. ASSUME NEW j \in 1..Depth
        PROVE  Rejected(j, r)' = IF j < Depth THEN Rejected(j + 1, r) ELSE 0
    <3>1. j < Depth => j + 1 \in 1..Depth /\ queue'[j] = queue[j + 1]
      BY <1>3
    <3>2. Pending(j, r)' <=> j < Depth /\ Pending(j + 1, r)
      OBVIOUS
    <3> QED
      BY <3>1, <3>2 DEF Rejected
  <2> QED
    BY <2>1, <2>2 DEF Rejected
<1>10. g1[Depth] = mirror'[r] /\ mirror'[r] = truth'[r] + q1[Depth]
  <2>1. h[Depth] = g[Depth] - (IF ExactMirror THEN q[Depth] ELSE 0)
    BY <1>3, <1>4
  <2>2. ExactMirror => q[1] = 0
    BY <1>3, <1>8
  <2>3. q[1] \in Int /\ q[Depth] \in Int /\ g[Depth] \in Int
    BY <1>3, <1>6
  <2> QED
    BY <1>2, <1>3, <1>5, <1>7, <2>1, <2>2, <2>3
<1>11. Lacks(r, q1)'
  <2> SUFFICES ASSUME NEW j \in 1..Depth
               PROVE  q1[j] = IF ExactMirror
                              THEN (IF j = Depth THEN Rejected(j, r)' ELSE 0)
                              ELSE (IF j = 1 THEN 0 ELSE q1[j - 1]) + Rejected(j, r)'
    BY DEF Lacks
  <2>1. CASE ExactMirror
    BY <1>7, <1>9, <2>1
  <2>2. CASE ~ExactMirror /\ j = 1
    <3>1. 2 \in 1..Depth /\ q1[1] = q[2] - q[1] /\ Rejected(1, r)' = Rejected(2, r)
      BY <1>0, <1>3, <1>7, <1>9, <2>2
    <3>2. q[2] = q[1] + Rejected(2, r)
      BY <1>8, <2>2, <3>1
    <3> QED
      BY <1>3, <1>6, <1>9, <2>2, <3>1, <3>2
  <2>3. CASE ~ExactMirror /\ j # 1 /\ j < Depth
    <3> DEFINE k == j + 1
    <3>1. k \in 1..Depth /\ k # 1 /\ q1[j] = q[k] - q[1] /\ Rejected(j, r)' = Rejected(k, r)
      BY <1>3, <1>7, <1>9, <2>3
    <3>2. q1[j - 1] = q[j] - q[1]
      <4>1. j - 1 \in 1..Depth /\ j - 1 < Depth /\ (j - 1) + 1 = j
        BY <1>3, <2>3
      <4>2. q1[j - 1] = q[(j - 1) + 1] - q[1]
        BY <1>7, <2>3, <4>1
      <4> QED
        BY <4>1, <4>2
    <3>3. q[k] = q[j] + Rejected(k, r)
      BY <1>8, <2>3, <3>1
    <3>4. q[j] \in Int /\ q[1] \in Int /\ Rejected(k, r) \in Int
      BY <1>3, <1>6, <1>9, <3>1
    <3> HIDE DEF k
    <3> QED
      BY <2>3, <3>1, <3>2, <3>3, <3>4
  <2>4. CASE ~ExactMirror /\ j = Depth
    <3>1. q1[j] = q[j] - q[1] /\ Rejected(j, r)' = 0 /\ q1[j - 1] = q[j] - q[1]
      BY <1>3, <1>7, <1>9, <2>4
    <3>2. q[j] \in Int /\ q[1] \in Int
      BY <1>3, <1>6
    <3> QED
      BY <1>3, <2>4, <3>1, <3>2
  <2> QED
    BY <1>0, <2>1, <2>2, <2>3, <2>4
<1>12. Traces(r, g1)'
  <2> SUFFICES ASSUME NEW i \in 1..Depth, NEW j \in 1..Depth, i < j, Pending(i, r)'
               PROVE  g1[j - 1] = g1[j] - RingAtHead[SlotAt(NextSlot, j)][r]
    BY DEF Traces
  <2>1. i < Depth /\ Pending(i + 1, r) /\ i + 1 \in 1..Depth /\ j # 1
    BY <1>0, <1>3
  <2>2. g1[j - 1] = h[j] - q[1]
    BY <1>3, <1>7, <2>1
  <2>3. CASE j = Depth
    <3>1. RingAtHead[SlotAt(NextSlot, j)][r] = 0
      <4>1. NextSlot \in 0..(Depth - 1)
        BY <1>0 DEF NextSlot
      <4>2. SlotAt(NextSlot, j) = NextSlot
        BY <2>3, <4>1, SlotPlaces
      <4> QED
        BY <1>5, <4>2 DEF Zero
    <3>2. h[Depth] \in Int /\ q[1] \in Int
      BY <1>3, <1>6
    <3> QED
      BY <1>7, <2>2, <2>3, <3>1, <3>2
  <2>4. CASE j # Depth
    <3> DEFINE k == j + 1
               b == RingAtHead[SlotAt(NextSlot, j)][r]
    <3>1. k \in 1..Depth /\ i + 1 < k /\ k - 1 = j /\ g1[j] = h[k] - q[1]
      BY <1>0, <1>3, <1>7, <2>4
    <3>2. SlotAt(NextSlot, j) = SlotAt(slot, k)
      BY <1>0, <2>4, SlotPlaces DEF NextSlot
    <3>3. h[j] = h[k] - b
      <4> HIDE DEF k
      <4> QED
        BY <1>5, <2>1, <3>1, <3>2
    <3>4. b \in Int
      <4>1. SlotAt(slot, k) \in 0..(Depth - 1)
        BY <1>0, <3>1, SlotPlaces
      <4>2. RingAtHead \in [0..(Depth - 1) -> [Rows -> Int]]
        BY <1>5
      <4> QED
        BY <3>2, <4>1, <4>2
    <3>5. h[k] \in Int /\ q[1] \in Int /\ h[j] \in Int
      BY <1>3, <1>6, <3>1
    <3> DEFINE X == h[j]
               Y == h[k]
               U == g1[j - 1]
               V == g1[j]
               W == q[1]
    <3>6. /\ X \in Int /\ Y \in Int /\ W \in Int /\ b \in Int
          /\ X = Y - b /\ U = X - W /\ V = Y - W
      BY <2>2, <3>1, <3>3, <3>4, <3>5
    <3> HIDE DEF X, Y, U, V, W, b, k
    <3>7. U = V - b
      BY <3>6
    <3> QED
      BY <3>7 DEF U, V, b
  <2> QED
    BY <2>3, <2>4
<1>13. ASSUME NEW j \in 1..Depth, Pending(j, r)'
       PROVE  queue'[j].after[r] = g1[j] - q1[j]
  <2> DEFINE k == j + 1
  <2>1. /\ j < Depth /\ k \in 1..Depth /\ k # 1 /\ queue'[j] = queue[k] /\ Pending(k, r)
        /\ g1[j] = h[k] - q[1]
    BY <1>0, <1>3, <1>7, <1>13
  <2>2. queue[k].after[r] = g[k] - q[k]
    BY <1>2, <2>1
  <2>3. h[k] = g[k] - (IF ExactMirror /\ k = Depth THEN q[Depth] ELSE 0)
    BY <1>4, <2>1
  <2>4. g[k] \in Int /\ q[k] \in Int /\ q[1] \in Int
    BY <1>3, <1>6, <2>1
  <2>5. CASE ExactMirror
    <3>1. q[1] = 0 /\ q1[j] = 0 /\ (k # Depth => q[k] = 0)
      BY <1>3, <1>7, <1>8, <2>1, <2>5
    <3>2. h[k] = g[k] - q[k]
      BY <2>3, <2>4, <2>5, <3>1
    <3> HIDE DEF k
    <3> QED
      BY <2>1, <2>2, <2>4, <3>1, <3>2
  <2>6. CASE ~ExactMirror
    <3>1. q1[j] = q[k] - q[1] /\ h[k] = g[k]
      BY <1>7, <2>1, <2>3, <2>4, <2>6
    <3> HIDE DEF k
    <3> QED
      BY <2>1, <2>2, <2>4, <3>1
  <2> QED
    BY <2>5, <2>6
<1>14. AlignedBy(r, g1, q1)'
  BY <1>7, <1>10, <1>11, <1>12, <1>13 DEF AlignedBy
<1> QED
  BY <1>14 DEF Aligned

\* A row without an entry is aligned as soon as its mirror is right.
LEMMA AlignFresh ==
  ASSUME NEW r \in Rows, mirror'[r] = truth'[r], truth'[r] \in Nat,
         \A j \in 1..Depth : ~Pending(j, r)'
  PROVE  Aligned(r)'
<1>0. PICK c \in Nat : c = truth'[r]
  OBVIOUS
<1> DEFINE g == [j \in 1..Depth |-> c]
           q == [j \in 1..Depth |-> 0]
<1>1. /\ g \in [1..Depth -> Int] /\ q \in [1..Depth -> Int]
      /\ \A j \in 1..Depth : q[j] = 0 /\ g[j] = c
      /\ Depth \in 1..Depth
      /\ \A j \in 1..Depth : j # 1 => j - 1 \in 1..Depth
  BY PPRanksAssumption
<1> HIDE DEF g, q
<1>2. \A j \in 1..Depth : Rejected(j, r)' = 0
  BY DEF Rejected
<1>3. Lacks(r, q)'
  BY <1>1, <1>2 DEF Lacks
<1>4. Traces(r, g)'
  BY DEF Traces
<1>5. AlignedBy(r, g, q)'
  BY <1>0, <1>1, <1>3, <1>4 DEF AlignedBy
<1> QED
  BY <1>5 DEF Aligned

LEMMA AlignExecute ==
  ASSUME AlignInv,
         NEW gone \in SUBSET live, NEW started \in SUBSET Rows,
         NEW run \in SUBSET Rows,
         NEW new \in [started -> [shape : Shapes, computed : Hits]],
         NEW n \in [run -> 1..MaxQuery], NEW lag \in SUBSET run,
         MayStop(gone, new), Schedulable(gone, new, n, lag),
         ExecuteModel(gone, new, n, lag)
  PROVE  AlignInv'
<1>0. TypeInv /\ TypeOK /\ AgeBounded /\ PendingLive /\ Depth \in Nat /\ Depth >= 2
  BY PPRanksAssumption DEF AlignInv, TypeInv
<1>1. TypeInv'
  BY <1>0, TypeExecute
<1>2. DOMAIN new = started /\ DOMAIN n = run
  OBVIOUS
<1>3. /\ phase' = "forward" /\ batch' = run /\ slot' = NextSlot
      /\ queue' = Shifted /\ ring' = RingAtHead
      /\ gen' = [r \in Rows |-> IF r \in gone THEN NextGen(gen[r]) ELSE gen[r]]
      /\ live' = (live \ gone) \cup started
  BY <1>2 DEF ExecuteModel
<1>4. /\ queue'[Depth] = NoRecv /\ AgeBounded'
      /\ \A j \in 1..Depth : \A r \in Rows :
           Pending(j, r)' <=> j < Depth /\ r \in live \ gone /\ Pending(j + 1, r)
  BY <1>0, <1>3, ExecuteQueue
<1>5. /\ started \cap (live \ gone) = {}
      /\ run \subseteq (live \ gone) \cup started
      /\ started \subseteq run /\ lag \subseteq run \ started
  BY <1>2 DEF MayStop, Schedulable
<1>6. ASSUME NEW r \in Rows
      PROVE  /\ truth'[r] = IF r \in started THEN new[r].computed
                            ELSE IF r \in gone THEN 0 ELSE truth[r]
             /\ mirror'[r] = IF r \in started THEN new[r].computed
                             ELSE IF r \in gone THEN 0 ELSE MirrorPopped[r]
             /\ qlen'[r] = IF r \in run THEN n[r] ELSE 0
             /\ r \in run => cpu'[r] = IF r \in lag THEN truth[r] + lastStep[r].rej
                                       ELSE truth'[r]
  BY <1>2 DEF ExecuteModel
<1>7. PendingLive'
  BY <1>3, <1>4 DEF PendingLive
<1>8. StepBegun'
  <2>1. ring'[slot'] = Zero
    <3>1. NextSlot \in 0..(Depth - 1)
      BY <1>0 DEF NextSlot, TypeOK
    <3> QED
      BY <1>3, <3>1 DEF RingAtHead
  <2>2. \A r \in Rows : r \notin batch' => qlen'[r] = 0
    BY <1>3, <1>6
  <2>3. ASSUME NEW r \in run PROVE cpu'[r] >= truth'[r]
    <3>1. r \in lag => truth'[r] = truth[r]
      BY <1>5, <1>6
    <3>2. truth[r] \in Nat /\ lastStep[r].rej \in Nat /\ truth'[r] \in Nat
      BY <1>0, <1>1, RowTypes DEF TypeInv, TypeOK
    <3> QED
      BY <1>6, <3>1, <3>2
  <2> QED
    BY <1>3, <1>4, <2>1, <2>2, <2>3 DEF StepBegun
<1>9. AlignExact'
  <2>1. /\ used' = [r \in Rows |-> IF r \in ValidRows(queue[1])
                      THEN MirrorPopped[r] - Correction(RingAtHead, r) ELSE 0]
        /\ owed' = [r \in Rows |-> IF r \in ValidRows(queue[1])
                      THEN queue[1].after[r] ELSE 0]
    BY DEF ExecuteModel
  <2>2. ASSUME NEW r \in Rows, r \in ValidRows(queue[1])
        PROVE  MirrorPopped[r] - Correction(RingAtHead, r) = queue[1].after[r]
    <3>1. Pending(1, r) /\ Aligned(r)
      BY <2>2 DEF Pending, AlignInv
    <3> QED
      BY <1>0, <3>1, AlignUsed
  <2> QED
    BY <2>1, <2>2 DEF AlignExact
<1>10. ASSUME NEW r \in Rows PROVE Aligned(r)'
  <2>1. CASE r \in gone \cup started
    <3>1. \A j \in 1..Depth : ~Pending(j, r)'
      BY <1>4, <1>5, <2>1
    <3>2. mirror'[r] = truth'[r]
      BY <1>6, <2>1
    <3>3. truth'[r] \in Nat
      BY <1>1 DEF TypeInv, TypeOK
    <3> QED
      BY <3>1, <3>2, <3>3, AlignFresh
  <2>2. CASE r \notin gone \cup started
    <3>1. mirror'[r] = MirrorPopped[r] /\ truth'[r] = truth[r]
      BY <1>6, <2>2
    <3>2. \A j \in 1..Depth : Pending(j, r)' <=> j < Depth /\ Pending(j + 1, r)
      <4>1. \A j \in 1..Depth : j < Depth => j + 1 \in 1..Depth
        BY <1>0
      <4> QED
        BY <1>0, <1>4, <2>2, <4>1 DEF PendingLive
    <3>3. Aligned(r)
      BY DEF AlignInv
    <3> QED
      BY <1>3, <3>1, <3>2, <3>3, AlignKept
  <2> QED
    BY <2>1, <2>2
<1> QED
  BY <1>1, <1>4, <1>7, <1>8, <1>9, <1>10 DEF AlignInv

-----------------------------------------------------------------------------
(* What the ranks do after the forward pass.                               *)

\* The receive takes the newest place of the queue; it names every row that
\* sampled when the mask drops none of them.
LEMMA SampleQueue ==
  ASSUME AlignInv, NEW accepted \in [Rows -> 0..NumSpec], SampleTokens(accepted),
         NEW Rej, Rej = [r \in Rows |-> IF r \in batch /\ truth[r] + qlen[r] >= Prefill(r)
                                        THEN drafts[r] - accepted[r] ELSE 0]
  PROVE  /\ phase = "forward" /\ queue[Depth] = NoRecv
         /\ \A j \in 1..Depth : j # Depth => queue'[j] = queue[j]
         /\ queue'[Depth].rows = NeedSampled
         /\ \A r \in NeedSampled :
              /\ r \in batch /\ queue'[Depth].gen[r] = gen[r]
              /\ queue'[Depth].rej[r] = Rej[r]
              /\ queue'[Depth].after[r] = truth[r] + qlen[r] - Rej[r]
<1> DEFINE sampling == {r \in batch : truth[r] + qlen[r] >= Prefill(r)}
           R(r)     == IF r \in sampling THEN drafts[r] - accepted[r] ELSE 0
           After(r) == IF r \in batch THEN truth[r] + qlen[r] - R(r) ELSE truth[r]
           Tok(r)   == IF r \in sampling THEN After(r) ELSE tok[r]
           Acc(r)   == IF r \in sampling THEN 1 + accepted[r] ELSE 1
           need     == NeedSampled
           entry ==
             [rows  |-> need,
              rej   |-> [r \in Rows |-> IF r \in need THEN R(r) ELSE 0],
              tok   |-> [r \in Rows |-> IF r \in need THEN Tok(r) ELSE 0],
              acc   |-> [r \in Rows |-> IF r \in need THEN Acc(r) ELSE 0],
              gen   |-> [r \in Rows |-> IF r \in need THEN gen[r] ELSE 0],
              after |-> [r \in Rows |-> IF r \in need THEN After(r) ELSE 0]]
<1>1. /\ phase = "forward"
      /\ queue' = IF need = {} THEN queue ELSE [queue EXCEPT ![Depth] = entry]
  BY DEF SampleTokens
<1>2. queue[Depth] = NoRecv /\ DOMAIN queue = 1..Depth /\ Depth \in 1..Depth
  BY <1>1, PPRanksAssumption DEF AlignInv, StepBegun, TypeInv, TypeOK
<1>3. need \subseteq batch /\ batch \subseteq Rows
  BY DEF NeedSampled, AlignInv, TypeInv, TypeOK
<1>4. /\ entry.rows = need
      /\ \A r \in need : /\ entry.gen[r] = gen[r] /\ entry.rej[r] = Rej[r]
                         /\ entry.after[r] = truth[r] + qlen[r] - Rej[r]
  BY <1>3
<1> HIDE DEF entry, need
<1>5. CASE need = {}
  BY <1>1, <1>2, <1>5 DEF NoRecv, need
<1>6. CASE need # {}
  <2>1. queue'[Depth] = entry /\ \A j \in 1..Depth : j # Depth => queue'[j] = queue[j]
    BY <1>1, <1>2, <1>6
  <2> QED
    BY <1>1, <1>2, <1>3, <1>4, <2>1 DEF need
<1> QED
  BY <1>5, <1>6

LEMMA AlignSample ==
  ASSUME ~DropFinishing, AlignInv,
         NEW accepted \in [Rows -> 0..NumSpec],
         \A r \in Rows : accepted[r] <= drafts[r],
         SampleTokens(accepted)
  PROVE  AlignInv'
<1> DEFINE Rej == [r \in Rows |-> IF r \in batch /\ truth[r] + qlen[r] >= Prefill(r)
                                  THEN drafts[r] - accepted[r] ELSE 0]
<1>0. /\ TypeInv /\ TypeOK /\ AgeBounded /\ PendingLive /\ StepBegun
      /\ Depth \in Nat /\ Depth >= 2 /\ slot \in 0..(Depth - 1) /\ Depth \in 1..Depth
  <2>1. /\ TypeInv /\ TypeOK /\ AgeBounded /\ PendingLive /\ StepBegun
    BY DEF AlignInv, TypeInv
  <2>2. slot \in 0..(Depth - 1)
    BY <2>1 DEF TypeOK
  <2> QED
    BY <2>1, <2>2, PPRanksAssumption
<1>1. TypeInv'
  BY <1>0, TypeSample
<1>2. ASSUME NEW r \in Rows
      PROVE  /\ truth[r] \in Nat /\ qlen[r] \in Nat /\ mirror[r] \in Int
             /\ Rej[r] \in Int /\ gen[r] \in 0..(GenMod - 1)
             /\ r \notin batch => qlen[r] = 0 /\ Rej[r] = 0
  <2>1. /\ drafts[r] \in Nat /\ accepted[r] \in Nat /\ truth[r] \in Nat /\ qlen[r] \in Nat
        /\ mirror[r] \in Int /\ gen[r] \in 0..(GenMod - 1)
    BY <1>0, RowTypes
  <2> QED
    BY <1>0, <2>1 DEF StepBegun
<1>r. Rej = [r \in Rows |-> IF r \in batch /\ truth[r] + qlen[r] >= Prefill(r)
                            THEN drafts[r] - accepted[r] ELSE 0]
  OBVIOUS
<1>3. /\ phase' = "idle" /\ batch' = {} /\ qlen' = Zero /\ slot' = slot
      /\ live' = live /\ gen' = gen /\ used' = Zero /\ owed' = Zero
      /\ \A r \in Rows :
           /\ truth'[r] = IF r \in batch THEN truth[r] + qlen[r] - Rej[r] ELSE truth[r]
           /\ mirror'[r] = mirror[r] + qlen[r]
      /\ ring' = [ring EXCEPT ![slot] =
                    [r \in Rows |-> IF r \in batch THEN qlen[r] ELSE ring[slot][r]]]
  BY DEF SampleTokens
<1> HIDE DEF Rej
<1>4. /\ phase = "forward" /\ queue[Depth] = NoRecv
      /\ \A j \in 1..Depth : j # Depth => queue'[j] = queue[j]
      /\ queue'[Depth].rows = NeedSampled
      /\ \A r \in NeedSampled :
           /\ r \in batch /\ queue'[Depth].gen[r] = gen[r]
           /\ queue'[Depth].rej[r] = Rej[r]
           /\ queue'[Depth].after[r] = truth[r] + qlen[r] - Rej[r]
  BY <1>r, SampleQueue
<1>5. batch \subseteq live /\ live \subseteq Rows
  BY <1>0 DEF TypeOK
\* A row outside the mask had nothing rejected.
<1>6. \A r \in Rows : r \notin NeedSampled => Rej[r] = 0
  <2> SUFFICES ASSUME NEW r \in Rows, Rej[r] # 0 PROVE r \in NeedSampled
    OBVIOUS
  <2>1. r \in batch /\ truth[r] + qlen[r] >= Prefill(r)
    BY <1>r
  <2>2. cpu[r] >= truth[r] /\ cpu[r] \in Nat /\ truth[r] \in Nat /\ qlen[r] \in Nat
        /\ Prefill(r) \in Nat
    BY <1>0, <2>1, RowTypes DEF StepBegun
  <2>3. cpu[r] + qlen[r] >= Prefill(r)
    BY <2>1, <2>2
  <2> QED
    BY <2>1, <2>3 DEF NeedSampled, ProducesSample
<1>7. \A j \in 1..Depth : \A r \in Rows :
        /\ ~Pending(Depth, r)
        /\ Pending(j, r)' <=> IF j = Depth THEN r \in NeedSampled ELSE Pending(j, r)
        /\ Rejected(j, r)' = IF j = Depth THEN Rej[r] ELSE Rejected(j, r)
  <2> SUFFICES ASSUME NEW j \in 1..Depth, NEW r \in Rows
               PROVE  /\ ~Pending(Depth, r)
                      /\ Pending(j, r)' <=> IF j = Depth THEN r \in NeedSampled
                                                         ELSE Pending(j, r)
                      /\ Rejected(j, r)' = IF j = Depth THEN Rej[r] ELSE Rejected(j, r)
    OBVIOUS
  <2>1. ~Pending(Depth, r)
    BY <1>4 DEF Pending, ValidRows, NoRecv
  <2>2. Pending(j, r)' <=> IF j = Depth THEN r \in NeedSampled ELSE Pending(j, r)
    <3>1. CASE j = Depth
      BY <1>3, <1>4, <3>1 DEF Pending, ValidRows
    <3>2. CASE j # Depth
      BY <1>3, <1>4, <3>2 DEF Pending, ValidRows
    <3> QED
      BY <3>1, <3>2
  <2>3. Rejected(j, r)' = IF Pending(j, r)' THEN queue'[j].rej[r] ELSE 0
    BY DEF Rejected
  <2>4. CASE j = Depth
    BY <1>4, <1>6, <2>1, <2>2, <2>3, <2>4
  <2>5. CASE j # Depth
    BY <1>4, <2>1, <2>2, <2>3, <2>5 DEF Rejected
  <2> QED
    BY <2>1, <2>2, <2>4, <2>5
<1>8. AgeBounded'
  <2> SUFFICES ASSUME NEW j \in 1..Depth, NEW r \in queue'[j].rows
               PROVE  Age(queue'[j].gen[r], gen'[r]) <= Depth - j
    BY DEF AgeBounded
  <2>1. CASE j = Depth
    <3>1. r \in Rows /\ queue'[j].gen[r] = gen[r] /\ gen'[r] = gen[r]
      BY <1>3, <1>4, <1>5, <2>1
    <3>2. Age(gen[r], gen[r]) = 0
      BY <1>2, <3>1, AgeNext
    <3> QED
      BY <1>0, <2>1, <3>1, <3>2
  <2>2. CASE j # Depth
    BY <1>0, <1>3, <1>4, <2>2 DEF AgeBounded
  <2> QED
    BY <2>1, <2>2
<1>9. PendingLive'
  BY <1>0, <1>3, <1>4, <1>5, <1>7 DEF PendingLive
<1>10. StepBegun' /\ AlignExact'
  BY <1>3 DEF StepBegun, AlignExact, Zero
<1>11. ASSUME NEW r \in Rows PROVE Aligned(r)'
  <2>1. PICK g, q : AlignedBy(r, g, q)
    BY DEF AlignInv, Aligned
  <2>2. /\ g \in [1..Depth -> Int] /\ q \in [1..Depth -> Int]
        /\ g[Depth] = mirror[r] /\ mirror[r] = truth[r] + q[Depth]
        /\ Lacks(r, q) /\ Traces(r, g)
        /\ \A j \in 1..Depth : Pending(j, r) => queue[j].after[r] = g[j] - q[j]
    BY <2>1 DEF AlignedBy
  <2>3. PICK a \in Int, b \in Int : a = qlen[r] /\ b = Rej[r]
    BY <1>2
  <2> DEFINE g1 == [g EXCEPT ![Depth] = g[Depth] + a]
             q1 == [q EXCEPT ![Depth] = q[Depth] + b]
  <2>4. /\ g[Depth] \in Int /\ q[Depth] \in Int
        /\ g1 \in [1..Depth -> Int] /\ q1 \in [1..Depth -> Int]
        /\ g1[Depth] = g[Depth] + a /\ q1[Depth] = q[Depth] + b
        /\ \A j \in 1..Depth : j # Depth => g1[j] = g[j] /\ q1[j] = q[j]
        /\ \A j \in 1..Depth : j # 1 => j - 1 \in 1..Depth /\ j - 1 # Depth
    BY <1>0, <2>2
  <2> HIDE DEF g1, q1
  <2>5. truth'[r] = truth[r] + a - b /\ mirror'[r] = mirror[r] + a
    BY <1>2, <1>3, <2>3
  <2>6. g1[Depth] = mirror'[r] /\ mirror'[r] = truth'[r] + q1[Depth]
    BY <1>2, <2>2, <2>4, <2>5
  <2>7. Lacks(r, q1)'
    <3> SUFFICES ASSUME NEW j \in 1..Depth
                 PROVE  q1[j] = IF ExactMirror
                                THEN (IF j = Depth THEN Rejected(j, r)' ELSE 0)
                                ELSE (IF j = 1 THEN 0 ELSE q1[j - 1]) + Rejected(j, r)'
      BY DEF Lacks
    <3>1. q[j] = IF ExactMirror THEN (IF j = Depth THEN Rejected(j, r) ELSE 0)
                 ELSE (IF j = 1 THEN 0 ELSE q[j - 1]) + Rejected(j, r)
      BY <2>2 DEF Lacks
    <3>2. CASE j # Depth
      BY <1>7, <2>4, <3>1, <3>2
    <3>3. CASE j = Depth
      <4>1. Rejected(j, r) = 0 /\ Rejected(j, r)' = b
        BY <1>7, <2>3, <3>3 DEF Rejected
      <4>2. j # 1 /\ q1[j - 1] = q[j - 1] /\ q[j - 1] \in Int
        BY <1>0, <2>2, <2>4, <3>3
      <4> QED
        BY <2>3, <2>4, <3>1, <3>3, <4>1, <4>2
    <3> QED
      BY <3>2, <3>3
  <2>8. Traces(r, g1)'
    <3> SUFFICES ASSUME NEW i \in 1..Depth, NEW j \in 1..Depth, i < j, Pending(i, r)'
                 PROVE  g1[j - 1] = g1[j] - ring'[SlotAt(slot, j)][r]
      BY <1>3 DEF Traces
    <3>1. i # Depth /\ Pending(i, r) /\ j # 1 /\ g1[j - 1] = g[j - 1]
      <4>1. i # Depth /\ j # 1
        BY <1>0
      <4>2. j - 1 \in 1..Depth /\ j - 1 # Depth
        BY <2>4, <4>1
      <4> QED
        BY <1>7, <2>4, <4>1, <4>2
    <3>2. g[j - 1] = g[j] - ring[SlotAt(slot, j)][r]
      BY <2>2, <3>1 DEF Traces
    <3>3. ring \in [0..(Depth - 1) -> [Rows -> Int]]
      BY <1>0 DEF TypeOK
    <3>4. CASE j # Depth
      <4>1. SlotAt(slot, j) # slot /\ SlotAt(slot, j) \in 0..(Depth - 1)
        BY <1>0, <3>4, SlotPlaces
      <4>2. ring'[SlotAt(slot, j)] = ring[SlotAt(slot, j)]
        BY <1>3, <3>3, <4>1
      <4> QED
        BY <2>4, <3>1, <3>2, <3>4, <4>2
    <3>5. CASE j = Depth
      <4>1. SlotAt(slot, j) = slot
        BY <1>0, <3>5, SlotPlaces
      <4>2. ring[slot][r] = 0
        BY <1>0, <1>4 DEF StepBegun, Zero
      <4>3. ring'[slot][r] = IF r \in batch THEN qlen[r] ELSE ring[slot][r]
        BY <1>0, <1>3, <3>3
      <4>4. ring'[slot][r] = a
        BY <1>2, <2>3, <4>2, <4>3
      <4> QED
        BY <2>3, <2>4, <3>1, <3>2, <3>5, <4>1, <4>2, <4>4
    <3> QED
      BY <3>4, <3>5
  <2>9. ASSUME NEW j \in 1..Depth, Pending(j, r)'
        PROVE  queue'[j].after[r] = g1[j] - q1[j]
    <3>1. CASE j # Depth
      BY <1>4, <1>7, <2>2, <2>4, <2>9, <3>1
    <3>2. CASE j = Depth
      <4>1. queue'[j].after[r] = truth[r] + a - b
        BY <1>4, <1>7, <2>3, <2>9, <3>2
      <4>2. g1[j] = mirror[r] + a /\ q1[j] = q[Depth] + b
        BY <2>2, <2>4, <3>2
      <4> QED
        BY <1>2, <2>2, <2>3, <2>4, <4>1, <4>2
    <3> QED
      BY <3>1, <3>2
  <2>10. AlignedBy(r, g1, q1)'
    BY <2>4, <2>6, <2>7, <2>8, <2>9 DEF AlignedBy
  <2> QED
    BY <2>10 DEF Aligned
<1> QED
  BY <1>1, <1>8, <1>9, <1>10, <1>11 DEF AlignInv

LEMMA AlignStep ==
  ASSUME ~DropFinishing
  PROVE  AlignInv /\ [Next]_vars => AlignInv'
<1> SUFFICES ASSUME AlignInv, [Next]_vars PROVE AlignInv'
  OBVIOUS
<1>1. CASE \E gone \in SUBSET live, started \in SUBSET Rows, run \in SUBSET Rows :
             \E new \in [started -> [shape : Shapes, computed : Hits]],
                n \in [run -> 1..MaxQuery], lag \in SUBSET run :
               /\ MayStop(gone, new)
               /\ MayStart(new)
               /\ Schedulable(gone, new, n, lag)
               /\ ExecuteModel(gone, new, n, lag)
  BY <1>1, AlignExecute
<1>2. CASE EndEmptyStep \/ UNCHANGED vars
  <2>1. TypeInv'
    BY TypeStep DEF AlignInv
  <2>2. /\ UNCHANGED <<batch, qlen, drafts, cpu, truth, live, mirror, gen, queue, ring, slot>>
        /\ AlignExact' /\ (phase' = phase \/ phase' = "idle")
    BY <1>2 DEF EndEmptyStep, vars, batchVars, rankVars, schedVars, firstVars,
                AlignInv, AlignExact
  <2>3. AgeBounded' /\ PendingLive' /\ StepBegun'
    BY <2>2 DEF AlignInv, AgeBounded, PendingLive, StepBegun, Pending, ValidRows
  <2>4. ASSUME NEW r \in Rows PROVE Aligned(r)'
    <3>1. PICK g, q : AlignedBy(r, g, q)
      BY DEF AlignInv, Aligned
    <3>2. AlignedBy(r, g, q)'
      BY <2>2, <3>1 DEF AlignedBy, Lacks, Traces, Rejected, Pending, ValidRows
    <3> QED
      BY <3>2 DEF Aligned
  <2> QED
    BY <2>1, <2>2, <2>3, <2>4 DEF AlignInv
<1>3. CASE \E accepted \in [Rows -> 0..NumSpec] :
             (\A r \in Rows : accepted[r] <= drafts[r]) /\ SampleTokens(accepted)
  BY <1>3, AlignSample
<1> QED
  BY <1>1, <1>2, <1>3 DEF Next

(***************************************************************************)
(* Where the first rank applies a consumed entry, the align kernel uses    *)
(* exactly the count the last rank had after that step, with or without    *)
(* the cadence and in both mirror modes: the ring holds what the mirror    *)
(* was advanced by since (README-0012: "decision residual 0 in ALL         *)
(* modes").                                                                *)
(***************************************************************************)
THEOREM AlignCorrect ==
  ASSUME ~DropFinishing
  PROVE  Spec => []AlignExact
<1>1. AlignInv => AlignExact
  BY DEF AlignInv
<1> QED
  BY <1>1, AlignInit, AlignStep, PTL DEF Spec
=============================================================================
