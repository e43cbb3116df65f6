------------------------------ MODULE PPRanks ------------------------------
(***************************************************************************)
(* The V2 model runner on the two ends of the pipeline.                    *)
(*                                                                         *)
(* The last rank samples, so it knows how many draft tokens each request   *)
(* accepted and how many it rejected.  The first rank does not sample: it  *)
(* advances its copy of num_computed_tokens optimistically by the whole    *)
(* query length and learns the rejections from a broadcast that it         *)
(* consumes Depth engine steps later (PPHandler.queue).  Positions, the    *)
(* input token and the recurrent-state decision of the first rank are      *)
(* right only if the correction arrives before the request runs again.     *)
(*                                                                         *)
(* One engine step is two actions, as in the code: ExecuteModel (the head, *)
(* run by both ranks before the forward pass) and SampleTokens (what each  *)
(* rank does after it).  Every rank executes the scheduler's outputs in    *)
(* the same order and the first rank waits for the broadcast it reads, so  *)
(* the two ranks are stepped together.  The scheduler is abstract here: it *)
(* may pick any batch its rules allow (AsyncScheduler.tla has the real     *)
(* one).  Requests are identified with their row (req_idx) in the request  *)
(* state; a row freed and taken again belongs to another request.  What a   *)
(* free row holds is never read, so the model clears it.                   *)
(***************************************************************************)
EXTENDS Integers, FiniteSets

CONSTANTS
  Rows,          \* request-state rows (req_idx), max_num_reqs of them
  Depth,         \* pp_size: pipeline depth, world size of the PP group
  NumSpec,       \* num_speculative_steps
  MaxQuery,      \* max_num_scheduled_tokens: longest query of a request
  GenMod,        \* values of a generation counter before it wraps (int32)
  Shapes,        \* <<prefill_len, max_seq_len>> of the requests that arrive
  Hits,          \* num_computed_tokens a request can be added with
  ExactMirror,   \* VLLM_PP_EXACT_MIRROR with async scheduling
  Cadence,       \* next_decode_eligible_step is enforced
  DropFinishing  \* compute_need_sampled_mask keeps its not_finishing term

ASSUME PPRanksAssumption ==
  /\ Depth \in Nat /\ Depth >= 2
  /\ NumSpec \in Nat
  /\ MaxQuery \in Nat
  /\ GenMod \in Nat /\ GenMod >= Depth
  /\ Shapes \subseteq (Nat \ {0}) \X Nat
  /\ Hits \subseteq Nat
  /\ ExactMirror \in BOOLEAN
  /\ Cadence \in BOOLEAN
  /\ DropFinishing \in BOOLEAN

VARIABLES
  phase,     \* "idle" between steps, "forward" inside one
  live,      \* rows that hold a request
  shape,     \* row -> <<prefill_len, max_seq_len>>
  batch,     \* rows of the step in progress
  qlen,      \* row -> num_scheduled_tokens in the step in progress
  drafts,    \* row -> draft tokens scheduled in the step in progress
  cpu,       \* row -> num_computed_tokens_np the scheduler sent
  truth,     \* last rank: num_computed_tokens.gpu
  tok,       \* last rank: last_sampled_tokens / draft_tokens, by position
  acc,       \* last rank: num_accepted_tokens of the recurrent state
  mirror,    \* first rank: num_computed_tokens.gpu
  mTok,      \* first rank: last_sampled_tokens / draft_tokens
  mAcc,      \* first rank: num_accepted_tokens of the recurrent state
  gen,       \* first rank: req_idx_gen_np
  queue,     \* first rank: PPHandler.queue, 1 the oldest, Depth the newest
  ring,      \* first rank: _pp_advance_ring
  slot,      \* first rank: _pp_step % Depth
  used,      \* num_computed the align kernel used at the last consume
  owed,      \* what the last rank's count was after the consumed step
  cool,      \* scheduler: next_decode_eligible_step - current_step
  lastStep   \* rejections and least outcome of the row's last sampling step

rankVars  == <<truth, tok, acc>>
firstVars == <<mirror, mTok, mAcc, gen, queue, ring, slot, used, owed>>
batchVars == <<phase, batch, qlen, drafts, cpu>>
schedVars == <<live, shape, cool, lastStep>>
vars == <<rankVars, firstVars, batchVars, schedVars>>

Prefill(r) == shape[r][1]
MaxSeq(r)  == shape[r][2]

Larger(a, b) == IF a >= b THEN a ELSE b

Zero == [r \in Rows |-> 0]

\* No sampling step of the row is still unknown to the scheduler.
NoStep == [rej |-> 0, floor |-> 0]

\* A queue slot without a pending receive: no row is read from it.
NoRecv == [rows |-> {}, rej |-> Zero, tok |-> Zero, acc |-> Zero,
           gen |-> Zero, after |-> Zero]

-----------------------------------------------------------------------------
(* pp_utils.py: the mask and the receive queue.                            *)

\* Mutant: the chunk that completes the prefill exactly is taken for another.
SampleAfterEnd(r) == cpu[r] + qlen[r] > Prefill(r)

\* compute_need_sampled_mask for row r of the batch in progress.
ProducesSample(r) == cpu[r] + qlen[r] >= Prefill(r)
NotFinishing(r)   == Larger(cpu[r], Prefill(r)) + 1 < MaxSeq(r)
NeedSampled ==
  {r \in batch : ProducesSample(r) /\ (DropFinishing => NotFinishing(r))}

\* Mutant: the generation is not compared.
AnyGeneration(e) == e.rows

\* Rows of a slot that were not freed (and are needed) since the receive.
ValidRows(e) == {r \in e.rows : e.gen[r] = gen[r]}

Shifted == [j \in 1..Depth |-> IF j < Depth THEN queue[j + 1] ELSE NoRecv]

\* Mutant: the counter does not wrap.
Unbounded(g) == g + 1
NextGen(g) == IF g + 1 = GenMod THEN 0 ELSE g + 1

-----------------------------------------------------------------------------
(* model_runner.py: the head of execute_model on the first rank.           *)

NextSlot == IF slot + 1 = Depth THEN 0 ELSE slot + 1

\* Mutants: the slot is not zeroed; the rejections are not folded in.
RingUncleared ==
  [s \in 0..(Depth - 1) |->
     [r \in Rows |-> ring[s][r] -
        (IF s = slot /\ ExactMirror /\ r \in ValidRows(queue[Depth])
         THEN queue[Depth].rej[r] ELSE 0)]]
RingUnfolded == [s \in 0..(Depth - 1) |-> IF s = NextSlot THEN Zero ELSE ring[s]]
\* Mutant: the newest entry is never peeked.
NonePeeked == {}

\* Ring after this step's slot is zeroed and, in exact-mirror mode, the
\* previous step's rejections are folded into the previous slot.
Peeked == IF ExactMirror THEN ValidRows(queue[Depth]) ELSE {}
RingAtHead ==
  [s \in 0..(Depth - 1) |->
     IF s = NextSlot THEN Zero
     ELSE IF s = slot
          THEN [r \in Rows |-> ring[s][r] - (IF r \in Peeked
                                             THEN queue[Depth].rej[r] ELSE 0)]
          ELSE ring[s]]

\* Mutant: the consumed entry's rejections are not applied.
MirrorUnpopped ==
  [r \in Rows |-> mirror[r] - (IF r \in Peeked THEN queue[Depth].rej[r] ELSE 0)]

\* The mirror after the peek, and after the consumed entry's rejections.
MirrorPeeked ==
  [r \in Rows |-> mirror[r] - (IF r \in Peeked THEN queue[Depth].rej[r] ELSE 0)]
MirrorPopped ==
  [r \in Rows |-> MirrorPeeked[r] -
     (IF ~ExactMirror /\ r \in ValidRows(queue[1]) THEN queue[1].rej[r] ELSE 0)]

\* _pp_advance_corr: the advances of the Depth - 1 steps after the consumed
\* one; every ring slot but the one just zeroed.
Correction(rng, r) ==
  LET sum[s \in 0..(Depth - 1)] ==
        (IF s = 0 THEN 0 ELSE sum[s - 1]) + rng[s][r]
  IN  sum[Depth - 1]

-----------------------------------------------------------------------------
(* The scheduler's freedom.                                                *)

\* A row is past its prefill when only sampled tokens remain to be computed.
Decoding(r) == truth[r] >= Prefill(r)

\* The scheduler may not yet have processed the row's last sampling step:
\* it is Depth steps back and up to Depth + 1 steps are in flight.
MayLag(r) == cool[r] = 1

\* Tokens the request is known to have; it is scheduled while more may come.
KnownTokens(r, lag) == 1 + (IF lag THEN lastStep[r].floor ELSE truth[r])

\* Mutant: a decode runs one step early.
MayRunEarly(r, lag) ==
  IF Decoding(r)
  THEN cool[r] <= 2 /\ (lag => MayLag(r)) /\ KnownTokens(r, lag) < MaxSeq(r)
  ELSE ~lag

\* A decode waits for its cadence; a prefill chunk may follow at once.
MayRun(r, lag) ==
  IF Decoding(r)
  THEN /\ Cadence => cool[r] <= 1
       /\ lag => MayLag(r)
       /\ KnownTokens(r, lag) < MaxSeq(r)
  ELSE ~lag

\* A query is one token and its drafts, or a prefill chunk.
LongestQuery(r) == IF Decoding(r) THEN 1 + NumSpec ELSE Prefill(r) - truth[r]

\* A new request with one token left may be padded to a full decode query.
Left(req)   == req.shape[1] - req.computed
Padded(req) == IF Left(req) = 1 THEN {1 + NumSpec} ELSE {}

-----------------------------------------------------------------------------
Init ==
  /\ phase = "idle"
  /\ live = {}
  /\ shape = [r \in Rows |-> <<1, 0>>]
  /\ batch = {} /\ qlen = Zero /\ drafts = Zero /\ cpu = Zero
  /\ truth = Zero /\ tok = Zero /\ acc = [r \in Rows |-> 1]
  /\ mirror = Zero /\ mTok = Zero /\ mAcc = [r \in Rows |-> 1]
  /\ gen = Zero
  /\ queue = [j \in 1..Depth |-> NoRecv]
  /\ ring = [s \in 0..(Depth - 1) |-> Zero]
  /\ slot = 0
  /\ used = Zero /\ owed = Zero
  /\ cool = Zero
  /\ lastStep = [r \in Rows |-> NoStep]

\* execute_model up to the forward pass, on both ranks.  gone are the rows of
\* finished and preempted requests; new maps the rows of new requests to their
\* shape and computed tokens; n maps the batch to its query lengths; lag are
\* the rows whose last sampling step the scheduler has not processed.
ExecuteModel(gone, new, n, lag) ==
  LET head    == queue[1]
      popped  == ValidRows(head)
      started == DOMAIN new
      run     == DOMAIN n
      Count(r)  == IF r \in started THEN new[r].computed
                   ELSE IF r \in gone THEN 0 ELSE truth[r]
      Verifies(r) == IF r \in started THEN n[r] \in Padded(new[r])
                     ELSE Decoding(r)
  IN
  /\ phase = "idle"
  /\ phase' = "forward"
  /\ slot' = NextSlot
  /\ ring' = RingAtHead
  \* update_pp_decode_requests: consume the entry of Depth steps ago.
  /\ queue' = Shifted
  /\ used' = [r \in Rows |-> IF r \in popped
                THEN MirrorPopped[r] - Correction(RingAtHead, r) ELSE 0]
  /\ owed' = [r \in Rows |-> IF r \in popped THEN head.after[r] ELSE 0]
  \* finish_requests frees rows, add_requests fills them, on both ranks.
  /\ gen' = [r \in Rows |-> IF r \in gone THEN NextGen(gen[r]) ELSE gen[r]]
  /\ live' = (live \ gone) \cup started
  /\ shape' = [r \in Rows |-> IF r \in started THEN new[r].shape ELSE shape[r]]
  /\ mirror' = [r \in Rows |-> IF r \in started THEN new[r].computed
                               ELSE IF r \in gone THEN 0 ELSE MirrorPopped[r]]
  /\ mTok' = [r \in Rows |-> IF r \in started \cup gone THEN 0
                ELSE IF r \in popped THEN head.tok[r] ELSE mTok[r]]
  /\ mAcc' = [r \in Rows |-> IF r \in started \cup gone THEN 1
                ELSE IF r \in popped THEN head.acc[r] ELSE mAcc[r]]
  /\ truth' = [r \in Rows |-> Count(r)]
  /\ tok' = [r \in Rows |-> IF r \in started \cup gone THEN 0 ELSE tok[r]]
  /\ acc' = [r \in Rows |-> IF r \in started \cup gone THEN 1 ELSE acc[r]]
  \* update_requests and prepare_inputs: the batch.
  /\ batch' = run
  /\ qlen' = [r \in Rows |-> IF r \in run THEN n[r] ELSE 0]
  /\ drafts' = [r \in Rows |-> IF r \in run /\ Verifies(r) THEN n[r] - 1 ELSE 0]
  /\ cpu' = [r \in Rows |-> IF r \notin run THEN 0
               ELSE IF r \in lag THEN truth[r] + lastStep[r].rej ELSE Count(r)]
  /\ cool' = [r \in Rows |-> IF r \in started \cup gone \/ cool[r] = 0
                             THEN 0 ELSE cool[r] - 1]
  /\ lastStep' = [r \in Rows |-> IF r \in started \cup gone \/ cool[r] <= 1
                                 THEN NoStep ELSE lastStep[r]]

\* The steps the scheduler may output.
MayStop(gone, new) == gone \subseteq live /\ DOMAIN new \cap (live \ gone) = {}

MayStart(new) ==
  \A r \in DOMAIN new :
    /\ new[r].shape \in Shapes
    /\ new[r].computed \in Hits
    /\ new[r].computed < new[r].shape[1]

Schedulable(gone, new, n, lag) ==
  /\ DOMAIN new \subseteq DOMAIN n
  /\ DOMAIN n \subseteq (live \ gone) \cup DOMAIN new
  /\ lag \subseteq DOMAIN n \ DOMAIN new
  /\ \A r \in DOMAIN n :
       IF r \in DOMAIN new
       THEN n[r] \in 1..Left(new[r]) \cup Padded(new[r])
       ELSE MayRun(r, r \in lag) /\ n[r] <= LongestQuery(r)

\* An engine step without scheduled tokens ends in the head.
EndEmptyStep ==
  /\ phase = "forward" /\ batch = {}
  /\ phase' = "idle"
  /\ used' = Zero /\ owed' = Zero
  /\ UNCHANGED <<batch, qlen, drafts, cpu, rankVars, schedVars,
                 mirror, mTok, mAcc, gen, queue, ring, slot>>

\* sample_tokens: the last rank samples and broadcasts, the first receives.
\* accepted gives the draft tokens each row accepted.
SampleTokens(accepted) ==
  LET sampling == {r \in batch : truth[r] + qlen[r] >= Prefill(r)}
      Rej(r)   == IF r \in sampling THEN drafts[r] - accepted[r] ELSE 0
      After(r) == IF r \in batch THEN truth[r] + qlen[r] - Rej(r) ELSE truth[r]
      Tok(r)   == IF r \in sampling THEN After(r) ELSE tok[r]
      Acc(r)   == IF r \in sampling THEN 1 + accepted[r] ELSE 1
      need     == NeedSampled
  IN
  /\ phase = "forward" /\ batch # {}
  /\ phase' = "idle"
  \* The last rank: sample, broadcast, postprocess_sampled, propose drafts.
  /\ truth' = [r \in Rows |-> After(r)]
  /\ tok' = [r \in Rows |-> Tok(r)]
  /\ acc' = [r \in Rows |-> IF r \in batch THEN Acc(r) ELSE acc[r]]
  \* The first rank: receive (skipped by both ranks when no row needs it).
  /\ queue' = IF need = {} THEN queue
              ELSE [queue EXCEPT ![Depth] =
                      [rows  |-> need,
                       rej   |-> [r \in Rows |-> IF r \in need THEN Rej(r) ELSE 0],
                       tok   |-> [r \in Rows |-> IF r \in need THEN Tok(r) ELSE 0],
                       acc   |-> [r \in Rows |-> IF r \in need THEN Acc(r) ELSE 0],
                       gen   |-> [r \in Rows |-> IF r \in need THEN gen[r] ELSE 0],
                       after |-> [r \in Rows |-> IF r \in need THEN After(r) ELSE 0]]]
  \* postprocess_num_computed_tokens: the optimistic advance, and the ring.
  /\ mirror' = [r \in Rows |-> mirror[r] + qlen[r]]
  /\ ring' = [ring EXCEPT ![slot] =
                [r \in Rows |-> IF r \in batch THEN qlen[r] ELSE @[r]]]
  \* postprocess_state(idx_mapping, 0) unless every row decodes next.
  /\ mAcc' = [r \in Rows |-> IF r \in batch /\ need # batch THEN 1 ELSE mAcc[r]]
  \* The scheduler's cadence for the rows that sampled.
  /\ cool' = [r \in Rows |-> IF r \in sampling THEN Depth ELSE cool[r]]
  /\ lastStep' = [r \in Rows |-> IF r \in sampling
                    THEN [rej |-> Rej(r), floor |-> truth[r] + qlen[r] - drafts[r]] ELSE lastStep[r]]
  /\ batch' = {} /\ qlen' = Zero /\ drafts' = Zero /\ cpu' = Zero
  /\ used' = Zero /\ owed' = Zero
  /\ UNCHANGED <<live, shape, gen, mTok, slot>>

Next ==
  \/ \E gone \in SUBSET live, started \in SUBSET Rows, run \in SUBSET Rows :
       \E new \in [started -> [shape : Shapes, computed : Hits]],
          n \in [run -> 1..MaxQuery], lag \in SUBSET run :
         /\ MayStop(gone, new)
         /\ MayStart(new)
         /\ Schedulable(gone, new, n, lag)
         /\ ExecuteModel(gone, new, n, lag)
  \/ EndEmptyStep
  \/ \E accepted \in [Rows -> 0..NumSpec] :
       /\ \A r \in Rows : accepted[r] <= drafts[r]
       /\ SampleTokens(accepted)

Spec == Init /\ [][Next]_vars

-----------------------------------------------------------------------------
TypeOK ==
  /\ phase \in {"idle", "forward"}
  /\ live \subseteq Rows
  /\ shape \in [Rows -> (Nat \ {0}) \X Nat]
  /\ batch \subseteq live
  /\ qlen \in [Rows -> Nat] /\ drafts \in [Rows -> Nat] /\ cpu \in [Rows -> Nat]
  /\ truth \in [Rows -> Nat] /\ tok \in [Rows -> Nat] /\ acc \in [Rows -> Nat]
  /\ mirror \in [Rows -> Int] /\ mTok \in [Rows -> Nat] /\ mAcc \in [Rows -> Nat]
  /\ gen \in [Rows -> 0..(GenMod - 1)]
  /\ queue \in [1..Depth ->
       [rows : SUBSET Rows, rej : [Rows -> Nat], tok : [Rows -> Nat],
        acc : [Rows -> Nat], gen : [Rows -> 0..(GenMod - 1)],
        after : [Rows -> Nat]]]
  /\ ring \in [0..(Depth - 1) -> [Rows -> Int]]
  /\ slot \in 0..(Depth - 1)
  /\ owed \in [Rows -> Nat]
  /\ cool \in [Rows -> 0..Depth]
  /\ lastStep \in [Rows -> [rej : Nat, floor : Nat]]

(***************************************************************************)
(* When a request runs, the first rank computes at the positions the last  *)
(* rank will sample at: its optimistic count has received every rejection. *)
(* (README-0012: "GPU mirror at forward(S) becomes EXACTLY truth(S-1)".)   *)
(***************************************************************************)
PositionsAgree ==
  phase = "forward" => \A r \in batch : mirror[r] = truth[r]

(***************************************************************************)
(* When a decode runs, the first rank feeds it the tokens the last rank    *)
(* sampled and drafted in the request's previous step, not older ones.     *)
(***************************************************************************)
TokensAgree ==
  phase = "forward" => \A r \in batch : mTok[r] = tok[r]

(***************************************************************************)
(* When a request runs, both ranks pick the same recurrent state: they     *)
(* hold the same number of accepted tokens for its previous step.          *)
(***************************************************************************)
AcceptedAgree ==
  phase = "forward" => \A r \in batch : mAcc[r] = acc[r]

(***************************************************************************)
(* The deferred align decision of the first rank uses the count the last   *)
(* rank had right after the consumed step, whatever ran in the Depth - 1   *)
(* steps between (README-0012: "decision residual 0 in ALL modes").        *)
(***************************************************************************)
AlignExact == used = owed

-----------------------------------------------------------------------------
(***************************************************************************)
(* Why the ranks agree under the cadence: the parts of the inductive       *)
(* invariant that PPRanks_proofs establishes for every Depth.              *)
(***************************************************************************)

\* The entry in slot j of the queue will correct row r.
Pending(j, r) == r \in ValidRows(queue[j])

Settled(r) == \A j \in 1..Depth : ~Pending(j, r)

\* Frees of a row since its entry, on counters that wrap.
Age(entry, now) == IF now >= entry THEN now - entry ELSE now - entry + GenMod

\* An entry in slot j is younger than a full turn of the counter.
AgeBounded ==
  \A j \in 1..Depth : \A r \in queue[j].rows :
    Age(queue[j].gen[r], gen[r]) <= Depth - j

\* A row with a pending entry is a live decode, not eligible before the step
\* that consumes the entry; so it has only one.
PendingWaits ==
  \A j \in 1..Depth : \A r \in Rows :
    Pending(j, r) => r \in live /\ Decoding(r) /\ cool[r] = j

\* Until then the first rank lacks exactly the entry's rejections, tokens and
\* accepted count (the rejections only until the peek of exact-mirror mode).
PendingExact ==
  \A j \in 1..Depth : \A r \in Rows :
    Pending(j, r) =>
      /\ queue[j].tok[r] = tok[r]
      /\ queue[j].acc[r] = acc[r]
      /\ mirror[r] = truth[r] +
           (IF ExactMirror /\ j < Depth THEN 0 ELSE queue[j].rej[r])

\* A row without one agrees already.
SettledExact ==
  \A r \in live : Settled(r) =>
    mirror[r] = truth[r] /\ mTok[r] = tok[r] /\ mAcc[r] = acc[r]

\* The batch: every row is settled, and the mask the ranks compute from the
\* scheduler's counts is exactly the set of rows that sample.
BatchSettled ==
  /\ phase = "idle" => batch = {}
  /\ phase = "forward" => queue[Depth] = NoRecv
  /\ \A r \in Rows : r \notin batch => qlen[r] = 0
  /\ \A r \in batch :
       /\ Settled(r)
       /\ drafts[r] < qlen[r]
       /\ truth[r] + qlen[r] >= Prefill(r) =>
            truth[r] + qlen[r] - drafts[r] >= Prefill(r)
       /\ cpu[r] >= truth[r]
       /\ cpu[r] # truth[r] => Decoding(r)

RanksInv ==
  /\ TypeOK /\ AgeBounded /\ PendingWaits /\ PendingExact
  /\ SettledExact /\ BatchSettled
=============================================================================
