# Verification of the pipeline-parallel speculative-decoding stack

This directory specifies, model-checks and proves properties of the code in this
repository: patched vLLM files that serve Qwen3.8-Flash-Next with pipeline
parallelism, asynchronous scheduling, MTP speculative decoding, aligned
recurrent-state caching and PLE offload. Paths below are relative to `src/`.

## 1. Inventory

### 1.1 Components

| Component | State | Operations | Interacts with |
|---|---|---|---|
| Scheduler (`mtp-spec-decode/files/scheduler.py`) | `running`, `waiting`, `skipped_waiting`, per-request counters (`num_computed_tokens`, placeholders, in-flight and stale shares, `next_decode_eligible_step`), KV blocks, `finished_req_ids`, pause state | `schedule`, `update_from_output`, `add_request`, `finish_requests`, `reset_prefix_cache`, `set_pause_state` | engine core calls it; its outputs go to every rank; ranks' outputs come back a pipeline depth later |
| Prefill chunking (in the scheduler) | none (pure) | `_mamba_block_aligned_split`, `_reserve_prefill_lookahead` | called for every prefill chunk |
| Deferred block frees (in the scheduler) | `deferred_frees`, `sched_step_seq`, `processed_step_seq`, `last_sched_seq` | `_free_request_blocks`, `_free_cow_retained_blocks`, `_drain_deferred_frees` | block pool; KV connector loads |
| KV transfer (in the scheduler) | waiting-for-remote requests, failed and finished receives, `_inflight_prefills`, blocks kept for a transfer | the connector's half of `schedule`, `_update_waiting_for_remote_kv`, `_handle_invalid_blocks`, `_update_from_kv_xfer_finished`, `_inflight_prefill_reserved_blocks` | connector, whose workers write blocks outside every stream |
| Model runner (`.../model_runner.py`, `p0-overlay/model_runner.py`) | request rows (`req_states`), advance ring, `_pp_step` | `execute_model`, `sample_tokens`, `finish_requests`, `add_requests`, postprocessing | one per rank; last rank samples |
| PP handler (`p0-overlay/pp_utils.py`) | queue of `pp_size` pending receives, generation counters | `broadcast`, `broadcast_draft`, `receive`, `get_prev_sampled_outputs`, `on_req_idx_freed` | last rank to the others, a broadcast stream with its own communicator |
| Rejection sampler, speculator | RNG keys, draft tokens | verification, draft loop | last rank's `sample_tokens` |
| PP / P0 patches (`patch_pp.py`, `patch_p0.py`) | pool of gathered block tables, PLE staging event and request queue | text edits of upstream files: `gather_block_tables`, the PLE connector's launch and request thread | ranks, a CPU worker |
| Parity-ring diffs (`patches-align/`), V2 patches (`patches-v2/`) | as the runner | as the runner | ranks |
| Numerical kernels (`detmoe/`, `batch-invariance/`), FP8 table (`ple-fp8/`) | none | kernels, conversion | model |
| Deploy scripts (`scripts/`, `mtp-spec-decode/scripts/`) | containers | swap, rollback | docker |

### 1.2 How a step travels

The engine thread calls `schedule()`. With asynchronous scheduling it does not
wait for the steps before: it counts their tokens in advance (one placeholder
per sampled token, one per draft). Every rank executes the scheduler's outputs
in order. The last rank samples, verifies the drafts, and broadcasts tokens and
rejection counts; another rank advances its copy of `num_computed_tokens` by
the whole query length and corrects it `pp_size` steps later, when it consumes
the broadcast. `update_from_output` runs in the engine thread when the oldest
step is done; by then up to `pp_size + 1` steps have been scheduled.

### 1.3 What is hard

* A correction is applied `pp_size` steps late, and the row may be freed, taken
  by another request, run a prefill chunk or be preempted in between.
* A preemption resets counters while output is in flight; the output is then
  stale, delivered or dropped, and may overlap a second preemption.
* Preemption inside the loop over the running list changes the list, the
  budgets and the cursor of that loop.
* Padding, thresholds, alignment and reservation change a request's token count
  one after the other; drafts were decided earlier.
* No rank waits for its device. A collective is matched by its place in the
  order, buffers are refilled while a thread copies them, and tables are read by
  steps that were issued earlier.
* A load holds blocks while its request waits in a queue behind others that may
  want them; the queues are left at the first request that does not fit.
* A load writes blocks while its request waits, is aborted, or has earlier steps
  in flight; it may fail in part, be reported late, and be tried again.
* Freed blocks may still be written by steps in flight; empty steps and
  copy-on-write copies do not follow the ordinary numbering.

Correctness of each component is stated next to it in section 3. The hazards,
each at its line, are in `PROJECT.json`.

## 2. Plan

Written, in this order: `PPRanks` (the ranks agree), `AsyncScheduler` with
`RequestService` (the scheduler serves its clients), `ChunkSplit` and `Prefill`
(chunk arithmetic), `DeferredFree` (block fences), `RejectionSampler` (drafts and
random keys), `KVLoad` (loads, failures and retries on top of `DeferredFree`),
`KVSchedule` (the same under the scheduler's queues, which `RequestQueues` gives
to it and to `AsyncScheduler`), `PPStreams` (threads, streams, collectives and the PLE handshake); and proofs of
every safety property that a passing run checks, among them the safety half of
the refinement of `RequestService`, and the refinements of `DeferredFree` by `KVLoad`
and of `KVLoad` by `KVSchedule`.

Next, in order of importance:

1. An engine composite that replaces the free scheduler of `PPRanks` by
   `AsyncScheduler`. Until then the interface is checked and proved from both
   sides: `StepsFitRanks` and `DecodesApart` are what `PPRanks` assumes of a batch.
2. Synchronous loads, requests that grow and blocks shared between requests in
   `KVLoad`.
3. `Sessions`: streaming sessions and their requeueing.

## 3. Modules

### PPRanks: the first and the last rank

One engine step is `ExecuteModel` (the head of `execute_model`: ring, peek,
consume, `finish_requests`, `add_requests`, batch) and `SampleTokens` (sampling
and broadcast on the last rank; receive, optimistic advance and ring on the
first), or `EndEmptyStep`. Ranks are stepped together: both see the same
scheduler outputs in the same order and the first waits for the broadcast it
reads, so any slower interleaving shows the same values; that the broadcasts
arrive in this order and are waited for is what `PPStreams` checks. The scheduler is
abstract: `Schedulable` and `MayRun` admit any batch its rules allow, including
preemption and reuse of a row in the same step, and the lag of
`num_computed_tokens_np` by the rejections not yet processed.

Tokens are represented by the position up to which they are known (`tok`), which
is enough to tell an old token from the newest. `truth` and `mirror` are the two
copies of `num_computed_tokens`; `acc` and `mAcc` the accepted counts that pick
a recurrent state. `owed` and `used` are what the align kernel should use and
does use when an entry is consumed.

| Property | Meaning |
|---|---|
| `PositionsAgree` | a row that runs is computed at the same positions on both ranks |
| `TokensAgree` | and fed the newest tokens and drafts |
| `AcceptedAgree` | and continues from the same recurrent state |
| `AlignExact` | the deferred alignment decision uses the exact count of the consumed step |
| `RanksInv` | the inductive invariant behind the first three; that of `AlignExact` is in `PPRanks_proofs` |

Without the cadence (`next_decode_eligible_step`) the first three fail in
decision mode, as expected: the cadence is what makes them true. Exact-mirror
mode keeps `PositionsAgree` without it.

### AsyncScheduler and RequestService

`AsyncScheduler` has one action per request examined by each loop of
`schedule()`: `SkipRunning`, `ScheduleRunning`, `PreemptForRoom`, `EndRunning`,
`SkipWaiting`, `Admit`, `EndWaiting`, between `BeginSchedule` and
`UpdateAfterSchedule`; then `ScheduleAhead` or `ProcessOldest`
(`update_from_output`). `loop` holds the local variables of `schedule()`.
Requests arrive (`AddRequest`), are aborted (`AbortRequest`), the prefix cache
is reset (`ResetPrefixCache`) and the engine paused (`SetPauseState`) between
two turns, where the engine reads its input queue. The placeholder counting of
the asynchronous subclass, the request queues (`RequestQueues`), block allocation and
the batch queue are outside `src/`; they are modelled from how `scheduler.py` uses
them and marked external. The shared-prefix boundary of the alignment is 0 here: no
request shares a prefix with another. `Prefill` has every boundary.

`RequestService` is the abstract specification: requests are new, open or
closed, output positions are delivered once, in order, up to a limit, and every
open request is eventually closed. `AsyncScheduler` implements it: `ServedInOrder`
is the safety half, in every behaviour, `ServedAtLast` the closing of requests in
those that do not stay paused.

| Property | Meaning |
|---|---|
| `CountersExact` | the tokens counted in advance are those the ranks will hold if nothing is rejected |
| `StaleExact` | the stale share of a preempted request is exactly its tokens in flight, and drains with them |
| `SlotsCovered` | a written position has a block of its request; no block is lost or shared |
| `BudgetsExact`, `NoneOmitted`, `QueuesExact` | preemption in the loop keeps budgets, cursor and queues exact |
| `StepsFitRanks`, `DecodesApart` | what `PPRanks` assumes of batches and of the cadence |
| `ServedInOrder` | refinement of `RequestService`: output is delivered once, in order, never after the end |
| `ServedAtLast` | and every request is closed, unless the scheduler stays paused |

### ChunkSplit and Prefill

`ChunkSplit` translates `_mamba_block_aligned_split` and
`_reserve_prefill_lookahead` as operators; `AsyncScheduler` uses the same ones.
`Prefill` runs one request through successive calls with an arbitrary budget
each, and an arbitrary shared-prefix boundary. `ChunkEndsAligned` and `NoBoundaryJumped` say where a recurrent state may
or must be cached, `LookaheadLeft` (proved, not run) what the drafter is left, `PrefillCompletes`
that no position is a dead end.

### DeferredFree

Numbered and empty steps in flight, blocks held, fenced and free. `PoolUnused`:
no step in flight uses a block of the pool. `BlocksReturn`: a block whose fence,
and those before it, stand at scheduled steps returns without another step. The
module leaves open why requests run and give blocks up; `KVLoad` extends it with
the reasons, and the runs check it in `KVSchedule`.

### KVLoad and KVSchedule

Requests whose KV a connector loads. Tokens are counted in blocks, a request
computes its prompt in one chunk and then decodes inside its last block; what a
block is worth is whether it has KV (`valid`), and which blocks the prefix cache
offers is `cached`.

| Action | Code |
|---|---|
| `ScheduleSome` | a call of `schedule()`: a set of requests that run and one of requests that begin to load |
| `PromoteLoaded` | `_try_promote_blocked_waiting_request`, `_update_waiting_for_remote_kv` |
| `Write`, `Fail` | the connector's workers: a block arrives, or will not |
| `UpdateTransfers` | `update_from_output`: the drain, invalid blocks and their truncation, the output, errors, finished receives and sends |
| `Release` | `_free_blocks` of a request that ended, `_free_request_blocks` of a preempted one |
| `Abort`, `Preempt` | `finish_requests`, `_preempt_request` |

`KVLoad` leaves open which of the requests are admitted: what must never happen to
a block depends on none of it. What must happen does, so `KVSchedule` puts these
actions in their place of the engine's turn, between the queues of the scheduler.

| Action | Code |
|---|---|
| `AddRequest`, `AbortRequest` | `add_request`, `finish_requests`, between two turns |
| `BeginSchedule`, `PreemptForRoom`, `EndRunning` | the loop over the running requests; after a preemption the waiting ones are not looked at |
| `SkipWaiting` | the candidate still loads, or its stale output is in flight: it is set aside |
| `PromoteCandidate` | the candidate's load has arrived: it is promoted, and stays the candidate |
| `AdmitLoad`, `Admit` | the candidate fits: a load beside the reservation of in-flight prefills (`Reserved`), another in what is left of the pool |
| `EndWaiting` | the queues are empty or the candidate does not fit: what was set aside goes back |
| `EndSchedule` | the blocks are taken and the step is sent: `ScheduleSome` |
| `ScheduleAhead`, `ProcessOldest`, `ReleaseBlocks` | the batch queue, `update_from_output` |
| `Arrives`, `Breaks` | the connector's workers |

Token budgets and the limit of running requests are left out (`AsyncScheduler` has
them): the only thing short is blocks. `PreemptForRoom` may preempt whenever a
running request has steps left, since its decodes do not outgrow their block.

| Property | Meaning |
|---|---|
| `FenceInv`, `PoolUnused`, `BlocksReturn` | those of `DeferredFree`, with its actions driven by the scheduler |
| `LoadsAlone` | a block a load may still write is its request's alone, after an abort as well |
| `ComputedValid` | no request reads, and the cache never offers, a block without KV |
| `NoneLost` | a block is in the pool, a request's or fenced; ended requests keep blocks only for a transfer |
| `LoadsResolve` | every request is served or aborted (of `KVSchedule`) |

`PromoteLoaded` frees a failed load's blocks without looking at a fence
(`FreeAtOnce`). `DeferredFree` only allows that when no step uses them
(`FreeUnused`), so the guard is not assumed but shown by the refinement.

### PPStreams

What each rank's thread has issued and what its two streams have still to run.
`calls` and `part` are a thread's place in a step, `main` the main stream,
`side` the broadcast stream: a collective waits for the main stream as it was
when it was issued (`ahead`), runs when its turn has come on every rank, and
carries no name but its place. `slots` is the queue of `PPHandler`; an entry
popped puts a wait and its application on the main stream. On the first rank
`live`, `staged`, `requests`, `copying` and `copied` are the PLE connector: the
buffers a step's inputs are in, the handshake with the request thread, and what
it copied. `tables` and `turn` are the pool of gathered block tables. Values are
steps; what is computed from them is `PPRanks`.

| Property | Meaning |
|---|---|
| `Paired` | collectives that will meet are the same part of the same step, of one size |
| `ReadsArrived` | the main stream applies nothing that has not been received |
| `TablesOwn` | a step's block tables stay until its output is processed and its entry applied |
| `StagedOwn` | what is copied for a step are its own inputs |
| `QueueRoom` | the put into the queue of one place never overflows |
| `StepsProcessed` | no wait among threads, streams and ranks is circular |

The engine, NCCL and CUDA's stream order are outside `src/` and marked external. The
waits of the PLE handshake (`patch_p0.py`) give up after 60 s and fail the worker;
here they wait, so a wait that would never end shows as a deadlock.

### RejectionSampler

The last rank's verification of one request and the random draws it depends on.
Generators have no state: a draw is a hash of a seed, a position and a purpose,
so a key met twice yields the same number twice. `Verify` is one step: rows nobody
proposed for are rejected (`gather_draft_sampled`), verification examines the
drafts (all valid rows in block mode, up to the first rejection otherwise), the
rejected or bonus row is sampled, and the drafter proposes from there. `Resume`
brings the request back in a fresh row, with or without the output of the step in
flight. How many drafts are accepted is a free choice; what is tracked is which
draws the choice depended on (`last`, `decided`). Seeds are written as their
distance from the request's seed, since only their being equal matters.

| Property | Meaning |
|---|---|
| `FreshKeys` | no two decisions depend on draws with the same key |
| `DraftsOwn` | a draft that is examined was proposed for that step |
| `SamplerInv` | the inductive invariant: steps settle disjoint ranges of positions |

Two configurations are excluded by `Lossless` and fail, as
`mtp-spec-decode/README.md` says of them: sampled drafts that share the target's
noise, and block verification with stock keys.

## 4. Runs

| Run | Question | Bounds |
|---|---|---|
| `PPRanks_cadence` | do the ranks agree under the cadence | 2 rows, depth 2, 1 draft, generation counter of 2 |
| `PPRanks_exact` | does exact-mirror mode need the cadence, and is the ring exact at any spacing | 1 row, depth 3, 2 drafts, two shapes, cache hits |
| `PPRanks_mask` (violation) | may the mask drop a row that is thought to finish | 1 row, depth 2, 2 drafts |
| `Prefill_partial` | do chunks end well and does the prefill end | blocks of 4, hash blocks of 2, chunks of 10, prompts to 15, replays to 2, every junction and hit |
| `Prefill_stuck` (violation) | do alignment and reservation work together | lookahead 3, prompts to 13 |
| `AsyncScheduler_fcfs` | counters, blocks, the steps the ranks get, and service, with resets, aborts, pauses, preemption and dropped output | 2 requests, depth 3, 2 drafts, 6 blocks of 2 tokens, chunks aligned to 4, hits, 1 control, 4 batches |
| `AsyncScheduler_priority` | preemption inside the loop | 3 requests, 1 draft, 6 blocks |
| `KVSchedule_transfers` | are blocks safe and requests served while loads run, fail and are aborted | 2 requests of 2 and 3 blocks, 1 and 2 of them loaded, 3 blocks, FCFS, 2 steps in flight, 2 faults, both failure policies |
| `KVSchedule_order` (violation) | may a load that has arrived stand behind a request that does not fit | the same, without copies and faults; priority, the second request more urgent |
| `KVSchedule_retry` (violation) | is a load that failed tried again | the same as the first, without copies; the connector offers again |
| `RejectionSampler_keys` | are keys and drafts fresh | 3 drafts, prompts to 2, 7 tokens, all lossless configurations |
| `PPStreams_overlap` | does anything overtake anything, and does everything go on | depth 2, 2 drafts, 4 steps of any kind, 3 in flight, both mirror modes, 3 sets of tables |

Why the bounds are enough. A row interacts with another only through the
generation of its own row and the shared ring slots, so two rows show reuse and
independence, and depth 3 with one row shows a sum of more than one pending
advance. A generation counter of `Depth` values is the smallest the assumption
allows and makes it wrap all the time. Scheduler runs have KV room for less than
the requests want, so preemption occurs in each of the passing ones; `MaxBatches`
is one more than the depth, so the batch queue fills. One prefill is independent
of others but for its budget, which is arbitrary; 15 tokens are more than three
blocks and more than a chunk. Every passing run uses every action of its module
that its constants allow, and between them all.

Seven tokens let a step of three
drafts follow another. In `KVSchedule` each request may be preempted, so the run
has a pool either of the two fills: a load, a running prefill and a copied
source compete for the last block. `MaxSeq` is never reached there: requests
end first. Four steps at depth two let an entry be pushed, consumed and its
slot and table used again, with three steps in flight (one more than the depth);
the pool of three sets is one less than `patch_p0.py:80` asks for.
`MaxControls`, `MaxFaults`, `MaxSeq`, `MaxStep`, `MaxPrompt`, `MaxReplay`,
`MaxPrefill` and `MaxKnown` are the bounds that are not
in the code. Requests are finite and not resubmitted. Deadlock is not checked
where the system ends: all requests finished, the prompt prefilled, or no steps
left to schedule.

Fairness. `WF(Turn)`: one thread runs the engine loop and never blocks for ever
because workers answer in order. It gives no fairness to arrivals, aborts,
resets or pauses. `WF(Schedule(ChunkLimit))`: a request is offered a full chunk
again and again because other requests finish; the offered chunk may still be
empty, which is what `Prefill_stuck` shows. `WF(Work)` of `PPStreams`: as long
as some thread or stream can go on, one does; this asks less than fairness of
each, and suffices because every step is a bounded amount of work. Of `KVSchedule`:
`WF(Turn)` as above, with nothing said of which request is admitted or promoted,
since the queues decide that; `WF(Arrives(r))`: the connector writes or fails what
it was asked for; `SF(ProcessAll)`: of the outputs that could carry all that has
ended some does, strong because a step in flight comes and goes (with nothing in
flight the engine runs empty steps for it).

## 5. Findings

* `PPRanks_mask`: `p0-overlay/pp_utils.py:51` leaves out rows it takes for
  finished, from a count that includes rejected drafts. `patches-v2` removes the
  term (patch_54436); the overlay file has it.
* `Prefill_stuck`: with `num_prefill_lookahead > 1` a chunk is aligned and then
  reserved from (`scheduler.py:590-608`); near the end of a prefill nothing is
  left of it. For the same reason chunks may end inside a block. This needs a
  multi-module drafter; with the lookahead of 1 used here the theorems below
  exclude it.
* `KVSchedule_order`: `schedule()` leaves the waiting queues at the first request
  that does not fit (`scheduler.py:1067-1074`) and promotes a load only when it
  reaches it (`scheduler.py:769-771`). Under the priority policy a more urgent request
  that arrives while another loads stands before it. If it does not fit beside what
  the load holds and has reserved, the load is never promoted and both wait for ever.
  It takes no failure and no preemption. Under FCFS `skipped_waiting` comes first, and
  a request stands there before a load admitted after it only if it awaits stale
  output. In the model such a request gets back the blocks it had just when its output
  has drained, so `LoadsResolve` holds for these bounds with `Delivery = FALSE` too; one
  that has outgrown its blocks by then might not fit, but growth is not in this model,
  so nothing is claimed of that case.
* `KVSchedule_retry`: a load that failed with nothing valid frees its blocks
  (`scheduler.py:2774`) but leaves the request in `_inflight_prefills`. Offered
  again, it is measured against the pool less its own full need
  (`scheduler.py:1046-1057, 2737-2742`): with less than twice that many blocks it
  is never admitted, nor is another load that the remainder is too small for.
  This needs `kv_load_failure_policy = recompute` and a connector that offers
  the tokens again; one that does not lets the request compute them, which takes
  it out of the set, as `KVSchedule_transfers` shows.

A smaller one has no run of its own: `scheduler.py:960-962` cuts the rows of a padded
request after its drafts were decided, and the assertion at line 1158 fails. It needs
`long_prefill_token_threshold < 1 + num_spec_tokens`; the hypothesis `PaddedRowsFit`
below excludes it. `StepsFitRanks` shows it (`PadNewReqs`, no `AlignedSplit`,
`ChunkLimit` 2, `NumSpec` 2).

## 6. Proofs

All proofs are checked by TLAPS for every value of the constants that the named
assumptions allow. Every safety property that a passing run checks is stated by a
theorem, some under the hypotheses named here. Each hypothesis is met by the
configuration of the run that checks the property, so the run and the theorem
speak of the same system.

| Hypothesis | Theorems | Why it is needed |
|---|---|---|
| `Cadence` | `RanksCorrect`, `PositionsCorrect`, `TokensCorrect`, `AcceptedCorrect` | a decode must not run again before its correction |
| `~DropFinishing` | those and `AlignCorrect` | the mask of finding `PPRanks_mask` |
| `PaddedRowsFit` | those on `Counting`, below | a padded request loses its rows to a threshold shorter than them |
| `SteadyBudget` | `NoneOmittedHolds` | a victim's share may do for an aligned chunk what was left before did not |
| `Lookahead <= 1` | `ChunkProgress`, `ChunkEndsAlwaysAligned` | finding `Prefill_stuck` |
| `RejectUnproposed`, `Lossless` | those of `RejectionSampler_proofs` | the lossy configurations |
| `PoolFits` | `TablesStayOwn` | a smaller pool turns over while a step still reads |

### The ranks

`PPRanks_proofs`: `TypeCorrect` without further assumptions. `PositionsAgree` is
not inductive: a step may consume an entry made `Depth` steps before. `RanksInv`
says what is true of the entries still queued: `AgeBounded` (an entry in slot `j`
has seen at most `Depth - j` frees of its row, so a wrapped generation cannot
match), `PendingWaits` (a row with an entry in slot `j` is a live decode with `j`
steps to wait, so it has one entry and does not run before it is consumed),
`PendingExact` (until then the first rank lacks exactly that entry),
`SettledExact` (a row without entry agrees) and `BatchSettled` (the batch has no
pending row and the mask is the set of rows that sample).

`AlignCorrect` needs no cadence: rows may have several entries on their way. Its
invariant (`AlignInv`) says of each row that there are two histories (`Aligned`):
the first rank's count as it stood after each of the last `Depth` steps, and the
rejections that count still lacked. An entry was made with the difference of the
two, and what the ring holds for a step is the difference of two neighbouring
counts (`Traces`). The sum of the ring between the making of an entry and its
use telescopes (`RingSum`), which leaves what the align kernel should use.

### The scheduler

`AsyncScheduler_proofs` rests on `Base`: the types, what the local variables of
`schedule()` hold at each place of the loops (`Cursor`), in which queue a request
of each status stands (`Places`, `Queues`), and that what the step has so far
stands before the cursor. `BaseHolds` and `QueuesHold` have no hypothesis, nor
have `BudgetsHold` (what is left of a budget and what the rows took make the
whole, also when a victim gives its share back) and `SlotsHold` (blocks add up,
and a running request owns those of what it computes). `NoneOmittedHolds` assumes
`SteadyBudget`: without it a request passed over for want of a block-aligned
chunk ("Insufficient budget for a block-aligned chunk", in the code) may stand
before a victim whose share would have done.

`AsyncOutput_proofs` is about steps in flight. `StaleHolds` needs `Base` and
`Flights` only. The others, `CountersHold`, `StepsFitHold`, `TypeHolds`,
`ServiceKept` and `CadenceHolds`, rest on `Counting` and assume `PaddedRowsFit`.
`Counting` adds to `Base`, `Slots` and `Flights`: `FitSteps` (each step, when its
turn comes, finds the last rank's row where its rows and drafts fit), `Counteds`
(the scheduler's counters are what that row will be after all steps, nothing
being rejected), `Delivereds` (what will be delivered is the next token in
order), `NaturalRows` and `Queue`. A rejection lowers the forecast of every later
step by the same number as the counter; a step that sends the request anew cuts
the chain, and what precedes it is stale. None of these is inductive alone.
`ServiceKept` is the refinement of `RequestService`: each step maps to a step of
the service or a stutter. `CadenceHolds` adds `Cooleds`, which relates the
cooldown of a decode to the place of its last sampling step in the queue.

That counters never go below zero is part of `TypeHolds`, since it takes the
steps in flight; `Base` has integers.

### Chunks

`ChunkSplit_proofs`: `ChunkProgress`, from lemmas about `Floor`, the stops of a
chunk and the reservation. `Prefill_proofs`, from those lemmas:
`LookaheadAlwaysLeft` and `NoBoundaryEverJumped` for every lookahead,
`ChunkEndsAlwaysAligned` for `Lookahead <= 1`.

### Blocks and loads

`KVLoad_proofs` first proves `DeferredFree`: `FencesHold` and `PoolNeverUsed`, for
any sets of requests and blocks. `PoolUnused` needs `OnePlace` (a block is in the
pool, held, or behind one fence), `DueInOrder` (steps are processed in the order
of their numbers) and `UsesFenced` (what a step uses is held by a request
scheduled since, or behind a fence not before it).

`LoadsImplementFences`, `LoadsKeepFences` and `LoadsAlwaysAlone` hold for any
requests, depth of the batch queue and order of reports. The steps of `KVLoad` are
those of `DeferredFree` except that a failed load's blocks are freed at once; that
these are unused needs `Alone` (what a load writes, and what a request that waits
for a load holds, is used by no step in flight), and `Alone` needs `Books` (which
requests have a load outstanding, and that such a request runs no step and is not
released). `FenceInv` then follows from the theorem about `DeferredFree`.

`NoBlockLost` and `ComputedAlwaysValid` rest on `KeptInv`, which adds `Placed` (a
block is free, held or fenced), `Listed` (a request's table lists the blocks it
holds; one that ended keeps blocks only for a transfer) and `Filled` (what is
counted as computed is in blocks with KV, or of a load still to be written, or
failed and not reported). The pool is finite (`KVLoadAssumption`).

`QueuesImplementLoads`: each step of `KVSchedule` is one of `KVLoad` or leaves its state
alone, under either policy. The one step that needs an argument is `EndSchedule`: what
runs and what loads are disjoint, because only a request with nothing computed and an
offer from the connector loads, and only one without runs (`Admits`). So nothing that
is proved of `KVLoad` depends on what the queues hold or how they are ordered;
`QueuesKeepLoadsSafe` says so of the four invariants.

### Streams

`PPStreams_proofs`, for any depth, any number of steps and any order of threads
and streams:

* `OneRequest` and `StagesOwnInputs`. `Requested` (the staged event is clear
  exactly while one request is on its way) gives the first. The second needs
  `Ordered` (the thread asks for steps in increasing order, and the embeddings of
  the step asked for have not come) and `Windows`: in the first rank's main stream
  the forward pass of the step asked for stands before the inputs of any later
  step, and it cannot run before its embeddings are there, so the buffers cannot
  be refilled while they are copied.
* `CollectivesPaired`, from `CollInv`: a thread's unfinished steps are the last
  ones scheduled (`Lined`), a broadcast stream holds collectives in strictly
  increasing order of step and part (`Sided`), and what each rank has there or
  will still issue is the same set (`SameComing`). Two strictly increasing
  sequences of the same set agree at every place both have: at the least place
  where they did not, the lower of the two would be missing from the other.
* `ReadsOnlyArrived`, from `ReadInv`: what the main stream will apply stands after
  its wait or has arrived, and the entries queued are of issued steps.
* `TablesStayOwn`, from `TableInv`: the tables are those of the last steps gathered
  in the order of the rotation, the main stream keeps the order of steps, the
  entry at place `j` of the receive queue is of the step `Depth - j` before the
  last, and a step not yet done with has its tables still. `PoolFits ==
  MaxBatches <= Pool /\ Depth <= Pool` is less than what `patch_p0.py:80` asks for
  (one more than the batches).

### The sampler

`RejectionSampler_proofs`: `SamplerCorrect` and `DraftsAlwaysOwn` assume
`RejectUnproposed`, `KeysAlwaysFresh` also that every configuration is `Lossless`.
`FreshKeys` is about all past draws, so it needs where they lie: `DecidedBehind`
and `LastHere` (every draw that settled a token lies before the next step's first
row), from which `Separated` follows for each new step. In block mode the examined
tail reaches past that row and only the keys' own step part tells them apart,
which is why `Lossless` asks for it. At most seven drafts, the limit the code
states, keep `first * 8 + index` injective.

### How, and what is left to TLC

Queues, sums and forecasts are recursive functions or folds. What these return
for every argument is proved by taking the least argument at which a claim fails,
or a smallest set (`WFMin` and the facts about cardinality): the prover cannot
instantiate the library's induction theorems.

Model-checked only is liveness, which is outside the prover:
`PrefillCompletes`, `BlocksReturn`, `LoadsResolve`, `StepsProcessed` and
`ServedAtLast`. So are the four violations, being counterexamples.

## 7. Not modelled

Encoder inputs, LoRA limits, structured output, pooling, routed experts,
data-parallel prefill balancing and logging in the scheduler (not used by this
deployment, or without effect on the modelled state); loads that complete in the
step that runs, blocks shared between requests in `KVLoad`, decodes that
outgrow a block there (the growth of a request is in `AsyncScheduler`), and pauses and
prefix-cache resets while loads run; streaming
sessions; the timeouts of the PLE handshake; CUDA graphs and numerical kernels; the probability arithmetic of
sampling; the matching of text patches, offline conversions and scripts. The
reasons are listed per component in `PROJECT.json`.
