--------------------------- MODULE AsyncScheduler ---------------------------
(***************************************************************************)
(* The scheduler with asynchronous scheduling: it schedules a step before  *)
(* it knows what the steps in flight sampled.  It counts their tokens in   *)
(* advance (num_computed_tokens, num_output_placeholders), and takes back  *)
(* what was rejected when update_from_output gets the step's output, a     *)
(* pipeline depth later.  A preemption resets those counters while output  *)
(* is in flight; what returns then is stale.                               *)
(*                                                                         *)
(* One thread runs the engine: schedule(), then either the next schedule() *)
(* or update_from_output of the oldest step.  Requests arrive, are aborted *)
(* and the prefix cache is reset between two turns.  The loops of          *)
(* schedule() take one action per request they look at.  The workers       *)
(* execute the steps in order; what they do is visible only when a step's  *)
(* output is processed, so it happens there.                               *)
(***************************************************************************)
EXTENDS ChunkSplit, RequestQueues, FiniteSetsExt

CONSTANTS
  Prompt,        \* request -> num_prompt_tokens
  MaxTokens,     \* request -> max_tokens
  NumSpec,       \* num_spec_tokens
  MaxScheduled,  \* max_num_scheduled_tokens
  MaxBatched,    \* max_num_batched_tokens, the input budget
  DraftSlots,    \* max_num_new_slots_for_drafting
  MaxRunning,    \* max_num_running_reqs
  MaxModelLen,   \* max_model_len
  PPSize,        \* pp_size, the cadence of a request's decodes
  MaxBatches,    \* size of the engine's batch queue
  PadNewReqs,    \* VLLM_SPEC_PAD_NEW_REQS
  AlignedSplit,  \* need_mamba_block_aligned_split
  KVDelivery,    \* requires_kv_delivery: preemption drops what is in flight
  KVBlock,       \* tokens in a KV block
  NumBlocks,     \* KV blocks in the pool
  LookaheadSlots,\* num_lookahead_tokens: KV slots kept for the drafter
  Hits,          \* prefix-cache hits that occur
  EarlyStop,     \* a request may sample its stop token
  Controls,      \* calls that occur: "abort", "reset", "pause"
  MaxControls    \* bound: how many of them

ASSUME AsyncSchedulerAssumption ==
  /\ Prompt \in [Reqs -> Nat \ {0}] /\ MaxTokens \in [Reqs -> Nat \ {0}]
  /\ Rank \in [Reqs -> Nat]
  /\ \A r, s \in Reqs : Rank[r] = Rank[s] => r = s
  /\ Policy \in {"fcfs", "priority"}
  /\ NumSpec \in Nat /\ MaxScheduled \in Nat /\ MaxBatched \in Nat
  /\ ChunkLimit <= MaxScheduled
  /\ DraftSlots \in Nat /\ MaxRunning \in Nat
  /\ MaxModelLen \in Nat /\ \A r \in Reqs : Prompt[r] < MaxModelLen
  /\ PPSize \in Nat \ {0} /\ MaxBatches \in Nat \ {0}
  /\ PadNewReqs \in BOOLEAN /\ AlignedSplit \in BOOLEAN /\ KVDelivery \in BOOLEAN
  /\ KVBlock \in Nat \ {0} /\ NumBlocks \in Nat /\ LookaheadSlots \in Nat
  /\ Hits \subseteq Nat /\ 0 \in Hits
  /\ EarlyStop \in BOOLEAN
  /\ Controls \subseteq {"abort", "reset", "pause"} /\ MaxControls \in Nat

VARIABLES
  req,       \* request -> its scheduling state
  out,       \* request -> positions of its output tokens
  running,   \* the running list
  waiting,   \* the waiting queue
  skipped,   \* skipped_waiting
  finished,  \* finished_req_ids
  free,      \* free KV blocks
  pause,     \* _pause_state
  pc,        \* "engine", "running", "waiting", "update" or "process"
  loop,      \* schedule()'s local variables
  steps,     \* scheduler outputs in flight, the oldest first
  worker,    \* request -> the last rank's num_computed_tokens and prefill_len
  controls   \* aborts, resets and pauses so far

queueVars == <<running, waiting, skipped>>
vars == <<req, out, queueVars, finished, free, pause, pc, loop, steps, worker, controls>>

Smaller(a, b) == IF a <= b THEN a ELSE b

-----------------------------------------------------------------------------
(* Requests and queues.                                                    *)

NewRequest ==
  [status |-> "new", computed |-> 0, holders |-> 0, spec |-> 0, flight |-> 0,
   stale |-> 0, drop |-> FALSE, chunk |-> FALSE, cool |-> 0, blocks |-> 0]

Tokens(r) == Prompt[r] + Len(out[r])

\* _select_waiting_queue_for_scheduling
FromSkipped ==
  /\ skipped # <<>>
  /\ Policy = "priority" /\ waiting # <<>> => Rank[skipped[1]] < Rank[waiting[1]]
Candidate == IF FromSkipped THEN skipped[1] ELSE waiting[1]

\* Mutant: an undrained share is counted twice.
SharesAdded(q) == q.stale + q.flight

\* All output in flight is stale, an undrained share included; dropped if that
\* share was.
StaleShare(q) == q.flight
KeepsDropping(q, dropping) == dropping \/ (q.drop /\ q.stale > 0)

\* Mutants: the placeholders, or the blocks, are kept.
PreemptedHolding(q, dropping) ==
  [q EXCEPT !.status = "preempted", !.computed = 0, !.spec = 0,
            !.drop = KeepsDropping(q, dropping), !.stale = StaleShare(q), !.blocks = 0]
PreemptedOwning(q, dropping) ==
  [q EXCEPT !.status = "preempted", !.computed = 0, !.spec = 0, !.holders = 0,
            !.drop = KeepsDropping(q, dropping), !.stale = StaleShare(q)]

\* _preempt_request
Preempted(q, dropping) ==
  [q EXCEPT !.status = "preempted", !.computed = 0, !.spec = 0, !.holders = 0,
            !.drop = KeepsDropping(q, dropping), !.stale = StaleShare(q), !.blocks = 0]

\* A finished request leaves self.requests; nothing of it but its output is kept.
Closed == [NewRequest EXCEPT !.status = "finished"]

\* The KV blocks of the requests in S.
BlocksOf(S) == SumFunctionOnSet([r \in Reqs |-> req[r].blocks], S)

BlocksFor(n) == (Smaller(n, MaxModelLen) + KVBlock - 1) \div KVBlock

\* allocate_slots: blocks for n tokens after start and the drafter's slots.
NewBlocks(r, start, n) ==
  Larger(BlocksFor(start + n + LookaheadSlots) - req[r].blocks, 0)

-----------------------------------------------------------------------------
(* What schedule() gives a request.                                        *)

\* schedule() splits and reserves a chunk; a decode passes unchanged.
Cut(start, n, r) ==
  LET m == IF AlignedSplit THEN Split(start, n, Prompt[r], Tokens(r), 0) ELSE n
  IN  Reserve(start, m, Tokens(r))

InputLeft == loop.input - DraftSlots

\* Tokens a running request wants.
WantedByRunning(r) ==
  LET q    == req[r]
      ask  == Tokens(r) + q.spec + q.holders - q.computed
      n    == Smaller(Smaller(ask, ChunkLimit), Smaller(loop.tokens, InputLeft))
  IN  Cut(q.computed, Smaller(n, MaxModelLen - q.computed - 1), r)

\* Mutant: no step need be in flight.
LastStepIsNext(r) ==
  req[r].computed + 2 - req[r].holders >= Prompt[r] + MaxTokens[r]

\* The step in flight is sure to reach max_tokens.
LastStepScheduled(r) ==
  req[r].holders > 0 /\
  req[r].computed + 2 - req[r].holders >= Prompt[r] + MaxTokens[r]

\* Mutant: a decode is eligible one step early.
ThrottledLess(r) == req[r].cool > 1

\* "enforce pp_size steps between same-req decodes"
Throttled(r) == req[r].cool > 0

\* Draft tokens among n scheduled tokens.
DraftsOf(r, n) ==
  Smaller(req[r].spec, Larger(n + req[r].computed - Tokens(r) - req[r].holders, 0))

\* A new decode is padded to the size of the running decodes.
PadsNew(r, hit) ==
  /\ PadNewReqs /\ NumSpec > 0 /\ Tokens(r) - hit = 1
  /\ DOMAIN loop.n # DOMAIN loop.fresh /\ ~loop.prefills

\* Mutant: the drafts are scheduled although the rows are not.
NeverClipped(split) == FALSE

\* Alignment clipped the padded rows.
Clipped(split) == AlignedSplit /\ split # 1 + NumSpec

\* Tokens and drafts of a waiting request with that cache hit; no tokens if
\* schedule() stops at it.
OfferToWaiting(r, hit) ==
  LET padded == PadsNew(r, hit)
      ask    == IF padded THEN 1 + NumSpec ELSE Tokens(r) - hit
      room   == Smaller(loop.tokens, InputLeft)
      n      == Smaller(Smaller(ask, ChunkLimit), room)
      split  == IF AlignedSplit THEN Split(hit, n, Prompt[r], Tokens(r), 0) ELSE n
      clipped == padded /\ Clipped(split)
      m      == Reserve(hit, IF clipped /\ split > 0 THEN 1 ELSE split, Tokens(r))
  IN  IF padded /\ (ask > room \/ hit + ask > MaxModelLen)
      THEN [n |-> 0, d |-> 0]
      ELSE [n |-> m, d |-> IF padded /\ ~clipped THEN NumSpec ELSE 0]

NoLoop == [i |-> 1, want |-> 0, tokens |-> 0, input |-> 0, n |-> <<>>, d |-> <<>>,
           fresh |-> <<>>, preempted |-> FALSE, prefills |-> FALSE, skipped |-> <<>>]

\* f without the key r, and with it.
Dropped(f, r) == [s \in DOMAIN f \ {r} |-> f[s]]
With(f, r, v) == [s \in DOMAIN f \cup {r} |-> IF s = r THEN v ELSE f[s]]

-----------------------------------------------------------------------------
Init ==
  /\ req = [r \in Reqs |-> NewRequest]
  /\ out = [r \in Reqs |-> <<>>]
  /\ running = <<>> /\ waiting = <<>> /\ skipped = <<>>
  /\ finished = {}
  /\ free = NumBlocks
  /\ pause = "unpaused"
  /\ pc = "engine"
  /\ loop = NoLoop
  /\ steps = <<>>
  /\ worker = [r \in Reqs |-> [computed |-> 0, prefill |-> 0]]
  /\ controls = 0

-----------------------------------------------------------------------------
(* Calls from outside, between two turns of the engine.                    *)

AddRequest(r) ==
  /\ pc = "engine" /\ req[r].status = "new"
  /\ req' = [req EXCEPT ![r].status = "waiting"]
  /\ waiting' = Added(waiting, r)
  /\ UNCHANGED <<out, running, skipped, finished, free, pause, pc, loop, steps,
                 worker, controls>>

Control(c) ==
  /\ pc = "engine" /\ c \in Controls /\ controls < MaxControls
  /\ controls' = controls + 1

\* finish_requests and _free_request
AbortRequest(r) ==
  /\ Control("abort")
  /\ req[r].status \in {"waiting", "running", "preempted"}
  /\ req' = [req EXCEPT ![r] = Closed]
  /\ running' = Without(running, {r})
  /\ waiting' = Without(waiting, {r})
  /\ skipped' = Without(skipped, {r})
  /\ finished' = finished \cup {r}
  /\ free' = free + req[r].blocks
  /\ UNCHANGED <<out, pause, pc, loop, steps, worker>>

\* reset_prefix_cache(reset_running_requests = True)
ResetPrefixCache ==
  /\ Control("reset")
  /\ running # <<>>
  /\ req' = [r \in Reqs |-> IF r \in Elements(running) THEN Preempted(req[r], TRUE)
                            ELSE req[r]]
  /\ waiting' = AllPrepended(waiting, running)
  /\ running' = <<>>
  /\ free' = free + BlocksOf(Elements(running))
  /\ UNCHANGED <<out, skipped, finished, pause, pc, loop, steps, worker>>

SetPauseState(p) ==
  /\ Control("pause")
  /\ pause # p
  /\ pause' = p
  /\ UNCHANGED <<req, out, queueVars, finished, free, pc, loop, steps, worker>>

-----------------------------------------------------------------------------
(* schedule(): the running requests.                                       *)

\* has_requests: finished ids to send, or get_num_unfinished_requests.
HasRequests ==
  \/ finished # {}
  \/ pause # "all" /\ running # <<>>
  \/ pause = "unpaused" /\ waiting \o skipped # <<>>

BeginSchedule ==
  /\ pc = "engine" /\ HasRequests
  /\ pc' = "running"
  /\ loop' = [NoLoop EXCEPT !.tokens = IF pause = "all" THEN 0 ELSE MaxScheduled,
                            !.input = MaxBatched]
  /\ req' = [r \in Reqs |-> [req[r] EXCEPT !.cool = Larger(@ - 1, 0)]]
  /\ UNCHANGED <<out, queueVars, finished, free, pause, steps, worker, controls>>

AtRunning ==
  /\ pc = "running"
  /\ loop.i <= Len(running) /\ loop.tokens > 0 /\ loop.input > DraftSlots

Current == running[loop.i]

\* What the current request gets; kept while others are preempted for it.
WantedNow == IF loop.want > 0 THEN loop.want
             ELSE IF LastStepScheduled(Current) \/ Throttled(Current) THEN 0
             ELSE WantedByRunning(Current)

Fits(r, start, n) == NewBlocks(r, start, n) <= free

SkipRunning ==
  /\ AtRunning /\ WantedNow = 0
  /\ loop' = [loop EXCEPT !.i = @ + 1]
  /\ UNCHANGED <<req, out, queueVars, finished, free, pause, pc, steps, worker, controls>>

ScheduleRunning ==
  LET r == Current
      n == WantedNow
  IN
  /\ AtRunning /\ n > 0 /\ Fits(r, req[r].computed, n)
  /\ req' = [req EXCEPT ![r].spec = 0,
                        ![r].blocks = @ + NewBlocks(r, req[r].computed, n)]
  /\ free' = free - NewBlocks(r, req[r].computed, n)
  /\ loop' = [loop EXCEPT !.i = @ + 1, !.want = 0,
                          !.tokens = @ - n, !.input = @ - (n + DraftSlots),
                          !.n = With(@, r, n), !.d = With(@, r, DraftsOf(r, n)),
                          !.prefills = @ \/ req[r].chunk]
  /\ UNCHANGED <<out, queueVars, finished, pause, pc, steps, worker, controls>>

\* Mutants: a victim's share of the step is lost; the cursor skips a request.
NoneBack(victim) == 0
CursorKept(v) == loop.i

\* The share of the step a victim gives back.
GivenBack(victim) ==
  IF Policy = "priority" /\ victim \in DOMAIN loop.n THEN loop.n[victim] ELSE 0

\* The cursor when the request at v leaves the running list.
CursorAfter(v) == IF v < loop.i THEN loop.i - 1 ELSE loop.i

\* No room for the current request: preempt the last one, or the one of lowest
\* priority, and give back its share of the step if it has one.
PreemptForRoom ==
  LET r      == Current
      v      == IF Policy = "fcfs" THEN Len(running)
                ELSE CHOOSE j \in DOMAIN running :
                       \A k \in DOMAIN running : Rank[running[k]] <= Rank[running[j]]
      victim == running[v]
      back   == GivenBack(victim)
  IN
  /\ AtRunning /\ WantedNow > 0 /\ ~Fits(r, req[r].computed, WantedNow)
  /\ running' = Without(running, {victim})
  /\ waiting' = Prepended(waiting, victim)
  /\ req' = [req EXCEPT ![victim] = Preempted(@, KVDelivery)]
  /\ free' = free + req[victim].blocks
  /\ loop' = [loop EXCEPT !.preempted = TRUE,
                !.i = CursorAfter(v),
                !.want = IF victim = r THEN 0 ELSE WantedNow,
                !.tokens = @ + back,
                !.input = @ + (IF back > 0 THEN back + DraftSlots ELSE 0),
                !.n = Dropped(@, victim), !.d = Dropped(@, victim)]
  /\ pc' = IF victim = r THEN "update" ELSE pc
  /\ UNCHANGED <<out, skipped, finished, pause, steps, worker, controls>>

EndRunning ==
  /\ pc = "running" /\ ~AtRunning
  /\ pc' = IF loop.preempted \/ pause # "unpaused" THEN "update" ELSE "waiting"
  /\ UNCHANGED <<req, out, queueVars, finished, free, pause, loop, steps, worker, controls>>

-----------------------------------------------------------------------------
(* schedule(): the waiting requests.                                       *)

AtWaiting ==
  /\ pc = "waiting"
  /\ waiting \o skipped # <<>>
  /\ loop.tokens > 0 /\ loop.input > DraftSlots
  /\ Len(running) < MaxRunning

\* Mutant: a request resumes although its output is on the way.
NeverAwaits(r) == FALSE

\* Output that will still be delivered is in flight.
AwaitsOutput(r) == req[r].stale > 0 /\ ~req[r].drop

PopCandidate ==
  IF FromSkipped THEN skipped' = Tail(skipped) /\ UNCHANGED waiting
                 ELSE waiting' = Tail(waiting) /\ UNCHANGED skipped

SkipWaiting ==
  /\ AtWaiting /\ AwaitsOutput(Candidate)
  /\ PopCandidate
  /\ loop' = [loop EXCEPT !.skipped = Append(@, Candidate)]
  /\ UNCHANGED <<req, out, running, finished, free, pause, pc, steps, worker, controls>>

\* A prefix-cache hit leaves at least one token to compute.
HitsOf(r) == {h \in Hits : h < Tokens(r)}

Admit(hit) ==
  LET r   == Candidate
      n   == OfferToWaiting(r, hit).n
  IN
  /\ AtWaiting /\ ~AwaitsOutput(r)
  /\ n > 0 /\ Fits(r, hit, n)
  /\ PopCandidate
  /\ running' = Append(running, r)
  /\ req' = [req EXCEPT ![r].status = "running", ![r].computed = hit,
                        ![r].blocks = @ + NewBlocks(r, hit, n)]
  /\ free' = free - NewBlocks(r, hit, n)
  /\ loop' = [loop EXCEPT !.tokens = @ - n, !.input = @ - (n + DraftSlots),
                !.n = With(@, r, n), !.d = With(@, r, OfferToWaiting(r, hit).d),
                !.fresh = With(@, r, [computed |-> hit, prefill |-> Tokens(r)])]
  /\ UNCHANGED <<out, finished, pause, pc, steps, worker, controls>>

\* The loop ends, by itself or at a request that cannot be scheduled.
EndWaiting ==
  /\ pc = "waiting"
  /\ AtWaiting =>
        /\ ~AwaitsOutput(Candidate)
        /\ \E hit \in HitsOf(Candidate) :
             LET n == OfferToWaiting(Candidate, hit).n
             IN  n = 0 \/ ~Fits(Candidate, hit, n)
  /\ pc' = "update"
  /\ skipped' = AllPrepended(skipped, loop.skipped)
  /\ loop' = [loop EXCEPT !.skipped = <<>>]
  /\ UNCHANGED <<req, out, running, waiting, finished, free, pause, steps, worker, controls>>

\* _update_after_schedule, with AsyncScheduler's part.
UpdateAfterSchedule ==
  LET Scheduled(q, r) ==
        LET computed == q.computed + loop.n[r]
            chunk    == computed < Tokens(r) + q.holders
        IN  [q EXCEPT !.computed = computed, !.flight = @ + loop.n[r], !.chunk = chunk,
               !.holders = IF chunk THEN @ ELSE @ + 1 + loop.d[r],
               !.spec = IF chunk THEN @ ELSE NumSpec,
               !.cool = IF chunk THEN @ ELSE PPSize]
  IN
  /\ pc = "update"
  /\ req' = [r \in Reqs |-> IF r \in DOMAIN loop.n THEN Scheduled(req[r], r) ELSE req[r]]
  /\ steps' = Append(steps, [n |-> loop.n, d |-> loop.d, fresh |-> loop.fresh])
  /\ finished' = {}
  /\ pc' = "process"
  /\ loop' = NoLoop
  /\ UNCHANGED <<out, queueVars, free, pause, worker, controls>>

-----------------------------------------------------------------------------
(* The engine's turn and update_from_output.                               *)

\* A step with tokens is in flight and the batch queue has room: when the
\* oldest step is not done, the engine schedules another one first.
ScheduleAhead ==
  /\ pc = "process"
  /\ DOMAIN steps[Len(steps)].n # {} /\ Len(steps) < MaxBatches
  /\ pc' = "engine"
  /\ UNCHANGED <<req, out, queueVars, finished, free, pause, loop, steps, worker, controls>>

\* Whose turn it is to wait for the oldest step.
ProcessesOldest ==
  \/ pc = "process"
  \/ pc = "engine" /\ ~HasRequests /\ steps # <<>>

\* The last rank's state of a row when it executes the oldest step.
RowState(r) ==
  IF r \in DOMAIN steps[1].fresh THEN steps[1].fresh[r] ELSE worker[r]

Samples(r) == RowState(r).computed + steps[1].n[r] >= RowState(r).prefill

\* Tokens that can be appended of those generated: check_stop ends at max_tokens
\* and at max_model_len.
Room(r) == Smaller(MaxTokens[r] - Len(out[r]), MaxModelLen - Tokens(r))

\* Mutant: dropped output is delivered.
DeliversDropped(r) == Samples(r) /\ req[r].status # "finished"

\* The row's output is delivered: not for a closed request, a chunk that does
\* not sample, or dropped output.
Delivers(r) ==
  /\ Samples(r)
  /\ req[r].status # "finished"
  /\ ~(req[r].stale > 0 /\ req[r].drop)

\* Stale output leaves the counters alone.
CountsOutput(r) == Delivers(r) /\ req[r].stale = 0

\* update_from_output for the oldest step.  Row r accepts accepted[r] of its
\* drafts; of the generated tokens it delivers given[r]; the rows in eos sample
\* their stop token last.
UpdateFromOutput(accepted, given, eos) ==
  LET step   == steps[1]
      rows   == DOMAIN step.n
      Rej(r) == IF Samples(r) THEN step.d[r] - accepted[r] ELSE 0
      First(r) == RowState(r).computed + step.n[r] - step.d[r]
      Ends(r) == r \in rows /\ given[r] > 0 /\ (r \in eos \/ given[r] = Room(r))
      Updated(q, r) ==
        LET rej   == IF CountsOutput(r) THEN Rej(r) ELSE 0
            kept  == IF CountsOutput(r) THEN given[r] ELSE 0
        IN  [q EXCEPT !.flight = @ - step.n[r],
               !.stale = IF @ > 0 THEN @ - step.n[r] ELSE 0,
               !.computed = IF @ > 0 THEN @ - rej ELSE @,
               !.holders = (IF @ > 0 THEN @ - rej ELSE @) - kept]
      stopped == {r \in Reqs : Ends(r)}
  IN
  /\ req' = [r \in Reqs |->
               IF r \notin rows \/ req[r].status = "finished" THEN req[r]
               ELSE IF Ends(r) THEN Closed ELSE Updated(req[r], r)]
  /\ out' = [r \in Reqs |-> IF r \notin rows THEN out[r]
                            ELSE out[r] \o [i \in 1..given[r] |-> First(r) + i - 1]]
  /\ worker' = [r \in Reqs |->
       IF r \notin rows THEN worker[r]
       ELSE [RowState(r) EXCEPT !.computed = @ + step.n[r] - Rej(r)]]
  /\ running' = Without(running, stopped)
  /\ waiting' = Without(waiting, stopped)
  /\ skipped' = Without(skipped, stopped)
  /\ finished' = finished \cup stopped
  /\ free' = free + BlocksOf(stopped)
  /\ steps' = Tail(steps)
  /\ pc' = "engine"
  /\ UNCHANGED <<pause, loop, controls>>

\* The outcomes a step can have.
MayOutput(accepted, given, eos) ==
  \A r \in DOMAIN steps[1].n :
    /\ accepted[r] <= (IF Samples(r) THEN steps[1].d[r] ELSE 0)
    /\ IF ~Delivers(r) THEN given[r] = 0 /\ r \notin eos
       ELSE LET most == Smaller(1 + accepted[r], Room(r))
            IN  IF r \in eos THEN EarlyStop /\ given[r] \in 1..most
                             ELSE given[r] = most

ProcessOldest ==
  /\ ProcessesOldest
  /\ LET rows == DOMAIN steps[1].n
     IN  \E accepted \in [rows -> 0..NumSpec], given \in [rows -> 0..(1 + NumSpec)],
            eos \in SUBSET rows :
           /\ MayOutput(accepted, given, eos)
           /\ UpdateFromOutput(accepted, given, eos)

-----------------------------------------------------------------------------
\* What the engine does by itself.
Turn ==
  \/ BeginSchedule
  \/ SkipRunning \/ ScheduleRunning \/ PreemptForRoom \/ EndRunning
  \/ SkipWaiting \/ (\E hit \in Hits : AtWaiting /\ hit \in HitsOf(Candidate) /\ Admit(hit))
  \/ EndWaiting \/ UpdateAfterSchedule
  \/ ScheduleAhead \/ ProcessOldest

Next ==
  \/ \E r \in Reqs : AddRequest(r) \/ AbortRequest(r)
  \/ ResetPrefixCache
  \/ \E p \in {"unpaused", "new", "all"} : SetPauseState(p)
  \/ Turn

\* The engine thread keeps running; it is the only process.
Spec == Init /\ [][Next]_vars /\ WF_vars(Turn)

-----------------------------------------------------------------------------
TypeOK ==
  /\ req \in [Reqs -> [status : {"new", "waiting", "running", "preempted", "finished"},
                       computed : Nat, holders : Nat, spec : 0..NumSpec,
                       flight : Nat, stale : Nat, drop : BOOLEAN, chunk : BOOLEAN,
                       cool : 0..PPSize, blocks : Nat]]
  /\ \A r \in Reqs : out[r] \in Seq(Nat)
  /\ running \in Seq(Reqs) /\ waiting \in Seq(Reqs) /\ skipped \in Seq(Reqs)
  /\ finished \subseteq Reqs /\ free \in 0..NumBlocks
  /\ pause \in {"unpaused", "new", "all"}
  /\ pc \in {"engine", "running", "waiting", "update", "process"}
  /\ Len(steps) <= MaxBatches
  /\ worker \in [Reqs -> [computed : Nat, prefill : Nat]]
  /\ controls \in 0..MaxControls

\* Between two calls of schedule().
Settled == pc \in {"engine", "process"}

\* The steps in flight that contain r; those of its current incarnation start
\* with the last one that sent it as a new request.
StepsOf(r) == {j \in DOMAIN steps : r \in DOMAIN steps[j].n}
CurrentSteps(r) ==
  {j \in StepsOf(r) : \A k \in DOMAIN steps : k > j => r \notin DOMAIN steps[k].fresh}
TokensIn(r, S) == SumFunctionOnSet([j \in S |-> steps[j].n[r]], S)

\* The last rank's state w of r's row when it starts a step, and after the step
\* if nothing is rejected.
Starts(w, step, r) == IF r \in DOMAIN step.fresh THEN step.fresh[r] ELSE w
Advanced(w, step, r) ==
  IF r \in DOMAIN step.n
  THEN [Starts(w, step, r) EXCEPT !.computed = @ + step.n[r]] ELSE w

\* That state after each of the steps in flight.
Forecast(r) ==
  LET f[j \in 0..Len(steps)] ==
        IF j = 0 THEN worker[r] ELSE Advanced(f[j - 1], steps[j], r)
  IN  f

(***************************************************************************)
(* The tokens counted in advance are exactly those the ranks will have     *)
(* computed when all steps in flight are done and nothing is rejected; and *)
(* once the prefill is scheduled only the newest token is uncomputed.      *)
(***************************************************************************)
CountersExact ==
  Settled => \A r \in Elements(running) :
    /\ req[r].computed = Forecast(r)[Len(steps)].computed
    /\ IF req[r].chunk THEN req[r].holders = 0 /\ req[r].computed < Tokens(r)
                       ELSE req[r].computed = Tokens(r) + req[r].holders - 1

(***************************************************************************)
(* A preempted request's stale share is exactly what was in flight when it *)
(* was preempted, drained step by step even after it has resumed.          *)
(***************************************************************************)
StaleExact ==
  Settled => \A r \in Reqs : req[r].status \in {"waiting", "running", "preempted"} =>
    /\ req[r].flight = TokensIn(r, StepsOf(r))
    /\ req[r].status = "preempted" => req[r].stale = req[r].flight
    /\ req[r].status = "running" =>
         req[r].stale = TokensIn(r, StepsOf(r) \ CurrentSteps(r))

(***************************************************************************)
(* What PPRanks takes for granted of a batch: a decode verifies one draft  *)
(* per row but the first, a prefill stops at the end of the known tokens,  *)
(* and only a padded one-token prefill has drafts.                         *)
(***************************************************************************)
StepsFitRanks ==
  steps # <<>> => \A r \in DOMAIN steps[1].n :
    LET left == RowState(r).prefill - RowState(r).computed
        n    == steps[1].n[r]
        d    == steps[1].d[r]
    IN  \/ left <= 0 /\ d = n - 1 /\ d <= NumSpec
        \/ left > 0 /\ n \in 1..left /\ d = 0
        \/ left = 1 /\ n = 1 + NumSpec /\ d = NumSpec

\* The steps of r's current incarnation in which the last rank samples for it.
SamplingSteps(r) ==
  {j \in CurrentSteps(r) : Forecast(r)[j].computed >= Forecast(r)[j].prefill}

(***************************************************************************)
(* The cadence PPRanks needs: two steps that sample for a request are      *)
(* PPSize calls of schedule() apart, empty ones included.                  *)
(***************************************************************************)
DecodesApart ==
  \A r \in Elements(running) : \A j, k \in SamplingSteps(r) : j < k => k - j >= PPSize

(***************************************************************************)
(* What schedule() asserts at its end (scheduler.py:1192-1204), also after *)
(* a preemption gave back its share of the step: the budgets spent are     *)
(* those of the scheduled requests, which all run.                         *)
(***************************************************************************)
BudgetsExact ==
  pc = "update" =>
    LET spent == SumFunction(loop.n)
    IN  /\ loop.tokens >= 0 /\ loop.input >= 0
        /\ pause # "all" => spent = MaxScheduled - loop.tokens
        /\ spent + DraftSlots * Cardinality(DOMAIN loop.n) = MaxBatched - loop.input
        /\ DOMAIN loop.n \subseteq Elements(running)
        /\ Len(running) <= MaxRunning

(***************************************************************************)
(* When the loop over the running requests ends by itself, it has looked   *)
(* at every one of them ("preventing the silent omission of the subsequent *)
(* request" after a preemption, scheduler.py:654-656): one that got        *)
(* nothing wants nothing, or the step is full.                             *)
(***************************************************************************)
NoneOmitted ==
  pc = "running" /\ loop.i > Len(running) =>
    \A r \in Elements(running) \ DOMAIN loop.n :
      \/ loop.tokens = 0 \/ loop.input <= DraftSlots
      \/ LastStepScheduled(r) \/ Throttled(r) \/ WantedByRunning(r) = 0

(***************************************************************************)
(* Every accepted, unfinished request is in exactly one queue, once, the   *)
(* one its status says: preemptions, skips and stops lose none.            *)
(***************************************************************************)
QueuesExact ==
  LET all == running \o waiting \o skipped \o loop.skipped
  IN  /\ Len(all) = Cardinality(Elements(all))
      /\ Elements(running) = {r \in Reqs : req[r].status = "running"}
      /\ Elements(all) = {r \in Reqs : req[r].status \notin {"new", "finished"}}

(***************************************************************************)
(* Every position a step in flight may write has a KV block of the request *)
(* that writes it, blocks are neither lost nor given twice, and only       *)
(* running requests hold any.                                              *)
(***************************************************************************)
SlotsCovered ==
  /\ free + BlocksOf(Elements(running)) = NumBlocks
  /\ \A r \in Reqs :
       IF r \in Elements(running)
       THEN req[r].computed <= MaxModelLen
            /\ req[r].computed <= req[r].blocks * KVBlock
       ELSE req[r].blocks = 0

-----------------------------------------------------------------------------
(* The service the clients see.                                            *)

Phase(r) == IF req[r].status = "new" THEN "new"
            ELSE IF req[r].status = "finished" THEN "closed" ELSE "open"

Service == INSTANCE RequestService WITH
  Limit <- [r \in Reqs |-> Smaller(MaxTokens[r], MaxModelLen - Prompt[r])],
  Burst <- 1 + NumSpec,
  phase <- [r \in Reqs |-> Phase(r)]

(***************************************************************************)
(* Clients get every output token once and in order, never past the limit  *)
(* or after the end, whatever is preempted, reset, speculated or rejected. *)
(***************************************************************************)
ServedInOrder == Service!Safety

(***************************************************************************)
(* Every accepted request is eventually finished, unless the scheduler     *)
(* stays paused.                                                           *)
(***************************************************************************)
ServedAtLast == <>[](pause = "unpaused") => Service!Closes
=============================================================================
