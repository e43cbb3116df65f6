----------------------------- MODULE PPStreams -----------------------------
(***************************************************************************)
(* How the ranks of the pipeline overlap.                                  *)
(*                                                                         *)
(* On every rank a thread issues the work of the steps in the scheduler's  *)
(* order and never waits for the device.  What it issues runs later, in    *)
(* order, on two streams: the main stream (inputs, forward pass, sampling, *)
(* drafting) and the broadcast stream of PPHandler, whose collectives run  *)
(* on a communicator of their own.  A collective waits for the main stream *)
(* as it was when the collective was issued, runs when every rank has      *)
(* reached its turn, and is matched by order alone: nothing names the step *)
(* it belongs to.  The entry a rank pushed in step T is consumed Depth     *)
(* steps later, and only there does the main stream wait for it.           *)
(*                                                                         *)
(* The first rank also owns the PLE layers: a request thread copies the    *)
(* inputs of a step out of the live buffers and asks a CPU worker for the  *)
(* embeddings, which the forward pass of that step waits for.              *)
(***************************************************************************)
EXTENDS Integers, Sequences

CONSTANTS
  Depth,     \* pipeline_parallel_size: ranks 1..Depth, the last one samples
  NumSpec,   \* num_speculative_steps
  Relay,     \* relay_draft_tokens: a speculative config is set
  Modes,     \* values of VLLM_PP_EXACT_MIRROR with async scheduling
  Ple,       \* the first rank has a PLE offload connector
  Pool,      \* VLLM_BT_POOL: sets of gathered block tables
  MaxBatches, \* max_concurrent_batches: size of the engine's batch queue
  MaxStep    \* bound: steps scheduled

ASSUME PPStreamsAssumption ==
  /\ Depth \in Nat /\ Depth >= 2
  /\ NumSpec \in Nat
  /\ Relay \in BOOLEAN /\ Modes \subseteq BOOLEAN /\ Ple \in BOOLEAN
  /\ Pool \in Nat /\ Pool >= 1
  /\ MaxBatches \in Nat
  /\ MaxStep \in Nat

VARIABLES
  exact,     \* _pp_exact_mirror, read once
  scheduled, \* steps scheduled so far
  inFlight,  \* the engine's batch queue: steps not processed, oldest first
  calls,     \* rank -> steps its thread has not finished, oldest first
  part,      \* rank -> what it issues next of the oldest: "execute", "forward"
             \* or "sample"
  slots,     \* rank -> PPHandler.queue: steps, 0 for None, oldest first
  main,      \* rank -> operations waiting on the main stream
  side,      \* rank -> collectives waiting on the broadcast stream
  done,      \* rank -> the last step whose forward pass has run
  tables,    \* rank -> set of gathered tables -> the step it belongs to
  turn,      \* rank -> _table_set_idx
  live,      \* first rank: the step whose inputs the buffers hold
  staged,    \* PLE connector: the _staged event
  requests,  \* PLE connector: _request_queue, maxsize 1
  copying,   \* PLE connector: step the request thread has taken, 0 if none
  copied     \* PLE connector: the last step copied, and whose inputs it got

engineVars == <<exact, scheduled, inFlight>>
rankVars   == <<calls, part, slots, main, side, done, tables, turn>>
pleVars    == <<live, staged, requests, copying, copied>>
vars == <<engineVars, rankVars, pleVars>>

Ranks == 1..Depth
Last == Depth

\* A step without tokens; with prefill chunks only, none of whose samples a
\* later step needs; with samples that one needs.
Kinds == {"empty", "chunks", "sampled"}

\* The pool of sets of gathered block tables, none of them filled.
NoTables == [s \in 0..(Pool - 1) |-> 0]

Init ==
  /\ exact \in Modes
  /\ scheduled = 0 /\ inFlight = <<>>
  /\ calls = [r \in Ranks |-> <<>>]
  /\ part = [r \in Ranks |-> "execute"]
  /\ slots = [r \in Ranks |-> IF r = Last THEN <<>> ELSE [i \in Ranks |-> 0]]
  /\ main = [r \in Ranks |-> <<>>]
  /\ side = [r \in Ranks |-> <<>>]
  /\ done = [r \in Ranks |-> 0]
  /\ tables = [r \in Ranks |-> NoTables]
  /\ turn = [r \in Ranks |-> 0]
  /\ live = 0 /\ staged = TRUE /\ requests = <<>> /\ copying = 0
  /\ copied = [step |-> 0, inputs |-> 0]

-----------------------------------------------------------------------------
(* The engine: at most MaxBatches steps are in flight.                     *)

Schedule(k) ==
  LET call == [step |-> scheduled + 1, kind |-> k]
  IN
  /\ scheduled < MaxStep
  /\ Len(inFlight) < MaxBatches
  /\ scheduled' = scheduled + 1
  /\ inFlight' = Append(inFlight, call)
  /\ calls' = [r \in Ranks |-> Append(calls[r], call)]
  /\ UNCHANGED <<exact, part, slots, main, side, done, tables, turn, pleVars>>

\* The output of a step is that of the last rank.
Process ==
  LET call == Head(inFlight)
  IN
  /\ inFlight # <<>>
  /\ IF call.kind = "empty"
     THEN \A i \in DOMAIN calls[Last] : calls[Last][i] # call
     ELSE done[Last] >= call.step
  /\ inFlight' = Tail(inFlight)
  /\ UNCHANGED <<exact, scheduled, rankVars, pleVars>>

-----------------------------------------------------------------------------
(* Issuing a step.                                                         *)

\* compute_need_sampled_mask is not None.
NeedsSampled(call) == call.kind = "sampled"

MainOp(op, t) == [op |-> op, step |-> t]

\* In exact-mirror mode the newest entry is read before the oldest.
Peeks(r) ==
  LET t == slots[r][Depth]
  IN  IF exact /\ t # 0 THEN <<MainOp("wait", t), MainOp("apply", t)>> ELSE <<>>

\* Mutant: the entry is applied before it has come.
Unwaited(r, freed) ==
  LET t == slots[r][1]
  IN  IF t # 0 /\ ~freed THEN <<MainOp("apply", t)>> ELSE <<>>

\* get_prev_sampled_outputs: the main stream waits for the oldest entry and
\* applies it, unless all its requests were freed; without an entry, nothing.
Consumes(r, freed) ==
  LET t == slots[r][1]
  IN  IF t # 0 /\ ~freed THEN <<MainOp("wait", t), MainOp("apply", t)>> ELSE <<>>

HasPle(r) == Ple /\ r = 1

\* execute_model: all of it, or up to the PLE connector's prepare_forward.
ExecuteModel(r, freed) ==
  LET call  == Head(calls[r])
      reads == IF r = Last THEN <<>> ELSE Peeks(r) \o Consumes(r, freed)
      runs  == IF HasPle(r) THEN <<MainOp("inputs", call.step)>>
               ELSE <<MainOp("inputs", call.step), MainOp("forward", call.step)>>
      empty == call.kind = "empty"
  IN
  /\ calls[r] # <<>> /\ part[r] = "execute"
  /\ freed => r # Last /\ slots[r][1] # 0
  /\ main' = [main EXCEPT ![r] = @ \o reads \o (IF empty THEN <<>> ELSE runs)]
  /\ slots' = IF r = Last THEN slots
              ELSE [slots EXCEPT ![r] = Append(Tail(@), 0)]
  /\ calls' = IF empty THEN [calls EXCEPT ![r] = Tail(@)] ELSE calls
  /\ part' = IF empty THEN part
             ELSE [part EXCEPT ![r] = IF HasPle(r) THEN "forward" ELSE "sample"]
  /\ UNCHANGED <<engineVars, side, done, tables, turn, pleVars>>

\* PleOffloadConnector: wait for _staged, clear it, put the request.
Unstaged == TRUE  \* mutant: it does not wait
MayPut == staged

PrepareForward ==
  LET t == Head(calls[1]).step
  IN
  /\ part[1] = "forward"
  /\ MayPut
  /\ staged' = FALSE
  /\ requests' = Append(requests, t)
  /\ main' = [main EXCEPT ![1] = Append(@, MainOp("forward", t))]
  /\ part' = [part EXCEPT ![1] = "sample"]
  /\ UNCHANGED <<engineVars, calls, slots, side, done, tables, turn, live,
                 copying, copied>>

\* A collective of the broadcast stream; ahead counts the operations of the
\* main stream it still waits for.
Collective(op, t, width, ahead) ==
  [op |-> op, step |-> t, width |-> width, ahead |-> ahead]

\* receive: the collectives a rank posts.
Receives(call, ahead) ==
  LET t == call.step
      draft == IF Relay THEN <<Collective("draft", t, NumSpec, ahead)>> ELSE <<>>
  IN  <<Collective("sampled", t, NumSpec + 1, ahead),
        Collective("combined", t, 2, ahead)>> \o draft

\* The columns the sampler returns, without and with draft tokens to verify.
SampledWidths == {1, NumSpec + 1}

\* The width broadcast pads them to (mutant: they are sent as they are).
Unpadded(width)    == width
PaddedWidth(width) == NumSpec + 1

\* broadcast, and after one more operation of the main stream, the proposal,
\* broadcast_draft.
Broadcasts(call, ahead, width) ==
  LET t == call.step
      draft == IF Relay THEN <<Collective("draft", t, NumSpec, ahead + 1)>>
               ELSE <<>>
  IN  <<Collective("sampled", t, PaddedWidth(width), ahead),
        Collective("combined", t, 2, ahead)>> \o draft

SampleTokens(r) ==
  LET call  == Head(calls[r])
      ahead == Len(main[r])
      posts(width) == IF ~NeedsSampled(call) THEN <<>>
                      ELSE IF r = Last THEN Broadcasts(call, ahead, width)
                      ELSE Receives(call, ahead)
  IN
  /\ part[r] = "sample"
  /\ \E width \in SampledWidths : side' = [side EXCEPT ![r] = @ \o posts(width)]
  /\ main' = IF r = Last /\ Relay
             THEN [main EXCEPT ![r] = Append(@, MainOp("propose", call.step))]
             ELSE main
  /\ slots' = IF r # Last /\ NeedsSampled(call)
              THEN [slots EXCEPT ![r][Depth] = call.step] ELSE slots
  /\ calls' = [calls EXCEPT ![r] = Tail(@)]
  /\ part' = [part EXCEPT ![r] = "execute"]
  /\ UNCHANGED <<engineVars, done, tables, turn, pleVars>>

-----------------------------------------------------------------------------
(* The streams.                                                            *)

\* The event of rank r's receive of step t: its collectives have run.
Arrived(r, t) == \A i \in DOMAIN side[r] : side[r][i].step # t

\* A forward pass needs the hidden states of the rank before, and on the first
\* rank the embeddings of its own step (mutant: it runs without them).
WithoutEmbeddings(r, t) == r > 1 => done[r - 1] >= t
Fed(r, t) ==
  /\ r > 1 => done[r - 1] >= t
  /\ HasPle(r) => copied.step = t

Nearer(c) == [c EXCEPT !.ahead = IF @ = 0 THEN 0 ELSE @ - 1]

\* The next operation of rank r's main stream, and the step it belongs to.
Runs(r, op) ==
  /\ main[r] # <<>> /\ Head(main[r]).op = op
  /\ main' = [main EXCEPT ![r] = Tail(@)]
  /\ side' = [side EXCEPT ![r] = [i \in DOMAIN @ |-> Nearer(@[i])]]
  /\ UNCHANGED <<engineVars, calls, part, slots, staged, requests, copying, copied>>
Running(r) == Head(main[r]).step

\* gather_block_tables takes the next set of the pool.
SameTurn(i) == i  \* mutant: one set
NextTurn(i) == (i + 1) % Pool

\* prepare_inputs, prepare_attn: the buffers and tables of a step are filled.
PrepareInputs(r) ==
  LET set == NextTurn(turn[r])
  IN
  /\ Runs(r, "inputs")
  /\ turn' = [turn EXCEPT ![r] = set]
  /\ tables' = [tables EXCEPT ![r][set] = Running(r)]
  /\ live' = IF r = 1 THEN Running(r) ELSE live
  /\ UNCHANGED done

Forward(r) ==
  /\ Runs(r, "forward")
  /\ Fed(r, Running(r))
  /\ done' = [done EXCEPT ![r] = Running(r)]
  /\ UNCHANGED <<turn, tables, live>>

WaitReceived(r) ==
  /\ Runs(r, "wait")
  /\ Arrived(r, Running(r))
  /\ UNCHANGED <<turn, tables, live, done>>

ApplySampled(r) == Runs(r, "apply") /\ UNCHANGED <<turn, tables, live, done>>

Propose(r) == Runs(r, "propose") /\ UNCHANGED <<turn, tables, live, done>>

RunMain(r) ==
  PrepareInputs(r) \/ Forward(r) \/ WaitReceived(r) \/ ApplySampled(r) \/ Propose(r)

\* A collective runs when it is the turn of one on every rank, of one size.
RunCollective ==
  /\ \A r \in Ranks : side[r] # <<>> /\ Head(side[r]).ahead = 0
  /\ \A r \in Ranks : Head(side[r]).width = Head(side[Last]).width
  /\ side' = [r \in Ranks |-> Tail(side[r])]
  /\ UNCHANGED <<engineVars, calls, part, slots, main, done, tables, turn, pleVars>>

-----------------------------------------------------------------------------
(* The PLE connector's request thread, with the CPU worker that answers.   *)

TakeRequest ==
  /\ requests # <<>> /\ copying = 0
  /\ copying' = Head(requests)
  /\ requests' = Tail(requests)
  /\ UNCHANGED <<engineVars, rankVars, live, staged, copied>>

\* _process_request: once the step's inputs are ready they are copied from the
\* live buffers, the model thread is released and the worker is asked.
StageInputs ==
  /\ copying # 0
  /\ \A i \in DOMAIN main[1] : main[1][i] # MainOp("inputs", copying)
  /\ copied' = [step |-> copying, inputs |-> live]
  /\ staged' = TRUE
  /\ copying' = 0
  /\ UNCHANGED <<engineVars, rankVars, live, requests>>

-----------------------------------------------------------------------------
Issue(r) == (\E freed \in BOOLEAN : ExecuteModel(r, freed)) \/ SampleTokens(r)

\* Everything but the arrival of a step.
Work ==
  \/ Process
  \/ \E r \in Ranks : Issue(r) \/ RunMain(r)
  \/ PrepareForward
  \/ RunCollective
  \/ TakeRequest \/ StageInputs

Next == (\E k \in Kinds : Schedule(k)) \/ Work

\* As long as a thread or a stream can go on, one of them does.
Spec == Init /\ [][Next]_vars /\ WF_vars(Work)

-----------------------------------------------------------------------------
Matches(a, b) == a.op = b.op /\ a.step = b.step /\ a.width = b.width

(***************************************************************************)
(* "NCCL matches by op order on the communicator" and an unpadded send "is *)
(* a count mismatch that deadlocks the receiver" (pp_utils.py:181-184,     *)
(* 227-232): whatever the ranks have issued, the collectives that will     *)
(* meet are the same part of the same step, with the same size.            *)
(***************************************************************************)
Paired ==
  \A r, s \in Ranks : \A i \in DOMAIN side[r] \cap DOMAIN side[s] :
    Matches(side[r][i], side[s][i])

(***************************************************************************)
(* What the first ranks apply has been received: no kernel of the main     *)
(* stream reads the tensors of a step whose collectives are outstanding    *)
(* (pp_utils.py:132, mtp-spec-decode model_runner.py:1580).                *)
(***************************************************************************)
ReadsArrived ==
  \A r \in Ranks :
    main[r] # <<>> /\ Head(main[r]).op = "apply" => Arrived(r, Head(main[r]).step)

\* Rank r has gathered the block tables of step t.
Gathered(r, t) ==
  /\ \A i \in DOMAIN calls[r] :
       calls[r][i].step = t => i = 1 /\ part[r] # "execute"
  /\ \A i \in DOMAIN main[r] : main[r][i] # MainOp("inputs", t)

\* Steps that run on rank r or that it will still apply.
Pending(r) ==
  {inFlight[i].step : i \in {j \in DOMAIN inFlight : inFlight[j].kind # "empty"}}
    \cup {slots[r][i] : i \in {j \in DOMAIN slots[r] : slots[r][j] # 0}}
    \cup {main[r][i].step : i \in {j \in DOMAIN main[r] : main[r][j].op = "apply"}}

(***************************************************************************)
(* "Rotating over VLLM_BT_POOL ... sets gives each step an immutable view  *)
(* for its whole in-flight lifetime" (patch_p0.py:67-72): the tables a     *)
(* step gathered stay until its output is processed and its entry of the   *)
(* receive queue is applied.                                               *)
(***************************************************************************)
TablesOwn ==
  \A r \in Ranks : \A t \in Pending(r) :
    Gathered(r, t) => \E s \in DOMAIN tables[r] : tables[r][s] = t

(***************************************************************************)
(* The request thread copies "from the runner's LIVE input buffers, which  *)
(* the next forward overwrites" (patch_p0.py:388-394): what it copies for  *)
(* a step are the inputs of that step.                                     *)
(***************************************************************************)
StagedOwn == copied.inputs = copied.step

(***************************************************************************)
(* One request at a time: whenever the model thread may put the next one,  *)
(* the queue of one place is empty, so the put neither overflows nor waits *)
(* (patch_p0.py:391-393).                                                  *)
(***************************************************************************)
QueueRoom ==
  /\ Len(requests) <= 1
  /\ staged => requests = <<>> /\ copying = 0

(***************************************************************************)
(* No wait of a stream, a rank or a thread on another is circular: the     *)
(* steps in flight are processed, all of them once no more are scheduled   *)
(* (pp_utils.py:55-63, 249-255).                                           *)
(***************************************************************************)
StepsProcessed == inFlight # <<>> ~> inFlight = <<>>
=============================================================================
