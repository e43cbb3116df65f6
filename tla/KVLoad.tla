------------------------------- MODULE KVLoad -------------------------------
(***************************************************************************)
(* Requests whose KV is loaded by a connector while they wait.             *)
(*                                                                         *)
(* schedule() admits a request whose KV the connector has: it gets blocks, *)
(* waits in WAITING_FOR_REMOTE_KVS and runs no step.  The workers write    *)
(* the blocks when they can, outside every stream; what they finished or   *)
(* failed comes back with the output of a later step.  Meanwhile the       *)
(* request may be aborted, and the steps of an earlier incarnation may     *)
(* still be in flight.  Blocks go through the fences of DeferredFree.      *)
(*                                                                         *)
(* Which of the requests a call of schedule() admits is left open here:    *)
(* any that may be, and for whom there are blocks.  KVSchedule says which. *)
(*                                                                         *)
(* Tokens are counted in blocks: a request computes its whole prompt in    *)
(* one chunk, then decodes inside its last block.                          *)
(***************************************************************************)
EXTENDS DeferredFree, SequencesExt

CONSTANTS
  Need,        \* request -> blocks of its prompt
  External,    \* request -> blocks the connector can load of it
  Steps,       \* request -> steps until it stops, the prefill included
  Offer,       \* get_num_new_matched_tokens offers the load again and again
  Policies,    \* values of kv_load_failure_policy: "recompute", "fail"
  Delivery,    \* requires_kv_delivery: preemption drops output in flight
  MaxFaults    \* bound: aborts, preemptions and failed blocks

ASSUME KVLoadAssumption ==
  /\ Need \in [Reqs -> Nat \ {0}] /\ Steps \in [Reqs -> Nat \ {0}]
  /\ External \in [Reqs -> Nat] /\ \A r \in Reqs : External[r] <= Need[r]
  /\ {Offer, Delivery} \subseteq BOOLEAN
  /\ Policies \subseteq {"recompute", "fail"}
  /\ MaxFaults \in Nat /\ IsFiniteSet(Blocks)

VARIABLES
  policy,     \* kv_load_failure_policy, read once
  status,     \* "waiting", "remote", "running", "finished" while its blocks
              \* are kept for a transfer, "gone"
  table,      \* its blocks in the order of their tokens
  computed,   \* num_computed_tokens, in blocks
  left,       \* steps to schedule until it stops
  prefills,   \* _inflight_prefills
  offered,    \* the connector would load it
  recvd,      \* finished_recving_kv_req_ids
  failed,     \* failed_recving_kv_req_ids
  batches,    \* the requests of each step in flight whose output counts
  ending,     \* requests whose blocks the current call is about to free
  receiving,  \* loads not reported finished
  writes,     \* load -> the blocks it has yet to write
  ahead,      \* load -> outputs up to that of the step that carried it
  bad,        \* blocks that failed to load, not reported
  sending,    \* finished requests whose blocks the connector still sends
  valid,      \* blocks that contain the KV of their tokens
  cached,     \* blocks with a prefix-cache entry
  faults      \* aborts, preemptions and failures so far

kvVars == <<policy, status, table, computed, left, prefills, offered, recvd, failed>>
xferVars == <<receiving, writes, ahead, bad, sending>>
dataVars == <<valid, cached>>
loadVars == <<vars, kvVars, batches, ending, xferVars, dataVars, faults>>

LoadInit ==
  /\ Init
  /\ policy \in Policies
  /\ status = [r \in Reqs |-> "waiting"]
  /\ table = [r \in Reqs |-> <<>>]
  /\ computed = [r \in Reqs |-> 0]
  /\ left = Steps
  /\ offered = [r \in Reqs |-> External[r] > 0]
  /\ writes = [r \in Reqs |-> {}]
  /\ ahead = [r \in Reqs |-> 0]
  /\ batches = <<>>
  /\ prefills = {} /\ recvd = {} /\ failed = {} /\ ending = {}
  /\ receiving = {} /\ bad = {} /\ sending = {}
  /\ valid = {} /\ cached = {}
  /\ faults = 0

InTable(r, k) == {table[r][i] : i \in 1..k}

-----------------------------------------------------------------------------
(* schedule().                                                             *)

\* Output of an earlier incarnation that will still be delivered.
AwaitsStale(r) == ~Delivery /\ \E i \in DOMAIN batches : r \in batches[i]
Admissible(r) == status[r] = "waiting" /\ ~AwaitsStale(r)

\* load_kv_async: nothing computed, and the connector has tokens.
LoadsAsync(r) == computed[r] = 0 /\ offered[r]

\* The requests in batch run, those of them that waited with all their blocks;
\* those in loads begin to load.
Admits(batch, loads) ==
  /\ ending = {}
  /\ \A r \in batch :
       \/ status[r] = "running" /\ left[r] > 0
       \/ Admissible(r) /\ ~LoadsAsync(r)
  /\ \A r \in loads : Admissible(r) /\ LoadsAsync(r)

\* Blocks r has to get.
Wants(r, loads) == IF r \in loads THEN External[r] ELSE Need[r] - Len(table[r])

\* A cached block is copied, one at most, only for a request that starts to
\* compute: a load supersedes a partial hit.
MayCopy(batch) == Copies /\ \E r \in batch : status[r] = "waiting" /\ computed[r] = 0

ScheduleLoads(batch, loads, new, copied) ==
  /\ Schedule(batch, new, copied)
  /\ table' = [r \in Reqs |-> table[r] \o SetToSeq(new[r])]
  /\ status' = [r \in Reqs |-> IF r \in batch THEN "running"
                                ELSE IF r \in loads THEN "remote" ELSE status[r]]
  /\ computed' = [r \in Reqs |-> IF r \in batch THEN Need[r]
                                  ELSE IF r \in loads THEN External[r] ELSE computed[r]]
  /\ left' = [r \in Reqs |-> IF r \in batch THEN left[r] - 1 ELSE left[r]]
  /\ prefills' = (prefills \ batch) \cup loads
  /\ offered' = [r \in Reqs |-> IF r \in loads THEN Offer ELSE offered[r]]
  /\ batches' = Append(batches, batch)
  /\ receiving' = receiving \cup loads
  /\ writes' = [r \in Reqs |-> IF r \in loads THEN new[r] ELSE writes[r]]
  /\ ahead' = [r \in Reqs |-> IF r \in loads THEN Len(steps) + 1 ELSE ahead[r]]
  /\ LET taken == UNION {new[r] : r \in Reqs}
         wrote == UNION {{table'[r][i] : i \in (computed[r] + 1)..Need[r]} : r \in batch}
         hashed == UNION {{table'[r][i] : i \in 1..Need[r]} : r \in batch}
     IN  /\ valid' = (valid \ taken) \cup wrote
         /\ cached' = (cached \ taken) \cup hashed
  /\ UNCHANGED <<policy, recvd, failed, ending, bad, sending, faults>>

\* _update_waiting_for_remote_kv: what to count as computed of a load; with
\* nothing left of it the blocks are freed, else those counted are cached.
PromoteLoaded(r) ==
  /\ status[r] = "remote" /\ r \in recvd /\ ending = {}
  /\ status' = [status EXCEPT ![r] = "waiting"]
  /\ recvd' = recvd \ {r} /\ failed' = failed \ {r}
  /\ IF computed[r] = 0
     THEN /\ FreeAtOnce(r)
          /\ table' = [table EXCEPT ![r] = <<>>]
          /\ UNCHANGED cached
     ELSE /\ cached' = cached \cup InTable(r, computed[r])
          /\ UNCHANGED <<vars, table>>
  /\ UNCHANGED <<policy, computed, left, prefills, offered, batches, ending,
                 xferVars, valid, faults>>

-----------------------------------------------------------------------------
(* The connector's side of the workers.                                    *)

\* A block of a load arrives; what another request has in it is lost.
Write(r, b) ==
  /\ b \in writes[r]
  /\ writes' = [writes EXCEPT ![r] = @ \ {b}]
  /\ valid' = IF b \in held[r] THEN valid \cup {b} ELSE valid \ {b}
  /\ UNCHANGED <<vars, kvVars, batches, ending, receiving, ahead, bad, sending,
                 cached, faults>>

Fail(r, b) ==
  /\ b \in writes[r] /\ faults < MaxFaults
  /\ writes' = [writes EXCEPT ![r] = @ \ {b}]
  /\ bad' = bad \cup {b}
  /\ faults' = faults + 1
  /\ UNCHANGED <<vars, kvVars, batches, ending, receiving, ahead, sending, dataVars>>

-----------------------------------------------------------------------------
(* update_from_output: the drain, what came back of the transfers and the  *)
(* output; then the requests that ended free their blocks, one by one.     *)

\* Loads the step processed next can report: their own step is not behind it.
Reportable(r) == r \in receiving /\ ahead[r] <= 1

\* Mutant: the computed tokens are kept.
Untruncated(r, invalid) == computed[r]

\* _update_requests_with_invalid_blocks: the valid prefix of a load.
Truncated(r, invalid) ==
  Min({computed[r]} \cup {i - 1 : i \in {j \in 1..computed[r] : table[r][j] \in invalid}})

\* Mutant: an ended request whose load is done keeps its blocks.
NoneFreed(done, errors) == {}

\* Ended requests whose blocks were kept for the load.
FreedBy(done, errors) == {r \in done : status[r] = "finished" \/ r \in errors}

\* Output is delivered, the last of the request: it stops.
Stops(r) ==
  /\ r \in Head(batches) /\ status[r] \in {"waiting", "running"}
  /\ left[r] = 0 /\ \A i \in 2..Len(batches) : r \notin batches[i]

\* done are the loads reported finished, invalid the blocks reported failed,
\* sent the transfers reported sent; the connector sends the blocks of those
\* requests in sends that stop.
UpdateTransfers(done, invalid, sent, sends) ==
  LET hit    == {r \in Reqs : status[r] = "remote" /\ InTable(r, computed[r]) \cap invalid # {}}
      errors == IF policy = "recompute" THEN {} ELSE hit
      stops  == {r \in Reqs : Stops(r)}
      ended  == errors \cup stops
  IN
  /\ ending = {} /\ steps # <<>>
  /\ \A r \in done : Reportable(r) /\ writes[r] = {} /\ held[r] \cap bad \subseteq invalid
  /\ \A b \in invalid : b \in bad /\ \E r \in Reqs : b \in held[r] /\ Reportable(r)
  /\ sends \subseteq stops
  /\ UpdateFromOutput
  /\ computed' = [r \in Reqs |-> IF r \in hit THEN Truncated(r, invalid) ELSE computed[r]]
  /\ failed' = IF policy = "recompute" THEN failed \cup hit ELSE failed
  /\ status' = [r \in Reqs |-> IF r \in ended THEN "finished" ELSE status[r]]
  /\ recvd' = recvd \cup {r \in done : status[r] = "remote" /\ r \notin errors}
  /\ ending' = (stops \ sends) \cup sent \cup FreedBy(done, errors)
  /\ prefills' = prefills \ ended
  /\ receiving' = receiving \ done
  /\ bad' = bad \ invalid
  /\ sending' = (sending \ sent) \cup sends
  /\ batches' = Tail(batches)
  /\ ahead' = [r \in Reqs |-> IF ahead[r] = 0 THEN 0 ELSE ahead[r] - 1]
  /\ UNCHANGED <<policy, table, left, offered, writes, dataVars, faults>>

\* _free_blocks, or the blocks of a preempted request.
Release(r) ==
  /\ r \in ending
  /\ ending' = ending \ {r}
  /\ IF held[r] = {} THEN UNCHANGED vars ELSE FreeRequestBlocks(r)
  /\ table' = [table EXCEPT ![r] = <<>>]
  /\ status' = [status EXCEPT ![r] = IF @ = "finished" THEN "gone" ELSE @]
  /\ UNCHANGED <<policy, computed, left, prefills, offered, recvd, failed, batches,
                 xferVars, dataVars, faults>>

-----------------------------------------------------------------------------
\* Mutant: the blocks of an aborted load are freed.
NeverDelays(r) == FALSE

\* delay_free_blocks: the load still writes.
DelaysFree(r) == status[r] = "remote" /\ r \notin recvd

\* finish_requests, of an aborted request.
Abort(r) ==
  /\ ending = {} /\ faults < MaxFaults
  /\ status[r] \in {"waiting", "remote", "running"}
  /\ status' = [status EXCEPT ![r] = "finished"]
  /\ recvd' = recvd \ {r} /\ failed' = failed \ {r} /\ prefills' = prefills \ {r}
  /\ ending' = IF DelaysFree(r) THEN {} ELSE {r}
  /\ faults' = faults + 1
  /\ UNCHANGED <<vars, policy, table, computed, left, offered, batches, xferVars,
                 dataVars>>

\* _preempt_request: another request needs a block.
Preempt(r) ==
  /\ ending = {} /\ faults < MaxFaults
  /\ status[r] = "running"
  /\ status' = [status EXCEPT ![r] = "waiting"]
  /\ computed' = [computed EXCEPT ![r] = 0]
  /\ prefills' = prefills \ {r}
  /\ ending' = {r}
  /\ IF Delivery
     THEN /\ left' = [left EXCEPT ![r] =
                        @ + Cardinality({i \in DOMAIN batches : r \in batches[i]})]
          /\ batches' = [i \in DOMAIN batches |-> batches[i] \ {r}]
     ELSE UNCHANGED <<left, batches>>
  /\ faults' = faults + 1
  /\ UNCHANGED <<vars, policy, table, offered, recvd, failed, xferVars, dataVars>>

-----------------------------------------------------------------------------
\* A call of schedule().
ScheduleSome(batch, loads) ==
  /\ Admits(batch, loads)
  /\ \E got \in [batch \cup loads -> SUBSET free],
        copied \in {{}} \cup (IF MayCopy(batch) THEN {{b} : b \in free} ELSE {}) :
       /\ \A r \in DOMAIN got : Cardinality(got[r]) = Wants(r, loads)
       /\ ScheduleLoads(batch, loads,
            [r \in Reqs |-> IF r \in DOMAIN got THEN got[r] ELSE {}], copied)

LoadNext ==
  \/ \E batch, loads \in SUBSET Reqs : batch \cap loads = {} /\ ScheduleSome(batch, loads)
  \/ \E r \in Reqs : PromoteLoaded(r) \/ Release(r) \/ Abort(r) \/ Preempt(r)
  \/ \E r \in Reqs : \E b \in writes[r] : Write(r, b) \/ Fail(r, b)
  \/ \E done \in SUBSET receiving, invalid \in SUBSET bad, sent \in SUBSET sending,
        sends \in SUBSET Reqs :
       UpdateTransfers(done, invalid, sent, sends)

LoadSpec == LoadInit /\ [][LoadNext]_loadVars

-----------------------------------------------------------------------------
(***************************************************************************)
(* "A consumer KV Connector can reallocate and fill those blocks via a     *)
(* load that isn't ordered against that write" (scheduler.py:153-156):     *)
(* while a load may still write a block, also after its request was        *)
(* aborted, the block is that request's and no step in flight uses it.     *)
(***************************************************************************)
LoadsAlone ==
  \A r \in Reqs : \A b \in writes[r] :
    /\ b \in held[r]
    /\ \A i \in DOMAIN steps : b \notin steps[i].uses

(***************************************************************************)
(* "When the transfer is finished, either successfully or not,             *)
(* request.num_computed_tokens will correctly reflect the number of        *)
(* computed tokens.  _update_waiting_for_remote_kv will then cache only    *)
(* the successfully loaded tokens" (scheduler.py:1115-1119): no request    *)
(* reads, and the prefix cache never offers, a block without its KV.       *)
(***************************************************************************)
ComputedValid ==
  /\ \A r \in Reqs :
       status[r] \in {"waiting", "running"} /\ r \notin ending =>
         InTable(r, computed[r]) \subseteq valid
  /\ cached \subseteq valid

(***************************************************************************)
(* No block is lost: all are in the pool, a request's or behind a fence;   *)
(* a request that is gone has none, and one that is finished keeps its     *)
(* blocks only for a transfer (scheduler.py:2396-2405, 2442-2445).         *)
(***************************************************************************)
NoneLost ==
  /\ Blocks = free \cup (UNION {held[r] : r \in Reqs})
                  \cup (UNION {deferred[j].blocks : j \in DOMAIN deferred})
  /\ \A r \in Reqs :
       /\ held[r] = InTable(r, Len(table[r]))
       /\ (status[r] = "gone" => held[r] = {})
       /\ (status[r] = "finished" => r \in receiving \cup sending \cup ending)
=============================================================================
