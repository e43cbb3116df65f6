---------------------------- MODULE DeferredFree ----------------------------
(***************************************************************************)
(* Returning KV blocks to the pool while steps are in flight.              *)
(*                                                                         *)
(* With a KV-consuming connector and overlapping batches, a freed block    *)
(* can be filled by a load that is not ordered after the steps in flight,  *)
(* which may still write it.  The scheduler numbers its non-empty steps    *)
(* (sched_step_seq), counts those whose output is processed                *)
(* (processed_step_seq), and keeps freed blocks in a deque behind a fence. *)
(* Empty steps are not numbered, and the source blocks of copy-on-write    *)
(* copies are fenced by the next number even when their own step is empty. *)
(***************************************************************************)
EXTENDS Integers, Sequences

CONSTANTS
  Reqs, Blocks,
  Copies,       \* copy-on-write copies occur
  MaxBatches,   \* bound: steps in flight (batch queue size)
  MaxSeq        \* bound: numbered steps

ASSUME DeferredFreeAssumption ==
  Copies \in BOOLEAN /\ MaxBatches \in Nat /\ MaxSeq \in Nat

VARIABLES
  held,       \* request -> its KV blocks
  lastSeq,    \* request -> last_sched_seq
  free,       \* the block pool
  deferred,   \* deferred_frees: fence and blocks, oldest first
  schedSeq,   \* sched_step_seq
  processed,  \* processed_step_seq
  steps       \* in flight, oldest first: numbered or empty, the blocks it
              \* uses, and the number whose processing implies it has run

vars == <<held, lastSeq, free, deferred, schedSeq, processed, steps>>

Init ==
  /\ held = [r \in Reqs |-> {}]
  /\ lastSeq = [r \in Reqs |-> 0]
  /\ free = Blocks
  /\ deferred = <<>>
  /\ schedSeq = 0 /\ processed = 0
  /\ steps = <<>>

\* The fence of copied blocks: the first numbered step at or after this one.
CopyFenceNow == schedSeq
CopyFence    == schedSeq + 1

\* schedule(): the requests in batch run; r gets new[r] more blocks, to run or
\* for a load; the blocks in copied are read by copies that run with the step.
Schedule(batch, new, copied) ==
  LET all  == UNION {new[r] : r \in Reqs}
      seq  == IF batch = {} THEN schedSeq ELSE schedSeq + 1
  IN
  /\ Len(steps) < MaxBatches
  /\ seq <= MaxSeq
  /\ all \subseteq free /\ copied \subseteq free \ all
  /\ \A r, s \in Reqs : r # s => new[r] \cap new[s] = {}
  /\ held' = [r \in Reqs |-> held[r] \cup new[r]]
  /\ lastSeq' = [r \in Reqs |-> IF r \in batch THEN seq ELSE lastSeq[r]]
  /\ free' = free \ (all \cup copied)
  /\ deferred' = IF copied = {} THEN deferred
                 ELSE Append(deferred, [fence |-> CopyFence, blocks |-> copied])
  /\ schedSeq' = seq
  /\ steps' = Append(steps, [numbered |-> batch # {}, due |-> schedSeq + 1,
                uses |-> copied \cup UNION {held[r] \cup new[r] : r \in batch}])
  /\ UNCHANGED processed

\* _free_request_blocks, of a preempted, finished or aborted request.
MayDeferNext(r) == lastSeq[r] > processed + 1
MustDefer(r)    == lastSeq[r] > processed

FreeRequestBlocks(r) ==
  /\ held[r] # {}
  /\ held' = [held EXCEPT ![r] = {}]
  /\ IF MustDefer(r)
     THEN /\ deferred' = Append(deferred, [fence |-> schedSeq, blocks |-> held[r]])
          /\ UNCHANGED free
     ELSE /\ free' = free \cup held[r]
          /\ UNCHANGED deferred
  /\ UNCHANGED <<lastSeq, schedSeq, processed, steps>>

\* kv_cache_manager.free, of a request whose load failed; no step has used the
\* blocks.
FreeAtOnce(r) ==
  /\ held' = [held EXCEPT ![r] = {}]
  /\ free' = free \cup held[r]
  /\ UNCHANGED <<lastSeq, deferred, schedSeq, processed, steps>>
FreeUnused(r) ==
  /\ \A i \in DOMAIN steps : steps[i].uses \cap held[r] = {}
  /\ FreeAtOnce(r)

\* The entries that _drain_deferred_frees returns when seq steps are processed:
\* the satisfied ones before the first pending one.
DrainsBelow(k, seq) ==
  /\ \A j \in 1..k : deferred[j].fence < seq
  /\ k < Len(deferred) => deferred[k + 1].fence >= seq
Drains(k, seq) ==
  /\ \A j \in 1..k : deferred[j].fence <= seq
  /\ k < Len(deferred) => deferred[k + 1].fence > seq

\* update_from_output of the oldest step, up to the drain.
UpdateFromOutput ==
  LET seq == IF steps[1].numbered THEN processed + 1 ELSE processed
  IN
  /\ steps # <<>>
  /\ steps' = Tail(steps)
  /\ processed' = seq
  /\ \E k \in 0..Len(deferred) :
       /\ IF steps[1].numbered THEN Drains(k, seq) ELSE k = 0
       /\ deferred' = SubSeq(deferred, k + 1, Len(deferred))
       /\ free' = free \cup UNION {deferred[j].blocks : j \in 1..k}
  /\ UNCHANGED <<held, lastSeq, schedSeq>>

Next ==
  \/ \E batch \in SUBSET Reqs :
       \E new \in [Reqs -> SUBSET free],
          copied \in IF Copies THEN SUBSET free ELSE {{}} :
         Schedule(batch, new, copied)
  \/ \E r \in Reqs : FreeRequestBlocks(r) \/ FreeUnused(r)
  \/ UpdateFromOutput

\* The workers finish every step.
Spec == Init /\ [][Next]_vars /\ WF_vars(UpdateFromOutput)

-----------------------------------------------------------------------------
Step == [numbered : BOOLEAN, due : Nat, uses : SUBSET Blocks]
Entry == [fence : Nat, blocks : SUBSET Blocks]

TypeOK ==
  /\ held \in [Reqs -> SUBSET Blocks]
  /\ lastSeq \in [Reqs -> Nat]
  /\ free \subseteq Blocks
  /\ deferred \in Seq(Entry)
  /\ schedSeq \in Nat /\ processed \in Nat
  /\ steps \in Seq(Step)

(***************************************************************************)
(* "Every GPU write enqueued by this and earlier steps has completed, so   *)
(* it is safe to return deferred-free blocks to the pool"                  *)
(* (scheduler.py:1769-1770): no step in flight uses a block of the pool.   *)
(***************************************************************************)
PoolUnused == \A i \in DOMAIN steps : steps[i].uses \cap free = {}

\* A block is in the pool, with one request or behind one fence.
OnePlace ==
  /\ \A r \in Reqs : held[r] \cap free = {}
  /\ \A r, s \in Reqs : r # s => held[r] \cap held[s] = {}
  /\ \A j \in DOMAIN deferred :
       /\ deferred[j].blocks \cap free = {}
       /\ \A r \in Reqs : deferred[j].blocks \cap held[r] = {}
       /\ \A k \in DOMAIN deferred : j # k => deferred[j].blocks \cap deferred[k].blocks = {}

\* Steps are processed in the order of their numbers.
DueInOrder ==
  /\ processed <= schedSeq
  /\ \A i \in DOMAIN steps :
       /\ processed < steps[i].due /\ steps[i].due <= schedSeq + 1
       /\ steps[i].numbered => steps[i].due <= schedSeq
  /\ \A i, j \in DOMAIN steps : i < j =>
       steps[i].due <= steps[j].due /\ (steps[i].numbered => steps[i].due < steps[j].due)

\* What a step uses is held by a request scheduled since, or behind a fence
\* that its processing has to pass.
UsesFenced ==
  /\ \A r \in Reqs : lastSeq[r] <= schedSeq
  /\ \A i \in DOMAIN steps : \A b \in steps[i].uses :
       \/ \E r \in Reqs : b \in held[r] /\ lastSeq[r] >= steps[i].due
       \/ \E j \in DOMAIN deferred :
            b \in deferred[j].blocks /\ deferred[j].fence >= steps[i].due

FenceInv == TypeOK /\ OnePlace /\ DueInOrder /\ UsesFenced /\ PoolUnused

(***************************************************************************)
(* No block is lost behind a fence: once it and the fences before it stand *)
(* at numbered steps, the block is back in the pool when these are         *)
(* processed, without another step (scheduler.py:2476-2489).  What a       *)
(* request gave up only waits for that, or for the next numbered step when *)
(* a copy of an empty step was fenced before.                              *)
(***************************************************************************)
BlocksReturn ==
  \A b \in Blocks :
    (\E j \in DOMAIN deferred :
       b \in deferred[j].blocks /\ \A i \in 1..j : deferred[i].fence <= schedSeq)
    ~> b \in free
=============================================================================
