----------------------------- MODULE KVSchedule -----------------------------
(***************************************************************************)
(* KVLoad under the scheduler's queues: schedule() runs what is running,   *)
(* then takes the requests of the waiting queues from their heads.  One    *)
(* that still loads, or whose stale output is in flight, is set aside; a   *)
(* load that has arrived is promoted when it is reached, no sooner; and    *)
(* the first request there are no blocks for ends the traversal.           *)
(*                                                                         *)
(* Every action is one of KVLoad, in its place of the engine's turn, or    *)
(* leaves KVLoad's state alone.                                            *)
(***************************************************************************)
EXTENDS KVLoad

CONSTANTS
  Rank,        \* request -> place in the order (priority, arrival_time)
  Policy,      \* scheduling policy: "fcfs" or "priority"
  ReserveFull  \* scheduler_reserve_full_isl

ASSUME KVScheduleAssumption ==
  /\ Rank \in [Reqs -> Nat] /\ \A r, s \in Reqs : Rank[r] = Rank[s] => r = s
  /\ Policy \in {"fcfs", "priority"}
  /\ ReserveFull \in BOOLEAN

VARIABLES
  running,    \* the running list
  waiting,    \* the waiting queue
  skipped,    \* skipped_waiting
  finished,   \* finished_req_ids
  pc,         \* "engine", "running", "waiting", "update" or "process"
  loop        \* schedule()'s local variables: the loads it starts, the requests
              \* set aside, and whether it preempted one

INSTANCE RequestQueues

queueVars == <<running, waiting, skipped>>
orderVars == <<queueVars, finished, pc, loop>>
allVars   == <<loadVars, orderVars>>

NoLoop == [loads |-> {}, skipped |-> <<>>, preempted |-> FALSE]

OrderInit ==
  /\ LoadInit
  /\ running = <<>> /\ waiting = <<>> /\ skipped = <<>>
  /\ finished = {}
  /\ pc = "engine"
  /\ loop = NoLoop

-----------------------------------------------------------------------------
(* Calls from outside, between two turns of the engine.                    *)

\* The request has not been sent.
New(r) == status[r] = "waiting" /\ r \notin Elements(waiting) \cup Elements(skipped)

AddRequest(r) ==
  /\ pc = "engine" /\ New(r)
  /\ waiting' = Added(waiting, r)
  /\ UNCHANGED <<loadVars, running, skipped, finished, pc, loop>>

\* Requests that end leave the queues.
LeaveQueues(S) ==
  /\ running' = Without(running, S)
  /\ waiting' = Without(waiting, S)
  /\ skipped' = Without(skipped, S)
  /\ finished' = finished \cup S

AbortRequest(r) ==
  /\ pc = "engine" /\ ~New(r) /\ Abort(r)
  /\ LeaveQueues({r})
  /\ UNCHANGED <<pc, loop>>

-----------------------------------------------------------------------------
(* schedule().                                                             *)

\* has_requests: requests in the queues, finished ids to send, or requests kept
\* for a transfer.
HasRequests ==
  \/ running \o waiting \o skipped # <<>>
  \/ finished # {}
  \/ \E r \in Reqs : status[r] = "finished"

BeginSchedule ==
  /\ pc = "engine" /\ ending = {} /\ HasRequests
  /\ pc' = "running"
  /\ UNCHANGED <<loadVars, queueVars, finished, loop>>

\* The running request that makes room: the last one, or the one of lowest
\* priority.
Victim(r) ==
  /\ r \in Elements(running)
  /\ IF Policy = "fcfs" THEN r = running[Len(running)]
     ELSE \A s \in Elements(running) : Rank[s] <= Rank[r]

\* A request that has steps to run finds no block.
PreemptForRoom(r) ==
  /\ pc = "running" /\ \E s \in Elements(running) : left[s] > 0
  /\ Victim(r) /\ Preempt(r)
  /\ running' = Without(running, {r})
  /\ waiting' = Prepended(waiting, r)
  /\ loop' = [loop EXCEPT !.preempted = TRUE]
  /\ UNCHANGED <<skipped, finished, pc>>

EndRunning ==
  /\ pc = "running" /\ ending = {}
  /\ pc' = IF loop.preempted THEN "update" ELSE "waiting"
  /\ UNCHANGED <<loadVars, queueVars, finished, loop>>

\* _select_waiting_queue_for_scheduling
FromSkipped ==
  /\ skipped # <<>>
  /\ Policy = "priority" /\ waiting # <<>> => Rank[skipped[1]] < Rank[waiting[1]]
Candidate(r) ==
  /\ pc = "waiting" /\ waiting \o skipped # <<>>
  /\ r = IF FromSkipped THEN skipped[1] ELSE waiting[1]

PopCandidate ==
  IF FromSkipped THEN skipped' = Tail(skipped) /\ UNCHANGED waiting
                 ELSE waiting' = Tail(waiting) /\ UNCHANGED skipped

\* A load that is not done, or stale output in flight.
SetAside(r) == (status[r] = "remote" /\ r \notin recvd) \/ AwaitsStale(r)

SkipWaiting(r) ==
  /\ Candidate(r) /\ SetAside(r)
  /\ PopCandidate
  /\ loop' = [loop EXCEPT !.skipped = Append(@, r)]
  /\ UNCHANGED <<loadVars, running, finished, pc>>

PromoteCandidate(r) == Candidate(r) /\ PromoteLoaded(r) /\ UNCHANGED orderVars

\* Requests this call has admitted to run, and the blocks it has given so far.
Admitted == {r \in Elements(running) : status[r] = "waiting"}
Given == MapThenSumSet(LAMBDA r : Wants(r, loop.loads), Admitted \cup loop.loads)
Left  == Cardinality(free) - Given


\* _inflight_prefill_reserved_blocks: what requests that load or have loaded
\* still need.
Reserved ==
  MapThenSumSet(
    LAMBDA r : Need[r] - (IF r \in loop.loads THEN External[r] ELSE Len(table[r])),
    (prefills \cup loop.loads) \ Admitted)

\* allocate_slots: a load must fit beside the reserved blocks.
Fits(r) ==
  IF LoadsAsync(r)
  THEN (IF ReserveFull THEN Need[r] ELSE External[r]) <= Left - Reserved
  ELSE Need[r] - Len(table[r]) <= Left

AdmitLoad(r) ==
  /\ Candidate(r) /\ Admissible(r) /\ LoadsAsync(r) /\ Fits(r)
  /\ PopCandidate
  /\ loop' = [loop EXCEPT !.loads = @ \cup {r}, !.skipped = Append(@, r)]
  /\ UNCHANGED <<loadVars, running, finished, pc>>

Admit(r) ==
  /\ Candidate(r) /\ Admissible(r) /\ ~LoadsAsync(r) /\ Fits(r)
  /\ PopCandidate
  /\ running' = Append(running, r)
  /\ UNCHANGED <<loadVars, finished, pc, loop>>

\* The loop ends: the queues are empty, or their head does not fit.
EndWaiting ==
  /\ pc = "waiting"
  /\ \A r \in Reqs : Candidate(r) => Admissible(r) /\ ~Fits(r)
  /\ skipped' = AllPrepended(skipped, loop.skipped)
  /\ loop' = [loop EXCEPT !.skipped = <<>>]
  /\ pc' = "update"
  /\ UNCHANGED <<loadVars, running, waiting, finished>>

\* The blocks are taken and the step is sent.
EndSchedule ==
  /\ pc = "update"
  /\ ScheduleSome({r \in Reqs : r \in Elements(running) /\ left[r] > 0}, loop.loads)
  /\ finished' = {}
  /\ loop' = NoLoop
  /\ pc' = "process"
  /\ UNCHANGED queueVars

-----------------------------------------------------------------------------
(* The engine's turn and update_from_output.                               *)

\* The step has tokens and the batch queue has room: the engine may schedule
\* another one first.
ScheduleAhead ==
  /\ pc = "process"
  /\ steps[Len(steps)].numbered /\ Len(steps) < MaxBatches
  /\ pc' = "engine"
  /\ UNCHANGED <<loadVars, queueVars, finished, loop>>

ProcessesOldest ==
  \/ pc = "process"
  \/ pc = "engine" /\ ~HasRequests /\ steps # <<>>

\* Requests that stop, or whose load failed, leave the queues.
EndedNow == {r \in Reqs : status'[r] = "finished" /\ status[r] # "finished"}

Process(done, invalid, sent, sends) ==
  /\ ProcessesOldest
  /\ UpdateTransfers(done, invalid, sent, sends)
  /\ LeaveQueues(EndedNow)
  /\ pc' = "engine"
  /\ UNCHANGED loop

ProcessOldest ==
  \E done \in SUBSET receiving, invalid \in SUBSET bad, sent \in SUBSET sending,
     sends \in SUBSET Reqs : Process(done, invalid, sent, sends)

\* The connector reports everything there is with the step.
ProcessAll ==
  LET done == {r \in Reqs : Reportable(r) /\ writes[r] = {}}
  IN  Process(done, {b \in bad : \E r \in done : b \in held[r]}, sending, {})

ReleaseBlocks == (\E r \in Reqs : Release(r)) /\ UNCHANGED orderVars

-----------------------------------------------------------------------------
\* The connector's workers.
Arrives(r) == (\E b \in writes[r] : Write(r, b)) /\ UNCHANGED orderVars
Breaks(r)  == (\E b \in writes[r] : Fail(r, b)) /\ UNCHANGED orderVars

\* What the engine does by itself.
Turn ==
  \/ BeginSchedule \/ EndRunning \/ EndWaiting \/ EndSchedule
  \/ \E r \in Reqs :
       \/ PreemptForRoom(r)
       \/ SkipWaiting(r) \/ PromoteCandidate(r) \/ AdmitLoad(r) \/ Admit(r)
  \/ ScheduleAhead \/ ProcessOldest \/ ReleaseBlocks

OrderNext ==
  \/ \E r \in Reqs : AddRequest(r) \/ AbortRequest(r) \/ Arrives(r) \/ Breaks(r)
  \/ Turn

\* One thread runs the engine.  The connector finishes or fails each load, and
\* some output, if there always are more, carries all it has to report.
OrderSpec ==
  /\ OrderInit /\ [][OrderNext]_allVars
  /\ WF_allVars(Turn)
  /\ SF_allVars(ProcessAll)
  /\ \A r \in Reqs : WF_allVars(Arrives(r))

-----------------------------------------------------------------------------
(***************************************************************************)
(* Every request is served or aborted: "Admit it only if it fits in (free  *)
(* - other in-flight reservations), to avoid deadlock"                     *)
(* (scheduler.py:1048-1050), and a load that fails is retried or computed. *)
(***************************************************************************)
LoadsResolve ==
  \A r \in Reqs : r \in Elements(waiting) ~> status[r] = "gone"
=============================================================================
