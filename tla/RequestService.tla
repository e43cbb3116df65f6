--------------------------- MODULE RequestService ---------------------------
(***************************************************************************)
(* What the scheduler promises its clients: the output of every accepted   *)
(* request is delivered in order and once, some tokens at a time, stops at *)
(* the request's limit or earlier, and then nothing more is delivered.     *)
(* Preemption, prefix-cache resets, speculation and the depth of the       *)
(* pipeline do not show.                                                   *)
(***************************************************************************)
EXTENDS Integers, Sequences

CONSTANTS
  Reqs,     \* request ids
  Prompt,   \* request -> num_prompt_tokens
  Limit,    \* request -> most output tokens it may get
  Burst     \* most tokens one step delivers: 1 + num_spec_tokens

VARIABLES
  phase,    \* request -> "new", "open" or "closed"
  out       \* request -> positions of the tokens delivered so far

vars == <<phase, out>>

Init == phase = [r \in Reqs |-> "new"] /\ out = [r \in Reqs |-> <<>>]

Submit(r) ==
  /\ phase[r] = "new"
  /\ phase' = [phase EXCEPT ![r] = "open"]
  /\ UNCHANGED out

Abort(r) ==
  /\ phase[r] = "open"
  /\ phase' = [phase EXCEPT ![r] = "closed"]
  /\ UNCHANGED out

\* The positions of the next k tokens of a request.
NextTokens(r, k) == [i \in 1..k |-> Prompt[r] + Len(out[r]) + i - 1]

\* The processed output of one step: tokens for several requests, of which
\* those in ended stop there.
Deliver(count, ended) ==
  /\ \A r \in Reqs : count[r] > 0 =>
       phase[r] = "open" /\ Len(out[r]) + count[r] <= Limit[r]
  /\ \E r \in Reqs : count[r] > 0
  /\ ended \subseteq {r \in Reqs : count[r] > 0}
  /\ \A r \in Reqs : count[r] > 0 /\ Len(out[r]) + count[r] = Limit[r] => r \in ended
  /\ out' = [r \in Reqs |-> out[r] \o NextTokens(r, count[r])]
  /\ phase' = [r \in Reqs |-> IF r \in ended THEN "closed" ELSE phase[r]]

Next ==
  \/ \E r \in Reqs : Submit(r) \/ Abort(r)
  \/ \E count \in [Reqs -> 0..Burst], ended \in SUBSET Reqs : Deliver(count, ended)

Safety == Init /\ [][Next]_vars

\* Every open request is worked on until it is closed.
Closes == \A r \in Reqs : <>[](phase[r] # "open")
=============================================================================
