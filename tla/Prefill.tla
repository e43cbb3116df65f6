------------------------------ MODULE Prefill ------------------------------
(***************************************************************************)
(* One request's prefill through successive schedule() calls.  Every call  *)
(* offers it some of the token budget, the rest going to other requests;   *)
(* the request takes the chunk ChunkSplit cuts, or none.                   *)
(***************************************************************************)
EXTENDS ChunkSplit

CONSTANTS
  MaxPrompt,   \* bound: longest prompt
  MaxReplay    \* bound: most output tokens a resumed request replays

ASSUME PrefillAssumption == MaxPrompt \in Nat /\ MaxReplay \in Nat

VARIABLES
  prompt,      \* num_prompt_tokens
  tokens,      \* num_tokens: prompt and outputs so far
  junction,    \* shared_prefix_boundary
  computed,    \* num_computed_tokens
  from         \* where the last chunk started

vars == <<prompt, tokens, junction, computed, from>>

\* A prefix-cache hit ends at a block boundary, or at a hash boundary.
HitUnit == IF PartialHits THEN HashBlock ELSE BlockSize

Init ==
  /\ prompt \in 1..MaxPrompt
  /\ tokens \in prompt..(prompt + MaxReplay)
  /\ junction \in 0..tokens
  /\ computed \in {h \in 0..(tokens - 1) : h % HitUnit = 0}
  /\ from = computed

Prefilling == computed < tokens

\* schedule() with this much budget left for the request.
Schedule(budget) ==
  LET left == tokens - computed
      want == IF left < budget THEN left ELSE budget
      n    == Chunk(computed, want, prompt, tokens, junction)
  IN  /\ Prefilling
      /\ n > 0
      /\ computed' = computed + n
      /\ from' = computed
      /\ UNCHANGED <<prompt, tokens, junction>>

Next == \E budget \in 1..ChunkLimit : Schedule(budget)

\* Other requests finish, so the request is offered a full chunk again and again.
Spec == Init /\ [][Next]_vars /\ WF_vars(Schedule(ChunkLimit))

-----------------------------------------------------------------------------
TypeOK ==
  /\ prompt \in Nat \ {0} /\ tokens \in Nat /\ junction \in Nat
  /\ computed \in 0..tokens /\ from \in 0..computed

(***************************************************************************)
(* Every prefill is eventually complete: no chunk boundary, alignment or   *)
(* reservation leaves a position the scheduler cannot get past.            *)
(***************************************************************************)
PrefillCompletes == <>(computed = tokens)

(***************************************************************************)
(* "State is written at chunk ends, so chunk ends must be block aligned.   *)
(* Exempt: the prompt's last chunk" (scheduler.py:403-406), a hash         *)
(* boundary that is registered on purpose, and a block too wide for one    *)
(* chunk.                                                                  *)
(***************************************************************************)
ChunkEndsAligned ==
  from < computed /\ from < PrefillEnd(prompt, tokens) =>
    \/ computed % BlockSize = 0
    \/ computed >= PrefillEnd(prompt, tokens)
    \/ computed = TailBoundary(prompt)
    \/ BlockSize > ChunkLimit

(***************************************************************************)
(* No chunk runs past the end of the block it starts inside, past the last *)
(* cacheable boundary, past the registered tail of the prompt, or past a   *)
(* boundary of the shared prefix it began within: the states there exist.  *)
(***************************************************************************)
NoBoundaryJumped ==
  \A s \in (from + 1)..(computed - 1) :
    from < PrefillEnd(prompt, tokens) =>
      /\ s % BlockSize = 0 => from % BlockSize = 0
      /\ s # LastCachePosition(tokens)
      /\ s = TailBoundary(prompt) /\ s < prompt => s <= LastCachePosition(tokens)
      /\ s % BlockSize = 0 /\ s <= junction /\ junction < computed =>
           s + BlockSize <= junction

(***************************************************************************)
(* A prefill chunk ends the prefill or leaves the drafter all the tokens   *)
(* it reads ahead ("either finish the prefill or leave at least            *)
(* num_prefill_lookahead for the next chunk", scheduler.py:470).           *)
(***************************************************************************)
LookaheadLeft ==
  from < computed => computed = tokens \/ tokens - computed >= Lookahead
=============================================================================
