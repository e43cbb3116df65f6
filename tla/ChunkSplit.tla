---------------------------- MODULE ChunkSplit ----------------------------
(***************************************************************************)
(* How the scheduler cuts a prefill into chunks: the arithmetic of         *)
(* _mamba_block_aligned_split and _reserve_prefill_lookahead.  Recurrent   *)
(* (Mamba/GDN) states are cached only at block boundaries, so a chunk has  *)
(* to end on one; a multi-module drafter reads ahead, so a chunk may not   *)
(* end just before the prefill does.                                       *)
(***************************************************************************)
EXTENDS Integers

CONSTANTS
  BlockSize,    \* cache_config.block_size, the recurrent-state granularity
  HashBlock,    \* hash_block_size, the granularity of prefix-cache hits
  PartialHits,  \* mamba_partial_cache_hit
  ChunkLimit,   \* longest chunk: max_num_scheduled_tokens, long_prefill_token_threshold
  UseEagle,     \* the drafter's attention prunes the last matching block
  Lookahead     \* num_prefill_lookahead

ASSUME ChunkSplitAssumption ==
  /\ BlockSize \in Nat \ {0}
  /\ HashBlock \in Nat \ {0}
  /\ PartialHits \in BOOLEAN
  /\ ChunkLimit \in Nat \ {0}
  /\ UseEagle \in BOOLEAN
  /\ Lookahead \in Nat

Larger(a, b) == IF a >= b THEN a ELSE b

\* The block boundary at or below a position.
Floor(x) == x - (x % BlockSize)

\* Positions up to here are prefilled; a resumed request replays its outputs.
PrefillEnd(prompt, tokens) == Larger(prompt, tokens - 1)

\* The last boundary whose recurrent state a later request can use.
LastCachePosition(tokens) ==
  IF UseEagle THEN Larger(Floor(tokens) - BlockSize, 0) ELSE Floor(tokens)

\* The last hash boundary of the prompt, when hits may end inside a block.
TailBoundary(prompt) == IF PartialHits THEN prompt - (prompt % HashBlock) ELSE 0

\* Mutant: the end is not aligned.
EndUnaligned(start, end, prompt, tokens) == end

\* The end of a chunk before the mandatory stops.
AlignedEnd(start, end, prompt, tokens) ==
  IF end < PrefillEnd(prompt, tokens)
     /\ (Floor(end) > start \/ BlockSize <= ChunkLimit)
  THEN Floor(end) ELSE end

\* The mandatory stops; 0, which is never inside a chunk, is no stop.
\* A chunk that starts inside a block ends with it.
BlockStop(start) ==
  IF start % BlockSize # 0 THEN Floor(start) + BlockSize ELSE 0

TailStop(prompt, tokens) ==
  IF LastCachePosition(tokens) < TailBoundary(prompt) /\ TailBoundary(prompt) < prompt
  THEN TailBoundary(prompt) ELSE 0

\* Where a prefix shared with other requests ends, in whole blocks.
JunctionStop(start, end, junction) ==
  IF start < junction /\ junction < end
  THEN start + Floor(junction - start) ELSE 0

\* Mutant: the last cacheable boundary is no stop.
StopsButLast(start, end, prompt, tokens, junction) ==
  {s \in {BlockStop(start), TailStop(prompt, tokens),
          JunctionStop(start, end, junction)} : start < s /\ s < end}

\* Mutant: a chunk may end where it starts.
StopsAtStart(start, end, prompt, tokens, junction) ==
  {s \in {BlockStop(start), LastCachePosition(tokens), TailStop(prompt, tokens),
          JunctionStop(start, end, junction)} : start <= s /\ s < end}

\* The stops strictly inside a chunk from start to end.
Stops(start, end, prompt, tokens, junction) ==
  {s \in {BlockStop(start), LastCachePosition(tokens), TailStop(prompt, tokens),
          JunctionStop(start, end, junction)} : start < s /\ s < end}

\* min(stops, default=end)
EarliestStop(S, end) ==
  IF S = {} THEN end ELSE CHOOSE s \in S : \A t \in S : s <= t

\* _mamba_block_aligned_split: the tokens to schedule of n wanted.
Split(start, n, prompt, tokens, junction) ==
  LET end   == AlignedEnd(start, start + n, prompt, tokens)
      stops == Stops(start, end, prompt, tokens, junction)
  IN  IF start >= PrefillEnd(prompt, tokens) THEN n
      ELSE Larger(EarliestStop(stops, end) - start, 0)

\* _reserve_prefill_lookahead
Reserve(start, n, tokens) ==
  LET remaining == tokens - start - n
  IN  Larger(IF 0 < remaining /\ remaining < Lookahead
             THEN n - (Lookahead - remaining) ELSE n, 0)

\* What schedule() makes of n tokens wanted after start, in that order.
Chunk(start, n, prompt, tokens, junction) ==
  Reserve(start, Split(start, n, prompt, tokens, junction), tokens)
=============================================================================
