----------------------------- MODULE MCPPRanks -----------------------------
(* Instances of PPRanks for TLC. *)
EXTENDS PPRanks, TLC

CONSTANTS r1, r2

\* A prompt that may need two chunks, then up to three sampled tokens.
MCShapes == {<<2, 5>>}
MCLong == {<<1, 5>>, <<3, 6>>}
MCOneToken == {<<1, 5>>}
MCHits == {0}
MCAnyHit == {0, 2}

RowSymmetry == Permutations(Rows)
=============================================================================
