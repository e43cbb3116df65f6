------------------------- MODULE RejectionSampler -------------------------
(***************************************************************************)
(* Verification of one request's drafts on the last rank, and the random   *)
(* numbers it consumes.  No generator has state: every draw is a hash of a *)
(* key, so a key met twice gives the same number twice.  A decision that   *)
(* depends on a draw already looked at by an earlier decision is biased.   *)
(* The request samples at a temperature above zero; a greedy one draws     *)
(* nothing that matters.                                                   *)
(***************************************************************************)
EXTENDS Integers

CONSTANTS
  NumSpec,            \* num_speculative_steps
  Modes,              \* configurations of the sampler and the drafter
  RejectUnproposed,   \* VLLM_SPEC_REJECT_UNPROPOSED
  MaxPrefill,         \* bound: longest prompt
  MaxKnown            \* bound: most tokens of the request

\* block: block verification; unique: VLLM_SPEC_STEP_UNIQUE_RNG;
\* indep: VLLM_SPEC_DRAFT_INDEP_NOISE; prob: drafts are sampled, not argmax.
Mode == [block : BOOLEAN, unique : BOOLEAN, indep : BOOLEAN, prob : BOOLEAN]

\* "k <= 7": a draft's index must fit beside eight times its first position.
ASSUME NumSpecAssumption == NumSpec \in 1..7

\* The drafter refuses step-unique keys without a seed domain of its own.
ASSUME ModesAssumption == Modes \subseteq {m \in Mode : m.unique => m.indep}

ASSUME BoundsAssumption ==
  MaxPrefill \in Nat /\ MaxKnown \in Nat /\ RejectUnproposed \in BOOLEAN

NoDrafts == -1

VARIABLES
  mode,        \* configuration the process was started with
  prefillLen,  \* prefill_len of the request's row
  known,       \* tokens of the request on this rank
  kept,        \* those the engine is certain to keep: all before the last step
  draftsFor,   \* first row position draft_tokens was proposed for, or NoDrafts
  decided,     \* draws earlier decisions depended on
  last         \* draws the last step's decision depended on

vars == <<mode, prefillLen, known, kept, draftsFor, decided, last>>

-----------------------------------------------------------------------------
(* Keys.  A seed is its distance from the request's: 0 for seed itself, a  *)
(* step's first position for seed ^ (first_pos * mix), -1 for the drafter. *)

RequestSeed == 0
DraftSeed == -1
StepSeed(first) == first

\* Mutant: the stock key, whatever the configuration.
UniformKeyStock(first, row) ==
  [noise |-> "uniform", seed |-> RequestSeed, at |-> first + row]

\* tl_rand32 of a draft row.
UniformKey(first, row) ==
  [noise |-> "uniform",
   seed  |-> IF mode.block /\ mode.unique THEN StepSeed(first) ELSE RequestSeed,
   at    |-> first + row]

\* gumbel_sample of draft j, keyed by draft_noise_positions.
DraftKey(first, j) ==
  [noise |-> "gumbel",
   seed  |-> IF mode.indep THEN DraftSeed ELSE RequestSeed,
   at    |-> IF mode.unique THEN first * 8 + j ELSE first + j]

\* gumbel_block_argmax of the rejected or bonus row.
ResampleKey(first, row) ==
  [noise |-> "gumbel", seed |-> RequestSeed, at |-> first + row]

Draw == [use   : {"verify", "draft", "resample"},
         first : Int,        \* position of the first row of the step
         row   : 0..NumSpec,
         of    : Int]        \* what the drafts in the row were proposed for

Key(d) == CASE d.use = "verify"   -> UniformKey(d.first, d.row)
            [] d.use = "draft"    -> DraftKey(d.of, d.row)
            [] d.use = "resample" -> ResampleKey(d.first, d.row)

-----------------------------------------------------------------------------
\* Position of the row that feeds the newest token.
First == known - 1

\* Mutant: the row of the last prefill token is not counted as inside the prefill.
PlaceholdersBefore == RejectUnproposed /\ First + 1 < prefillLen

\* gather_draft_sampled: nothing was proposed for rows that start in the prefill.
ArePlaceholders == RejectUnproposed /\ First < prefillLen

\* Rows whose draft can be accepted, of n scheduled ones.
ValidDrafts(n) == IF ArePlaceholders THEN 0 ELSE n

\* Mutant: token-wise verification goes on after a rejection.
ExaminedAll(n, accepted) == 0..(ValidDrafts(n) - 1)

\* Block verification looks at every valid row, token-wise at none after the
\* first rejection.
Examined(n, accepted) ==
  {i \in 0..(ValidDrafts(n) - 1) : mode.block \/ i <= accepted}

Draws(n, accepted) ==
  LET draw(use, row, of) == [use |-> use, first |-> First, row |-> row, of |-> of]
  IN  {draw("verify", i, draftsFor) : i \in Examined(n, accepted)}
      \union {draw("draft", i, draftsFor) :
                 i \in IF mode.prob THEN Examined(n, accepted) ELSE {}}
      \union {draw("resample", accepted, First)}

Init ==
  /\ mode \in Modes
  /\ prefillLen \in 1..MaxPrefill
  /\ known = prefillLen /\ kept = prefillLen
  /\ draftsFor = NoDrafts
  /\ decided = {} /\ last = {}

(***************************************************************************)
(* A step with n draft rows: the drafts are verified, the rejected or      *)
(* bonus token is sampled, and the drafter proposes from there on.         *)
(***************************************************************************)
Verify(n, accepted) ==
  /\ accepted <= ValidDrafts(n)
  /\ known + accepted + 1 <= MaxKnown
  /\ known' = known + accepted + 1
  /\ kept' = known
  /\ draftsFor' = known + accepted
  /\ decided' = decided \union last
  /\ last' = Draws(n, accepted)
  /\ UNCHANGED <<mode, prefillLen>>

(***************************************************************************)
(* The request is preempted and comes back in a fresh row with the tokens  *)
(* the engine kept as its prefill.  Output of the step in flight is        *)
(* delivered, or dropped with the step's decision.                         *)
(***************************************************************************)
Resume(tokens, decisions) ==
  /\ prefillLen' = tokens /\ known' = tokens /\ kept' = tokens
  /\ draftsFor' = NoDrafts
  /\ decided' = decisions
  /\ last' = {}
  /\ UNCHANGED mode

PreemptDelivering == Resume(known, decided \union last)
PreemptDropping == Resume(kept, decided)

Next ==
  \/ \E n \in 0..NumSpec, accepted \in 0..NumSpec : Verify(n, accepted)
  \/ PreemptDelivering
  \/ PreemptDropping

Spec == Init /\ [][Next]_vars

-----------------------------------------------------------------------------
\* Configurations whose keys are meant to be fresh: mtp-spec-decode/README.md
\* lists shared noise and block verification with stock keys as biased.
Lossless(m) == (m.prob => m.indep) /\ (m.block => m.unique)

TypeOK ==
  /\ mode \in Modes
  /\ prefillLen \in Nat \ {0} /\ known \in Nat \ {0} /\ kept \in 1..known
  /\ draftsFor \in Int
  /\ decided \subseteq Draw /\ last \subseteq Draw

(***************************************************************************)
(* No two draws that decisions depended on share a key: neither a draft    *)
(* and the resample of its row, nor the rejected tail of one step and the  *)
(* rows of the next.  What an earlier decision was conditioned on says     *)
(* nothing about a later draw.                                             *)
(***************************************************************************)
FreshKeys ==
  \A x, y \in decided \union last : Key(x) = Key(y) => x = y

(***************************************************************************)
(* Every draft that verification examined was proposed for that very step, *)
(* so it is weighed against the distribution it was drawn from: no row of  *)
(* a fresh or resumed request passes for a draft.                          *)
(***************************************************************************)
DraftsOwn == \A d \in decided \union last : d.of = d.first

\* Drafts found by argmax consume no noise.
NoiseSampled == \A d \in decided \union last : d.use = "draft" => mode.prob

\* A step that starts past the prefill finds the drafts proposed for it.
DraftsReady == First >= prefillLen => draftsFor = First

\* Rows whose token was settled by their step; a block step also examines later ones.
Settles(d) == mode.block => d.use = "resample"

\* Kept decisions lie before the last step, the last decision within its tokens.
DecidedBehind ==
  \A d \in decided :
    d.first < kept - 1 /\ (Settles(d) => d.first + d.row < kept - 1)

LastHere ==
  \A d \in last :
    /\ d.first = kept - 1 /\ kept < known
    /\ Settles(d) => d.first + d.row < known - 1

\* What a step settled lies before every later step.
Separated ==
  \A x, y \in decided \union last :
    x.first < y.first /\ Settles(x) => x.first + x.row < y.first

(***************************************************************************)
(* The inductive invariant behind FreshKeys: steps settle disjoint ranges  *)
(* of positions, each starting where the last one ended.                   *)
(***************************************************************************)
SamplerInv ==
  /\ TypeOK /\ NoiseSampled /\ DraftsReady /\ DraftsOwn
  /\ DecidedBehind /\ LastHere /\ Separated
=============================================================================
