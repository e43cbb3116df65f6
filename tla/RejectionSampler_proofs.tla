---------------------- MODULE RejectionSampler_proofs ----------------------
(***************************************************************************)
(* Proofs about RejectionSampler, for every number of drafts, prompt and   *)
(* configuration the drafter accepts.                                      *)
(***************************************************************************)
EXTENDS RejectionSampler, TLAPS

\* The draws of a step belong to it, and reach no further than its tokens.
LEMMA DrawsOfStep ==
  ASSUME TypeOK, DraftsReady, RejectUnproposed,
         NEW n \in 0..NumSpec, NEW accepted \in 0..NumSpec
  PROVE  /\ Draws(n, accepted) \subseteq Draw
         /\ \A d \in Draws(n, accepted) :
              /\ d.of = d.first
              /\ d.first = First
              /\ Settles(d) => d.row <= accepted
              /\ d.use = "draft" => mode.prob
<1> DEFINE D == Draws(n, accepted)
<1>1. mode \in Mode /\ known \in Nat \ {0} /\ prefillLen \in Nat /\ draftsFor \in Int
  BY ModesAssumption DEF TypeOK
<1>2. First \in Int
  BY <1>1 DEF First
<1>3. ASSUME NEW i \in Examined(n, accepted)
      PROVE  i \in 0..NumSpec /\ draftsFor = First /\ (mode.block \/ i <= accepted)
  <2>1. i \in 0..(ValidDrafts(n) - 1) /\ (mode.block \/ i <= accepted)
    BY <1>3 DEF Examined
  <2>2. ~ArePlaceholders /\ i \in 0..(n - 1)
    BY <2>1 DEF ValidDrafts
  <2>3. First >= prefillLen
    BY <2>2, <1>1, <1>2 DEF ArePlaceholders
  <2>4. QED
    BY <2>1, <2>2, <2>3, NumSpecAssumption DEF DraftsReady
<1>4. ASSUME NEW d \in D
      PROVE  d \in Draw /\ d.of = d.first /\ d.first = First
             /\ (Settles(d) => d.row <= accepted)
             /\ (d.use = "draft" => mode.prob)
  <2>1. CASE \E i \in Examined(n, accepted) :
               d = [use |-> "verify", first |-> First, row |-> i, of |-> draftsFor]
    BY <2>1, <1>1, <1>2, <1>3 DEF Draw, Settles
  <2>2. CASE mode.prob /\ \E i \in Examined(n, accepted) :
               d = [use |-> "draft", first |-> First, row |-> i, of |-> draftsFor]
    BY <2>2, <1>1, <1>2, <1>3 DEF Draw, Settles
  <2>3. CASE d = [use |-> "resample", first |-> First, row |-> accepted, of |-> First]
    BY <2>3, <1>1, <1>2, NumSpecAssumption DEF Draw, Settles
  <2>4. QED
    BY <2>1, <2>2, <2>3, <1>4 DEF Draws
<1>5. QED
  BY <1>4

LEMMA InitInv == Init => SamplerInv
<1> SUFFICES ASSUME Init PROVE SamplerInv
  OBVIOUS
<1>1. TypeOK
  BY BoundsAssumption DEF Init, TypeOK, NoDrafts
<1>2. DraftsReady
  BY <1>1 DEF Init, DraftsReady, First, TypeOK
<1>3. NoiseSampled /\ DraftsOwn /\ DecidedBehind /\ LastHere /\ Separated
  BY DEF Init, NoiseSampled, DraftsOwn, DecidedBehind, LastHere, Separated
<1>4. QED
  BY <1>1, <1>2, <1>3 DEF SamplerInv

\* Everything decided by the end of a step lies before the next one.
LEMMA AllBehind ==
  ASSUME SamplerInv
  PROVE  \A d \in decided \union last :
           /\ d \in Draw /\ d.first \in Int /\ d.row \in Int
           /\ d.first < known - 1
           /\ Settles(d) => d.first + d.row < known - 1
<1> SUFFICES ASSUME NEW d \in decided \union last
             PROVE  /\ d \in Draw /\ d.first \in Int /\ d.row \in Int
                    /\ d.first < known - 1
                    /\ Settles(d) => d.first + d.row < known - 1
  OBVIOUS
<1>1. d \in Draw /\ known \in Nat /\ kept \in Nat /\ kept <= known
  BY DEF SamplerInv, TypeOK
<1>2. d.first \in Int /\ d.row \in Int
  BY <1>1, NumSpecAssumption DEF Draw
<1>3. CASE d \in decided
  BY <1>1, <1>2, <1>3 DEF SamplerInv, DecidedBehind
<1>4. CASE d \in last
  BY <1>1, <1>2, <1>4 DEF SamplerInv, LastHere
<1>5. QED
  BY <1>1, <1>2, <1>3, <1>4

\* A step of the request: its draws join, the last ones become kept.
LEMMA VerifyInv ==
  ASSUME SamplerInv, RejectUnproposed,
         NEW n \in 0..NumSpec, NEW accepted \in 0..NumSpec, Verify(n, accepted)
  PROVE  SamplerInv'
<1> DEFINE New == Draws(n, accepted)
           Old == decided \union last
<1>1. /\ TypeOK /\ DraftsReady
      /\ known \in Nat \ {0} /\ kept \in 1..known /\ accepted \in Nat
  BY NumSpecAssumption DEF SamplerInv, TypeOK
<1>2. /\ New \subseteq Draw
      /\ \A d \in New : /\ d.of = d.first
                        /\ d.first = First
                        /\ Settles(d) => d.row <= accepted
                        /\ d.use = "draft" => mode.prob
  BY <1>1, DrawsOfStep
<1>3. /\ known' = known + accepted + 1 /\ kept' = known
      /\ draftsFor' = known + accepted
      /\ decided' = Old /\ last' = New
      /\ mode' = mode /\ prefillLen' = prefillLen
  BY DEF Verify
<1>4. \A d \in Old : /\ d \in Draw /\ d.first \in Int /\ d.row \in Int
                     /\ d.first < First
                     /\ Settles(d) => d.first + d.row < First
  BY AllBehind DEF First
<1>5. \A d \in New : d.first \in Int /\ d.row \in Int
  BY <1>2, NumSpecAssumption DEF Draw
<1>6. First = known - 1
  BY DEF First
<1> HIDE DEF New, Old
<1>7. TypeOK'
  BY <1>1, <1>2, <1>3, <1>4 DEF TypeOK
<1>8. DraftsReady'
  BY <1>1, <1>3 DEF DraftsReady, First
<1>9. DraftsOwn'
  <2>1. \A d \in Old : d.of = d.first
    BY DEF SamplerInv, DraftsOwn, Old
  <2>2. QED
    BY <2>1, <1>2, <1>3 DEF DraftsOwn
<1>10. DecidedBehind'
  BY <1>1, <1>3, <1>4, <1>6 DEF DecidedBehind, Settles
<1>11. LastHere'
  BY <1>1, <1>2, <1>3, <1>5, <1>6 DEF LastHere, Settles
<1>12. Separated'
  <2> SUFFICES ASSUME NEW x \in Old \union New, NEW y \in Old \union New,
                      x.first < y.first, Settles(x)
               PROVE  x.first + x.row < y.first
    BY <1>3 DEF Separated, Settles
  <2>1. CASE x \in New
    BY <2>1, <1>1, <1>2, <1>4, <1>5, <1>6
  <2>2. CASE x \in Old /\ y \in New
    BY <2>2, <1>2, <1>4
  <2>3. CASE x \in Old /\ y \in Old
    BY <2>3 DEF SamplerInv, Separated, Old
  <2>4. QED
    BY <2>1, <2>2, <2>3
<1>13. NoiseSampled'
  <2>1. \A d \in Old : d.use = "draft" => mode.prob
    BY DEF SamplerInv, NoiseSampled, Old
  <2>2. QED
    BY <2>1, <1>2, <1>3 DEF NoiseSampled
<1>14. QED
  BY <1>13, <1>7, <1>8, <1>9, <1>10, <1>11, <1>12 DEF SamplerInv

\* A request that resumes with tokens every kept decision lies before.
LEMMA ResumeInv ==
  ASSUME SamplerInv, NEW tokens \in Nat \ {0},
         NEW decisions \in SUBSET (decided \union last),
         \A d \in decisions : d.first < tokens - 1
                              /\ (Settles(d) => d.first + d.row < tokens - 1),
         Resume(tokens, decisions)
  PROVE  SamplerInv'
<1>1. /\ prefillLen' = tokens /\ known' = tokens /\ kept' = tokens
      /\ draftsFor' = NoDrafts /\ decided' = decisions /\ last' = {}
      /\ mode' = mode
  BY DEF Resume
<1>2. TypeOK'
  BY <1>1 DEF SamplerInv, TypeOK, NoDrafts
<1>3. DraftsReady'
  BY <1>1 DEF DraftsReady, First
<1>4. DraftsOwn' /\ NoiseSampled'
  BY <1>1 DEF SamplerInv, DraftsOwn, NoiseSampled
<1>5. DecidedBehind' /\ LastHere'
  BY <1>1 DEF DecidedBehind, LastHere, Settles
<1>6. Separated'
  BY <1>1 DEF SamplerInv, Separated, Settles
<1>7. QED
  BY <1>2, <1>3, <1>4, <1>5, <1>6 DEF SamplerInv

LEMMA StepInv ==
  ASSUME RejectUnproposed
  PROVE  SamplerInv /\ [Next]_vars => SamplerInv'
<1> SUFFICES ASSUME SamplerInv, [Next]_vars PROVE SamplerInv'
  OBVIOUS
<1>1. known \in Nat \ {0} /\ kept \in Nat \ {0}
  BY DEF SamplerInv, TypeOK
<1>2. CASE \E n \in 0..NumSpec, accepted \in 0..NumSpec : Verify(n, accepted)
  BY <1>2, VerifyInv
<1>3. CASE PreemptDelivering
  BY <1>1, <1>3, AllBehind, ResumeInv DEF PreemptDelivering
<1>4. CASE PreemptDropping
  <2>1. \A d \in decided : d.first < kept - 1
                           /\ (Settles(d) => d.first + d.row < kept - 1)
    BY DEF SamplerInv, DecidedBehind
  <2>2. QED
    BY <1>1, <1>4, <2>1, ResumeInv DEF PreemptDropping
<1>5. CASE UNCHANGED vars
  BY <1>5 DEF vars, SamplerInv, TypeOK, NoiseSampled, DraftsReady, DraftsOwn,
              DecidedBehind, LastHere, Separated, Settles, First
<1>6. QED
  BY <1>2, <1>3, <1>4, <1>5 DEF Next

(***************************************************************************)
(* With unproposed rows rejected, steps settle disjoint ranges of          *)
(* positions and examine only the drafts proposed for them, through any    *)
(* preemptions (rejection_sample, gather_draft_sampled, propose).          *)
(***************************************************************************)
THEOREM SamplerCorrect ==
  ASSUME RejectUnproposed
  PROVE  Spec => []SamplerInv
BY InitInv, StepInv, PTL DEF Spec

(***************************************************************************)
(* With unproposed rows rejected, every draft that verification examined   *)
(* was proposed for that step (gather_draft_sampled).                      *)
(***************************************************************************)
THEOREM DraftsAlwaysOwn ==
  ASSUME RejectUnproposed
  PROVE  Spec => []DraftsOwn
<1>1. SamplerInv => DraftsOwn
  BY DEF SamplerInv
<1>2. QED
  BY <1>1, SamplerCorrect, PTL

\* The parts of a key.
LEMMA KeyParts ==
  ASSUME NEW d \in Draw, d.of = d.first
  PROVE  /\ Key(d).noise = IF d.use = "verify" THEN "uniform" ELSE "gumbel"
         /\ Key(d).seed = IF d.use = "verify" /\ mode.block /\ mode.unique THEN d.first
                          ELSE IF d.use = "draft" /\ mode.indep THEN -1 ELSE 0
         /\ Key(d).at = IF d.use = "draft" /\ mode.unique THEN d.first * 8 + d.row
                        ELSE d.first + d.row
<1>1. CASE d.use = "verify"
  BY <1>1 DEF Key, UniformKey, StepSeed, RequestSeed
<1>2. CASE d.use = "draft"
  BY <1>2 DEF Key, DraftKey, DraftSeed, RequestSeed
<1>3. CASE d.use = "resample"
  BY <1>3 DEF Key, ResampleKey, RequestSeed
<1>4. QED
  BY <1>1, <1>2, <1>3 DEF Draw

\* Draws of different use have different keys.
LEMMA SameUse ==
  ASSUME NEW x \in Draw, x.use = "draft" => mode.indep,
         NEW y \in Draw, y.use = "draft" => mode.indep,
         x.of = x.first, y.of = y.first, Key(x) = Key(y)
  PROVE  x.use = y.use
BY KeyParts DEF Draw

\* An earlier step's draw has another key than a later step's.
LEMMA StepsApart ==
  ASSUME Lossless(mode), mode \in Mode, mode.unique => mode.indep,
         NEW x \in Draw, x.of = x.first, x.use = "draft" => mode.prob,
         NEW y \in Draw, y.of = y.first, y.use = "draft" => mode.prob,
         x.first < y.first, Settles(x) => x.first + x.row < y.first
  PROVE  Key(x) # Key(y)
<1> SUFFICES ASSUME Key(x) = Key(y) PROVE FALSE
  OBVIOUS
<1>1. x.first \in Int /\ y.first \in Int /\ x.row \in 0..7 /\ y.row \in 0..7
  BY NumSpecAssumption DEF Draw
<1>2. x.use = y.use
  BY SameUse DEF Lossless
<1>3. CASE x.use = "draft" /\ mode.unique
  <2>1. x.first * 8 + x.row = y.first * 8 + y.row
    BY <1>2, <1>3, KeyParts
  <2>2. QED
    BY <1>1, <2>1
<1>4. CASE x.use = "verify" /\ mode.block
  <2>1. Key(x).seed = x.first /\ Key(y).seed = y.first
    BY <1>2, <1>4, KeyParts DEF Lossless
  <2>2. QED
    BY <1>1, <2>1
<1>5. CASE ~(x.use = "draft" /\ mode.unique) /\ ~(x.use = "verify" /\ mode.block)
  <2>1. x.first + x.row = y.first + y.row
    BY <1>2, <1>5, KeyParts
  <2>2. Settles(x)
    BY <1>5 DEF Settles, Lossless, Draw
  <2>3. QED
    BY <1>1, <2>1, <2>2
<1>6. QED
  BY <1>3, <1>4, <1>5

\* Keys tell draws of steps that settle disjoint ranges apart.
LEMMA KeysApart ==
  ASSUME SamplerInv, \A m \in Modes : Lossless(m)
  PROVE  FreshKeys
<1> SUFFICES ASSUME NEW x \in decided \union last, NEW y \in decided \union last,
                    Key(x) = Key(y)
             PROVE  x = y
  BY DEF FreshKeys
<1>1. Lossless(mode) /\ mode \in Mode /\ (mode.unique => mode.indep)
  BY ModesAssumption DEF SamplerInv, TypeOK
<1>2. /\ x \in Draw /\ x.of = x.first /\ (x.use = "draft" => mode.prob)
      /\ y \in Draw /\ y.of = y.first /\ (y.use = "draft" => mode.prob)
  BY DEF SamplerInv, TypeOK, DraftsOwn, NoiseSampled
<1>3. x.first \in Int /\ y.first \in Int /\ x.row \in 0..7 /\ y.row \in 0..7
  BY <1>2, NumSpecAssumption DEF Draw
<1>4. /\ x.first < y.first => (Settles(x) => x.first + x.row < y.first)
      /\ y.first < x.first => (Settles(y) => y.first + y.row < x.first)
  BY DEF SamplerInv, Separated
<1>5. x.first = y.first
  <2>1. ~(x.first < y.first)
    BY <1>1, <1>2, <1>4, StepsApart
  <2>2. ~(y.first < x.first)
    BY <1>1, <1>2, <1>4, StepsApart
  <2>3. QED
    BY <1>3, <2>1, <2>2
<1>6. x.use = y.use
  BY <1>1, <1>2, SameUse DEF Lossless
<1>7. x.row = y.row
  <2>1. CASE x.use = "draft" /\ mode.unique
    <3>1. x.first * 8 + x.row = y.first * 8 + y.row
      BY <1>2, <1>6, <2>1, KeyParts
    <3>2. QED
      BY <1>3, <1>5, <3>1
  <2>2. CASE ~(x.use = "draft" /\ mode.unique)
    <3>1. x.first + x.row = y.first + y.row
      BY <1>2, <1>6, <2>2, KeyParts
    <3>2. QED
      BY <1>3, <1>5, <3>1
  <2>3. QED
    BY <2>1, <2>2
<1>8. QED
  BY <1>2, <1>5, <1>6, <1>7 DEF Draw

(***************************************************************************)
(* In the configurations the documentation calls lossless, no two draws    *)
(* that decisions depended on share a key, across all steps of a request   *)
(* and its preemptions (_rejection_kernel, _resample_kernel,               *)
(* draft_noise_positions).                                                 *)
(***************************************************************************)
THEOREM KeysAlwaysFresh ==
  ASSUME RejectUnproposed, \A m \in Modes : Lossless(m)
  PROVE  Spec => []FreshKeys
<1>1. SamplerInv => FreshKeys
  BY KeysApart
<1>2. QED
  BY <1>1, SamplerCorrect, PTL
=============================================================================
