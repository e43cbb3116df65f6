------------------------ MODULE MCRejectionSampler ------------------------
(* Instances of RejectionSampler for TLC. *)
EXTENDS RejectionSampler

\* Every configuration the documentation calls lossless.
MCModes == {m \in Mode : Lossless(m) /\ (m.unique => m.indep)}
=============================================================================
