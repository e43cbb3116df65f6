---------------------------- MODULE MCKVSchedule ----------------------------
(* Instances of KVSchedule for TLC. *)
EXTENDS KVSchedule

MCNeed   == [r \in Reqs |-> r + 1]
MCLoaded == [r \in Reqs |-> r]
MCSteps  == [r \in Reqs |-> 3 - r]
MCRank   == [r \in Reqs |-> r]
MCUrgent == [r \in Reqs |-> 10 - r]
=============================================================================
