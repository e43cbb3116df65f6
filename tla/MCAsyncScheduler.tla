-------------------------- MODULE MCAsyncScheduler --------------------------
(* Instances of AsyncScheduler for TLC. *)
EXTENDS AsyncScheduler

\* Requests 1, 2, 3 in the order of their arrival.
MCPrompt == [r \in Reqs |-> 1 + (r % 2)]
MCMixed == [r \in Reqs |-> 1 + r]
MCThree  == [r \in Reqs |-> 3]
MCTwo    == [r \in Reqs |-> 2]
MCRank   == [r \in Reqs |-> r]
MCUrgent == [r \in Reqs |-> 10 - r]
=============================================================================
