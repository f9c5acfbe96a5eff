---------------------------- MODULE MCLoopBreaker ----------------------------
(* Two nested connections, two thread identities (one in the loop, one that  *)
(* still closes its old pool), the three pools those can hold, one outage    *)
(* and three trips: enough for a trip to arrive at every point of a recovery *)
(* that an earlier trip has already sent round once.                         *)
EXTENDS LoopBreaker
=============================================================================
