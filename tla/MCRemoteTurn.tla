---------------------------- MODULE MCRemoteTurn ----------------------------
(* A few turns with few faults.                                            *)
EXTENDS RemoteTurn
=============================================================================
