-------------------------- MODULE MCSatelliteLink --------------------------
(* One machine, its sessions and its sockets.                              *)
EXTENDS SatelliteLink, TLC

CONSTANTS s1, s2, c1
=============================================================================
