---------------------------- MODULE MCChatWriter ----------------------------
(* Two chats share an executor; one of them has enough jobs for a queue to *)
(* build up behind the running one.                                        *)
EXTENDS ChatWriter

CONSTANTS a, b, a1, a2, a3, b1

MCChatOf == [j \in Jobs |-> IF j \in {a1, a2, a3} THEN a ELSE b]
=============================================================================
