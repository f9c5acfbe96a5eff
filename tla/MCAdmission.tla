----------------------------- MODULE MCAdmission -----------------------------
(* Small mixes of calls for the admission ledger.                           *)
EXTENDS Admission, TLC

CONSTANTS s1, s2, s3, s4, r1, r2, r3, r4, r5, u1, u2, kA, kB

Call(path, sid, kd, user, capped, creator) ==
    [path |-> path, sid |-> sid, kind |-> kd, user |-> user,
     capped |-> capped, creator |-> creator]

MCEst == [s \in Sids |-> IF s = s1 THEN Heavy ELSE 1]
MCEstTab == [s \in Sids |-> IF s = s3 THEN 1 ELSE Heavy]
MCEstWarm == [s \in Sids |-> IF s = s1 THEN 1 ELSE Heavy]
MCEstHeavy == [s \in Sids |-> Heavy]

\* Two queued heavy chats of two people and a second, light tab of the first one:
\* the two of one person fit, those of the two people do not.
MCPeople ==
    r1 :> Call("queued", s1, "chat", u1, TRUE, kA) @@
    r2 :> Call("queued", s2, "chat", u2, TRUE, kA) @@
    r3 :> Call("plain", s3, "chat", u1, TRUE, kA)

\* A burst of two runs by kB, a single run by kA and a phone call.
MCTasks ==
    r1 :> Call("task", s1, "task", NoUser, FALSE, kA) @@
    r2 :> Call("task", s2, "task", NoUser, FALSE, kB) @@
    r3 :> Call("task", s3, "task", NoUser, FALSE, kB) @@
    r4 :> Call("plain", s4, "phone", u1, TRUE, kA)

\* A background wake, two chats in line and the maintenance loop.
MCWakes ==
    r1 :> Call("wake", s1, "chat", NoUser, FALSE, kA) @@
    r2 :> Call("queued", s2, "chat", u1, FALSE, kA) @@
    r3 :> Call("queued", s3, "chat", u2, FALSE, kA) @@
    r4 :> Call("maintenance", s1, "chat", NoUser, FALSE, kA)

\* A pre-warm, the chat that reuses it, another chat of that person and a meeting.
MCSurfaces ==
    r1 :> Call("speculative", s1, "chat", u1, FALSE, kA) @@
    r2 :> Call("plain", s1, "chat", u1, TRUE, kA) @@
    r3 :> Call("plain", s2, "chat", u1, TRUE, kA) @@
    r4 :> Call("meeting", s3, "meeting", NoUser, FALSE, kA)

\* Two people on a box for one session; the first one's chat is asked for again.
MCReturn ==
    r1 :> Call("plain", s1, "chat", u1, TRUE, kA) @@
    r2 :> Call("plain", s2, "chat", u2, TRUE, kA) @@
    r3 :> Call("plain", s1, "chat", u1, TRUE, kA)

\* A single heavy run by kA and three light ones by kB.
MCMixed ==
    r1 :> Call("task", s1, "task", NoUser, FALSE, kA) @@
    r2 :> Call("task", s2, "task", NoUser, FALSE, kB) @@
    r3 :> Call("task", s3, "task", NoUser, FALSE, kB) @@
    r4 :> Call("task", s4, "task", NoUser, FALSE, kB)
=============================================================================
