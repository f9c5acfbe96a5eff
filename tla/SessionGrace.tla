---------------------------- MODULE SessionGrace ----------------------------
(***************************************************************************)
(* What the connection manager promises the sessions of one remote         *)
(* machine.  A session is attached to the machine's link while it is up.   *)
(* When the link goes, all of them are held together; when it comes back,  *)
(* all that are still held are attached again; when it does not come back  *)
(* in time, all of them are lost together.  A session that is wanted goes  *)
(* no other way, and one that is lost has to be created again.             *)
(***************************************************************************)
CONSTANT Sessions

VARIABLES
    up,      \* whether the machine is reachable
    wanted,  \* the sessions that run and nobody has given up
    place    \* where each session is

vars == <<up, wanted, place>>

Places == {"none", "attached", "held", "lost"}

\* Every session at `from` goes to `to`.
Moved(from, to) ==
    [s \in Sessions |-> IF place[s] = from THEN to ELSE place[s]]

Init ==
    /\ up = FALSE
    /\ wanted = {}
    /\ place = [s \in Sessions |-> "none"]

Return ==
    /\ ~up
    /\ up' = TRUE
    /\ place' = Moved("held", "attached")
    /\ UNCHANGED wanted

Drop ==
    /\ up
    /\ up' = FALSE
    /\ place' = Moved("attached", "held")
    /\ UNCHANGED wanted

\* The sessions of `quiet` were given up before: nobody is told.
Expire(quiet) ==
    /\ ~up
    /\ place' = [s \in Sessions |->
                    IF place[s] # "held" THEN place[s]
                    ELSE IF s \in quiet THEN "none" ELSE "lost"]
    /\ wanted' = {s \in wanted : place[s] # "held"}
    /\ UNCHANGED up

Create(s) ==
    /\ up
    /\ s \notin wanted
    /\ place[s] # "lost"
    /\ wanted' = wanted \cup {s}
    /\ place' = [place EXCEPT ![s] = "attached"]
    /\ UNCHANGED up

\* A person gives s up; its place is cleared at once or later.
GiveUp(s) ==
    /\ wanted' = wanted \ {s}
    /\ place' \in {place, [place EXCEPT ![s] = "none"]}
    /\ UNCHANGED up

Clear(s) ==
    /\ s \notin wanted
    /\ place' = [place EXCEPT ![s] = "none"]
    /\ UNCHANGED <<up, wanted>>

Next ==
    \/ Return
    \/ Drop
    \/ \E quiet \in SUBSET (Sessions \ wanted) : Expire(quiet)
    \/ \E s \in Sessions : Create(s) \/ GiveUp(s) \/ Clear(s)

Spec == Init /\ [][Next]_vars
=============================================================================
