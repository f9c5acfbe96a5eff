----------------------------- MODULE OrderedLog -----------------------------
(***************************************************************************)
(* What a chat's writer lane promises its callers, with no trace of tasks, *)
(* futures or executor threads.  Every chat has a line of jobs.  The job   *)
(* at the front either lands (its rows are committed) or fails, and only   *)
(* then does the next one get its turn.  Once the service has been stopped *)
(* what is still in a line may be given up as a whole.                     *)
(***************************************************************************)
EXTENDS Sequences, Integers

CONSTANTS Chats,    \* the chats
          Jobs,     \* the writes that will ever be asked for
          ChatOf    \* ChatOf[j]: the chat that job j writes to

VARIABLES line,     \* line[c]: the jobs of c neither landed, failed nor given up
          log,      \* log[c]: the jobs of c that landed, in the order they did
          known,    \* the jobs submitted so far
          stopped   \* TRUE once the service no longer promises to write

vars == <<line, log, known, stopped>>

Init ==
    /\ line = [c \in Chats |-> <<>>]
    /\ log = [c \in Chats |-> <<>>]
    /\ known = {}
    /\ stopped = FALSE

Enqueue(j) ==
    /\ j \notin known
    /\ known' = known \cup {j}
    /\ line' = [line EXCEPT ![ChatOf[j]] = Append(@, j)]
    /\ UNCHANGED <<log, stopped>>

Land(c) ==
    /\ line[c] # <<>>
    /\ log' = [log EXCEPT ![c] = Append(@, Head(line[c]))]
    /\ line' = [line EXCEPT ![c] = Tail(@)]
    /\ UNCHANGED <<known, stopped>>

Fail(c) ==
    /\ line[c] # <<>>
    /\ line' = [line EXCEPT ![c] = Tail(@)]
    /\ UNCHANGED <<log, known, stopped>>

Stop ==
    /\ ~stopped
    /\ stopped' = TRUE
    /\ UNCHANGED <<line, log, known>>

GiveUp(c) ==
    /\ stopped
    /\ line[c] # <<>>
    /\ line' = [line EXCEPT ![c] = <<>>]
    /\ UNCHANGED <<log, known, stopped>>

Next ==
    \/ \E j \in Jobs : Enqueue(j)
    \/ \E c \in Chats : Land(c) \/ Fail(c) \/ GiveUp(c)
    \/ Stop

Spec == Init /\ [][Next]_vars
=============================================================================
