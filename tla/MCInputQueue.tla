---------------------------- MODULE MCInputQueue -----------------------------
(* Two people, two messages, and the frames that carry them.               *)
EXTENDS InputQueue, TLC

CONSTANTS m1, m2, ann, bob, f1, f2, f3

\* Two messages of one person, whose order counts; or of two people, whose turns
\* exclude each other.
MCOnePerson == m1 :> ann @@ m2 :> ann
MCTwoPeople == m1 :> ann @@ m2 :> bob

\* Each message comes once; or the first comes twice, a re-send after a reconnect.
MCOf == f1 :> m1 @@ f2 :> m2
MCResend == f1 :> m1 @@ f2 :> m2 @@ f3 :> m1

\* One message alone, for the run with all faults.
MCOneMessage == m1 :> ann
MCOneFrame == f1 :> m1

=============================================================================
