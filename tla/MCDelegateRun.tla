--------------------------- MODULE MCDelegateRun ---------------------------
(* One lane, two runs, few faults.                                         *)
EXTENDS DelegateRun
=============================================================================
