--------------------------- MODULE MCChangePoller ---------------------------
(* A small instance of ChangePoller.                                       *)
EXTENDS ChangePoller

CONSTANTS j1, j2, t1, t2

AllFaults == FaultKinds

=============================================================================
