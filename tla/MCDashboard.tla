----------------------------- MODULE MCDashboard -----------------------------
(* A small instance of Dashboard.                                          *)
EXTENDS Dashboard

CONSTANTS j1, j2

AllFaults == FaultKinds

==============================================================================
