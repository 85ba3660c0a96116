------------------------------ MODULE MCOutbox ------------------------------
(* Small instances of Outbox: two ticks under way at the same time.        *)
EXTENDS Outbox

CONSTANTS t1, t2, r1, r2

AllFaults == FaultKinds

=============================================================================
