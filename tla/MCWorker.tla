------------------------------ MODULE MCWorker ------------------------------
(* Small instances of Worker.  Worker w1 has two handlers, so that one can *)
(* outlive its channel while the next message is handled; w2 has one.      *)
EXTENDS Worker, TLC

CONSTANTS h1, h2, h3, w1, w2

MCWorkerOf    == [h \in {h1, h2, h3} |-> IF h = h3 THEN w2 ELSE w1]
MCTwoWorkers  == [h \in {h1, h2} |-> IF h = h1 THEN w1 ELSE w2]

\* A payload whose processing may end in every way, each time anew.
MCProcessor == [p \in {"flaky"} |-> Outcomes]

\* h1 and h2 run in the same process and no action tells them apart.
Symmetry == Permutations({h1, h2})

AllFaults == FaultKinds

=============================================================================
