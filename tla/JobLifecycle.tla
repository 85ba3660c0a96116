---------------------------- MODULE JobLifecycle ----------------------------
(***************************************************************************)
(* What the platform promises about one job's history, whatever the        *)
(* processes, messages and faults underneath do: a job waits, runs and     *)
(* either is done for good or is dead; only a replay brings a dead job     *)
(* back, and only a replay gives it a fresh attempt count; every other     *)
(* return to running is one more attempt.                                  *)
(***************************************************************************)
EXTENDS Naturals

CONSTANT Jobs

VARIABLE life   \* per job: its stage, the attempts of this cycle, replays

Stage == {"none", "waiting", "running", "done", "dead"}

TypeOK == life \in [Jobs -> [stage : Stage, attempts : Nat, replays : Nat]]

Init == life = [j \in Jobs |->
                  [stage |-> "none", attempts |-> 0, replays |-> 0]]

\* The job j is moved from one stage to another, its counters as given.
Move(j, from, to, attempts, replays) ==
    /\ life[j].stage = from
    /\ life' = [life EXCEPT ![j] = [stage    |-> to,
                                    attempts |-> attempts,
                                    replays  |-> replays]]

Submit(j)  == Move(j, "none", "waiting", 0, 0)
Attempt(j) == Move(j, "waiting", "running", life[j].attempts + 1, life[j].replays)
Reclaim(j) == Move(j, "running", "running", life[j].attempts + 1, life[j].replays)
Succeed(j) == Move(j, "running", "done", life[j].attempts, life[j].replays)
Defer(j)   == Move(j, "running", "waiting", life[j].attempts, life[j].replays)
GiveUp(j)  == Move(j, "running", "dead", life[j].attempts, life[j].replays)
Revive(j)  == Move(j, "dead", "waiting", 0, life[j].replays + 1)

Next == \E j \in Jobs :
    /\ life'[j] # life[j]
    /\ \/ Submit(j) \/ Attempt(j) \/ Reclaim(j) \/ Succeed(j) \/ Defer(j)
       \/ GiveUp(j) \/ Revive(j)

Spec == Init /\ [][Next]_life

=============================================================================
