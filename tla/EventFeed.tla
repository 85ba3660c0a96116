------------------------------ MODULE EventFeed ------------------------------
(***************************************************************************)
(* What the dashboard may count on: every change of a job is followed by a *)
(* job.updated event for it, unless the feed has missed a change.  Events  *)
(* are notifications: they may be repeated, and come for jobs that have    *)
(* not changed.  ChangePoller implements it, Dashboard is built on it.     *)
(***************************************************************************)
EXTENDS Naturals, FiniteSets

CONSTANTS
    Jobs,          \* the jobs
    MaxVersions    \* bound on the changes of one job

ASSUME FeedAssumption == IsFiniteSet(Jobs) /\ MaxVersions \in Nat

VARIABLES
    version,  \* how often each job has been changed
    untold,   \* the jobs with a change after their last event
    missed    \* whether the feed has missed a change

feedVars == <<version, untold, missed>>

FeedTypeOK == /\ version \in [Jobs -> 0..MaxVersions]
              /\ untold \in SUBSET Jobs
              /\ missed \in BOOLEAN

FeedInit == /\ version = [j \in Jobs |-> 0]
            /\ untold = {}
            /\ missed = FALSE

\* A job changes, and the feed may miss that it did.
Change(j) ==
    /\ version[j] < MaxVersions
    /\ version' = [version EXCEPT ![j] = @ + 1]
    /\ untold' = untold \cup {j}
    /\ missed' \in {missed, TRUE}

\* Events for some jobs, in one go.
Tell(S) == /\ untold' = untold \ S
           /\ UNCHANGED <<version, missed>>

\* The feed loses track of changes it has not told.
Lose == /\ untold' \in SUBSET untold
        /\ missed' = TRUE
        /\ UNCHANGED version

FeedNext == \/ \E j \in Jobs : Change(j)
            \/ \E S \in SUBSET Jobs : Tell(S)
            \/ Lose

FeedSpec == FeedInit /\ [][FeedNext]_feedVars

\* As long as no change was missed, an untold one is told some time.
FeedFairness == \A j \in Jobs :
    WF_feedVars(~ missed /\ j \in untold /\ \E S \in SUBSET Jobs :
                                                j \in S /\ Tell(S))

FeedFairSpec == FeedSpec /\ FeedFairness

==============================================================================
