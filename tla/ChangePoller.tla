---------------------------- MODULE ChangePoller ----------------------------
(***************************************************************************)
(* The API's change poller (apps/api/src/ws, db/changeDetector.ts): a      *)
(* cursor over jobs.updated_at, moved by interval ticks that do not wait   *)
(* for each other, and a job.updated event for every row past it.          *)
(*                                                                         *)
(* updated_at = now() is when the writing transaction began, not when it   *)
(* commits.  Postgres counts microseconds and a JavaScript Date            *)
(* milliseconds: a timestamp that becomes the cursor is cut (ToDate).      *)
(***************************************************************************)
EXTENDS Naturals, FiniteSets

CONSTANTS
    Jobs,         \* rows of the jobs table
    Ticks,        \* ticks of the interval that can be under way at once
    Micros,       \* how many of Postgres's time units a Date has one for
    MaxVersions,  \* bound on the changes of one row
    Faulty,       \* the kinds of fault that may happen
    MaxFaults     \* bound on the faults of one behaviour, of all kinds

\* late   a write commits although a later time has been given out
\* db     the query of a tick fails
\* boot   getStartupCursor() fails, and the poller is never started
\* crash  the API process dies and is started again
FaultKinds == {"late", "db", "boot", "crash"}

ASSUME PollerAssumption ==
    /\ IsFiniteSet(Jobs) /\ MaxVersions \in Nat /\ Micros \in Nat \ {0}
    /\ Faulty \subseteq FaultKinds /\ MaxFaults \in Nat

VARIABLES
    clock,       \* the latest time that Postgres's clock has given out
    updated_at,  \* the column, as committed
    version,     \* how often each row has been changed
    poller,      \* off, on, or dead: the state of startChangePoller()
    cursor,      \* its variable
    tick,        \* its ticks
    untold,      \* auxiliary: the rows whose last change is to be broadcast
    harm,        \* auxiliary: whether a write was late, a change lost
    faults       \* how many more there may be

tableVars  == <<clock, updated_at, version>>
pollerVars == <<poller, cursor, tick>>
vars       == <<tableVars, pollerVars, untold, harm, faults>>

Tick == [ pc    : {"idle", "query", "rows"},
          since : Nat,              \* the argument of the query
          rows  : [Jobs -> Nat] ]   \* its result: updated_at, 0 if no row

IdleTick == [pc |-> "idle", since |-> 0, rows |-> [j \in Jobs |-> 0]]

TypeOK ==
    /\ clock      \in Nat
    /\ updated_at \in [Jobs -> Nat]
    /\ version    \in [Jobs -> 0..MaxVersions]
    /\ poller     \in {"off", "on", "dead"}
    /\ cursor     \in 0..clock
    /\ tick       \in [Ticks -> Tick]
    /\ untold     \in SUBSET Jobs
    /\ harm       \in SUBSET {"order", "loss"}
    /\ faults     \in 0..MaxFaults

\* The rows were written at time 1, before the API was started.
Init ==
    /\ clock      = 1
    /\ updated_at = [j \in Jobs |-> 1]
    /\ version    = [j \in Jobs |-> 0]
    /\ poller     = "off"
    /\ cursor     = 0
    /\ tick       = [t \in Ticks |-> IdleTick]
    /\ untold     = {}
    /\ harm       = {}
    /\ faults     = MaxFaults

Fault(kind) == kind \in Faulty /\ faults > 0 /\ faults' = faults - 1

-----------------------------------------------------------------------------
(* The writers: the statements of JobsTable, of which only the row and the  *)
(* time matter here.                                                       *)

\* A transaction that began at `at` commits its change of a row.
Stored(j, at) ==
    /\ version[j] < MaxVersions
    /\ version' = [version EXCEPT ![j] = @ + 1]
    /\ updated_at' = [updated_at EXCEPT ![j] = at]
    /\ untold' = untold \cup {j}
    /\ UNCHANGED pollerVars

Write(j) == \E at \in (clock + 1)..(clock + Micros) :
    /\ Stored(j, at)
    /\ clock' = at
    /\ UNCHANGED <<harm, faults>>

LateWrite(j) == \E at \in 1..clock :
    /\ Stored(j, at)
    /\ Fault("late")
    /\ harm' = harm \cup {"order"}
    /\ UNCHANGED clock

-----------------------------------------------------------------------------
(* The poller.                                                             *)

\* Mutant: the Date is the nearest one, which may be later.
MutToDate(t) == ((t + Micros - 1) \div Micros) * Micros

\* A timestamptz read into a Date and sent back as a parameter.
ToDate(t) == (t \div Micros) * Micros

\* getStartupCursor(), SELECT now(), and setInterval().  What was changed
\* before, and not broadcast by an earlier process, never will be.
Start == \E now \in clock..(clock + Micros) :
    LET lost == {j \in untold : updated_at[j] <= ToDate(now)} IN
    /\ poller = "off"
    /\ poller' = "on"
    /\ clock' = now
    /\ cursor' = ToDate(now)
    /\ untold' = untold \ lost
    /\ harm' = IF lost = {} THEN harm ELSE harm \cup {"loss"}
    /\ UNCHANGED <<updated_at, version, tick, faults>>

\* index.ts logs the failure and does not try again.
StartFails ==
    /\ poller = "off"
    /\ Fault("boot")
    /\ poller' = "dead"
    /\ harm' = harm \cup {"loss"}
    /\ UNCHANGED <<tableVars, cursor, tick, untold>>

\* The interval fires; getJobChangesSince() is called with the cursor.
TickStart(t) ==
    /\ poller = "on" /\ tick[t].pc = "idle"
    /\ tick' = [tick EXCEPT ![t].pc = "query", ![t].since = cursor]
    /\ UNCHANGED <<tableVars, poller, cursor, untold, harm, faults>>

\* Postgres evaluates the query on what is committed now.
getJobChangesSince(t) ==
    /\ tick[t].pc = "query"
    /\ tick' = [tick EXCEPT ![t] =
                  [pc |-> "rows", since |-> 0,
                   rows |-> [j \in Jobs |-> IF updated_at[j] > tick[t].since
                                            THEN updated_at[j] ELSE 0]]]
    /\ UNCHANGED <<tableVars, poller, cursor, untold, harm, faults>>

\* Mutant: the failure is not caught, and ends the poller.
MutTickFails(t) ==
    /\ tick[t].pc = "query"
    /\ Fault("db")
    /\ poller' = "dead"
    /\ tick' = [u \in Ticks |-> IdleTick]
    /\ UNCHANGED <<tableVars, cursor, untold, harm>>

\* The query throws: the tick is over and the cursor stays.
TickFails(t) ==
    /\ tick[t].pc = "query"
    /\ Fault("db")
    /\ tick' = [tick EXCEPT ![t] = IdleTick]
    /\ UNCHANGED <<tableVars, poller, cursor, untold, harm>>

\* Mutant: the cursor is set to the time at which the tick ends.
MutAdvanced(rows) ==
    IF \A j \in Jobs : rows[j] = 0 THEN cursor ELSE ToDate(clock)

\* The cursor after the rows: the updated_at of the last one, by ORDER BY
\* the greatest.
Advanced(rows) ==
    IF \A j \in Jobs : rows[j] = 0 THEN cursor
    ELSE ToDate(CHOOSE u \in {rows[j] : j \in Jobs} :
                    \A j \in Jobs : rows[j] <= u)

\* The rest of the tick runs without an await: broadcast() for every row, and
\* the new cursor.
TickEnd(t) ==
    LET rows == tick[t].rows IN
    /\ tick[t].pc = "rows"
    /\ untold' = {j \in untold : rows[j] # updated_at[j]}
    /\ cursor' = Advanced(rows)
    /\ tick' = [tick EXCEPT ![t] = IdleTick]
    /\ UNCHANGED <<tableVars, poller, harm, faults>>

\* The process dies and is started again: all of the poller is in memory.
Crash ==
    /\ Fault("crash")
    /\ poller' = "off"
    /\ cursor' = 0
    /\ tick' = [t \in Ticks |-> IdleTick]
    /\ UNCHANGED <<tableVars, untold, harm>>

Next ==
    \/ \E j \in Jobs : Write(j) \/ LateWrite(j)
    \/ Start \/ StartFails \/ Crash
    \/ \E t \in Ticks : \/ TickStart(t) \/ getJobChangesSince(t)
                        \/ TickFails(t) \/ TickEnd(t)

Spec == Init /\ [][Next]_vars

\* The start-up query and those of the ticks return, and the interval fires.
Fairness ==
    /\ WF_vars(Start)
    /\ \A t \in Ticks : WF_vars(TickStart(t) \/ getJobChangesSince(t)
                                             \/ TickEnd(t))

FairSpec == Spec /\ Fairness

-----------------------------------------------------------------------------
(* Properties.                                                             *)

\* The cursor never passes a change that has not been broadcast, as long as
\* writes commit in the order of their updated_at: whatever ticks overlap,
\* fail, or set the cursor back, whenever the API restarts, and although
\* the cursor is cut to a Date.
NoGap == "order" \notin harm /\ poller = "on" =>
             \A j \in untold : updated_at[j] > cursor

Feed == INSTANCE EventFeed WITH missed <- harm # {}

\* The poller is an event feed: a change is only forgotten after a late write,
\* a start-up that came after it or one that failed, and without those every
\* change is broadcast in the end (the jobs' rows, startChangePoller()).
ImplementsFeed == Feed!FeedFairSpec

=============================================================================
