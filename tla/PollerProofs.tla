---------------------------- MODULE PollerProofs ----------------------------
(***************************************************************************)
(* Theorems about ChangePoller: the cursor never passes an untold change,  *)
(* for any number of jobs, ticks under way, writes and faults, and every   *)
(* step of the poller is one of an event feed.                             *)
(***************************************************************************)
EXTENDS ChangePoller, WellFoundedInduction, TLAPS

-----------------------------------------------------------------------------
(* Timestamps.                                                             *)

\* Reading a timestamp into a Date never makes it later (ToDate()).
LEMMA ToDateCuts ==
    ASSUME NEW t \in Nat PROVE ToDate(t) \in Nat /\ ToDate(t) <= t
<1>1. PICK m \in Nat \ {0} : m = Micros
  BY PollerAssumption
<1>2. t \div m \in Nat /\ t % m \in Nat /\ t = m * (t \div m) + (t % m)
  BY <1>1
<1>3. (t \div m) * m \in Nat /\ (t \div m) * m = m * (t \div m)
  BY <1>1, <1>2
<1> QED
  BY <1>1, <1>2, <1>3 DEF ToDate

\* A result that is not empty has a last row (ORDER BY updated_at ASC).
LEMMA LastRow ==
    ASSUME NEW rows \in [Jobs -> Nat], NEW c \in Nat,
           \A j \in Jobs : rows[j] <= c,
           \E j \in Jobs : rows[j] # 0
    PROVE  \E u \in {rows[j] : j \in Jobs} : \A j \in Jobs : rows[j] <= u
<1> DEFINE Above == {n \in Nat : \A j \in Jobs : rows[j] <= n}
<1>1. Above \in SUBSET Nat /\ Above # {}
  OBVIOUS
<1>2. PICK n \in Above : \A m \in Above : n <= m
  <2>1. IsWellFoundedOn(OpToRel(<, Nat), Nat)
    BY NatLessThanWellFounded, Zenon
  <2>2. PICK n \in Above : \A m \in Above : ~ (<<m, n>> \in OpToRel(<, Nat))
    BY <1>1, <2>1, WFMin, Zenon
  <2>3. \A m \in Above : ~ (m < n)
    BY <2>2 DEF OpToRel
  <2> QED
    BY <2>3
<1>3. CASE \E j \in Jobs : rows[j] = n
  BY <1>2, <1>3
<1>4. CASE \A j \in Jobs : rows[j] # n
  <2>1. n \in Nat /\ n # 0
    BY <1>2
  <2>2. n - 1 \in Above
    BY <1>2, <1>4, <2>1
  <2> QED
    BY <1>2, <2>1, <2>2
<1> QED
  BY <1>3, <1>4

\* The cursor after a tick is as it was, or not past the tick's last row.
LEMMA AdvancedBound ==
    ASSUME NEW rows \in [Jobs -> Nat], NEW c \in Nat,
           \A j \in Jobs : rows[j] <= c
    PROVE  \/ Advanced(rows) = cursor
           \/ /\ Advanced(rows) \in Nat
              /\ \E j \in Jobs : rows[j] # 0 /\ Advanced(rows) <= rows[j]
<1>1. CASE \A j \in Jobs : rows[j] = 0
  BY <1>1 DEF Advanced
<1>2. CASE \E j \in Jobs : rows[j] # 0
  <2> DEFINE last == CHOOSE u \in {rows[j] : j \in Jobs} :
                         \A j \in Jobs : rows[j] <= u
  <2>1. last \in {rows[j] : j \in Jobs} /\ \A j \in Jobs : rows[j] <= last
    BY <1>2, LastRow
  <2>2. Advanced(rows) = ToDate(last)
    BY <1>2 DEF Advanced
  <2> HIDE DEF last
  <2>3. PICK j \in Jobs : rows[j] = last
    BY <2>1
  <2>4. last \in Nat /\ last # 0
    BY <1>2, <2>1, <2>3
  <2> QED
    BY <2>2, <2>3, <2>4, ToDateCuts
<1> QED
  BY <1>1, <1>2

-----------------------------------------------------------------------------
(* The inductive invariant.                                                *)

\* No time is later than the latest given out, and ticks need a poller.
InTime ==
    /\ \A j \in Jobs : updated_at[j] <= clock
    /\ \A t \in Ticks : /\ tick[t].since <= clock
                        /\ \A j \in Jobs : tick[t].rows[j] <= clock
    /\ poller # "on" => \A t \in Ticks : tick[t].pc = "idle"

\* An untold change is ahead of the cursor and of every tick under way, or in
\* that tick's result.
Ahead(j) ==
    /\ updated_at[j] > cursor
    /\ \A t \in Ticks :
         /\ tick[t].pc = "query" => updated_at[j] > tick[t].since
         /\ tick[t].pc = "rows" =>
              \/ tick[t].rows[j] = updated_at[j]
              \/ \A i \in Jobs : tick[t].rows[i] < updated_at[j]

Tracked == "order" \notin harm /\ poller = "on" => \A j \in untold : Ahead(j)

PollerInv == TypeOK /\ InTime /\ Tracked

LEMMA PollerInitially == Init => PollerInv
<1> SUFFICES ASSUME Init PROVE PollerInv
  OBVIOUS
<1>1. TypeOK
  BY PollerAssumption DEF Init, TypeOK, Tick, IdleTick
<1>2. InTime /\ Tracked
  BY DEF Init, InTime, Tracked, IdleTick
<1> QED
  BY <1>1, <1>2 DEF PollerInv

\* A change committed in order (jobs.updated_at).
LEMMA WriteKeeps ==
    ASSUME PollerInv, NEW k \in Jobs, Write(k) PROVE PollerInv'
<1> USE DEF PollerInv
<1>1. PICK at \in (clock + 1)..(clock + Micros) :
        Stored(k, at) /\ clock' = at /\ UNCHANGED <<harm, faults>>
  BY DEF Write
<1>2. clock \in Nat /\ at \in Nat /\ at > clock
  BY <1>1, PollerAssumption DEF TypeOK
<1>3. TypeOK'
  BY <1>1, <1>2, PollerAssumption DEF TypeOK, Stored, pollerVars
<1>4. InTime'
  <2>1. \A j \in Jobs : updated_at'[j] <= clock'
    BY <1>1, <1>2 DEF TypeOK, InTime, Stored
  <2>2. \A t \in Ticks : /\ tick'[t].since <= clock'
                         /\ \A j \in Jobs : tick'[t].rows[j] <= clock'
    BY <1>1, <1>2 DEF TypeOK, Tick, InTime, Stored, pollerVars
  <2> QED
    BY <1>1, <2>1, <2>2 DEF InTime, Stored, pollerVars
<1>5. Tracked'
  <2> SUFFICES ASSUME "order" \notin harm, poller = "on", NEW j \in untold'
               PROVE  Ahead(j)'
    BY <1>1 DEF Tracked, Stored, pollerVars
  <2>1. CASE j = k
    <3>1. updated_at'[j] = at
      BY <1>1, <2>1 DEF Stored, TypeOK
    <3> QED
      BY <1>1, <1>2, <3>1 DEF Ahead, InTime, TypeOK, Tick, Stored, pollerVars
  <2>2. CASE j # k
    <3>1. j \in untold /\ Ahead(j) /\ updated_at'[j] = updated_at[j]
      BY <1>1, <2>2 DEF Tracked, Stored, TypeOK
    <3> QED
      BY <1>1, <3>1 DEF Ahead, Stored, pollerVars
  <2> QED
    BY <2>1, <2>2
<1> QED
  BY <1>3, <1>4, <1>5

\* A late one: after it, Tracked says nothing.
LEMMA LateWriteKeeps ==
    ASSUME PollerInv, NEW k \in Jobs, LateWrite(k) PROVE PollerInv'
<1> USE DEF PollerInv
<1>1. PICK at \in 1..clock :
        /\ Stored(k, at) /\ Fault("late") /\ UNCHANGED clock
        /\ harm' = harm \cup {"order"}
  BY DEF LateWrite
<1>2. TypeOK'
  BY <1>1, PollerAssumption DEF TypeOK, Stored, pollerVars, Fault
<1>3. InTime'
  BY <1>1 DEF InTime, TypeOK, Stored, pollerVars
<1>4. Tracked'
  BY <1>1 DEF Tracked
<1> QED
  BY <1>2, <1>3, <1>4

\* startChangePoller().
LEMMA StartKeeps ==
    ASSUME PollerInv, Start PROVE PollerInv'
<1> USE DEF PollerInv
<1>1. PICK now \in clock..(clock + Micros) :
        /\ poller = "off" /\ poller' = "on" /\ clock' = now
        /\ cursor' = ToDate(now)
        /\ untold' = untold \ {j \in untold : updated_at[j] <= ToDate(now)}
        /\ harm' \in {harm, harm \cup {"loss"}}
        /\ UNCHANGED <<updated_at, version, tick, faults>>
  BY DEF Start
<1>2. now \in Nat /\ now >= clock /\ clock \in Nat
  BY <1>1, PollerAssumption DEF TypeOK
<1>3. cursor' \in 0..clock'
  BY <1>1, <1>2, ToDateCuts
<1>4. TypeOK'
  BY <1>1, <1>2, <1>3 DEF TypeOK
<1>5. InTime'
  BY <1>1, <1>2 DEF InTime, TypeOK, Tick
<1>6. Tracked'
  <2> SUFFICES ASSUME NEW j \in untold' PROVE Ahead(j)'
    BY DEF Tracked
  <2>1. updated_at[j] > ToDate(now)
    BY <1>1, <1>2, ToDateCuts DEF TypeOK
  <2> QED
    BY <1>1, <2>1 DEF Ahead, InTime
<1> QED
  BY <1>4, <1>5, <1>6

\* The steps of a tick up to its result.
LEMMA TickKeeps ==
    ASSUME PollerInv, NEW t \in Ticks,
           TickStart(t) \/ getJobChangesSince(t) \/ TickFails(t)
    PROVE  PollerInv'
<1> USE DEF PollerInv
<1>0. clock \in Nat /\ cursor \in Nat /\ cursor <= clock
  BY DEF TypeOK
<1>1. CASE TickStart(t)
  <2>1. tick' = [tick EXCEPT ![t] = [tick[t] EXCEPT !.pc = "query",
                                                    !.since = cursor]]
    BY <1>1 DEF TickStart, TypeOK, Tick
  <2>2. TypeOK'
    BY <1>0, <1>1, <2>1 DEF TypeOK, TickStart, tableVars, Tick
  <2>3. InTime'
    BY <1>0, <1>1, <2>1 DEF InTime, TypeOK, TickStart, tableVars, Tick
  <2>4. Tracked'
    <3> SUFFICES ASSUME "order" \notin harm, poller = "on", NEW j \in untold
                 PROVE  Ahead(j)'
      BY <1>1 DEF Tracked, TickStart
    <3>1. Ahead(j)
      BY DEF Tracked
    <3> QED
      BY <1>1, <2>1, <3>1 DEF Ahead, TickStart, tableVars, TypeOK, Tick
  <2> QED
    BY <2>2, <2>3, <2>4
<1>2. CASE getJobChangesSince(t)
  <2> DEFINE rows == [j \in Jobs |-> IF updated_at[j] > tick[t].since
                                     THEN updated_at[j] ELSE 0]
  <2>1. tick' = [tick EXCEPT ![t] = [pc |-> "rows", since |-> 0, rows |-> rows]]
    BY <1>2 DEF getJobChangesSince
  <2>2. rows \in [Jobs -> Nat] /\ \A j \in Jobs : rows[j] <= clock
    BY <1>0 DEF TypeOK, InTime
  <2>3. poller = "on"
    BY <1>2 DEF InTime, getJobChangesSince
  <2>4. \A j \in Jobs : updated_at[j] > tick[t].since => rows[j] = updated_at[j]
    OBVIOUS
  <2> HIDE DEF rows
  <2>5. TypeOK'
    BY <1>2, <2>1, <2>2 DEF TypeOK, getJobChangesSince, tableVars, Tick
  <2>6. InTime'
    BY <1>0, <1>2, <2>1, <2>2, <2>3
       DEF InTime, TypeOK, getJobChangesSince, tableVars, Tick
  <2>7. Tracked'
    <3> SUFFICES ASSUME "order" \notin harm, poller = "on", NEW j \in untold
                 PROVE  Ahead(j)'
      BY <1>2 DEF Tracked, getJobChangesSince
    <3>1. Ahead(j)
      BY DEF Tracked
    <3>2. rows[j] = updated_at[j]
      BY <1>2, <2>4, <3>1 DEF Ahead, getJobChangesSince, TypeOK
    <3> QED
      BY <1>2, <2>1, <3>1, <3>2
         DEF Ahead, getJobChangesSince, tableVars, TypeOK, Tick
  <2> QED
    BY <2>5, <2>6, <2>7
<1>3. CASE TickFails(t)
  <2>1. IdleTick \in Tick /\ IdleTick.pc = "idle" /\ IdleTick.since = 0
        /\ \A j \in Jobs : IdleTick.rows[j] = 0
    BY DEF IdleTick, Tick
  <2>2. tick' = [tick EXCEPT ![t] = IdleTick]
    BY <1>3 DEF TickFails
  <2>3. TypeOK'
    BY <1>3, <2>1, <2>2, PollerAssumption
       DEF TypeOK, TickFails, tableVars, Fault
  <2>4. InTime'
    BY <1>0, <1>3, <2>1, <2>2 DEF InTime, TypeOK, TickFails, tableVars
  <2>5. Tracked'
    BY <1>3, <2>1, <2>2 DEF Tracked, Ahead, TypeOK, TickFails, tableVars
  <2> QED
    BY <2>3, <2>4, <2>5
<1> QED
  BY <1>1, <1>2, <1>3

\* The end of a tick: what is left untold is ahead of all its rows.
LEMMA TickEndKeeps ==
    ASSUME PollerInv, NEW t \in Ticks, TickEnd(t) PROVE PollerInv'
<1> USE DEF PollerInv
<1> DEFINE rows == tick[t].rows
<1>1. /\ tick[t].pc = "rows"
      /\ untold' = {j \in untold : rows[j] # updated_at[j]}
      /\ cursor' = Advanced(rows)
      /\ tick' = [tick EXCEPT ![t] = IdleTick]
      /\ UNCHANGED <<tableVars, poller, harm, faults>>
  BY DEF TickEnd
<1>2. IdleTick \in Tick /\ IdleTick.pc = "idle" /\ IdleTick.since = 0
      /\ \A j \in Jobs : IdleTick.rows[j] = 0
  BY DEF IdleTick, Tick
<1>3. clock \in Nat /\ cursor \in Nat /\ cursor <= clock
  BY DEF TypeOK
<1>4. rows \in [Jobs -> Nat] /\ \A j \in Jobs : rows[j] <= clock
  BY DEF TypeOK, Tick, InTime
<1>5. \/ cursor' = cursor
      \/ cursor' \in Nat /\ \E i \in Jobs : cursor' <= rows[i]
  BY <1>1, <1>3, <1>4, AdvancedBound
<1>6. cursor' \in 0..clock'
  BY <1>1, <1>3, <1>4, <1>5 DEF tableVars
<1>7. TypeOK'
  BY <1>1, <1>2, <1>6 DEF TypeOK, tableVars
<1>8. InTime'
  BY <1>1, <1>2, <1>3 DEF InTime, TypeOK, tableVars
<1>9. Tracked'
  <2> SUFFICES ASSUME "order" \notin harm, poller = "on", NEW j \in untold,
                      rows[j] # updated_at[j]
               PROVE  Ahead(j)'
    BY <1>1 DEF Tracked
  <2>1. Ahead(j) /\ j \in Jobs
    BY DEF Tracked, TypeOK
  <2>2. \A i \in Jobs : rows[i] < updated_at[j]
    BY <1>1, <2>1 DEF Ahead
  <2>3. updated_at'[j] > cursor'
    BY <1>1, <1>3, <1>4, <1>5, <2>1, <2>2 DEF Ahead, TypeOK, tableVars
  <2> QED
    BY <1>1, <1>2, <2>1, <2>3 DEF Ahead, TypeOK, tableVars
<1> QED
  BY <1>7, <1>8, <1>9

\* A failed start, and a crash.
LEMMA DownKeeps ==
    ASSUME PollerInv, StartFails \/ Crash PROVE PollerInv'
<1> USE DEF PollerInv
<1>1. CASE StartFails
  BY <1>1, PollerAssumption
     DEF StartFails, TypeOK, InTime, Tracked, tableVars, Fault
<1>2. CASE Crash
  <2>1. IdleTick \in Tick /\ IdleTick.pc = "idle" /\ IdleTick.since = 0
        /\ \A j \in Jobs : IdleTick.rows[j] = 0
    BY DEF IdleTick, Tick
  <2>2. TypeOK'
    BY <1>2, <2>1, PollerAssumption DEF Crash, TypeOK, tableVars, Fault
  <2>3. InTime' /\ Tracked'
    BY <1>2, <2>1 DEF Crash, TypeOK, InTime, Tracked, tableVars
  <2> QED
    BY <2>2, <2>3
<1> QED
  BY <1>1, <1>2

LEMMA PollerStep == PollerInv /\ [Next]_vars => PollerInv'
<1> SUFFICES ASSUME PollerInv, [Next]_vars PROVE PollerInv'
  OBVIOUS
<1>1. CASE UNCHANGED vars
  BY <1>1 DEF vars, tableVars, pollerVars, PollerInv, TypeOK, InTime, Tracked,
              Ahead
<1>2. CASE Next
  BY <1>2, WriteKeeps, LateWriteKeeps, StartKeeps, TickKeeps, TickEndKeeps,
     DownKeeps DEF Next
<1> QED
  BY <1>1, <1>2

-----------------------------------------------------------------------------
(* The theorems.                                                           *)

LEMMA PollerAlways == Spec => []PollerInv
  BY PollerInitially, PollerStep, PTL DEF Spec

\* The poller's state keeps its types, and its cursor is never later than a
\* time that Postgres has given out.
THEOREM PollerTypeCorrect == Spec => []TypeOK
<1>1. PollerInv => TypeOK
  BY DEF PollerInv
<1> QED
  BY <1>1, PollerAlways, PTL

\* The cursor never passes a change that has not been broadcast, however many
\* ticks of startChangePoller()'s interval overlap or fail.
THEOREM CursorLeavesNoGap == Spec => []NoGap
<1>1. PollerInv => NoGap
  BY DEF PollerInv, Tracked, Ahead, NoGap
<1> QED
  BY <1>1, PollerAlways, PTL

\* Every step of the poller is a step of an event feed, or none: a change goes
\* untold only if the feed counts it as missed.
THEOREM PollerIsFeed == Spec => Feed!FeedSpec
<1>1. Init => Feed!FeedInit
  BY DEF Init, Feed!FeedInit
<1>2. TypeOK /\ [Next]_vars => [Feed!FeedNext]_(Feed!feedVars)
  <2> SUFFICES ASSUME TypeOK, [Next]_vars
               PROVE  Feed!FeedNext \/ UNCHANGED <<version, untold, harm # {}>>
    BY DEF Feed!feedVars
  <2>1. CASE UNCHANGED vars
    BY <2>1 DEF vars, tableVars
  <2>2. ASSUME NEW j \in Jobs, Write(j) \/ LateWrite(j) PROVE Feed!Change(j)
    <3>1. CASE Write(j)
      BY <3>1 DEF Write, Stored, Feed!Change
    <3>2. CASE LateWrite(j)
      BY <3>2 DEF LateWrite, Stored, Feed!Change
    <3> QED
      BY <2>2, <3>1, <3>2
  <2>3. CASE Start
    <3>1. \/ UNCHANGED <<untold, harm>>
          \/ untold' \in SUBSET untold /\ harm' = harm \cup {"loss"}
      BY <2>3 DEF Start
    <3>2. UNCHANGED version
      BY <2>3 DEF Start
    <3> QED
      BY <3>1, <3>2 DEF Feed!FeedNext, Feed!Lose
  <2>4. CASE StartFails
    BY <2>4 DEF StartFails, tableVars, Feed!FeedNext, Feed!Lose
  <2>5. CASE Crash
    BY <2>5 DEF Crash, tableVars
  <2>6. ASSUME NEW t \in Ticks,
               TickStart(t) \/ getJobChangesSince(t) \/ TickFails(t)
        PROVE  UNCHANGED <<version, untold, harm>>
    BY <2>6 DEF TickStart, getJobChangesSince, TickFails, tableVars
  <2>7. ASSUME NEW t \in Ticks, TickEnd(t)
        PROVE  \E S \in SUBSET Jobs : Feed!Tell(S)
    <3> DEFINE S == {j \in Jobs : tick[t].rows[j] = updated_at[j]}
    <3>1. untold' = untold \ S /\ UNCHANGED <<version, harm>>
      BY <2>7 DEF TickEnd, tableVars, TypeOK
    <3>2. Feed!Tell(S)
      BY <3>1 DEF Feed!Tell
    <3> QED
      BY <3>2
  <2> QED
    BY <2>1, <2>2, <2>3, <2>4, <2>5, <2>6, <2>7 DEF Next, Feed!FeedNext
<1> QED
  BY <1>1, <1>2, PollerTypeCorrect, PTL DEF Spec, Feed!FeedSpec

=============================================================================
