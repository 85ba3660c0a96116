---------------------------- MODULE OutboxProofs ----------------------------
(***************************************************************************)
(* Theorems about Outbox for every value of its constants, with proofs     *)
(* checked by TLAPS.                                                       *)
(***************************************************************************)
EXTENDS Outbox, FiniteSetTheorems, TLAPS

Marks == {"markPublished", "markFailed"}

\* A tick that marks an event has it in its batch, a tick at rest has none,
\* batches are of rows that exist, and the rows to come are blank.
WellFormed ==
    /\ \A t \in Ticks : /\ tick[t].pc \in Marks => tick[t].cur \in tick[t].batch
                        /\ tick[t].pc = "idle" => tick[t].batch = {}
                        /\ tick[t].batch \subseteq 1..inserted
    /\ \A e \in Events : e > inserted => row[e] = Blank
    /\ faults.left <= MaxFaults

TypeInv == TypeOK /\ WellFormed

\* A tick may still publish the event: it has it in its batch, and is not
\* about to mark it published.
MayPublish(t, e) == /\ Holds(t, e)
                    /\ ~ (tick[t].pc = "markPublished" /\ tick[t].cur = e)

\* Some claim may still take the event, now or once its claim is stale.
Loose(e) == /\ row[e].published_at = "null"
            /\ Eligible(row[e]) \/ \A t \in Ticks : ~ Holds(t, e)

Publishers(e) == {t \in Ticks : MayPublish(t, e)}

LooseCount(e) == IF Loose(e) THEN 1 ELSE 0

\* The messages an event has, those the ticks under way may still send, and
\* the one a later claim leads to: every one but the first costs a fault.
Paid == \A e \in Events :
    buf[e] + queue[e] + Cardinality(Publishers(e)) + LooseCount(e)
        <= 1 + (MaxFaults - faults.left)

\* Until a tick is slow, an event in hand is claimed, and not for long.
HeldIsClaimed == ~ Happened({"slow"}) =>
    \A t \in Ticks : \A e \in Events : Holds(t, e) => row[e].claimed_at = "recent"

\* Until a crash or a lost connection, what is being marked was sent.
MarkedIsSent == ~ Happened({"crash", "drop"}) => \A t \in Ticks :
    tick[t].pc = "markPublished" => buf[tick[t].cur] + queue[tick[t].cur] > 0

-----------------------------------------------------------------------------
(* What the parts of an action do.                                         *)

\* A fault costs one of those left, and is on record.
LEMMA FaultEffect ==
    ASSUME faults \in FaultRecord, faults.left <= MaxFaults, NEW kind, Fault(kind)
    PROVE  /\ faults' \in FaultRecord
           /\ faults'.left = faults.left - 1
           /\ faults'.left <= MaxFaults
           /\ faults'.kinds = faults.kinds \cup {kind}
  BY OutboxAssumption DEF FaultRecord, Fault

\* A claim touches claimed_at only, of unpublished rows that exist.
LEMMA ClaimEffect ==
    ASSUME TypeInv
    PROVE  /\ Claimed \in [Events -> Row]
           /\ ToClaim \subseteq {e \in 1..inserted : Eligible(row[e])}
           /\ ToClaim \subseteq Events
           /\ \A e \in ToClaim : /\ Claimed[e].claimed_at = "recent"
                                 /\ Claimed[e].published_at = row[e].published_at
                                 /\ Claimed[e].from = row[e].from
           /\ \A e \in Events \ ToClaim : Claimed[e] = row[e]
  <1>1. ToClaim \subseteq {e \in 1..inserted : Eligible(row[e])}
    BY DEF ToClaim
  <1>2. ToClaim \subseteq Events
    BY <1>1, OutboxAssumption DEF TypeInv, TypeOK, Events
  <1>3. \A e \in Events : /\ row[e] \in Row
                          /\ [row[e] EXCEPT !.claimed_at = "recent"] \in Row
    BY DEF TypeInv, TypeOK, Row
  <1>4. Claimed \in [Events -> Row]
    BY <1>3 DEF Claimed
  <1>5. \A e \in Events \ ToClaim : Claimed[e] = row[e]
    BY DEF Claimed
  <1>6. \A e \in ToClaim : Claimed[e] = [row[e] EXCEPT !.claimed_at = "recent"]
    BY <1>2 DEF Claimed
  <1>7. \A e \in ToClaim : /\ Claimed[e].claimed_at = "recent"
                           /\ Claimed[e].published_at = row[e].published_at
                           /\ Claimed[e].from = row[e].from
    BY <1>2, <1>3, <1>6 DEF Row
  <1> QED BY <1>1, <1>2, <1>4, <1>5, <1>7

\* The loop of one tick goes on to the rest of its batch.
LEMMA NextInBatchEffect ==
    ASSUME TypeInv, NEW t \in Ticks, NextInBatch(t)
    PROVE  /\ tick' \in [Ticks -> Tick]
           /\ \A s \in Ticks \ {t} : tick'[s] = tick[s]
           /\ tick'[t].batch = tick[t].batch \ {tick[t].cur}
           /\ tick'[t].pc \in {"idle", "publish"}
           /\ tick'[t].pc = "idle" => tick'[t].batch = {}
  <1> DEFINE rest == tick[t].batch \ {tick[t].cur}
             k    == IF rest = {} THEN IdleTick
                     ELSE [pc |-> "publish", batch |-> rest, cur |-> 0]
  <1>1. rest \in SUBSET Events
    BY DEF TypeInv, TypeOK, Tick
  <1>2. /\ k \in Tick /\ k.batch = rest /\ k.pc \in {"idle", "publish"}
        /\ k.pc = "idle" => k.batch = {}
    <2>1. CASE rest = {}
      BY <2>1 DEF IdleTick, Tick
    <2>2. CASE rest # {}
      <3>1. k = [pc |-> "publish", batch |-> rest, cur |-> 0]
        BY <2>2
      <3> HIDE DEF k, rest
      <3> QED BY <1>1, <3>1 DEF Tick
    <2> QED BY <2>1, <2>2
  <1>3. tick' = [tick EXCEPT ![t] = k]
    BY DEF NextInBatch
  <1> HIDE DEF k
  <1>4. tick'[t] = k /\ tick' \in [Ticks -> Tick] /\ \A s \in Ticks \ {t} : tick'[s] = tick[s]
    BY <1>2, <1>3 DEF TypeInv, TypeOK
  <1> QED BY <1>2, <1>4

\* A tick goes from one await to the next, its batch as it was.
LEMMA GoToEffect ==
    ASSUME TypeInv, NEW t \in Ticks, NEW pc \in Marks, NEW e \in Events,
           GoTo(t, pc, e)
    PROVE  /\ tick' \in [Ticks -> Tick]
           /\ \A s \in Ticks \ {t} : tick'[s] = tick[s]
           /\ tick'[t].batch = tick[t].batch
           /\ tick'[t].pc = pc
           /\ tick'[t].cur = e
  BY DEF TypeInv, TypeOK, Tick, GoTo, Marks

\* The statements that mark a row.
LEMMA MarkEffect ==
    ASSUME NEW r \in Row
    PROVE  /\ markOutboxPublished(r) \in Row
           /\ markOutboxPublished(r).published_at = "set"
           /\ markOutboxPublished(r).claimed_at = r.claimed_at
           /\ markOutboxPublished(r).from = r.from
           /\ markOutboxFailed(r) \in Row
           /\ markOutboxFailed(r).published_at = r.published_at
           /\ markOutboxFailed(r).claimed_at = "null"
           /\ markOutboxFailed(r).from = r.from
  <1>1. r.attempts + 1 \in Nat
    BY DEF Row
  <1>2. markOutboxFailed(r) \in Row
    BY <1>1, Zenon DEF Row, markOutboxFailed
  <1>3. markOutboxPublished(r) \in Row
    BY DEF Row, markOutboxPublished
  <1>4. /\ markOutboxPublished(r).published_at = "set"
        /\ markOutboxPublished(r).claimed_at = r.claimed_at
        /\ markOutboxPublished(r).from = r.from
    BY DEF Row, markOutboxPublished
  <1>5. /\ markOutboxFailed(r).published_at = r.published_at
        /\ markOutboxFailed(r).claimed_at = "null"
        /\ markOutboxFailed(r).from = r.from
    BY DEF Row, markOutboxFailed
  <1> QED BY <1>2, <1>3, <1>4, <1>5

\* An insert fills the first row to come, which is still blank.
LEMMA InsertEffect ==
    ASSUME TypeInv, NEW from \in {"create", "replay"}, insertOutboxEvent(from)
    PROVE  /\ inserted' = inserted + 1 /\ inserted' \in 0..MaxEvents
           /\ inserted + 1 \in Events
           /\ row' \in [Events -> Row]
           /\ \A e \in Events \ {inserted + 1} : row'[e] = row[e]
           /\ row[inserted + 1] = Blank
           /\ row'[inserted + 1].from = from
           /\ \A e \in Events : /\ row'[e].claimed_at = row[e].claimed_at
                                /\ row'[e].published_at = row[e].published_at
  <1>1. /\ inserted' = inserted + 1 /\ inserted' \in 0..MaxEvents
        /\ inserted + 1 \in Events
    BY OutboxAssumption DEF TypeInv, TypeOK, Events, insertOutboxEvent
  <1>2. row[inserted + 1] = Blank
    BY <1>1, OutboxAssumption DEF TypeInv, TypeOK, WellFormed, Events
  <1> DEFINE b == [Blank EXCEPT !.from = from]
  <1>3. /\ b \in Row /\ b.from = from
        /\ b.claimed_at = Blank.claimed_at /\ b.published_at = Blank.published_at
    BY DEF Blank, Row
  <1>4. row' = [row EXCEPT ![inserted + 1] = b]
    BY DEF insertOutboxEvent
  <1> HIDE DEF b
  <1>5. /\ row' \in [Events -> Row] /\ row'[inserted + 1] = b
        /\ \A e \in Events \ {inserted + 1} : row'[e] = row[e]
    BY <1>1, <1>3, <1>4 DEF TypeInv, TypeOK
  <1> QED BY <1>1, <1>2, <1>3, <1>5

\* The event a tick is about to mark is one of its batch.
LEMMA CurHeld ==
    ASSUME TypeInv, NEW t \in Ticks, tick[t].pc \in Marks
    PROVE  tick[t].cur \in Events /\ Holds(t, tick[t].cur)
  BY DEF TypeInv, TypeOK, WellFormed, Tick, Holds

\* A row marked or not, as the mark was applied or not.
LEMMA MarkedRow ==
    ASSUME TypeInv, NEW c \in Events, NEW r \in Row,
           row' = [row EXCEPT ![c] = r] \/ row' = row
    PROVE  /\ row' \in [Events -> Row]
           /\ \A e \in Events \ {c} : row'[e] = row[e]
           /\ row'[c] = r \/ row'[c] = row[c]
           /\ row' # row => row'[c] = r
  BY DEF TypeInv, TypeOK

-----------------------------------------------------------------------------
(* Type correctness.                                                       *)

\* The initial states are well-typed and well-formed.
LEMMA TypeInit == Init => TypeInv
  <1> SUFFICES ASSUME Init PROVE TypeInv
    OBVIOUS
  <1>1. Blank \in Row /\ IdleTick \in Tick
    BY DEF Blank, Row, IdleTick, Tick
  <1>2. row \in [Events -> Row] /\ tick \in [Ticks -> Tick]
    BY <1>1 DEF Init
  <1>3. /\ inserted \in 0..MaxEvents /\ request \in [Requests -> {"idle", "admitted"}]
        /\ buf \in [Events -> Nat] /\ queue \in [Events -> Nat]
    BY OutboxAssumption DEF Init
  <1>4. faults \in FaultRecord /\ faults.left <= MaxFaults
    BY OutboxAssumption DEF Init, FaultRecord
  <1>5. TypeOK
    BY <1>2, <1>3, <1>4 DEF TypeOK
  <1>6. WellFormed
    BY <1>4 DEF Init, WellFormed, IdleTick, Marks
  <1> QED BY <1>5, <1>6 DEF TypeInv

\* A row that only a tick with its event in hand changes stays well-formed.
LEMMA RowsStayBlank ==
    ASSUME TypeInv, NEW t \in Ticks, tick[t].pc \in Marks,
           \A e \in Events \ {tick[t].cur} : row'[e] = row[e]
    PROVE  \A e \in Events : e > inserted => row'[e] = Blank
  <1>1. tick[t].cur \in 1..inserted
    BY CurHeld DEF TypeInv, WellFormed, Holds
  <1>2. inserted \in Nat
    BY OutboxAssumption DEF TypeInv, TypeOK
  <1>3. \A e \in Events : e \in Nat
    BY OutboxAssumption DEF Events
  <1>4. \A e \in Events : e > inserted => e # tick[t].cur
    BY <1>1, <1>2, <1>3
  <1> QED BY <1>4 DEF TypeInv, WellFormed

\* The requests keep them so.
LEMMA TypeRequests ==
    ASSUME TypeInv, RequestNext
    PROVE  TypeInv'
  <1>1. CASE \E r \in Requests : Admit(r) \/ Refuse(r)
    <2>1. request' \in [Requests -> {"idle", "admitted"}]
      BY <1>1 DEF TypeInv, TypeOK, Admit, Refuse
    <2>2. UNCHANGED <<row, inserted, tick, buf, queue, faults>>
      BY <1>1 DEF Admit, Refuse
    <2> QED BY <2>1, <2>2 DEF TypeInv, TypeOK, WellFormed
  <1>2. CASE (\E r \in Requests : CreateJob(r)) \/ ReplayJob
    <2>1. PICK from \in {"create", "replay"} : insertOutboxEvent(from)
      BY <1>2 DEF CreateJob, ReplayJob
    <2>2. request' \in [Requests -> {"idle", "admitted"}]
      BY <1>2 DEF TypeInv, TypeOK, CreateJob, ReplayJob
    <2>3. UNCHANGED <<tick, buf, queue, faults>>
      BY <1>2 DEF CreateJob, ReplayJob
    <2>4. TypeOK'
      BY <2>1, <2>2, <2>3, InsertEffect DEF TypeInv, TypeOK
    <2>5. inserted \in Nat /\ inserted' = inserted + 1
      BY <2>1, InsertEffect, OutboxAssumption DEF TypeInv, TypeOK
    <2>6. \A t \in Ticks : tick'[t].batch \subseteq 1..inserted'
      BY <2>3, <2>5 DEF TypeInv, WellFormed
    <2>7. \A e \in Events : e > inserted' => row'[e] = Blank
      <3> SUFFICES ASSUME NEW e \in Events, e > inserted' PROVE row'[e] = Blank
        OBVIOUS
      <3>1. e > inserted /\ e # inserted + 1
        BY <2>5, OutboxAssumption DEF Events
      <3>2. row'[e] = row[e]
        BY <2>1, <3>1, InsertEffect
      <3> QED BY <3>1, <3>2 DEF TypeInv, WellFormed
    <2> QED BY <2>3, <2>4, <2>6, <2>7 DEF TypeInv, WellFormed
  <1> QED BY <1>1, <1>2 DEF RequestNext

\* So do the ticks.
LEMMA TypeTicks ==
    ASSUME TypeInv, NEW t \in Ticks,
           \/ Claim(t) \/ ClaimFails(t)
           \/ \E e \in Events : Publish(t, e) \/ PublishFull(t, e) \/ PublishThrows(t, e)
           \/ MarkPublished(t) \/ MarkPublishedFails(t)
           \/ MarkFailed(t) \/ MarkFailedFails(t)
    PROVE  TypeInv'
  <1>0. inserted \in Nat
    BY OutboxAssumption DEF TypeInv, TypeOK
  <1>1. CASE Claim(t) \/ ClaimFails(t)
    <2>1. UNCHANGED <<inserted, request, buf, queue>>
      BY <1>1 DEF Claim, ClaimFails
    <2>2. faults' \in FaultRecord /\ faults'.left <= MaxFaults
      BY <1>1, FaultEffect DEF Claim, ClaimFails, TypeInv, TypeOK, WellFormed
    <2>3. row' = Claimed \/ row' = row
      BY <1>1 DEF Claim, ClaimFails
    <2>4. row' \in [Events -> Row]
      BY <2>3, ClaimEffect DEF TypeInv, TypeOK
    <2>5. \A e \in Events : e > inserted => row'[e] = Blank
      <3> SUFFICES ASSUME NEW e \in Events, e > inserted PROVE row'[e] = Blank
        OBVIOUS
      <3>1. e \notin ToClaim
        BY <1>0, ClaimEffect, OutboxAssumption DEF Events
      <3> QED BY <2>3, <3>1, ClaimEffect DEF TypeInv, WellFormed
    <2>6. /\ tick' \in [Ticks -> Tick]
          /\ \A s \in Ticks : tick'[s] = tick[s] \/ /\ tick'[s].pc = "publish"
                                                    /\ tick'[s].batch = ToClaim
      <3>1. CASE tick' = tick
        BY <3>1 DEF TypeInv, TypeOK
      <3>2. CASE Claim(t)
        <4> DEFINE k == [pc |-> "publish", batch |-> ToClaim, cur |-> 0]
        <4>1. k \in Tick /\ k.pc = "publish" /\ k.batch = ToClaim
          BY ClaimEffect DEF Tick
        <4>2. tick' = [tick EXCEPT ![t] = k]
          BY <3>2 DEF Claim
        <4> HIDE DEF k
        <4> QED BY <4>1, <4>2 DEF TypeInv, TypeOK
      <3> QED BY <1>1, <3>1, <3>2 DEF ClaimFails
    <2>7. \A s \in Ticks : /\ tick'[s].pc \in Marks => tick'[s].cur \in tick'[s].batch
                           /\ tick'[s].pc = "idle" => tick'[s].batch = {}
                           /\ tick'[s].batch \subseteq 1..inserted
      BY <2>6, ClaimEffect DEF TypeInv, WellFormed, Marks
    <2> QED BY <2>1, <2>2, <2>4, <2>5, <2>6, <2>7 DEF TypeInv, TypeOK, WellFormed
  <1>2. ASSUME NEW e \in Events, Publish(t, e) \/ PublishFull(t, e) \/ PublishThrows(t, e)
        PROVE  TypeInv'
    <2>1. UNCHANGED <<row, inserted, request, queue>>
      BY <1>2 DEF Publish, PublishFull, PublishThrows
    <2>2. faults' \in FaultRecord /\ faults'.left <= MaxFaults
      BY <1>2, FaultEffect
      DEF Publish, PublishFull, PublishThrows, TypeInv, TypeOK, WellFormed
    <2>3. buf' \in [Events -> Nat]
      BY <1>2 DEF Publish, PublishFull, PublishThrows, TypeInv, TypeOK
    <2>4. e \in tick[t].batch /\ \E pc \in Marks : GoTo(t, pc, e)
      BY <1>2 DEF Publish, PublishFull, PublishThrows, Marks
    <2>5. /\ tick' \in [Ticks -> Tick] /\ \A s \in Ticks \ {t} : tick'[s] = tick[s]
          /\ tick'[t].batch = tick[t].batch /\ tick'[t].pc \in Marks /\ tick'[t].cur = e
      BY <2>4, GoToEffect
    <2>6. \A s \in Ticks : /\ tick'[s].pc \in Marks => tick'[s].cur \in tick'[s].batch
                           /\ tick'[s].pc = "idle" => tick'[s].batch = {}
                           /\ tick'[s].batch \subseteq 1..inserted
      BY <2>4, <2>5 DEF TypeInv, WellFormed, Marks
    <2> QED BY <2>1, <2>2, <2>3, <2>5, <2>6 DEF TypeInv, TypeOK, WellFormed
  <1>3. CASE MarkPublished(t) \/ MarkPublishedFails(t) \/ MarkFailed(t) \/ MarkFailedFails(t)
    <2> DEFINE c == tick[t].cur
    <2>1. UNCHANGED <<inserted, request, buf, queue>>
      BY <1>3 DEF MarkPublished, MarkPublishedFails, MarkFailed, MarkFailedFails
    <2>2. faults' \in FaultRecord /\ faults'.left <= MaxFaults
      BY <1>3, FaultEffect
      DEF MarkPublished, MarkPublishedFails, MarkFailed, MarkFailedFails,
          TypeInv, TypeOK, WellFormed
    <2>3. tick[t].pc \in Marks /\ c \in Events /\ c \in tick[t].batch
      BY <1>3, CurHeld
      DEF MarkPublished, MarkPublishedFails, MarkFailed, MarkFailedFails, Marks, Holds
    <2>4. \E r \in Row : row' = [row EXCEPT ![c] = r] \/ row' = row
      <3>1. /\ row[c] \in Row
            /\ markOutboxPublished(row[c]) \in Row /\ markOutboxFailed(row[c]) \in Row
        BY <2>3, MarkEffect DEF TypeInv, TypeOK
      <3>2. \/ row' = [row EXCEPT ![c] = markOutboxPublished(row[c])]
            \/ row' = [row EXCEPT ![c] = markOutboxFailed(row[c])]
            \/ row' = row
        BY <1>3 DEF MarkPublished, MarkPublishedFails, MarkFailed, MarkFailedFails
      <3> QED BY <3>1, <3>2
    <2>5. row' \in [Events -> Row] /\ \A e \in Events \ {c} : row'[e] = row[e]
      BY <2>3, <2>4, MarkedRow
    <2>6. \A e \in Events : e > inserted => row'[e] = Blank
      BY <2>3, <2>5, RowsStayBlank
    <2>7. /\ tick' \in [Ticks -> Tick]
          /\ \A s \in Ticks \ {t} : tick'[s] = tick[s]
          /\ tick'[t].batch \subseteq tick[t].batch
          /\ tick'[t].pc \in Marks => tick'[t].cur \in tick'[t].batch
          /\ tick'[t].pc = "idle" => tick'[t].batch = {}
      <3>1. CASE NextInBatch(t)
        BY <3>1, NextInBatchEffect DEF Marks
      <3>2. CASE GoTo(t, "markFailed", c)
        BY <2>3, <3>2, GoToEffect DEF Marks
      <3>3. CASE tick' = [tick EXCEPT ![t] = IdleTick]
        BY <3>3 DEF TypeInv, TypeOK, IdleTick, Tick, Marks
      <3> QED
        BY <1>3, <3>1, <3>2, <3>3
        DEF MarkPublished, MarkPublishedFails, MarkFailed, MarkFailedFails
    <2>8. \A s \in Ticks : /\ tick'[s].pc \in Marks => tick'[s].cur \in tick'[s].batch
                           /\ tick'[s].pc = "idle" => tick'[s].batch = {}
                           /\ tick'[s].batch \subseteq 1..inserted
      BY <2>7 DEF TypeInv, WellFormed
    <2> QED BY <2>1, <2>2, <2>5, <2>6, <2>7, <2>8 DEF TypeInv, TypeOK, WellFormed
  <1> QED BY <1>1, <1>2, <1>3

\* So do faults and time.
LEMMA TypeEnvironment ==
    ASSUME TypeInv, EnvironmentNext
    PROVE  TypeInv'
  <1>1. ASSUME NEW e \in Events, Flush(e) PROVE TypeInv'
    <2>1. buf' \in [Events -> Nat] /\ queue' \in [Events -> Nat]
      BY <1>1 DEF TypeInv, TypeOK, Flush
    <2> QED BY <1>1, <2>1 DEF Flush, TypeInv, TypeOK, WellFormed
  <1>2. ASSUME NEW e \in Events, GoStale(e) PROVE TypeInv'
    <2>1. faults' \in FaultRecord /\ faults'.left <= MaxFaults
      BY <1>2, FaultEffect DEF GoStale, TypeInv, TypeOK, WellFormed
    <2>2. row' \in [Events -> Row] /\ \A d \in Events \ {e} : row'[d] = row[d]
      BY <1>2 DEF GoStale, TypeInv, TypeOK, Row
    <2>3. row[e] # Blank
      BY <1>2 DEF GoStale, Blank
    <2>4. \A d \in Events : d > inserted => row'[d] = Blank
      BY <2>2, <2>3 DEF TypeInv, WellFormed
    <2> QED BY <1>2, <2>1, <2>2, <2>4 DEF GoStale, TypeInv, TypeOK, WellFormed
  <1>3. CASE Drop
    <2>1. faults' \in FaultRecord /\ faults'.left <= MaxFaults
      BY <1>3, FaultEffect DEF Drop, TypeInv, TypeOK, WellFormed
    <2>2. buf' \in [Events -> Nat]
      BY <1>3 DEF Drop
    <2> QED BY <1>3, <2>1, <2>2 DEF Drop, TypeInv, TypeOK, WellFormed
  <1>4. CASE Crash
    <2>1. faults' \in FaultRecord /\ faults'.left <= MaxFaults
      BY <1>4, FaultEffect DEF Crash, TypeInv, TypeOK, WellFormed
    <2>2. buf' \in [Events -> Nat] /\ request' \in [Requests -> {"idle", "admitted"}]
      BY <1>4 DEF Crash
    <2>3. IdleTick \in Tick /\ IdleTick.pc = "idle" /\ IdleTick.batch = {}
      BY DEF IdleTick, Tick
    <2>4. tick' \in [Ticks -> Tick] /\ \A t \in Ticks : tick'[t] = IdleTick
      BY <1>4, <2>3 DEF Crash
    <2>5. \A t \in Ticks : /\ tick'[t].pc \in Marks => tick'[t].cur \in tick'[t].batch
                           /\ tick'[t].pc = "idle" => tick'[t].batch = {}
                           /\ tick'[t].batch \subseteq 1..inserted
      BY <2>3, <2>4 DEF Marks
    <2> QED BY <1>4, <2>1, <2>2, <2>4, <2>5 DEF Crash, TypeInv, TypeOK, WellFormed
  <1> QED BY <1>1, <1>2, <1>3, <1>4 DEF EnvironmentNext

\* So does every step.
LEMMA TypeNext == TypeInv /\ [Next]_vars => TypeInv'
  <1>1. ASSUME TypeInv, UNCHANGED vars PROVE TypeInv'
    BY <1>1 DEF vars, TypeInv, TypeOK, WellFormed
  <1> QED BY <1>1, TypeRequests, TypeTicks, TypeEnvironment DEF Next, TickNext

\* So every reachable state is.
LEMMA TypeInvariant == Spec => []TypeInv
  BY TypeInit, TypeNext, PTL DEF Spec

\* The rows of outbox_events, the ticks, the requests and the frames have
\* their types, whatever fails.
THEOREM OutboxTypeCorrect == Spec => []TypeOK
  BY TypeInvariant, PTL DEF TypeInv

-----------------------------------------------------------------------------
(* What a step does to the rows, the batches and the record of faults.     *)

\* A fault that has happened stays on record.
LEMMA FaultsStay ==
    ASSUME TypeInv, [Next]_vars
    PROVE  /\ faults.kinds \subseteq faults'.kinds
           /\ \A kinds : ~ Happened(kinds)' => ~ Happened(kinds)
  <1>1. \/ UNCHANGED faults
        \/ \E kind \in FaultKinds : Fault(kind)
    <2>1. CASE UNCHANGED vars
      BY <2>1 DEF vars
    <2>2. CASE RequestNext
      BY <2>2 DEF RequestNext, Admit, CreateJob, Refuse, ReplayJob
    <2>3. CASE TickNext
      BY <2>3 DEF TickNext, Claim, ClaimFails, Publish, PublishFull, PublishThrows,
                  MarkPublished, MarkPublishedFails, MarkFailed, MarkFailedFails,
                  FaultKinds
    <2>4. CASE EnvironmentNext
      BY <2>4 DEF EnvironmentNext, Flush, GoStale, Drop, Crash, FaultKinds
    <2> QED BY <2>1, <2>2, <2>3, <2>4 DEF Next
  <1>2. faults.kinds \subseteq faults'.kinds
    BY <1>1, FaultEffect DEF TypeInv, TypeOK, WellFormed
  <1> QED BY <1>2 DEF Happened

\* A step of a tick that marks cur: the batch is left as it was to mark the
\* event failed, goes on without cur, or is abandoned; the row of cur has the
\* mark, or is as it was.
LEMMA MarkStep ==
    ASSUME TypeInv, NEW t \in Ticks, NEW c, c = tick[t].cur,
           \/ MarkPublished(t) \/ MarkPublishedFails(t)
           \/ MarkFailed(t) \/ MarkFailedFails(t)
    PROVE  /\ c \in Events /\ Holds(t, c) /\ tick[t].pc \in Marks
           /\ UNCHANGED <<inserted, request, buf, queue>>
           /\ \A s \in Ticks \ {t} : tick'[s] = tick[s]
           /\ \A e \in Events \ {c} : row'[e] = row[e]
           /\ \/ /\ MarkPublished(t)
                 /\ UNCHANGED faults
                 /\ tick'[t].batch = tick[t].batch \ {c}
                 /\ tick'[t].pc \in {"idle", "publish"}
                 /\ row'[c].published_at = "set"
                 /\ row'[c].claimed_at = row[c].claimed_at
              \/ /\ MarkPublishedFails(t)
                 /\ Fault("db")
                 /\ tick'[t].batch = tick[t].batch
                 /\ tick'[t].pc = "markFailed" /\ tick'[t].cur = c
                 /\ row'[c].published_at \in {"set", row[c].published_at}
                 /\ row'[c].claimed_at = row[c].claimed_at
              \/ /\ MarkFailed(t)
                 /\ UNCHANGED faults
                 /\ tick'[t].batch = tick[t].batch \ {c}
                 /\ tick'[t].pc \in {"idle", "publish"}
                 /\ row'[c].published_at = row[c].published_at
                 /\ row'[c].claimed_at = "null"
              \/ /\ MarkFailedFails(t)
                 /\ Fault("db")
                 /\ tick'[t].batch = {}
                 /\ tick'[t].pc = "idle"
                 /\ row'[c].published_at = row[c].published_at
           /\ row'[c].from = row[c].from
  <1>1. tick[t].pc \in Marks
    BY DEF MarkPublished, MarkPublishedFails, MarkFailed, MarkFailedFails, Marks
  <1>2. c \in Events /\ Holds(t, c)
    BY <1>1, CurHeld
  <1>3. row[c] \in Row
    BY <1>2 DEF TypeInv, TypeOK
  <1>4. UNCHANGED <<inserted, request, buf, queue>>
    BY DEF MarkPublished, MarkPublishedFails, MarkFailed, MarkFailedFails
  <1> DEFINE p == markOutboxPublished(row[c])
             f == markOutboxFailed(row[c])
  <1>5. /\ p \in Row /\ p.published_at = "set" /\ p.claimed_at = row[c].claimed_at
        /\ p.from = row[c].from
        /\ f \in Row /\ f.published_at = row[c].published_at /\ f.claimed_at = "null"
        /\ f.from = row[c].from
    BY <1>3, MarkEffect
  <1>6. CASE MarkPublished(t)
    <2>1. row' = [row EXCEPT ![c] = p] /\ NextInBatch(t) /\ UNCHANGED faults
      BY <1>6 DEF MarkPublished
    <2> HIDE DEF p, f
    <2>2. row'[c] = p /\ \A e \in Events \ {c} : row'[e] = row[e]
      BY <1>2, <2>1 DEF TypeInv, TypeOK
    <2> QED BY <1>1, <1>2, <1>4, <1>5, <1>6, <2>1, <2>2, NextInBatchEffect
  <1>7. CASE MarkPublishedFails(t)
    <2>1. /\ row' = [row EXCEPT ![c] = p] \/ row' = row
          /\ GoTo(t, "markFailed", c) /\ Fault("db")
      BY <1>7 DEF MarkPublishedFails
    <2> HIDE DEF p, f
    <2>2. /\ row'[c] = p \/ row'[c] = row[c]
          /\ \A e \in Events \ {c} : row'[e] = row[e]
      BY <1>2, <2>1 DEF TypeInv, TypeOK
    <2>3. /\ \A s \in Ticks \ {t} : tick'[s] = tick[s]
          /\ tick'[t].batch = tick[t].batch
          /\ tick'[t].pc = "markFailed" /\ tick'[t].cur = c
      BY <1>2, <2>1, GoToEffect DEF Marks
    <2> QED BY <1>1, <1>2, <1>4, <1>5, <1>7, <2>1, <2>2, <2>3
  <1>8. CASE MarkFailed(t)
    <2>1. row' = [row EXCEPT ![c] = f] /\ NextInBatch(t) /\ UNCHANGED faults
      BY <1>8 DEF MarkFailed
    <2> HIDE DEF p, f
    <2>2. row'[c] = f /\ \A e \in Events \ {c} : row'[e] = row[e]
      BY <1>2, <2>1 DEF TypeInv, TypeOK
    <2> QED BY <1>1, <1>2, <1>4, <1>5, <1>8, <2>1, <2>2, NextInBatchEffect
  <1>9. CASE MarkFailedFails(t)
    <2>1. /\ row' = [row EXCEPT ![c] = f] \/ row' = row
          /\ tick' = [tick EXCEPT ![t] = IdleTick] /\ Fault("db")
      BY <1>9 DEF MarkFailedFails
    <2> HIDE DEF p, f
    <2>2. /\ row'[c] = f \/ row'[c] = row[c]
          /\ \A e \in Events \ {c} : row'[e] = row[e]
      BY <1>2, <2>1 DEF TypeInv, TypeOK
    <2>3. /\ \A s \in Ticks \ {t} : tick'[s] = tick[s]
          /\ tick'[t].batch = {} /\ tick'[t].pc = "idle"
      BY <2>1 DEF TypeInv, TypeOK, IdleTick
    <2> QED BY <1>1, <1>2, <1>4, <1>5, <1>9, <2>1, <2>2, <2>3
  <1> QED BY <1>6, <1>7, <1>8, <1>9

\* A step of a tick that publishes: its batch stays, it has e to mark.
LEMMA PublishStep ==
    ASSUME TypeInv, NEW t \in Ticks, NEW e \in Events,
           Publish(t, e) \/ PublishFull(t, e) \/ PublishThrows(t, e)
    PROVE  /\ UNCHANGED <<row, inserted, request, queue>>
           /\ Holds(t, e) /\ tick[t].pc = "publish"
           /\ \A s \in Ticks \ {t} : tick'[s] = tick[s]
           /\ tick'[t].batch = tick[t].batch /\ tick'[t].cur = e
           /\ \A d \in Events \ {e} : buf'[d] = buf[d]
           /\ \/ /\ tick'[t].pc = "markPublished" /\ UNCHANGED faults
                 /\ buf'[e] = buf[e] + 1
              \/ /\ tick'[t].pc = "markFailed" /\ (Fault("full") \/ Fault("throw"))
                 /\ buf'[e] \in {buf[e], buf[e] + 1}
  <1>1. UNCHANGED <<row, inserted, request, queue>> /\ Holds(t, e) /\ tick[t].pc = "publish"
    BY DEF Publish, PublishFull, PublishThrows, Holds
  <1>2. CASE Publish(t, e)
    <2>1. GoTo(t, "markPublished", e)
      BY <1>2 DEF Publish
    <2>2. \A d \in Events \ {e} : buf'[d] = buf[d]
      BY <1>2 DEF Publish, TypeInv, TypeOK
    <2>3. buf'[e] = buf[e] + 1 /\ UNCHANGED faults
      BY <1>2 DEF Publish, TypeInv, TypeOK
    <2> QED BY <1>1, <2>1, <2>2, <2>3, GoToEffect DEF Marks
  <1>3. CASE PublishFull(t, e) \/ PublishThrows(t, e)
    <2>1. GoTo(t, "markFailed", e) /\ (Fault("full") \/ Fault("throw"))
      BY <1>3 DEF PublishFull, PublishThrows
    <2>2. \A d \in Events \ {e} : buf'[d] = buf[d]
      BY <1>3 DEF PublishFull, PublishThrows, TypeInv, TypeOK
    <2>3. buf'[e] \in {buf[e], buf[e] + 1}
      BY <1>3 DEF PublishFull, PublishThrows, TypeInv, TypeOK
    <2> QED BY <1>1, <2>1, <2>2, <2>3, GoToEffect DEF Marks
  <1> QED BY <1>2, <1>3

\* A claim gives a tick at rest the rows it takes, or fails and gives none.
LEMMA ClaimStep ==
    ASSUME TypeInv, NEW t \in Ticks, Claim(t) \/ ClaimFails(t)
    PROVE  /\ UNCHANGED <<inserted, request, buf, queue>>
           /\ tick[t].pc = "idle" /\ tick[t].batch = {}
           /\ row' = Claimed \/ row' = row
           /\ \A s \in Ticks \ {t} : tick'[s] = tick[s]
           /\ \/ /\ row' = Claimed /\ UNCHANGED faults
                 /\ tick'[t].batch = ToClaim /\ tick'[t].pc = "publish"
              \/ UNCHANGED tick /\ Fault("db")
  BY DEF TypeInv, TypeOK, WellFormed, Claim, ClaimFails

\* A request that inserts a row, or not.
LEMMA RequestStep ==
    ASSUME TypeInv, RequestNext
    PROVE  /\ UNCHANGED <<tick, buf, queue, faults>>
           /\ \A e \in Events : /\ row'[e].claimed_at = row[e].claimed_at
                                /\ row'[e].published_at = row[e].published_at
  <1>1. CASE \E r \in Requests : Admit(r) \/ Refuse(r)
    BY <1>1 DEF Admit, Refuse
  <1>2. CASE (\E r \in Requests : CreateJob(r)) \/ ReplayJob
    <2>1. PICK from \in {"create", "replay"} : insertOutboxEvent(from)
      BY <1>2 DEF CreateJob, ReplayJob
    <2> QED BY <1>2, <2>1, InsertEffect DEF CreateJob, ReplayJob
  <1> QED BY <1>1, <1>2 DEF RequestNext

\* A claim grows stale, at the cost of a fault if a tick has the event.
LEMMA StaleStep ==
    ASSUME TypeInv, NEW e \in Events, GoStale(e)
    PROVE  /\ UNCHANGED <<inserted, tick, request, buf, queue>>
           /\ row[e].claimed_at = "recent" /\ row'[e].claimed_at = "stale"
           /\ row'[e].published_at = row[e].published_at
           /\ row'[e].from = row[e].from
           /\ \A d \in Events \ {e} : row'[d] = row[d]
           /\ \/ (\E t \in Ticks : Holds(t, e)) /\ Fault("slow")
              \/ (\A t \in Ticks : ~ Holds(t, e)) /\ UNCHANGED faults
  BY DEF TypeInv, TypeOK, Row, GoStale

\* A crash empties the process.
LEMMA CrashStep ==
    ASSUME TypeInv, Crash
    PROVE  /\ UNCHANGED <<row, inserted, queue>>
           /\ \A e \in Events : buf'[e] = 0
           /\ \A t \in Ticks : tick'[t].batch = {} /\ tick'[t].pc = "idle"
           /\ \A r \in Requests : request'[r] = "idle"
           /\ Fault("crash")
  BY DEF Crash, IdleTick

-----------------------------------------------------------------------------
(* One tick per event.                                                     *)

DispatchInv == SingleDispatch /\ HeldIsClaimed

\* No tick holds an event at first.
LEMMA DispatchInit == Init => DispatchInv
  BY DEF Init, DispatchInv, SingleDispatch, HeldIsClaimed, Holds, IdleTick

\* Until a tick is slow, a claim takes only what no tick holds.
LEMMA DispatchStep ==
    ASSUME TypeInv, DispatchInv, [Next]_vars
    PROVE  DispatchInv'
  <1> SUFFICES ASSUME ~ Happened({"slow"})', NEW s \in Ticks, NEW e \in Events, Holds(s, e)'
               PROVE  /\ row'[e].claimed_at = "recent"
                      /\ \A u \in Ticks : Holds(u, e)' => s = u
    BY DEF DispatchInv, SingleDispatch, HeldIsClaimed
  <1>0. /\ \A u \in Ticks : \A d \in Events : Holds(u, d) => row[d].claimed_at = "recent"
        /\ \A u, v \in Ticks : \A d \in Events : Holds(u, d) /\ Holds(v, d) => u = v
    BY FaultsStay DEF DispatchInv, SingleDispatch, HeldIsClaimed
  <1>1. CASE UNCHANGED vars
    BY <1>0, <1>1 DEF vars, Holds
  <1>2. CASE RequestNext
    BY <1>0, <1>2, RequestStep DEF Holds
  <1>3. ASSUME NEW t \in Ticks, Claim(t) \/ ClaimFails(t)
        PROVE  /\ row'[e].claimed_at = "recent"
               /\ \A u \in Ticks : Holds(u, e)' => s = u
    <2>1. \A d \in ToClaim : \A u \in Ticks : ~ Holds(u, d)
      BY <1>0, ClaimEffect DEF Eligible
    <2>2. \A d \in Events : row[d].claimed_at = "recent" => row'[d].claimed_at = "recent"
      BY <1>3, ClaimStep, ClaimEffect
    <2>3. CASE tick' = tick
      BY <1>0, <2>2, <2>3 DEF Holds
    <2>4. CASE row' = Claimed /\ tick'[t].batch = ToClaim
      <3>1. CASE e \in ToClaim
        <4>1. \A u \in Ticks \ {t} : ~ Holds(u, e)'
          BY <1>3, <2>1, <3>1, ClaimStep DEF Holds
        <4> QED BY <2>4, <3>1, <4>1, ClaimEffect
      <3>2. CASE e \notin ToClaim
        <4>1. \A u \in Ticks : Holds(u, e)' => Holds(u, e)
          BY <1>3, <2>4, <3>2, ClaimStep DEF Holds
        <4> QED BY <1>0, <2>2, <4>1
      <3> QED BY <3>1, <3>2
    <2> QED BY <1>3, <2>3, <2>4, ClaimStep
  <1>4. ASSUME NEW t \in Ticks, NEW d \in Events,
               Publish(t, d) \/ PublishFull(t, d) \/ PublishThrows(t, d)
        PROVE  /\ row'[e].claimed_at = "recent"
               /\ \A u \in Ticks : Holds(u, e)' => s = u
    <2>1. \A u \in Ticks : Holds(u, e)' => Holds(u, e)
      BY <1>4, PublishStep DEF Holds
    <2>2. row' = row
      BY <1>4, PublishStep
    <2> QED BY <1>0, <2>1, <2>2
  <1>5. ASSUME NEW t \in Ticks, \/ MarkPublished(t) \/ MarkPublishedFails(t)
                                \/ MarkFailed(t) \/ MarkFailedFails(t)
        PROVE  /\ row'[e].claimed_at = "recent"
               /\ \A u \in Ticks : Holds(u, e)' => s = u
    <2> DEFINE c == tick[t].cur
    <2>1. \A u \in Ticks : Holds(u, e)' => Holds(u, e)
      BY <1>5, MarkStep DEF Holds
    <2>2. CASE e # c
      BY <1>0, <1>5, <2>1, <2>2, MarkStep
    <2>3. CASE e = c
      <3>1. s = t
        BY <1>0, <1>5, <2>1, <2>3, MarkStep
      <3>2. row'[c].claimed_at = row[c].claimed_at
        BY <1>5, <2>3, <3>1, MarkStep DEF Holds
      <3> QED BY <1>0, <2>1, <2>3, <3>2
    <2> QED BY <2>2, <2>3
  <1>6. CASE EnvironmentNext
    <2>1. ASSUME NEW d \in Events, Flush(d)
          PROVE  UNCHANGED <<row, tick>>
      BY <2>1 DEF Flush
    <2>2. CASE Drop
      BY <1>0, <2>2 DEF Drop, Holds
    <2>3. CASE Crash
      BY <2>3, CrashStep DEF Holds
    <2>4. ASSUME NEW d \in Events, GoStale(d)
          PROVE  UNCHANGED tick /\ row'[e] = row[e]
      <3>1. ~ Fault("slow")
        BY FaultEffect DEF Happened, TypeInv, TypeOK, WellFormed
      <3> QED BY <2>4, <3>1, StaleStep DEF Holds
    <2> QED BY <1>0, <1>6, <2>1, <2>2, <2>3, <2>4 DEF EnvironmentNext, Holds
  <1> QED BY <1>1, <1>2, <1>3, <1>4, <1>5, <1>6 DEF Next, TickNext

\* Until a tick outlives the stale-claim threshold, no two ticks have the same
\* event in hand, for any number of overlapping ticks, events and faults:
\* claimPendingOutboxEvents() hands out only what nobody has.
THEOREM OneTickPerEvent == Spec => []SingleDispatch
  <1>1. TypeInv /\ DispatchInv /\ [Next]_vars => DispatchInv'
    BY DispatchStep
  <1>2. Spec => []DispatchInv
    BY <1>1, TypeInvariant, DispatchInit, PTL DEF Spec
  <1> QED BY <1>2, PTL DEF DispatchInv

-----------------------------------------------------------------------------
(* Published for good.                                                     *)

\* No statement clears published_at, and no claim takes a published event.
LEMMA ResurrectionStep ==
    ASSUME TypeInv, Next, NEW e \in Events, row[e].published_at = "set"
    PROVE  /\ row'[e].published_at = "set"
           /\ \A t \in Ticks : Holds(t, e)' => Holds(t, e)
  <1>1. CASE RequestNext
    BY <1>1, RequestStep DEF Holds
  <1>2. ASSUME NEW t \in Ticks, Claim(t) \/ ClaimFails(t)
        PROVE  /\ row'[e].published_at = "set"
               /\ \A u \in Ticks : Holds(u, e)' => Holds(u, e)
    <2>1. e \notin ToClaim
      BY ClaimEffect DEF Eligible
    <2>2. row'[e] = row[e]
      BY <1>2, <2>1, ClaimStep, ClaimEffect
    <2> QED BY <1>2, <2>1, <2>2, ClaimStep DEF Holds
  <1>3. ASSUME NEW t \in Ticks, NEW d \in Events,
               Publish(t, d) \/ PublishFull(t, d) \/ PublishThrows(t, d)
        PROVE  /\ row'[e].published_at = "set"
               /\ \A u \in Ticks : Holds(u, e)' => Holds(u, e)
    <2>1. row' = row
      BY <1>3, PublishStep
    <2>2. \A u \in Ticks : Holds(u, e)' => Holds(u, e)
      BY <1>3, PublishStep DEF Holds
    <2> QED BY <2>1, <2>2
  <1>4. ASSUME NEW t \in Ticks, \/ MarkPublished(t) \/ MarkPublishedFails(t)
                                \/ MarkFailed(t) \/ MarkFailedFails(t)
        PROVE  /\ row'[e].published_at = "set"
               /\ \A u \in Ticks : Holds(u, e)' => Holds(u, e)
    <2>1. row'[e].published_at = "set"
      BY <1>4, MarkStep
    <2>2. \A u \in Ticks : Holds(u, e)' => Holds(u, e)
      BY <1>4, MarkStep DEF Holds
    <2> QED BY <2>1, <2>2
  <1>5. CASE EnvironmentNext
    <2>1. ASSUME NEW d \in Events, Flush(d)
          PROVE  UNCHANGED <<row, tick>>
      BY <2>1 DEF Flush
    <2>2. CASE Drop
      BY <2>2 DEF Drop, Holds
    <2>3. CASE Crash
      BY <2>3, CrashStep DEF Holds
    <2>4. ASSUME NEW d \in Events, GoStale(d)
          PROVE  UNCHANGED tick /\ row'[e].published_at = row[e].published_at
      BY <2>4, StaleStep
    <2> QED BY <1>5, <2>1, <2>2, <2>3, <2>4 DEF EnvironmentNext, Holds
  <1> QED BY <1>1, <1>2, <1>3, <1>4, <1>5 DEF Next, TickNext

\* A published event stays published and comes into no tick's hands again,
\* whatever crashes, failed marks and late markOutboxFailed() calls: the
\* claim's WHERE published_at IS NULL is all it takes.
THEOREM PublishedForGood == Spec => NoResurrection
  <1> DEFINE Stays == \A e \in Events : row[e].published_at = "set" =>
                          /\ row'[e].published_at = "set"
                          /\ \A t \in Ticks : Holds(t, e)' => Holds(t, e)
  <1>1. TypeInv /\ [Next]_vars => [Stays]_vars
    BY ResurrectionStep
  <1>2. NoResurrection <=> [][Stays]_vars
    BY DEF NoResurrection
  <1> HIDE DEF Stays
  <1> QED BY <1>1, <1>2, TypeInvariant, PTL DEF Spec

-----------------------------------------------------------------------------
(* Published means sent.                                                   *)

SentInv == PublishedMeansSent /\ MarkedIsSent

\* Nothing is published at first.
LEMMA SentInit == Init => SentInv
  BY DEF Init, SentInv, PublishedMeansSent, MarkedIsSent, Blank, IdleTick

\* Only a crash or a lost connection takes a frame away.
LEMMA FramesStay ==
    ASSUME TypeInv, [Next]_vars, ~ Happened({"crash", "drop"})', NEW e \in Events
    PROVE  /\ buf[e] \in Nat /\ queue[e] \in Nat /\ buf'[e] \in Nat /\ queue'[e] \in Nat
           /\ buf'[e] + queue'[e] >= buf[e] + queue[e]
  <1>0. buf[e] \in Nat /\ queue[e] \in Nat
    BY DEF TypeInv, TypeOK
  <1>p. buf'[e] \in Nat /\ queue'[e] \in Nat
    BY TypeNext DEF TypeInv, TypeOK
  <1>1. CASE UNCHANGED <<buf, queue>>
    BY <1>0, <1>1
  <1>2. ASSUME NEW t \in Ticks, NEW d \in Events,
               Publish(t, d) \/ PublishFull(t, d) \/ PublishThrows(t, d)
        PROVE  buf'[e] + queue'[e] >= buf[e] + queue[e]
    <2>1. queue' = queue /\ buf'[e] \in {buf[e], buf[e] + 1}
      BY <1>2, PublishStep
    <2> QED BY <1>0, <2>1
  <1>3. ASSUME NEW d \in Events, Flush(d)
        PROVE  buf'[e] + queue'[e] >= buf[e] + queue[e]
    <2>1. CASE e = d
      <3>1. buf'[e] = buf[e] - 1 /\ queue'[e] = queue[e] + 1
        BY <1>3, <2>1 DEF Flush, TypeInv, TypeOK
      <3> QED BY <1>0, <3>1
    <2>2. CASE e # d
      <3>1. buf'[e] = buf[e] /\ queue'[e] = queue[e]
        BY <1>3, <2>2 DEF Flush, TypeInv, TypeOK
      <3> QED BY <1>0, <3>1
    <2> QED BY <2>1, <2>2
  <1>4. ~ Drop /\ ~ Crash
    BY FaultEffect DEF Drop, Crash, Happened, TypeInv, TypeOK, WellFormed
  <1>5. CASE RequestNext
    BY <1>1, <1>5, RequestStep
  <1>6. CASE TickNext
    <2>1. PICK t \in Ticks :
            \/ Claim(t) \/ ClaimFails(t)
            \/ \E d \in Events : Publish(t, d) \/ PublishFull(t, d) \/ PublishThrows(t, d)
            \/ MarkPublished(t) \/ MarkPublishedFails(t)
            \/ MarkFailed(t) \/ MarkFailedFails(t)
      BY <1>6 DEF TickNext
    <2>2. CASE Claim(t) \/ ClaimFails(t)
      BY <1>1, <2>2, ClaimStep
    <2>3. CASE \/ MarkPublished(t) \/ MarkPublishedFails(t)
               \/ MarkFailed(t) \/ MarkFailedFails(t)
      BY <1>1, <2>3, MarkStep
    <2> QED BY <1>0, <1>p, <1>2, <2>1, <2>2, <2>3
  <1>7. CASE EnvironmentNext
    <2>1. ASSUME NEW d \in Events, GoStale(d) PROVE UNCHANGED <<buf, queue>>
      BY <2>1, StaleStep
    <2> QED BY <1>0, <1>p, <1>1, <1>3, <1>4, <1>7, <2>1 DEF EnvironmentNext
  <1> QED BY <1>0, <1>p, <1>1, <1>5, <1>6, <1>7 DEF Next, vars

\* An event is marked only after its message was sent.
LEMMA SentStep ==
    ASSUME TypeInv, SentInv, [Next]_vars
    PROVE  SentInv'
  <1> SUFFICES ASSUME ~ Happened({"crash", "drop"})'
               PROVE  /\ \A e \in Events : row'[e].published_at = "set" =>
                             buf'[e] + queue'[e] > 0
                      /\ \A t \in Ticks : tick'[t].pc = "markPublished" =>
                             buf'[tick'[t].cur] + queue'[tick'[t].cur] > 0
    BY DEF SentInv, PublishedMeansSent, MarkedIsSent
  <1>0. /\ \A e \in Events : row[e].published_at = "set" => buf[e] + queue[e] > 0
        /\ \A t \in Ticks : tick[t].pc = "markPublished" =>
               /\ tick[t].cur \in Events
               /\ buf[tick[t].cur] + queue[tick[t].cur] > 0
    BY FaultsStay, CurHeld DEF SentInv, PublishedMeansSent, MarkedIsSent, Marks
  <1>1. \A e \in Events : buf[e] + queue[e] > 0 => buf'[e] + queue'[e] > 0
    BY FramesStay
  \* It is enough that what is new was sent.
  <1> SUFFICES
        /\ \A e \in Events : row'[e].published_at = "set" =>
             row[e].published_at = "set" \/ buf[e] + queue[e] > 0
        /\ \A t \in Ticks : tick'[t].pc = "markPublished" =>
             \/ tick[t].pc = "markPublished" /\ tick'[t].cur = tick[t].cur
             \/ buf'[tick'[t].cur] + queue'[tick'[t].cur] > 0
    BY <1>0, <1>1
  <1>2. CASE UNCHANGED vars
    BY <1>2 DEF vars
  <1>3. CASE RequestNext
    BY <1>3, RequestStep
  <1>4. ASSUME NEW t \in Ticks, Claim(t) \/ ClaimFails(t)
        PROVE  /\ \A e \in Events : row'[e].published_at = row[e].published_at
               /\ \A u \in Ticks : tick'[u].pc = "markPublished" => tick'[u] = tick[u]
    <2>1. \A e \in Events : row'[e].published_at = row[e].published_at
      BY <1>4, ClaimStep, ClaimEffect
    <2>2. \A u \in Ticks : tick'[u].pc = "markPublished" => tick'[u] = tick[u]
      BY <1>4, ClaimStep
    <2> QED BY <2>1, <2>2
  <1>5. ASSUME NEW t \in Ticks, NEW d \in Events,
               Publish(t, d) \/ PublishFull(t, d) \/ PublishThrows(t, d)
        PROVE  /\ row' = row
               /\ \A u \in Ticks : tick'[u].pc = "markPublished" =>
                    tick'[u] = tick[u] \/ buf'[tick'[u].cur] + queue'[tick'[u].cur] > 0
    <2>1. row' = row /\ \A u \in Ticks \ {t} : tick'[u] = tick[u]
      BY <1>5, PublishStep
    <2>2. tick'[t].pc = "markPublished" => buf'[tick'[t].cur] + queue'[tick'[t].cur] > 0
      <3> SUFFICES ASSUME tick'[t].pc = "markPublished"
                   PROVE  buf'[tick'[t].cur] + queue'[tick'[t].cur] > 0
        OBVIOUS
      <3>1. tick'[t].cur = d /\ buf'[d] = buf[d] + 1 /\ queue'[d] = queue[d]
        BY <1>5, PublishStep
      <3>2. buf[d] \in Nat /\ queue[d] \in Nat
        BY DEF TypeInv, TypeOK
      <3> QED BY <3>1, <3>2
    <2> QED BY <2>1, <2>2
  <1>6. ASSUME NEW t \in Ticks, \/ MarkPublished(t) \/ MarkPublishedFails(t)
                                \/ MarkFailed(t) \/ MarkFailedFails(t)
        PROVE  /\ \A e \in Events : row'[e].published_at = "set" =>
                    row[e].published_at = "set" \/ buf[e] + queue[e] > 0
               /\ \A u \in Ticks : tick'[u].pc = "markPublished" => tick'[u] = tick[u]
    <2> DEFINE c == tick[t].cur
    <2>1. \A e \in Events \ {c} : row'[e] = row[e]
      BY <1>6, MarkStep
    <2>2. CASE tick[t].pc = "markPublished"
      BY <1>0, <1>6, <2>1, <2>2, MarkStep
    <2>3. CASE tick[t].pc = "markFailed"
      <3>1. MarkFailed(t) \/ MarkFailedFails(t)
        BY <1>6, <2>3 DEF MarkPublished, MarkPublishedFails
      <3>2. ~ MarkPublished(t) /\ ~ MarkPublishedFails(t)
        BY <2>3 DEF MarkPublished, MarkPublishedFails
      <3>3. row'[c].published_at = row[c].published_at
        BY <3>1, <3>2, MarkStep
      <3>4. \A u \in Ticks : tick'[u].pc = "markPublished" => tick'[u] = tick[u]
        BY <1>6, MarkStep
      <3> QED BY <2>1, <3>3, <3>4
    <2> QED BY <1>6, <2>2, <2>3, MarkStep DEF Marks
  <1>7. CASE EnvironmentNext
    <2>1. ASSUME NEW d \in Events, Flush(d) PROVE UNCHANGED <<row, tick>>
      BY <2>1 DEF Flush
    <2>2. ASSUME NEW d \in Events, GoStale(d)
          PROVE  UNCHANGED tick /\ \A e \in Events : row'[e].published_at = row[e].published_at
      BY <2>2, StaleStep
    <2>3. ~ Drop /\ ~ Crash
      BY FaultEffect DEF Drop, Crash, Happened, TypeInv, TypeOK, WellFormed
    <2> QED BY <1>7, <2>1, <2>2, <2>3 DEF EnvironmentNext
  <1> QED BY <1>2, <1>3, <1>4, <1>5, <1>6, <1>7 DEF Next, TickNext

\* Until the process dies or its connection is lost, an event marked
\* published has a message at the broker or on its way: no order of the
\* publishes and marks of overlapping ticks, and no failed query, sets
\* published_at of an event that was never sent.
THEOREM NoMarkWithoutMessage == Spec => []PublishedMeansSent
  <1>1. TypeInv /\ SentInv /\ [Next]_vars => SentInv'
    BY SentStep
  <1>2. Spec => []SentInv
    BY <1>1, TypeInvariant, SentInit, PTL DEF Spec
  <1> QED BY <1>2, PTL DEF SentInv

-----------------------------------------------------------------------------
(* Every duplicate is paid for.                                            *)

\* A set that changes by one element at most.
LEMMA OneElement ==
    ASSUME NEW S, IsFiniteSet(S), NEW T, IsFiniteSet(T), NEW x,
           S \ {x} = T \ {x}
    PROVE  /\ Cardinality(S) \in Nat /\ Cardinality(T) \in Nat
           /\ (x \in S <=> x \in T) => Cardinality(T) = Cardinality(S)
           /\ x \in S /\ x \notin T => Cardinality(T) = Cardinality(S) - 1
           /\ x \notin S /\ x \in T => Cardinality(T) = Cardinality(S) + 1
  <1>1. Cardinality(S) \in Nat /\ Cardinality(T) \in Nat
    BY FS_CardinalityType, Zenon
  <1>2. ASSUME x \in S <=> x \in T PROVE S = T
    BY <1>2
  <1>3. ASSUME x \in S, x \notin T PROVE Cardinality(T) = Cardinality(S) - 1
    <2>1. T = S \ {x}
      BY <1>3, Zenon
    <2> QED BY <1>3, <2>1, FS_RemoveElement
  <1>4. ASSUME x \notin S, x \in T PROVE Cardinality(T) = Cardinality(S) + 1
    <2>1. T = S \cup {x}
      BY <1>4, Zenon
    <2> QED BY <1>4, <2>1, FS_AddElement
  <1> QED BY <1>1, <1>2, <1>3, <1>4

\* The ticks that may publish an event change by the tick that steps.
LEMMA PublishersChange ==
    ASSUME NEW t \in Ticks, NEW e \in Events,
           \A s \in Ticks \ {t} : tick'[s] = tick[s]
    PROVE  /\ Cardinality(Publishers(e)) \in Nat
           /\ Cardinality(Publishers(e))' \in Nat
           /\ (MayPublish(t, e) <=> MayPublish(t, e)') =>
                Cardinality(Publishers(e))' = Cardinality(Publishers(e))
           /\ MayPublish(t, e) /\ ~ MayPublish(t, e)' =>
                Cardinality(Publishers(e))' = Cardinality(Publishers(e)) - 1
           /\ ~ MayPublish(t, e) /\ MayPublish(t, e)' =>
                Cardinality(Publishers(e))' = Cardinality(Publishers(e)) + 1
  <1> DEFINE S == Publishers(e)
             T == Publishers(e)'
  <1>1. IsFiniteSet(Ticks) /\ S \subseteq Ticks /\ T \subseteq Ticks
    BY OutboxAssumption DEF Publishers
  <1>2. IsFiniteSet(S) /\ IsFiniteSet(T)
    BY <1>1, FS_Subset, Zenon
  <1>3. \A s \in Ticks \ {t} : MayPublish(s, e) <=> MayPublish(s, e)'
    BY DEF MayPublish, Holds
  <1>4. S \ {t} = T \ {t}
    BY <1>3 DEF Publishers
  <1>5. (t \in S <=> MayPublish(t, e)) /\ (t \in T <=> MayPublish(t, e)')
    BY DEF Publishers
  <1> HIDE DEF S, T
  <1>6. /\ Cardinality(S) \in Nat /\ Cardinality(T) \in Nat
        /\ (t \in S <=> t \in T) => Cardinality(T) = Cardinality(S)
        /\ t \in S /\ t \notin T => Cardinality(T) = Cardinality(S) - 1
        /\ t \notin S /\ t \in T => Cardinality(T) = Cardinality(S) + 1
    BY <1>2, <1>4, OneElement
  <1>7. Cardinality(Publishers(e)) = Cardinality(S) /\ Cardinality(Publishers(e))' = Cardinality(T)
    BY DEF S, T
  <1> QED BY <1>5, <1>6, <1>7

\* What an event costs so far, and what it may still cost.
Cost(e) == buf[e] + queue[e] + Cardinality(Publishers(e)) + LooseCount(e)

\* The terms of Paid are naturals.
LEMMA CostType ==
    ASSUME TypeInv, NEW e \in Events
    PROVE  /\ buf[e] \in Nat /\ queue[e] \in Nat
           /\ Cardinality(Publishers(e)) \in Nat
           /\ LooseCount(e) \in {0, 1}
           /\ Loose(e) <=> LooseCount(e) = 1
  <1>1. IsFiniteSet(Ticks) /\ Publishers(e) \subseteq Ticks
    BY OutboxAssumption DEF Publishers
  <1>2. Cardinality(Publishers(e)) \in Nat
    BY <1>1, FS_Subset, FS_CardinalityType, Zenon
  <1> QED BY <1>2 DEF TypeInv, TypeOK, LooseCount

\* At first an event has no message and no publisher.
LEMMA PaidInit == Init => Paid
  <1> SUFFICES ASSUME Init, NEW e \in Events
               PROVE  Cost(e) <= 1 + (MaxFaults - faults.left)
    BY DEF Paid, Cost
  <1>1. Publishers(e) = {}
    BY DEF Init, Publishers, MayPublish, Holds, IdleTick
  <1>2. Cardinality(Publishers(e)) = 0
    BY <1>1, FS_EmptySet
  <1>3. buf[e] = 0 /\ queue[e] = 0 /\ faults.left = MaxFaults /\ LooseCount(e) \in {0, 1}
    BY DEF Init, LooseCount
  <1> QED BY <1>2, <1>3, OutboxAssumption DEF Cost

\* What a step may add to the cost of an event: the faults it uses up.
WithinFaults(e) == Cost(e)' <= Cost(e) + (faults.left - faults'.left)

\* Nothing that a tick does, and nothing that happens to a row, in sight.
LEMMA SameClaims ==
    ASSUME NEW e \in Events, UNCHANGED tick,
           row'[e].claimed_at = row[e].claimed_at,
           row'[e].published_at = row[e].published_at
    PROVE  /\ Cardinality(Publishers(e))' = Cardinality(Publishers(e))
           /\ LooseCount(e)' = LooseCount(e)
  <1>1. Publishers(e)' = Publishers(e)
    BY DEF Publishers, MayPublish, Holds
  <1>2. Loose(e)' <=> Loose(e)
    BY DEF Loose, Eligible, Holds
  <1> QED BY <1>1, <1>2 DEF LooseCount

\* Faults are counted down one by one.
LEMMA FaultsCost ==
    ASSUME TypeInv
    PROVE  /\ faults.left \in Nat /\ MaxFaults \in Nat
           /\ \A kind : Fault(kind) => faults'.left = faults.left - 1
           /\ UNCHANGED faults => faults'.left = faults.left
  BY FaultEffect, OutboxAssumption DEF TypeInv, TypeOK, WellFormed, FaultRecord

\* The requests send nothing.
LEMMA PaidRequests ==
    ASSUME TypeInv, RequestNext, NEW e \in Events
    PROVE  WithinFaults(e)
  <1>1. /\ Cardinality(Publishers(e))' = Cardinality(Publishers(e))
        /\ LooseCount(e)' = LooseCount(e)
    BY RequestStep, SameClaims
  <1>2. buf' = buf /\ queue' = queue /\ faults' = faults
    BY RequestStep
  <1> QED BY <1>1, <1>2, CostType, FaultsCost DEF WithinFaults, Cost

\* A claim turns a loose event into one that its tick may publish.
LEMMA PaidClaim ==
    ASSUME TypeInv, NEW t \in Ticks, Claim(t) \/ ClaimFails(t), NEW e \in Events
    PROVE  WithinFaults(e)
  <1>0. buf' = buf /\ queue' = queue
    BY ClaimStep
  <1>1. TypeInv'
    BY TypeTicks
  <1>2. LooseCount(e)' \in {0, 1} /\ (Loose(e)' <=> LooseCount(e)' = 1)
    BY <1>1, CostType DEF LooseCount
  <1>3. CASE UNCHANGED tick /\ Fault("db")
    <2>1. Publishers(e)' = Publishers(e)
      BY <1>3 DEF Publishers, MayPublish, Holds
    <2>2. faults'.left = faults.left - 1
      BY <1>3, FaultsCost
    <2> QED BY <1>0, <1>2, <2>1, <2>2, CostType, FaultsCost DEF WithinFaults, Cost
  <1>4. CASE /\ row' = Claimed /\ UNCHANGED faults
             /\ tick'[t].batch = ToClaim /\ tick'[t].pc = "publish"
    <2>1. \A s \in Ticks \ {t} : tick'[s] = tick[s]
      BY ClaimStep
    <2>2. ~ MayPublish(t, e)
      BY ClaimStep DEF MayPublish, Holds
    <2>3. MayPublish(t, e)' <=> e \in ToClaim
      BY <1>4 DEF MayPublish, Holds
    <2>4. CASE e \in ToClaim
      <3>1. Loose(e)
        BY <2>4, ClaimEffect DEF Loose, Eligible
      <3>2. ~ Loose(e)'
        <4>1. row'[e].claimed_at = "recent" /\ Holds(t, e)'
          BY <1>4, <2>4, ClaimEffect DEF Holds
        <4> QED BY <4>1 DEF Loose, Eligible
      <3>3. Cardinality(Publishers(e))' = Cardinality(Publishers(e)) + 1
        BY <2>1, <2>2, <2>3, <2>4, PublishersChange
      <3>4. LooseCount(e) = 1 /\ LooseCount(e)' = 0
        BY <1>2, <3>1, <3>2, CostType
      <3> QED BY <1>0, <1>4, <3>3, <3>4, CostType, FaultsCost DEF WithinFaults, Cost
    <2>5. CASE e \notin ToClaim
      <3>1. Cardinality(Publishers(e))' = Cardinality(Publishers(e))
        BY <2>1, <2>2, <2>3, <2>5, PublishersChange
      <3>2. row'[e] = row[e]
        BY <1>4, <2>5, ClaimEffect
      <3>3. \A s \in Ticks : Holds(s, e)' <=> Holds(s, e)
        BY <1>4, <2>1, <2>5, ClaimStep DEF Holds
      <3>4. Loose(e)' <=> Loose(e)
        BY <3>2, <3>3 DEF Loose, Eligible
      <3>5. LooseCount(e)' = LooseCount(e)
        BY <3>4 DEF LooseCount
      <3> QED BY <1>0, <1>4, <3>1, <3>5, CostType, FaultsCost DEF WithinFaults, Cost
    <2> QED BY <2>4, <2>5
  <1> QED BY <1>3, <1>4, ClaimStep

\* A publish turns what its tick may send into a message.
LEMMA PaidPublish ==
    ASSUME TypeInv, NEW t \in Ticks, NEW d \in Events,
           Publish(t, d) \/ PublishFull(t, d) \/ PublishThrows(t, d),
           NEW e \in Events
    PROVE  WithinFaults(e)
  <1>0. queue' = queue
    BY PublishStep
  <1>1. \A s \in Ticks : Holds(s, e)' <=> Holds(s, e)
    BY PublishStep DEF Holds
  <1>2. LooseCount(e)' = LooseCount(e)
    <2>1. row' = row
      BY PublishStep
    <2>2. Loose(e)' <=> Loose(e)
      BY <1>1, <2>1 DEF Loose, Eligible
    <2> QED BY <2>2 DEF LooseCount
  <1>3. \A s \in Ticks \ {t} : tick'[s] = tick[s]
    BY PublishStep
  <1>4. CASE e = d
    <2>1. MayPublish(t, e)
      BY <1>4, PublishStep DEF MayPublish
    <2>2. CASE tick'[t].pc = "markPublished"
      <3>1. ~ MayPublish(t, e)'
        BY <1>4, <2>2, PublishStep DEF MayPublish
      <3>2. Cardinality(Publishers(e))' = Cardinality(Publishers(e)) - 1
        BY <1>3, <2>1, <3>1, PublishersChange
      <3>3. buf'[e] = buf[e] + 1 /\ faults' = faults
        BY <1>4, <2>2, PublishStep
      <3> QED BY <1>0, <1>2, <3>2, <3>3, CostType, FaultsCost DEF WithinFaults, Cost
    <2>3. CASE tick'[t].pc = "markFailed"
      <3>1. MayPublish(t, e)'
        BY <1>1, <1>4, <2>3, PublishStep DEF MayPublish
      <3>2. Cardinality(Publishers(e))' = Cardinality(Publishers(e))
        BY <1>3, <2>1, <3>1, PublishersChange
      <3>3. buf'[e] \in {buf[e], buf[e] + 1} /\ (Fault("full") \/ Fault("throw"))
        BY <1>4, <2>3, PublishStep
      <3>4. faults'.left = faults.left - 1
        BY <3>3, FaultsCost
      <3> QED BY <1>0, <1>2, <3>2, <3>3, <3>4, CostType, FaultsCost DEF WithinFaults, Cost
    <2> QED BY <2>2, <2>3, PublishStep
  <1>5. CASE e # d
    <2>1. MayPublish(t, e)' <=> MayPublish(t, e)
      BY <1>1, <1>5, PublishStep DEF MayPublish
    <2>2. Cardinality(Publishers(e))' = Cardinality(Publishers(e))
      BY <1>3, <2>1, PublishersChange
    <2>3. buf'[e] = buf[e]
      BY <1>5, PublishStep
    <2>4. UNCHANGED faults \/ Fault("full") \/ Fault("throw")
      BY PublishStep
    <2>5. faults.left - faults'.left \in {0, 1}
      BY <2>4, FaultsCost
    <2> QED BY <1>0, <1>2, <2>2, <2>3, <2>5, CostType, FaultsCost DEF WithinFaults, Cost
  <1> QED BY <1>4, <1>5

\* A mark ends what its event may still cost, or costs a fault itself.
LEMMA PaidMark ==
    ASSUME TypeInv, NEW t \in Ticks,
           \/ MarkPublished(t) \/ MarkPublishedFails(t)
           \/ MarkFailed(t) \/ MarkFailedFails(t),
           NEW e \in Events
    PROVE  WithinFaults(e)
  <1> DEFINE c == tick[t].cur
  <1>0. buf' = buf /\ queue' = queue /\ \A s \in Ticks \ {t} : tick'[s] = tick[s]
    BY MarkStep
  <1>1. TypeInv'
    BY TypeTicks
  <1>2. LooseCount(e)' \in {0, 1} /\ (Loose(e)' <=> LooseCount(e)' = 1)
    BY <1>1, CostType DEF LooseCount
  <1>3. CASE e # c
    <2>1. row'[e] = row[e] /\ (MayPublish(t, e) <=> Holds(t, e))
      BY <1>3, MarkStep DEF MayPublish
    <2>2. MayPublish(t, e)' <=> Holds(t, e)'
      BY <1>3, MarkStep DEF MayPublish
    <2>3. CASE tick'[t].batch # {} \/ ~ MarkFailedFails(t)
      <3>1. \A s \in Ticks : Holds(s, e)' <=> Holds(s, e)
        BY <1>3, <2>3, MarkStep DEF Holds
      <3>2. Cardinality(Publishers(e))' = Cardinality(Publishers(e))
        BY <1>0, <2>1, <2>2, <3>1, PublishersChange
      <3>3. Loose(e)' <=> Loose(e)
        BY <2>1, <3>1 DEF Loose, Eligible
      <3>4. LooseCount(e)' = LooseCount(e)
        BY <3>3 DEF LooseCount
      <3>5. UNCHANGED faults \/ Fault("db")
        BY MarkStep
      <3>6. faults.left - faults'.left \in {0, 1}
        BY <3>5, FaultsCost
      <3> QED BY <1>0, <3>2, <3>4, <3>6, CostType, FaultsCost DEF WithinFaults, Cost
    <2>4. CASE tick'[t].batch = {} /\ MarkFailedFails(t)
      <3>1. ~ MayPublish(t, e)'
        BY <2>2, <2>4 DEF Holds
      <3>2. Cardinality(Publishers(e))' \in
              {Cardinality(Publishers(e)), Cardinality(Publishers(e)) - 1}
        BY <1>0, <3>1, PublishersChange
      <3>3. faults'.left = faults.left - 1
        BY <2>4, FaultsCost DEF MarkFailedFails
      <3> QED BY <1>0, <1>2, <3>2, <3>3, CostType, FaultsCost DEF WithinFaults, Cost
    <2> QED BY <2>3, <2>4
  <1>4. CASE e = c /\ MarkPublished(t)
    <2>1. tick[t].pc = "markPublished" /\ ~ MayPublish(t, e)
      BY <1>4 DEF MarkPublished, MayPublish
    <2>2. /\ row'[e].published_at = "set" /\ ~ Holds(t, e)' /\ UNCHANGED faults
      <3>1. ~ MarkFailed(t) /\ ~ MarkFailedFails(t)
        BY <2>1 DEF MarkFailed, MarkFailedFails
      <3>2. UNCHANGED faults
        BY <1>4 DEF MarkPublished
      <3>3. ~ Fault("db")
        BY <3>2, FaultsCost
      <3> QED BY <1>4, <3>1, <3>3, MarkStep DEF Holds
    <2>3. ~ Loose(e)' /\ ~ MayPublish(t, e)'
      BY <2>2 DEF Loose, MayPublish
    <2>4. Cardinality(Publishers(e))' = Cardinality(Publishers(e))
      BY <1>0, <2>1, <2>3, PublishersChange
    <2> QED BY <1>0, <1>2, <2>2, <2>3, <2>4, CostType, FaultsCost DEF WithinFaults, Cost
  <1>5. CASE e = c /\ MarkPublishedFails(t)
    <2>1. tick[t].pc = "markPublished" /\ ~ MayPublish(t, e) /\ Fault("db")
      BY <1>5 DEF MarkPublishedFails, MayPublish
    <2>2. faults'.left = faults.left - 1
      BY <2>1, FaultsCost
    <2>3. ~ UNCHANGED faults
      BY <2>2, FaultsCost
    <2>4. /\ ~ MarkFailed(t) /\ ~ MarkFailedFails(t)
          /\ row'[e].published_at \in {"set", row[e].published_at}
          /\ row'[e].claimed_at = row[e].claimed_at
          /\ tick'[t].batch = tick[t].batch
      <3>1. ~ MarkFailed(t) /\ ~ MarkFailedFails(t)
        BY <2>1 DEF MarkFailed, MarkFailedFails
      <3> QED BY <1>5, <2>3, <3>1, MarkStep
    <2>5. \A s \in Ticks : Holds(s, e)' <=> Holds(s, e)
      BY <1>0, <2>4 DEF Holds
    <2>6. Loose(e)' => Loose(e)
      BY <2>4, <2>5 DEF Loose, Eligible
    <2>7. Cardinality(Publishers(e))' \in
            {Cardinality(Publishers(e)), Cardinality(Publishers(e)) + 1}
      BY <1>0, <2>1, PublishersChange
    <2> QED BY <1>0, <1>2, <2>2, <2>6, <2>7, CostType, FaultsCost DEF WithinFaults, Cost
  <1>6. CASE e = c /\ (MarkFailed(t) \/ MarkFailedFails(t))
    <2>1. tick[t].pc = "markFailed" /\ ~ MarkPublished(t) /\ ~ MarkPublishedFails(t)
      BY <1>6 DEF MarkFailed, MarkFailedFails, MarkPublished, MarkPublishedFails
    <2>2. MayPublish(t, e) /\ ~ MayPublish(t, e)'
      BY <1>6, <2>1, MarkStep DEF MayPublish, Holds
    <2>3. Cardinality(Publishers(e))' = Cardinality(Publishers(e)) - 1
      BY <1>0, <2>2, PublishersChange
    <2>4. UNCHANGED faults \/ Fault("db")
      BY MarkStep
    <2>5. faults.left - faults'.left \in {0, 1}
      BY <2>4, FaultsCost
    <2> QED BY <1>0, <1>2, <2>3, <2>5, CostType, FaultsCost DEF WithinFaults, Cost
  <1> QED BY <1>3, <1>4, <1>5, <1>6

\* A fault pays for what it sets loose.
LEMMA PaidEnvironment ==
    ASSUME TypeInv, EnvironmentNext, NEW e \in Events
    PROVE  WithinFaults(e)
  <1>1. TypeInv'
    BY TypeEnvironment
  <1>2. LooseCount(e)' \in {0, 1} /\ (Loose(e)' <=> LooseCount(e)' = 1)
    BY <1>1, CostType DEF LooseCount
  <1>3. ASSUME NEW d \in Events, Flush(d) PROVE WithinFaults(e)
    <2>1. /\ Cardinality(Publishers(e))' = Cardinality(Publishers(e))
          /\ LooseCount(e)' = LooseCount(e)
      BY <1>3, SameClaims DEF Flush
    <2>2. faults' = faults
      BY <1>3 DEF Flush
    <2>3. buf'[e] + queue'[e] = buf[e] + queue[e] /\ buf'[e] \in Nat /\ queue'[e] \in Nat
      <3>1. CASE e = d
        <4>1. buf'[e] = buf[e] - 1 /\ queue'[e] = queue[e] + 1 /\ buf[e] > 0
          BY <1>3, <3>1 DEF Flush, TypeInv, TypeOK
        <4> QED BY <4>1, CostType
      <3>2. CASE e # d
        <4>1. buf'[e] = buf[e] /\ queue'[e] = queue[e]
          BY <1>3, <3>2 DEF Flush, TypeInv, TypeOK
        <4> QED BY <4>1, CostType
      <3> QED BY <3>1, <3>2
    <2> QED BY <2>1, <2>2, <2>3, CostType, FaultsCost DEF WithinFaults, Cost
  <1>4. CASE Drop
    <2>1. /\ Cardinality(Publishers(e))' = Cardinality(Publishers(e))
          /\ LooseCount(e)' = LooseCount(e)
      BY <1>4, SameClaims DEF Drop
    <2>2. buf'[e] = 0 /\ queue' = queue /\ Fault("drop")
      BY <1>4 DEF Drop
    <2>3. faults'.left = faults.left - 1
      BY <2>2, FaultsCost
    <2> QED BY <2>1, <2>2, <2>3, CostType, FaultsCost DEF WithinFaults, Cost
  <1>5. CASE Crash
    <2>1. Publishers(e)' = {}
      BY <1>5, CrashStep DEF Publishers, MayPublish, Holds
    <2>2. Cardinality(Publishers(e))' = 0
      BY <2>1, FS_EmptySet
    <2>3. buf'[e] = 0 /\ queue' = queue /\ Fault("crash")
      BY <1>5, CrashStep
    <2>4. faults'.left = faults.left - 1
      BY <2>3, FaultsCost
    <2> QED BY <1>2, <2>2, <2>3, <2>4, CostType, FaultsCost DEF WithinFaults, Cost
  <1>6. ASSUME NEW d \in Events, GoStale(d) PROVE WithinFaults(e)
    <2>1. buf' = buf /\ queue' = queue /\ tick' = tick
      BY <1>6, StaleStep
    <2>2. Publishers(e)' = Publishers(e)
      BY <2>1 DEF Publishers, MayPublish, Holds
    <2>3. CASE Fault("slow")
      <3>1. faults'.left = faults.left - 1
        BY <2>3, FaultsCost
      <3> QED BY <1>2, <2>1, <2>2, <3>1, CostType, FaultsCost DEF WithinFaults, Cost
    <2>4. CASE (\A t \in Ticks : ~ Holds(t, d)) /\ UNCHANGED faults
      <3>1. Loose(e)' => Loose(e)
        <4>1. CASE e = d
          BY <1>6, <2>4, <4>1, StaleStep DEF Loose
        <4>2. CASE e # d
          BY <1>6, <2>1, <4>2, StaleStep DEF Loose, Eligible, Holds
        <4> QED BY <4>1, <4>2
      <3> QED BY <1>2, <2>1, <2>2, <2>4, <3>1, CostType, FaultsCost DEF WithinFaults, Cost
    <2> QED BY <1>6, <2>3, <2>4, StaleStep
  <1> QED BY <1>3, <1>4, <1>5, <1>6 DEF EnvironmentNext

\* Every step keeps Paid.
LEMMA PaidStep ==
    ASSUME TypeInv, Paid, [Next]_vars
    PROVE  Paid'
  <1> SUFFICES ASSUME NEW e \in Events
               PROVE  Cost(e)' <= 1 + (MaxFaults - faults'.left)
    BY DEF Paid, Cost
  <1>1. Cost(e) <= 1 + (MaxFaults - faults.left)
    BY DEF Paid, Cost
  <1>2. WithinFaults(e)
    <2>1. CASE UNCHANGED vars
      <3>1. /\ Cardinality(Publishers(e))' = Cardinality(Publishers(e))
            /\ LooseCount(e)' = LooseCount(e)
        BY <2>1, SameClaims DEF vars
      <3> QED BY <2>1, <3>1, CostType, FaultsCost DEF vars, WithinFaults, Cost
    <2> QED BY <2>1, PaidRequests, PaidClaim, PaidPublish, PaidMark, PaidEnvironment
            DEF Next, TickNext
  <1>3. TypeInv'
    BY TypeNext
  <1>4. Cost(e) \in Nat /\ faults.left \in Nat /\ MaxFaults \in Nat
    BY CostType, FaultsCost DEF Cost
  <1>5. Cost(e)' \in Nat /\ faults'.left \in Nat
    <2>1. /\ buf'[e] \in Nat /\ queue'[e] \in Nat /\ faults'.left \in Nat
      BY <1>3 DEF TypeInv, TypeOK, FaultRecord
    <2>2. Cardinality(Publishers(e))' \in Nat
      <3>1. IsFiniteSet(Ticks) /\ Publishers(e)' \subseteq Ticks
        BY OutboxAssumption DEF Publishers
      <3> QED BY <3>1, FS_Subset, FS_CardinalityType, Zenon
    <2>3. LooseCount(e)' \in Nat
      BY DEF LooseCount
    <2> QED BY <2>1, <2>2, <2>3 DEF Cost
  <1> QED BY <1>1, <1>2, <1>4, <1>5 DEF WithinFaults

\* n faults make at most n + 1 messages of one event, for any number of
\* overlapping ticks: the messages there are, the ticks that may still send
\* one and the claim to come are never more than 1 and the faults so far.
THEOREM DuplicatesPaidFor == Spec => []DuplicatesNeedFaults
  <1>1. TypeInv /\ Paid /\ [Next]_vars => Paid'
    BY PaidStep
  <1>2. Spec => []Paid
    BY <1>1, TypeInvariant, PaidInit, PTL DEF Spec
  <1>3. TypeInv /\ Paid => DuplicatesNeedFaults
    <2> SUFFICES ASSUME TypeInv, Paid, NEW e \in Events
                 PROVE  buf[e] + queue[e] <= 1 + (MaxFaults - faults.left)
      BY DEF DuplicatesNeedFaults
    <2>1. Cost(e) <= 1 + (MaxFaults - faults.left)
      BY DEF Paid, Cost
    <2> QED BY <2>1, CostType, FaultsCost DEF Cost
  <1> QED BY <1>2, <1>3, TypeInvariant, PTL

-----------------------------------------------------------------------------
(* The backlog behind the backpressure check.                              *)

Created  == {e \in Pending : row[e].from = "create"}
Admitted == {r \in Requests : request[r] = "admitted"}

\* The sets that are counted are finite.
LEMMA BacklogFinite ==
    ASSUME inserted \in Nat
    PROVE  /\ IsFiniteSet(Pending) /\ IsFiniteSet(Created) /\ IsFiniteSet(Admitted)
           /\ Cardinality(Pending) \in Nat /\ Cardinality(Created) \in Nat
           /\ Cardinality(Admitted) \in Nat /\ Cardinality(Requests) \in Nat
           /\ Cardinality(Created) <= Cardinality(Pending)
           /\ Cardinality(Admitted) <= Cardinality(Requests)
  <1>1. IsFiniteSet(1..inserted)
    BY FS_Interval
  <1>2. Pending \subseteq 1..inserted /\ Created \subseteq Pending
        /\ Admitted \subseteq Requests
    BY DEF Pending, Created, Admitted
  <1>3. IsFiniteSet(Pending) /\ IsFiniteSet(Requests)
    BY <1>1, <1>2, OutboxAssumption, FS_Subset, Zenon
  <1>4. /\ IsFiniteSet(Created) /\ Cardinality(Created) <= Cardinality(Pending)
        /\ IsFiniteSet(Admitted) /\ Cardinality(Admitted) <= Cardinality(Requests)
    BY <1>2, <1>3, FS_Subset, Zenon
  <1> QED BY <1>3, <1>4, FS_CardinalityType, Zenon

\* Fewer created jobs pending and fewer requests admitted.
LEMMA BacklogShrinks ==
    ASSUME TypeInv, BacklogBounded, Created' \subseteq Created, Admitted' \subseteq Admitted
    PROVE  BacklogBounded'
  <1>1. inserted \in Nat
    BY OutboxAssumption DEF TypeInv, TypeOK
  <1>2. /\ IsFiniteSet(Created') /\ Cardinality(Created') <= Cardinality(Created)
        /\ IsFiniteSet(Admitted') /\ Cardinality(Admitted') <= Cardinality(Admitted)
    BY <1>1, BacklogFinite, FS_Subset, Zenon
  <1>3. Cardinality(Created') \in Nat /\ Cardinality(Admitted') \in Nat
    BY <1>2, FS_CardinalityType, Zenon
  <1>4. Cardinality(Created) + Cardinality(Admitted) <= Threshold + Cardinality(Requests)
    BY DEF BacklogBounded, Created, Admitted
  <1>5. Cardinality(Created') + Cardinality(Admitted') <= Threshold + Cardinality(Requests)
    BY <1>1, <1>2, <1>3, <1>4, BacklogFinite, OutboxAssumption
  <1> QED BY <1>5 DEF BacklogBounded, Created, Admitted

\* No statement changes what a row was inserted for.
LEMMA FromStays ==
    ASSUME TypeInv, TickNext \/ EnvironmentNext
    PROVE  /\ inserted' = inserted
           /\ \A e \in Events : row'[e].from = row[e].from
           /\ \A r \in Requests : request'[r] = "admitted" => request[r] = "admitted"
  <1>1. ASSUME NEW t \in Ticks, Claim(t) \/ ClaimFails(t)
        PROVE  /\ inserted' = inserted /\ request' = request
               /\ \A e \in Events : row'[e].from = row[e].from
    BY <1>1, ClaimStep, ClaimEffect
  <1>2. ASSUME NEW t \in Ticks, NEW d \in Events,
               Publish(t, d) \/ PublishFull(t, d) \/ PublishThrows(t, d)
        PROVE  inserted' = inserted /\ request' = request /\ row' = row
    BY <1>2, PublishStep
  <1>3. ASSUME NEW t \in Ticks, \/ MarkPublished(t) \/ MarkPublishedFails(t)
                                \/ MarkFailed(t) \/ MarkFailedFails(t)
        PROVE  /\ inserted' = inserted /\ request' = request
               /\ \A e \in Events : row'[e].from = row[e].from
    BY <1>3, MarkStep
  <1>4. ASSUME NEW d \in Events, Flush(d) \/ GoStale(d)
        PROVE  /\ inserted' = inserted /\ request' = request
               /\ \A e \in Events : row'[e].from = row[e].from
    BY <1>4, StaleStep DEF Flush
  <1>5. CASE Drop
    BY <1>5 DEF Drop
  <1>6. CASE Crash
    BY <1>6, CrashStep
  <1> QED BY <1>1, <1>2, <1>3, <1>4, <1>5, <1>6 DEF TickNext, EnvironmentNext

\* There is no backlog at first.
LEMMA BacklogInit == Init => BacklogBounded
  <1> SUFFICES ASSUME Init PROVE BacklogBounded
    OBVIOUS
  <1>1. inserted \in Nat /\ Created = {} /\ Admitted = {}
    BY DEF Init, Created, Pending, Admitted
  <1>2. Cardinality(Created) = 0 /\ Cardinality(Admitted) = 0
    BY <1>1, FS_EmptySet
  <1>3. Cardinality(Created) + Cardinality(Admitted) <= Threshold + Cardinality(Requests)
    BY <1>1, <1>2, BacklogFinite, OutboxAssumption
  <1> QED BY <1>3 DEF BacklogBounded, Created, Admitted

\* A request is admitted only below the threshold, and inserts once.
LEMMA BacklogStep ==
    ASSUME TypeInv, BacklogBounded, [Next]_vars
    PROVE  BacklogBounded'
  <1>0. inserted \in Nat /\ 1..inserted \subseteq Events
    BY OutboxAssumption DEF TypeInv, TypeOK, Events
  <1>1. CASE UNCHANGED vars
    BY <1>1 DEF vars, BacklogBounded, Pending
  <1>2. ASSUME NEW r \in Requests, Admit(r) PROVE BacklogBounded'
    <2>1. Cardinality(Created) <= Threshold
      <3>1. ~ (Cardinality(Pending) > Threshold)
        BY <1>2 DEF Admit, WithinThreshold
      <3> QED BY <1>0, <3>1, BacklogFinite, OutboxAssumption
    <2>2. Created' = Created
      BY <1>2 DEF Admit, Created, Pending
    <2>3. /\ Cardinality(Admitted') \in Nat
          /\ Cardinality(Admitted') <= Cardinality(Requests)
      <3>1. Admitted' \subseteq Requests /\ IsFiniteSet(Requests)
        BY OutboxAssumption DEF Admitted
      <3> QED BY <3>1, FS_Subset, FS_CardinalityType, Zenon
    <2>4. Cardinality(Created') + Cardinality(Admitted') <= Threshold + Cardinality(Requests)
      BY <1>0, <2>1, <2>2, <2>3, BacklogFinite, OutboxAssumption
    <2> QED BY <2>4 DEF BacklogBounded, Created, Admitted
  <1>3. ASSUME NEW r \in Requests, Refuse(r) PROVE BacklogBounded'
    <2>1. Created' \subseteq Created
      BY <1>3 DEF Refuse, Created, Pending
    <2>2. Admitted' \subseteq Admitted
      BY <1>3 DEF Refuse, Admitted, TypeInv, TypeOK
    <2> QED BY <2>1, <2>2, BacklogShrinks
  <1>4. ASSUME NEW r \in Requests, CreateJob(r) PROVE BacklogBounded'
    <2> DEFINE n == inserted + 1
    <2>1. insertOutboxEvent("create")
      BY <1>4 DEF CreateJob
    <2>2. /\ inserted' = n /\ \A e \in 1..inserted : row'[e] = row[e]
          /\ n \notin 1..inserted
      <3>1. /\ inserted' = n /\ \A e \in Events \ {n} : row'[e] = row[e]
        BY <2>1, InsertEffect
      <3>2. n \notin 1..inserted
        BY <1>0
      <3> QED BY <1>0, <3>1, <3>2
    <2>3. Created' \subseteq Created \cup {n}
      <3>1. \A e \in 1..inserted' : e \in 1..inserted \/ e = n
        BY <1>0, <2>2
      <3> QED BY <2>2, <3>1 DEF Created, Pending
    <2>4. /\ IsFiniteSet(Created') /\ Cardinality(Created') \in Nat
          /\ Cardinality(Created') <= Cardinality(Created) + 1
      <3>1. n \notin Created
        BY <2>2 DEF Created, Pending
      <3>2. IsFiniteSet(Created)
        BY <1>0, BacklogFinite
      <3>3. /\ IsFiniteSet(Created \cup {n})
            /\ Cardinality(Created \cup {n}) = Cardinality(Created) + 1
        BY <3>1, <3>2, FS_AddElement
      <3>4. /\ IsFiniteSet(Created')
            /\ Cardinality(Created') <= Cardinality(Created \cup {n})
        BY <2>3, <3>3, FS_Subset, Zenon
      <3>5. Cardinality(Created') \in Nat
        BY <3>4, FS_CardinalityType, Zenon
      <3> QED BY <3>3, <3>4, <3>5
    <2>5. r \in Admitted /\ Admitted' = Admitted \ {r}
      BY <1>4 DEF CreateJob, Admitted, TypeInv, TypeOK
    <2>6. Cardinality(Admitted') = Cardinality(Admitted) - 1
      <3>1. IsFiniteSet(Admitted)
        BY <1>0, BacklogFinite
      <3> QED BY <2>5, <3>1, FS_RemoveElement
    <2>7. Cardinality(Created) + Cardinality(Admitted) <= Threshold + Cardinality(Requests)
      BY DEF BacklogBounded, Created, Admitted
    <2>8. Cardinality(Created') + Cardinality(Admitted') <= Threshold + Cardinality(Requests)
      BY <1>0, <2>4, <2>6, <2>7, BacklogFinite, OutboxAssumption
    <2> QED BY <2>8 DEF BacklogBounded, Created, Admitted
  <1>5. CASE ReplayJob
    <2>1. insertOutboxEvent("replay")
      BY <1>5 DEF ReplayJob
    <2>2. /\ inserted' = inserted + 1 /\ row'[inserted + 1].from = "replay"
          /\ \A e \in 1..inserted : row'[e] = row[e]
      <3>1. /\ inserted' = inserted + 1 /\ row'[inserted + 1].from = "replay"
            /\ \A e \in Events \ {inserted + 1} : row'[e] = row[e]
        BY <2>1, InsertEffect
      <3>2. inserted + 1 \notin 1..inserted
        BY <1>0
      <3> QED BY <1>0, <3>1, <3>2
    <2>3. Created' \subseteq Created
      <3>1. \A e \in 1..inserted' : e \in 1..inserted \/ e = inserted + 1
        BY <1>0, <2>2
      <3> QED BY <2>2, <3>1 DEF Created, Pending
    <2>4. Admitted' \subseteq Admitted
      BY <1>5 DEF ReplayJob, Admitted
    <2> QED BY <2>3, <2>4, BacklogShrinks
  <1>6. CASE TickNext \/ EnvironmentNext
    <2>1. \A e \in Events : /\ row'[e].from = row[e].from
                            /\ row[e].published_at = "set" => row'[e].published_at = "set"
      BY <1>6, FromStays, ResurrectionStep DEF Next
    <2>2. \A e \in Events : row'[e].published_at = "null" => row[e].published_at = "null"
      <3>1. \A e \in Events : row[e].published_at \in {"null", "set"}
        BY DEF TypeInv, TypeOK, Row
      <3> QED BY <2>1, <3>1
    <2>3. Created' \subseteq Created
      BY <1>0, <1>6, <2>1, <2>2, FromStays DEF Created, Pending
    <2>4. Admitted' \subseteq Admitted
      BY <1>6, FromStays DEF Admitted
    <2> QED BY <2>3, <2>4, BacklogShrinks
  <1> QED BY <1>1, <1>2, <1>3, <1>4, <1>5, <1>6 DEF Next, RequestNext

\* The check and the insert are two steps, and replays make no check: even
\* so the created jobs still pending, with the requests let through, pass
\* BACKPRESSURE_THRESHOLD by no more than the requests under way.
THEOREM BackpressureBound == Spec => []BacklogBounded
  <1>1. TypeInv /\ BacklogBounded /\ [Next]_vars => BacklogBounded'
    BY BacklogStep
  <1> QED BY <1>1, TypeInvariant, BacklogInit, PTL DEF Spec

=============================================================================
