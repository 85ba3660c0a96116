---------------------------- MODULE WorkerProofs ----------------------------
(***************************************************************************)
(* Theorems about Worker for every value of its constants, with proofs     *)
(* checked by TLAPS.                                                       *)
(***************************************************************************)
EXTENDS Worker, TLAPS

\* A row in use has its payload, and a handler that has claimed holds the
\* message of such a row: what the type of a handler's next step rests on.
WellFormed ==
    /\ \A j \in Jobs : jobs[j].status # "ABSENT" => jobs[j].payload \in Payloads
    /\ \A h \in Handlers : handler[h].pc \in WorkingPc \cup Publishing =>
            /\ handler[h].job \in Jobs
            /\ jobs[handler[h].job].status # "ABSENT"

TypeInv == TypeOK /\ WellFormed

USE DEF Messages, Marking, Publishing, WorkingPc

\* Each SQL statement leaves a well-typed row with the payload it found.
LEMMA RowTypes ==
    ASSUME NEW r \in Row
    PROVE  /\ claimJob(r) \in Row
           /\ markCompleted(r) \in Row
           /\ markRetrying(r) \in Row
           /\ markDeadLettered(r) \in Row
           /\ claimReplay(r) \in Row
           /\ [r EXCEPT !.updated_at = "stale"] \in Row
           /\ \A p \in Payloads : NewRow(p) \in Row
           /\ NoRow \in Row
  <1>0. /\ r.attempt_count + 1 \in Nat
        /\ r.total_attempt_count + 1 \in Nat
        /\ r.replay_count + 1 \in Nat
    BY DEF Row
  <1>1. claimJob(r) \in Row
    BY <1>0, Zenon DEF Row, Status, claimJob
  <1>2. markCompleted(r) \in Row /\ markRetrying(r) \in Row
    BY DEF Row, Status, markCompleted, markRetrying
  <1>3. markDeadLettered(r) \in Row
    BY DEF Row, Status, markDeadLettered
  <1>4. claimReplay(r) \in Row
    BY <1>0, Zenon DEF Row, Status, claimReplay
  <1>5. [r EXCEPT !.updated_at = "stale"] \in Row
    BY DEF Row
  <1>6. \A p \in Payloads \cup {None} : NewRow(p) \in Row
    BY DEF Row, Status, NewRow
  <1>7. NoRow \in Row
    <2> DEFINE r0 == NewRow(None)
    <2>1. r0 \in Row
      BY <1>6
    <2>2. [r0 EXCEPT !.status = "ABSENT"] \in Row
      <3> HIDE DEF r0
      <3> QED BY <2>1 DEF Row, Status
    <2> QED BY <2>2 DEF NoRow
  <1> QED BY <1>1, <1>2, <1>3, <1>4, <1>5, <1>6, <1>7

\* No statement but the insert touches the payload, and none deletes a row.
LEMMA RowsStay ==
    ASSUME NEW r \in Row
    PROVE  /\ claimJob(r).payload = r.payload
           /\ claimJob(r).status = "PROCESSING"
           /\ markCompleted(r).payload = r.payload
           /\ markCompleted(r).status = "COMPLETED"
           /\ markRetrying(r).payload = r.payload
           /\ markRetrying(r).status = "RETRYING"
           /\ markDeadLettered(r).payload = r.payload
           /\ markDeadLettered(r).status = "DEAD_LETTERED"
           /\ claimReplay(r).payload = r.payload
           /\ claimReplay(r).status = "QUEUED"
  BY DEF Row, claimJob, markCompleted, markRetrying, markDeadLettered,
         claimReplay

\* A query that failed after its commit left the row the mark would leave.
LEMMA MarkedTypes ==
    ASSUME NEW r \in Row, NEW pc \in Marking
    PROVE  /\ Marked(pc, r) \in Row
           /\ Marked(pc, r).payload = r.payload
           /\ Marked(pc, r).status \in {"COMPLETED", "RETRYING", "DEAD_LETTERED"}
  BY RowTypes, RowsStay DEF Marked

\* A fault leaves a well-typed record of the faults.
LEMMA FaultType ==
    ASSUME faults \in FaultRecord, NEW kind, Fault(kind)
    PROVE  faults' \in FaultRecord
  BY WorkerAssumption DEF FaultRecord, Fault

\* A handler at rest is well-typed.
LEMMA IdleType == Idle \in Handler
  BY DEF Idle, Handler

\* A handler that loses its channel is at rest, or where it was.
LEMMA DetachedType ==
    ASSUME NEW k \in Handler
    PROVE  /\ Detached(k) \in Handler
           /\ Detached(k).out = "none"
           /\ \/ Detached(k) = Idle /\ Detached(k).pc = "idle"
              \/ /\ Detached(k).pc = k.pc
                 /\ Detached(k).job = k.job
                 /\ Detached(k).attempt = k.attempt
                 /\ Detached(k).chan = "closed"
  <1>1. CASE k.pc \in {"idle", "acked", "nacked"}
    BY <1>1, IdleType DEF Detached, Idle
  <1>2. CASE k.pc \notin {"idle", "acked", "nacked"}
    <2> DEFINE d == [k EXCEPT !.chan = "closed", !.out = "none"]
    <2>1. d \in Handler /\ d.out = "none" /\ d.pc = k.pc /\ d.job = k.job
      BY DEF Handler
    <2>2. d.attempt = k.attempt /\ d.chan = "closed"
      BY DEF Handler
    <2>3. Detached(k) = d
      BY <1>2 DEF Detached
    <2> QED BY <2>1, <2>2, <2>3
  <1> QED BY <1>1, <1>2

\* Losing a process or a connection leaves well-typed handlers and queues.
LEMMA DieType ==
    ASSUME TypeInv, NEW w \in Workers, Die(w)
    PROVE  /\ handler' \in [Handlers -> Handler]
           /\ mainQ' \in [Messages -> Nat]
           /\ \A h \in Handlers : handler'[h] = Idle \/ handler'[h] = handler[h]
  BY IdleType DEF TypeInv, TypeOK, Die, Requeue

-----------------------------------------------------------------------------
(* Type correctness.                                                       *)

\* Only the fields of one handler change: its control state stays typed.
LEMMA GoToType ==
    ASSUME handler \in [Handlers -> Handler], NEW h \in Handlers,
           NEW pc \in {"ackTry", "ackBare", "acked", "backoff", "nacked",
                       "complete", "retry", "deadLetter", "pubRetry", "pubDead"},
           GoTo(h, pc)
    PROVE  /\ handler' \in [Handlers -> Handler]
           /\ handler'[h].pc = pc
           /\ \A g \in Handlers : handler'[g].job = handler[g].job
           /\ \A g \in Handlers \ {h} : handler'[g] = handler[g]
  BY DEF GoTo, Handler

\* What an exception or an outcome can lead to.
LEMMA AfterProcessType ==
    ASSUME NEW outcome \in Outcomes, NEW attempt \in Nat
    PROVE  AfterProcess(outcome, attempt) \in Marking
  BY TableAssumption DEF Outcomes, AfterProcess, exhausted

\* The typed, well-formed states include the initial ones.
LEMMA TypeInit == Init => TypeInv
  <1> SUFFICES ASSUME Init PROVE TypeInv
    OBVIOUS
  <1>1. TypeOK
    <2>1. NoRow \in Row
      BY DEF Row, Status, NoRow, NewRow
    <2>2. faults \in FaultRecord
      BY WorkerAssumption DEF Init, FaultRecord
    <2> QED BY <2>1, <2>2, IdleType DEF Init, TypeOK
  <1>2. WellFormed
    BY DEF Init, WellFormed, NoRow, NewRow, Idle
  <1> QED BY <1>1, <1>2 DEF TypeInv

\* The API's transactions and its dispatcher keep the types.
LEMMA TypeApi ==
    ASSUME TypeInv, NEW j \in Jobs,
           Create(j) \/ Replay(j) \/ Dispatch(j) \/ Redispatch(j)
    PROVE  TypeInv'
  <1> USE DEF TypeInv, TypeOK
  <1>1. CASE Create(j)
    <2>1. PICK p \in Payloads : jobs' = [jobs EXCEPT ![j] = NewRow(p)]
      BY <1>1 DEF Create
    <2>2. NewRow(p) \in Row /\ NewRow(p).payload = p /\ NewRow(p).status = "QUEUED"
      BY DEF NewRow, Row, Status
    <2>3. TypeOK'
      BY <1>1, <2>1, <2>2 DEF Create
    <2>4. WellFormed'
      BY <1>1, <2>1, <2>2 DEF Create, WellFormed
    <2> QED BY <2>3, <2>4
  <1>2. CASE Replay(j)
    <2>1. jobs[j] \in Row
      OBVIOUS
    <2>2. /\ claimReplay(jobs[j]) \in Row
          /\ claimReplay(jobs[j]).payload = jobs[j].payload
          /\ claimReplay(jobs[j]).status = "QUEUED"
      BY <2>1, RowTypes, RowsStay
    <2>3. TypeOK'
      BY <1>2, <2>2 DEF Replay
    <2>4. WellFormed'
      BY <1>2, <2>2 DEF Replay, WellFormed, Replayable
    <2> QED BY <2>3, <2>4
  <1>3. CASE Dispatch(j)
    BY <1>3 DEF Dispatch, WellFormed
  <1>4. CASE Redispatch(j)
    BY <1>4, FaultType DEF Redispatch, WellFormed
  <1> QED BY <1>1, <1>2, <1>3, <1>4

\* A delivery keeps the types.
LEMMA TypeDeliver ==
    ASSUME TypeInv, NEW h \in Handlers, NEW m \in Messages, Deliver(h, m)
    PROVE  TypeInv'
  <1> DEFINE new == [Idle EXCEPT !.pc = "claim", !.job = m]
  <1>1. new \in Handler /\ new.pc = "claim"
    BY DEF Handler, Idle
  <1>2. handler' = [handler EXCEPT ![h] = new] /\ mainQ[m] > 0
    BY DEF Deliver
  <1> HIDE DEF new
  <1>3. TypeOK'
    BY <1>1, <1>2 DEF Deliver, TypeInv, TypeOK
  <1>4. WellFormed'
    BY <1>1, <1>2 DEF Deliver, TypeInv, TypeOK, WellFormed
  <1> QED BY <1>3, <1>4 DEF TypeInv

\* A retry message that expires keeps the types.
LEMMA TypeRetryExpires ==
    ASSUME TypeInv, NEW j \in Jobs, RetryExpires(j)
    PROVE  TypeInv'
  BY DEF RetryExpires, TypeInv, TypeOK, WellFormed

\* The broker's receipt of a publish, an ack or a nack keeps the types.
LEMMA TypeSettle ==
    ASSUME TypeInv, NEW h \in Handlers,
           Flush(h) \/ AckArrives(h) \/ NackArrives(h)
    PROVE  TypeInv'
  <1> USE DEF TypeInv, TypeOK
  <1>1. CASE Flush(h)
    <2>1. /\ handler' \in [Handlers -> Handler]
          /\ \A g \in Handlers : /\ handler'[g].pc = handler[g].pc
                                 /\ handler'[g].job = handler[g].job
      BY <1>1 DEF Flush, Handler
    <2>2. TypeOK'
      BY <1>1, <2>1 DEF Flush
    <2>3. WellFormed'
      BY <1>1, <2>1 DEF Flush, WellFormed
    <2> QED BY <2>2, <2>3
  <1>2. CASE AckArrives(h)
    BY <1>2, IdleType DEF AckArrives, WellFormed, Idle
  <1>3. CASE NackArrives(h)
    <2>1. mainQ' \in [Messages -> Nat]
      <3>1. \A m \in Messages : mainQ'[m] \in {mainQ[m], mainQ[m] + 1}
        BY <1>3 DEF NackArrives
      <3>2. mainQ' = [m \in Messages |-> mainQ'[m]]
        BY <1>3 DEF NackArrives
      <3>3. \A m \in Messages : mainQ'[m] \in Nat
        BY <3>1
      <3> QED BY <3>2, <3>3
    <2>2. TypeOK'
      BY <1>3, <2>1, IdleType DEF NackArrives
    <2>3. WellFormed'
      BY <1>3 DEF NackArrives, WellFormed, Idle
    <2> QED BY <2>2, <2>3
  <1> QED BY <1>1, <1>2, <1>3

\* The claim, won, lost or failed, keeps the types.
LEMMA TypeClaim ==
    ASSUME TypeInv, NEW h \in Handlers,
           \/ DiscardMalformed(h) \/ ClaimWins(h)
           \/ ClaimMisses(h) \/ ClaimFails(h)
    PROVE  TypeInv'
  <1> DEFINE j == handler[h].job
  <1> USE DEF TypeInv, TypeOK
  <1>0. ASSUME j \in Jobs
        PROVE  /\ claimJob(jobs[j]) \in Row
               /\ claimJob(jobs[j]).payload = jobs[j].payload
               /\ claimJob(jobs[j]).status = "PROCESSING"
    <2>1. jobs[j] \in Row
      BY <1>0
    <2> QED BY <2>1, RowTypes, RowsStay
  <1>1. CASE DiscardMalformed(h) \/ ClaimMisses(h)
    <2>1. \E pc \in {"ackTry", "ackBare"} : GoTo(h, pc)
      BY <1>1 DEF DiscardMalformed, ClaimMisses
    <2>2. PICK pc \in {"ackTry", "ackBare"} : GoTo(h, pc)
      BY <2>1
    <2>3. /\ handler' \in [Handlers -> Handler]
          /\ handler'[h].pc = pc
          /\ \A g \in Handlers : handler'[g].job = handler[g].job
          /\ \A g \in Handlers \ {h} : handler'[g] = handler[g]
      BY <2>2, GoToType
    <2>4. TypeOK'
      BY <1>1, <2>3 DEF DiscardMalformed, ClaimMisses
    <2>5. WellFormed'
      BY <1>1, <2>3 DEF DiscardMalformed, ClaimMisses, WellFormed
    <2> QED BY <2>4, <2>5
  <1>2. CASE ClaimWins(h)
    <2>1. j \in Jobs /\ Claimable(jobs[j]) /\ jobs[j].attempt_count \in Nat
      BY <1>2 DEF ClaimWins, Row
    <2>2. jobs' = [jobs EXCEPT ![j] = claimJob(jobs[j])]
      BY <1>2 DEF ClaimWins
    <2>3. /\ handler' \in [Handlers -> Handler]
          /\ \A g \in Handlers : handler'[g].job = handler[g].job
          /\ \A g \in Handlers \ {h} : handler'[g] = handler[g]
      <3> DEFINE n == jobs[j].attempt_count + 1
                 new == [handler[h] EXCEPT !.pc = "process", !.attempt = n]
      <3>1. n \in Nat
        BY <2>1
      <3>2. handler' = [handler EXCEPT ![h] = new]
        BY <1>2 DEF ClaimWins
      <3>3. new \in Handler /\ new.job = handler[h].job
        <4> HIDE DEF n
        <4> QED BY <3>1 DEF Handler
      <3> HIDE DEF new
      <3> QED BY <3>2, <3>3
    <2>4. TypeOK'
      BY <1>0, <1>2, <2>1, <2>2, <2>3 DEF ClaimWins
    <2>5. WellFormed'
      BY <1>0, <1>2, <2>1, <2>2, <2>3 DEF ClaimWins, Claimable, WellFormed
    <2> QED BY <2>4, <2>5
  <1>3. CASE ClaimFails(h)
    <2>1. GoTo(h, "backoff")
      BY <1>3 DEF ClaimFails
    <2>2. /\ handler' \in [Handlers -> Handler]
          /\ handler'[h].pc = "backoff"
          /\ \A g \in Handlers : handler'[g].job = handler[g].job
          /\ \A g \in Handlers \ {h} : handler'[g] = handler[g]
      BY <2>1, GoToType
    <2>3. \/ UNCHANGED <<jobs, owner>>
          \/ /\ j \in Jobs /\ Claimable(jobs[j])
             /\ jobs' = [jobs EXCEPT ![j] = claimJob(jobs[j])]
             /\ owner' = [owner EXCEPT ![j] = h]
      BY <1>3 DEF ClaimFails
    <2>4. TypeOK'
      BY <1>0, <1>3, <2>2, <2>3, FaultType DEF ClaimFails
    <2>5. WellFormed'
      BY <1>0, <2>2, <2>3 DEF Claimable, WellFormed
    <2> QED BY <2>4, <2>5
  <1> QED BY <1>1, <1>2, <1>3

\* processJob() ends in one of the three outcomes that are recorded.
LEMMA TypeProcess ==
    ASSUME TypeInv, NEW h \in Handlers, Process(h)
    PROVE  /\ TypeInv'
           /\ handler'[h].pc \in Marking
           /\ \A g \in Handlers : /\ handler'[g].job = handler[g].job
                                  /\ handler'[g].attempt = handler[g].attempt
           /\ \A g \in Handlers \ {h} : handler'[g] = handler[g]
           /\ handler'[h].pc = "retry" => ~ exhausted(handler[h].attempt)
  <1> USE DEF TypeInv, TypeOK
  <1>1. handler[h].job \in Jobs /\ handler[h].attempt \in Nat
    BY DEF Process, At, WellFormed, Handler
  <1>2. jobs[handler[h].job].payload \in Payloads
    BY <1>1 DEF Process, At, WellFormed
  <1>3. PICK outcome \in Outcomes :
            GoTo(h, AfterProcess(outcome, handler[h].attempt))
    BY <1>2, WorkerAssumption DEF Process
  <1>4. AfterProcess(outcome, handler[h].attempt) \in Marking
    BY <1>1, AfterProcessType
  <1>5. AfterProcess(outcome, handler[h].attempt) = "retry"
            => ~ exhausted(handler[h].attempt)
    BY <1>1, TableAssumption DEF AfterProcess, Outcomes, exhausted
  <1>6. /\ handler' \in [Handlers -> Handler]
        /\ handler'[h].pc = AfterProcess(outcome, handler[h].attempt)
        /\ \A g \in Handlers : /\ handler'[g].job = handler[g].job
                               /\ handler'[g].attempt = handler[g].attempt
        /\ \A g \in Handlers \ {h} : handler'[g] = handler[g]
    <2> HIDE DEF Marking
    <2> DEFINE pc == AfterProcess(outcome, handler[h].attempt)
    <2>1. pc \in {"complete", "retry", "deadLetter"}
      BY <1>4 DEF Marking
    <2> HIDE DEF pc
    <2>2. handler' = [handler EXCEPT ![h].pc = pc]
      BY <1>3 DEF GoTo, pc
    <2>3. handler' \in [Handlers -> Handler] /\ handler'[h].pc = pc
      BY <2>1, <2>2 DEF Handler, Marking
    <2>4. /\ \A g \in Handlers : /\ handler'[g].job = handler[g].job
                                 /\ handler'[g].attempt = handler[g].attempt
          /\ \A g \in Handlers \ {h} : handler'[g] = handler[g]
      BY <2>2 DEF Handler
    <2> QED BY <2>3, <2>4 DEF pc
  <1>7. TypeOK'
    BY <1>6 DEF Process
  <1>8. WellFormed'
    BY <1>1, <1>6 DEF Process, At, WellFormed
  <1> QED BY <1>4, <1>5, <1>6, <1>7, <1>8

\* Recording an outcome, done, missed or failed, keeps the types.
LEMMA TypeMark ==
    ASSUME TypeInv, NEW h \in Handlers,
           \/ MarkCompleted(h) \/ MarkRetrying(h) \/ MarkDeadLettered(h)
           \/ MarkMisses(h) \/ MarkFails(h)
    PROVE  TypeInv'
  <1> DEFINE j == handler[h].job
  <1> USE DEF TypeInv, TypeOK
  <1>1. handler[h].pc \in Marking
    BY DEF MarkCompleted, MarkRetrying, MarkDeadLettered, MarkMisses,
           MarkFails, At
  <1>2. j \in Jobs /\ jobs[j] \in Row /\ jobs[j].status # "ABSENT"
    BY <1>1 DEF WellFormed
  <1>3. PICK pc \in {"ackTry", "pubRetry", "pubDead", "backoff"} : GoTo(h, pc)
    BY DEF MarkCompleted, MarkRetrying, MarkDeadLettered, MarkMisses, MarkFails
  <1>4. /\ handler' \in [Handlers -> Handler]
        /\ \A g \in Handlers : handler'[g].job = handler[g].job
        /\ \A g \in Handlers \ {h} : handler'[g] = handler[g]
    BY <1>3, GoToType
  <1>5. \/ UNCHANGED jobs
        \/ \E r \in Row : /\ jobs' = [jobs EXCEPT ![j] = r]
                          /\ r.payload = jobs[j].payload
                          /\ r.status # "ABSENT"
    <2>1. CASE MarkCompleted(h)
      <3>1. jobs' = [jobs EXCEPT ![j] = markCompleted(jobs[j])]
        BY <2>1 DEF MarkCompleted
      <3>2. /\ markCompleted(jobs[j]) \in Row
            /\ markCompleted(jobs[j]).payload = jobs[j].payload
            /\ markCompleted(jobs[j]).status # "ABSENT"
        BY <1>2, RowTypes, RowsStay
      <3> QED BY <3>1, <3>2
    <2>2. CASE MarkRetrying(h)
      <3>1. jobs' = [jobs EXCEPT ![j] = markRetrying(jobs[j])]
        BY <2>2 DEF MarkRetrying
      <3>2. /\ markRetrying(jobs[j]) \in Row
            /\ markRetrying(jobs[j]).payload = jobs[j].payload
            /\ markRetrying(jobs[j]).status # "ABSENT"
        BY <1>2, RowTypes, RowsStay
      <3> QED BY <3>1, <3>2
    <2>3. CASE MarkDeadLettered(h)
      <3>1. jobs' = [jobs EXCEPT ![j] = markDeadLettered(jobs[j])]
        BY <2>3 DEF MarkDeadLettered
      <3>2. /\ markDeadLettered(jobs[j]) \in Row
            /\ markDeadLettered(jobs[j]).payload = jobs[j].payload
            /\ markDeadLettered(jobs[j]).status # "ABSENT"
        BY <1>2, RowTypes, RowsStay
      <3> QED BY <3>1, <3>2
    <2>4. CASE MarkMisses(h)
      BY <2>4 DEF MarkMisses
    <2>5. CASE MarkFails(h)
      BY <1>1, <1>2, <2>5, MarkedTypes DEF MarkFails
    <2> QED BY <2>1, <2>2, <2>3, <2>4, <2>5
  <1>6. faults' \in FaultRecord
    BY FaultType DEF MarkCompleted, MarkRetrying, MarkDeadLettered, MarkMisses,
                     MarkFails
  <1>7. UNCHANGED <<outbox, mainQ, retryQ, dlq, owner>>
    BY DEF MarkCompleted, MarkRetrying, MarkDeadLettered, MarkMisses, MarkFails
  <1>8. TypeOK'
    BY <1>2, <1>4, <1>5, <1>6, <1>7
  <1>9. WellFormed'
    BY <1>1, <1>2, <1>4, <1>5 DEF WellFormed
  <1> QED BY <1>8, <1>9

\* Publishing keeps the types.
LEMMA TypePublish ==
    ASSUME TypeInv, NEW h \in Handlers,
           Publish(h) \/ PublishFull(h) \/ PublishThrows(h)
    PROVE  TypeInv'
  <1> USE DEF TypeInv, TypeOK
  <1>1. \E pc \in {"ackBare", "backoff"}, out \in {"none", "retry", "dead"} :
            handler' = [handler EXCEPT ![h] =
                           [handler[h] EXCEPT !.pc = pc, !.out = out]]
    <2>1. CASE Publish(h) \/ PublishFull(h)
      BY <2>1 DEF Publish, PublishFull, Frame
    <2>2. CASE PublishThrows(h)
      <3>1. handler' = [handler EXCEPT ![h] = [handler[h] EXCEPT
                           !.pc = "backoff", !.out = handler[h].out]]
        BY <2>2 DEF PublishThrows, GoTo, Handler
      <3>2. handler[h].out \in {"none", "retry", "dead"}
        BY DEF Handler
      <3> QED BY <3>1, <3>2
    <2> QED BY <2>1, <2>2
  <1>2. PICK pc \in {"ackBare", "backoff"}, out \in {"none", "retry", "dead"} :
            handler' = [handler EXCEPT ![h] =
                           [handler[h] EXCEPT !.pc = pc, !.out = out]]
    BY <1>1
  <1>3. /\ handler' \in [Handlers -> Handler]
        /\ handler'[h].pc = pc
        /\ \A g \in Handlers \ {h} : handler'[g] = handler[g]
    BY <1>2 DEF Handler
  <1>4. TypeOK'
    BY <1>3, FaultType DEF Publish, PublishFull, PublishThrows
  <1>5. WellFormed'
    BY <1>3 DEF Publish, PublishFull, PublishThrows, WellFormed
  <1> QED BY <1>4, <1>5

\* Settling a message, or dying of it, keeps the types.
LEMMA TypeAck ==
    ASSUME TypeInv, NEW h \in Handlers, Ack(h) \/ Nack(h) \/ ThrowOnNull(h)
    PROVE  TypeInv'
  <1> USE DEF TypeInv, TypeOK
  <1>1. UNCHANGED <<jobs, outbox, retryQ, dlq, owner, faults>>
    BY DEF Ack, Nack, ThrowOnNull
  <1>2. CASE Die(WorkerOf[h])
    <2>1. WorkerOf[h] \in Workers
      BY WorkerAssumption
    <2>2. /\ handler' \in [Handlers -> Handler]
          /\ mainQ' \in [Messages -> Nat]
          /\ \A g \in Handlers : handler'[g] = Idle \/ handler'[g] = handler[g]
      BY <1>2, <2>1, DieType
    <2> QED BY <1>1, <2>2 DEF WellFormed, Idle
  <1>3. CASE UNCHANGED mainQ /\ \E pc \in {"acked", "backoff", "nacked"} : GoTo(h, pc)
    <2>1. PICK pc \in {"acked", "backoff", "nacked"} : GoTo(h, pc)
      BY <1>3
    <2>2. /\ handler' \in [Handlers -> Handler]
          /\ handler'[h].pc = pc
          /\ \A g \in Handlers : handler'[g].job = handler[g].job
          /\ \A g \in Handlers \ {h} : handler'[g] = handler[g]
      BY <2>1, GoToType
    <2> QED BY <1>1, <1>3, <2>2 DEF WellFormed
  <1> QED BY <1>2, <1>3 DEF Ack, Nack, ThrowOnNull

\* Crashes, lost connections and the passing of time keep the types.
LEMMA TypeEnvironment ==
    ASSUME TypeInv, EnvironmentNext
    PROVE  TypeInv'
  <1> USE DEF TypeInv, TypeOK
  <1>1. ASSUME NEW w \in Workers, Crash(w) PROVE TypeInv'
    <2>1. /\ handler' \in [Handlers -> Handler]
          /\ mainQ' \in [Messages -> Nat]
          /\ \A g \in Handlers : handler'[g] = Idle \/ handler'[g] = handler[g]
      BY <1>1, DieType DEF Crash
    <2> QED BY <1>1, <2>1, FaultType DEF Crash, WellFormed, Idle
  <1>2. ASSUME NEW w \in Workers, Drop(w) PROVE TypeInv'
    <2>0. Requeue(w)
      BY <1>2 DEF Drop
    <2>1. mainQ' \in [Messages -> Nat]
      BY <2>0 DEF Requeue
    <2>3. \A h \in Handlers :
            /\ handler'[h] \in Handler
            /\ \/ handler'[h].pc = "idle"
               \/ /\ handler'[h].pc = handler[h].pc
                  /\ handler'[h].job = handler[h].job
      BY <1>2, DetachedType DEF Drop
    <2>4. handler' \in [Handlers -> Handler]
      BY <1>2, <2>3 DEF Drop
    <2>5. UNCHANGED <<jobs, outbox, retryQ, dlq, owner>> /\ faults' \in FaultRecord
      BY <1>2, FaultType DEF Drop
    <2>6. TypeOK'
      BY <2>1, <2>4, <2>5
    <2>7. WellFormed'
      BY <2>3, <2>5 DEF WellFormed
    <2> QED BY <2>6, <2>7
  <1>3. ASSUME NEW j \in Jobs, GoStale(j) PROVE TypeInv'
    <2>1. /\ jobs' \in [Jobs -> Row]
          /\ \A i \in Jobs : /\ jobs'[i].status = jobs[i].status
                             /\ jobs'[i].payload = jobs[i].payload
      BY <1>3 DEF GoStale, Row
    <2>2. faults' \in FaultRecord
      BY <1>3, FaultType DEF GoStale
    <2> QED BY <1>3, <2>1, <2>2 DEF GoStale, WellFormed
  <1> QED BY <1>1, <1>2, <1>3 DEF EnvironmentNext

\* Every step keeps the types.
LEMMA TypeNext == TypeInv /\ [Next]_vars => TypeInv'
  <1> SUFFICES ASSUME TypeInv, [Next]_vars PROVE TypeInv'
    OBVIOUS
  <1>1. CASE ApiNext
    BY <1>1, TypeApi DEF ApiNext
  <1>2. CASE BrokerNext
    BY <1>2, TypeDeliver, TypeRetryExpires, TypeSettle DEF BrokerNext
  <1>3. CASE HandlerNext
    BY <1>3, TypeClaim, TypeProcess, TypeMark, TypePublish, TypeAck
       DEF HandlerNext
  <1>4. CASE EnvironmentNext
    BY <1>4, TypeEnvironment
  <1>5. CASE UNCHANGED vars
    BY <1>5 DEF vars, TypeInv, TypeOK, WellFormed
  <1> QED BY <1>1, <1>2, <1>3, <1>4, <1>5 DEF Next

\* The inductive invariant: types, every row in use has its payload, and
\* every handler that has claimed works on an existing row.
LEMMA TypeInvariant == Spec => []TypeInv
  BY TypeInit, TypeNext, PTL DEF Spec

\* Whatever the faults, the table, the queues and the handlers keep their
\* types: no handler judges an outcome on a row that is not there, and no
\* queue or outbox count goes below zero.
THEOREM TypeCorrect == Spec => []TypeOK
  <1>1. TypeInv => TypeOK
    BY DEF TypeInv
  <1> QED BY <1>1, TypeInvariant, PTL

-----------------------------------------------------------------------------
(* Fencing: without overruns, who works on a job holds it.                 *)

\* ClaimHeld and WithinBudget need each other's company, and the fact
\* that a handler about to retry has judged its attempt not exhausted.
RetryJudged == \A h \in Handlers :
    At(h, "retry") => ~ exhausted(handler[h].attempt)

Fence == ClaimHeld /\ RetryJudged /\ WithinBudget

FenceInv == TypeInv /\ Fence

\* The inductive invariant: the fence stands until there is an overrun.
FencedInv == TypeInv /\ (~ Happened({"overrun"}) => Fence)

\* A step after which every working handler is one that worked before, on
\* the same job and attempt.
Calm == \A h \in Handlers : handler'[h].pc \in WorkingPc =>
    /\ handler[h].pc \in WorkingPc
    /\ handler'[h].job = handler[h].job
    /\ handler'[h].attempt = handler[h].attempt
    /\ handler'[h].pc = "retry" => handler[h].pc = "retry"

\* What the statements do to the attempt counter.
LEMMA RowCounts ==
    ASSUME NEW r \in Row
    PROVE  /\ claimJob(r).attempt_count = r.attempt_count + 1
           /\ claimJob(r).updated_at = "recent"
           /\ markCompleted(r).attempt_count = r.attempt_count
           /\ markRetrying(r).attempt_count = r.attempt_count
           /\ markDeadLettered(r).attempt_count = r.attempt_count
           /\ claimReplay(r).attempt_count = 0
  BY DEF Row, claimJob, markCompleted, markRetrying, markDeadLettered,
         claimReplay

\* A calm step that leaves table and owners alone keeps the fence.
LEMMA FenceCalm ==
    ASSUME FenceInv, Calm, UNCHANGED <<jobs, owner>>
    PROVE  Fence'
  BY DEF FenceInv, Fence, Calm, ClaimHeld, RetryJudged, WithinBudget,
         Working, At

\* So does a calm step that rewrites the row of a job nobody is left
\* working on, provided a row that then waits has an attempt left.
LEMMA FenceMove ==
    ASSUME FenceInv, Calm, NEW j \in Jobs, NEW r \in Row,
           jobs' = [jobs EXCEPT ![j] = r],
           \A i \in Jobs \ {j} : owner'[i] = owner[i],
           \A h \in Handlers : ~ Working(h, j)',
           r.status \in {"QUEUED", "RETRYING"} => r.attempt_count < MaxAttempts
    PROVE  Fence'
  <1> USE DEF FenceInv, TypeInv, TypeOK, Fence
  <1>1. \A i \in Jobs \ {j} : jobs'[i] = jobs[i]
    OBVIOUS
  <1>2. ClaimHeld'
    <2> SUFFICES ASSUME NEW h \in Handlers, NEW i \in Jobs, Working(h, i)'
                 PROVE  (/\ owner[i] = h
                         /\ jobs[i].status = "PROCESSING"
                         /\ jobs[i].updated_at = "recent"
                         /\ jobs[i].attempt_count = handler[h].attempt)'
      BY DEF ClaimHeld
    <2>1. i # j
      OBVIOUS
    <2>2. Working(h, i) /\ handler'[h].attempt = handler[h].attempt
      BY DEF Calm, Working
    <2> QED BY <1>1, <2>1, <2>2 DEF ClaimHeld
  <1>3. RetryJudged'
    BY DEF RetryJudged, Calm, At
  <1>4. WithinBudget'
    BY <1>1 DEF WithinBudget
  <1> QED BY <1>2, <1>3, <1>4

\* Nobody works on a job that can be claimed, inserted or replayed.
LEMMA FenceFree ==
    ASSUME FenceInv, NEW j \in Jobs,
           Claimable(jobs[j]) \/ jobs[j].status # "PROCESSING"
    PROVE  \A h \in Handlers : ~ Working(h, j)
  BY DEF FenceInv, Fence, ClaimHeld, Claimable

\* The table is empty and nobody works at first.
LEMMA FenceInit == Init => Fence
  BY TableAssumption DEF Init, Fence, ClaimHeld, RetryJudged, WithinBudget,
     Working, At, Idle, NoRow, NewRow

\* createJob(), claimReplay() and the dispatcher keep the fence.
LEMMA FenceApi ==
    ASSUME FenceInv, NEW j \in Jobs,
           Create(j) \/ Replay(j) \/ Dispatch(j) \/ Redispatch(j)
    PROVE  Fence'
  <1>0. Calm
    BY DEF Create, Replay, Dispatch, Redispatch, Calm
  <1>1. CASE Create(j)
    <2>1. PICK p \in Payloads : jobs' = [jobs EXCEPT ![j] = NewRow(p)]
      BY <1>1 DEF Create
    <2>2. NewRow(p) \in Row /\ NewRow(p).attempt_count = 0
      BY DEF NewRow, Row, Status
    <2>3. \A h \in Handlers : ~ Working(h, j)'
      BY <1>1, FenceFree DEF Create, Working
    <2>4. UNCHANGED owner
      BY <1>1 DEF Create
    <2>5. 0 < MaxAttempts
      BY TableAssumption
    <2> QED BY <1>0, <2>1, <2>2, <2>3, <2>4, <2>5, FenceMove
  <1>2. CASE Replay(j)
    <2>1. jobs[j] \in Row
      BY DEF FenceInv, TypeInv, TypeOK
    <2>2. claimReplay(jobs[j]) \in Row /\ claimReplay(jobs[j]).attempt_count = 0
      BY <2>1, RowTypes, RowCounts
    <2>3. jobs' = [jobs EXCEPT ![j] = claimReplay(jobs[j])] /\ UNCHANGED owner
      BY <1>2 DEF Replay
    <2>4. \A h \in Handlers : ~ Working(h, j)'
      BY <1>2, FenceFree DEF Replay, Replayable, Working
    <2>5. 0 < MaxAttempts
      BY TableAssumption
    <2> QED BY <1>0, <2>2, <2>3, <2>4, <2>5, FenceMove
  <1>3. CASE Dispatch(j) \/ Redispatch(j)
    BY <1>0, <1>3, FenceCalm DEF Dispatch, Redispatch
  <1> QED BY <1>1, <1>2, <1>3

\* The broker's steps and those that only settle a message keep the fence:
\* they start nobody working.
LEMMA FenceQuiet ==
    ASSUME FenceInv, NEW h \in Handlers,
           \/ \E m \in Messages : Deliver(h, m)
           \/ \E j \in Jobs : RetryExpires(j)
           \/ Flush(h) \/ AckArrives(h) \/ NackArrives(h)
           \/ DiscardMalformed(h) \/ ClaimMisses(h) \/ MarkMisses(h)
           \/ Publish(h) \/ PublishFull(h) \/ PublishThrows(h)
           \/ Ack(h) \/ Nack(h) \/ ThrowOnNull(h)
    PROVE  Fence'
  <1> USE DEF FenceInv, TypeInv, TypeOK
  <1>1. UNCHANGED <<jobs, owner>>
    BY DEF Deliver, RetryExpires, Flush, AckArrives, NackArrives,
           DiscardMalformed, ClaimMisses, MarkMisses, Publish, PublishFull,
           PublishThrows, Ack, Nack, ThrowOnNull
  <1>2. Calm
    <2>1. CASE \E m \in Messages : Deliver(h, m)
      <3>1. PICK m \in Messages : Deliver(h, m)
        BY <2>1
      <3> DEFINE new == [Idle EXCEPT !.pc = "claim", !.job = m]
      <3>2. new.pc = "claim"
        BY DEF Idle
      <3>3. handler' = [handler EXCEPT ![h] = new]
        BY <3>1 DEF Deliver
      <3> HIDE DEF new
      <3> QED BY <3>2, <3>3 DEF Calm
    <2>2. CASE \E j \in Jobs : RetryExpires(j)
      BY <2>2 DEF RetryExpires, Calm
    <2>3. CASE Flush(h)
      BY <2>3 DEF Flush, Calm, Handler
    <2>4. CASE AckArrives(h) \/ NackArrives(h)
      BY <2>4 DEF AckArrives, NackArrives, Calm, Idle
    <2>5. CASE \/ DiscardMalformed(h) \/ ClaimMisses(h) \/ MarkMisses(h)
               \/ PublishThrows(h)
      <3>1. \E pc \in {"ackBare", "ackTry", "backoff"} : GoTo(h, pc)
        BY <2>5 DEF DiscardMalformed, ClaimMisses, MarkMisses, PublishThrows
      <3> QED BY <3>1 DEF GoTo, Calm, Handler
    <2>6. CASE Publish(h) \/ PublishFull(h)
      BY <2>6 DEF Publish, PublishFull, Calm, Handler
    <2>7. CASE Ack(h) \/ Nack(h) \/ ThrowOnNull(h)
      <3>1. \/ \E pc \in {"acked", "backoff", "nacked"} : GoTo(h, pc)
            \/ Die(WorkerOf[h])
        BY <2>7 DEF Ack, Nack, ThrowOnNull
      <3>2. CASE \E pc \in {"acked", "backoff", "nacked"} : GoTo(h, pc)
        BY <3>2 DEF GoTo, Calm, Handler
      <3>3. CASE Die(WorkerOf[h])
        BY <3>3 DEF Die, Calm, Idle
      <3> QED BY <3>1, <3>2, <3>3
    <2> QED BY <2>1, <2>2, <2>3, <2>4, <2>5, <2>6, <2>7
  <1> QED BY <1>1, <1>2, FenceCalm

\* A claim keeps the fence: no working handler is robbed by it.
LEMMA FenceClaim ==
    ASSUME FenceInv, NEW h \in Handlers, ClaimWins(h) \/ ClaimFails(h)
    PROVE  Fence'
  <1> DEFINE j == handler[h].job
  <1> USE DEF FenceInv, TypeInv, TypeOK
  <1>0. ASSUME j \in Jobs
        PROVE  /\ claimJob(jobs[j]) \in Row
               /\ claimJob(jobs[j]).status = "PROCESSING"
               /\ claimJob(jobs[j]).updated_at = "recent"
               /\ claimJob(jobs[j]).attempt_count = jobs[j].attempt_count + 1
    <2>1. jobs[j] \in Row
      BY <1>0
    <2> QED BY <2>1, RowTypes, RowsStay, RowCounts
  <1>1. CASE ClaimWins(h)
    <2>1. /\ j \in Jobs /\ Claimable(jobs[j]) /\ At(h, "claim")
          /\ jobs' = [jobs EXCEPT ![j] = claimJob(jobs[j])]
          /\ owner' = [owner EXCEPT ![j] = h]
      BY <1>1 DEF ClaimWins
    <2>2. /\ handler'[h].pc = "process"
          /\ handler'[h].job = j
          /\ handler'[h].attempt = jobs[j].attempt_count + 1
          /\ \A g \in Handlers \ {h} : handler'[g] = handler[g]
      <3> DEFINE n == jobs[j].attempt_count + 1
      <3>1. handler' = [handler EXCEPT ![h] =
                          [handler[h] EXCEPT !.pc = "process", !.attempt = n]]
        BY <1>1 DEF ClaimWins
      <3> HIDE DEF n
      <3>2. /\ handler'[h].pc = "process"
            /\ handler'[h].job = j
            /\ handler'[h].attempt = n
        BY <3>1 DEF Handler
      <3>3. \A g \in Handlers \ {h} : handler'[g] = handler[g]
        BY <3>1
      <3> QED BY <3>2, <3>3 DEF n
    <2>3. \A g \in Handlers : ~ Working(g, j)
      BY <2>1, FenceFree
    <2>4. ClaimHeld'
      <3> SUFFICES ASSUME NEW g \in Handlers, NEW i \in Jobs, Working(g, i)'
                   PROVE  (/\ owner[i] = g
                           /\ jobs[i].status = "PROCESSING"
                           /\ jobs[i].updated_at = "recent"
                           /\ jobs[i].attempt_count = handler[g].attempt)'
        BY DEF ClaimHeld
      <3>1. CASE g = h
        BY <1>0, <2>1, <2>2, <3>1 DEF Working
      <3>2. CASE g # h
        <4>1. Working(g, i) /\ i # j
          BY <2>2, <2>3, <3>2 DEF Working
        <4> QED BY <2>1, <2>2, <3>2, <4>1 DEF Fence, ClaimHeld
      <3> QED BY <3>1, <3>2
    <2>5. RetryJudged'
      BY <2>2 DEF Fence, RetryJudged, At
    <2>6. WithinBudget'
      BY <1>0, <2>1 DEF Fence, WithinBudget
    <2> QED BY <2>4, <2>5, <2>6 DEF Fence
  <1>2. CASE ClaimFails(h)
    <2>1. Calm /\ handler'[h].pc = "backoff"
          /\ \A g \in Handlers \ {h} : handler'[g] = handler[g]
      BY <1>2 DEF ClaimFails, GoTo, Calm, Handler
    <2>2. CASE UNCHANGED <<jobs, owner>>
      BY <2>1, <2>2, FenceCalm
    <2>3. CASE /\ j \in Jobs /\ Claimable(jobs[j])
               /\ jobs' = [jobs EXCEPT ![j] = claimJob(jobs[j])]
               /\ owner' = [owner EXCEPT ![j] = h]
      <3>0. PICK i \in Jobs : i = j
        BY <2>3
      <3>1. \A g \in Handlers : ~ Working(g, i)
        BY <2>3, <3>0, FenceFree
      <3>2. \A g \in Handlers : ~ Working(g, i)'
        BY <2>1, <3>1 DEF Working, Calm
      <3>3. /\ jobs' = [jobs EXCEPT ![i] = claimJob(jobs[i])]
            /\ \A k \in Jobs \ {i} : owner'[k] = owner[k]
        BY <2>3, <3>0
      <3>4. claimJob(jobs[i]) \in Row /\ claimJob(jobs[i]).status = "PROCESSING"
        BY <1>0, <3>0
      <3> QED BY <2>1, <3>2, <3>3, <3>4, FenceMove
    <2> QED BY <1>2, <2>2, <2>3 DEF ClaimFails
  <1> QED BY <1>1, <1>2

\* Judging the outcome keeps the fence.
LEMMA FenceProcess ==
    ASSUME FenceInv, NEW h \in Handlers, Process(h)
    PROVE  Fence'
  <1>1. /\ handler'[h].pc \in Marking
        /\ \A g \in Handlers : /\ handler'[g].job = handler[g].job
                               /\ handler'[g].attempt = handler[g].attempt
        /\ \A g \in Handlers \ {h} : handler'[g] = handler[g]
        /\ handler'[h].pc = "retry" => ~ exhausted(handler[h].attempt)
    BY TypeProcess DEF FenceInv
  <1>2. UNCHANGED <<jobs, owner>> /\ handler[h].pc \in WorkingPc
    BY DEF Process, At
  <1>3. ClaimHeld'
    BY <1>1, <1>2 DEF FenceInv, Fence, ClaimHeld, Working
  <1>4. RetryJudged'
    BY <1>1 DEF FenceInv, Fence, RetryJudged, At
  <1>5. WithinBudget'
    BY <1>2 DEF FenceInv, Fence, WithinBudget
  <1> QED BY <1>3, <1>4, <1>5 DEF Fence

\* Recording an outcome keeps the fence: it is the holder who records, and
\* a row is sent to wait only after an attempt that was not the last.
LEMMA FenceMark ==
    ASSUME FenceInv, NEW h \in Handlers,
           MarkCompleted(h) \/ MarkRetrying(h) \/ MarkDeadLettered(h) \/ MarkFails(h)
    PROVE  Fence'
  <1> USE DEF FenceInv, TypeInv, TypeOK
  <1>1. handler[h].pc \in Marking /\ handler[h].attempt \in Nat
    BY DEF MarkCompleted, MarkRetrying, MarkDeadLettered, MarkFails, At, Handler
  <1>2. PICK j \in Jobs : j = handler[h].job
    BY <1>1 DEF WellFormed
  <1> jobs[j] \in Row
    OBVIOUS
  <1>3. Working(h, j)
    BY <1>1, <1>2 DEF Working
  <1>4. /\ owner[j] = h /\ jobs[j].attempt_count = handler[h].attempt
        /\ \A g \in Handlers : Working(g, j) => g = h
    BY <1>2, <1>3 DEF Fence, ClaimHeld
  <1>5. /\ handler'[h].pc \in {"ackTry", "pubRetry", "pubDead", "backoff"}
        /\ \A g \in Handlers \ {h} : handler'[g] = handler[g]
    BY DEF MarkCompleted, MarkRetrying, MarkDeadLettered, MarkFails, GoTo, Handler
  <1>6. Calm /\ \A g \in Handlers : ~ Working(g, j)'
    BY <1>4, <1>5 DEF Calm, Working
  <1>7. UNCHANGED owner
    BY DEF MarkCompleted, MarkRetrying, MarkDeadLettered, MarkFails
  <1>8. \/ UNCHANGED jobs
        \/ \E r \in Row : /\ jobs' = [jobs EXCEPT ![j] = r]
                          /\ r.status \in {"QUEUED", "RETRYING"} =>
                                r.attempt_count < MaxAttempts
    <2>1. /\ markCompleted(jobs[j]) \in Row
          /\ markCompleted(jobs[j]).status = "COMPLETED"
          /\ markDeadLettered(jobs[j]) \in Row
          /\ markDeadLettered(jobs[j]).status = "DEAD_LETTERED"
          /\ markRetrying(jobs[j]) \in Row
          /\ markRetrying(jobs[j]).attempt_count = jobs[j].attempt_count
      BY <1>2, RowTypes, RowsStay, RowCounts
    <2>2. handler[h].pc = "retry" => jobs[j].attempt_count < MaxAttempts
      BY <1>1, <1>4, TableAssumption DEF Fence, RetryJudged, exhausted, At
    <2>3. CASE MarkCompleted(h)
      BY <1>2, <2>1, <2>3 DEF MarkCompleted
    <2>4. CASE MarkRetrying(h)
      <3>1. jobs' = [jobs EXCEPT ![j] = markRetrying(jobs[j])]
        BY <1>2, <2>4 DEF MarkRetrying
      <3>2. markRetrying(jobs[j]).attempt_count < MaxAttempts
        BY <2>1, <2>2, <2>4 DEF MarkRetrying, At
      <3> QED BY <2>1, <3>1, <3>2
    <2>5. CASE MarkDeadLettered(h)
      BY <1>2, <2>1, <2>5 DEF MarkDeadLettered
    <2>6. CASE MarkFails(h)
      <3>1. \/ UNCHANGED jobs
            \/ jobs' = [jobs EXCEPT ![j] = Marked(handler[h].pc, jobs[j])]
        BY <1>2, <2>6 DEF MarkFails
      <3>2. Marked(handler[h].pc, jobs[j]) \in Row
        BY <1>1, <1>2, MarkedTypes
      <3>3. Marked(handler[h].pc, jobs[j]).status \in {"QUEUED", "RETRYING"} =>
              Marked(handler[h].pc, jobs[j]).attempt_count < MaxAttempts
        BY <1>1, <2>1, <2>2 DEF Marked
      <3> QED BY <3>1, <3>2, <3>3
    <2> QED BY <2>3, <2>4, <2>5, <2>6
  <1>9. CASE UNCHANGED jobs
    BY <1>6, <1>7, <1>9, FenceCalm
  <1>10. CASE \E r \in Row : /\ jobs' = [jobs EXCEPT ![j] = r]
                             /\ r.status \in {"QUEUED", "RETRYING"} =>
                                   r.attempt_count < MaxAttempts
    BY <1>2, <1>6, <1>7, <1>10, FenceMove
  <1> QED BY <1>8, <1>9, <1>10

\* Faults keep the fence as long as none is an overrun: only a job nobody
\* works on grows stale.
LEMMA FenceEnvironment ==
    ASSUME FenceInv, EnvironmentNext, ~ Happened({"overrun"})'
    PROVE  Fence'
  <1> USE DEF FenceInv, TypeInv, TypeOK
  <1>1. ASSUME NEW w \in Workers, Crash(w) PROVE Fence'
    <2>1. Calm
      BY <1>1 DEF Crash, Die, Calm, Idle
    <2>2. UNCHANGED <<jobs, owner>>
      BY <1>1 DEF Crash
    <2> QED BY <2>1, <2>2, FenceCalm
  <1>2. ASSUME NEW w \in Workers, Drop(w) PROVE Fence'
    <2>1. Calm
      BY <1>2, DetachedType DEF Drop, Calm
    <2>2. UNCHANGED <<jobs, owner>>
      BY <1>2 DEF Drop
    <2> QED BY <2>1, <2>2, FenceCalm
  <1>3. ASSUME NEW j \in Jobs, GoStale(j) PROVE Fence'
    <2>1. \A h \in Handlers : ~ Working(h, j)
      BY <1>3 DEF GoStale, Fault, Happened
    <2>2. UNCHANGED <<handler, owner>> /\ jobs[j].status = "PROCESSING"
      BY <1>3 DEF GoStale
    <2>3. Calm /\ \A h \in Handlers : ~ Working(h, j)'
      BY <2>1, <2>2 DEF Calm, Working
    <2> DEFINE r == [jobs[j] EXCEPT !.updated_at = "stale"]
    <2>4. jobs[j] \in Row
      OBVIOUS
    <2>5. r \in Row /\ r.status = "PROCESSING"
      BY <2>2, <2>4 DEF Row
    <2>6. jobs' = [jobs EXCEPT ![j] = r]
      BY <1>3 DEF GoStale
    <2> HIDE DEF r
    <2> QED BY <2>2, <2>3, <2>5, <2>6, FenceMove
  <1> QED BY <1>1, <1>2, <1>3 DEF EnvironmentNext

\* A fault that has happened stays in the record.
LEMMA FaultsStay ==
    ASSUME [Next]_vars
    PROVE  faults' = faults \/ faults.kinds \subseteq faults'.kinds
  <1>0. ASSUME NEW k \in FaultKinds, Fault(k)
        PROVE  faults.kinds \subseteq faults'.kinds
    BY <1>0 DEF Fault
  <1> USE DEF FaultKinds
  <1>1. CASE ApiNext
    BY <1>0, <1>1 DEF ApiNext, Create, Replay, Dispatch, Redispatch
  <1>2. CASE BrokerNext
    BY <1>2 DEF BrokerNext, Deliver, RetryExpires, Flush, AckArrives, NackArrives
  <1>3. CASE HandlerNext
    BY <1>0, <1>3 DEF HandlerNext, DiscardMalformed, ClaimWins, ClaimMisses,
       ClaimFails, Process, MarkCompleted, MarkRetrying, MarkDeadLettered,
       MarkMisses, MarkFails, Publish, PublishFull, PublishThrows, Ack, Nack,
       ThrowOnNull
  <1>4. CASE EnvironmentNext
    BY <1>0, <1>4 DEF EnvironmentNext, Crash, Drop, GoStale
  <1>5. CASE UNCHANGED vars
    BY <1>5 DEF vars
  <1> QED BY <1>1, <1>2, <1>3, <1>4, <1>5 DEF Next

\* Every step that is not an overrun keeps the fence.
LEMMA FenceNext ==
    ASSUME FenceInv, [Next]_vars, ~ Happened({"overrun"})'
    PROVE  Fence'
  <1>1. CASE ApiNext
    BY <1>1, FenceApi DEF ApiNext
  <1>2. CASE BrokerNext
    <2>1. CASE Handlers # {}
      BY <1>2, <2>1, FenceQuiet DEF BrokerNext
    <2>2. CASE Handlers = {}
      BY <1>2, <2>2 DEF BrokerNext, RetryExpires, FenceInv, Fence,
         ClaimHeld, RetryJudged, WithinBudget
    <2> QED BY <2>1, <2>2
  <1>3. CASE HandlerNext
    BY <1>3, FenceQuiet, FenceClaim, FenceProcess, FenceMark DEF HandlerNext
  <1>4. CASE EnvironmentNext
    BY <1>4, FenceEnvironment
  <1>5. CASE UNCHANGED vars
    BY <1>5, FenceCalm DEF vars, Calm
  <1> QED BY <1>1, <1>2, <1>3, <1>4, <1>5 DEF Next

\* The invariant behind both theorems that follow.
LEMMA FencedInvariant == Spec => []FencedInv
  <1>1. Init => FencedInv
    BY TypeInit, FenceInit DEF FencedInv
  <1>2. FencedInv /\ [Next]_vars => FencedInv'
    <2> SUFFICES ASSUME FencedInv, [Next]_vars PROVE FencedInv'
      OBVIOUS
    <2>1. TypeInv'
      BY TypeNext DEF FencedInv
    <2>2. ASSUME ~ Happened({"overrun"})' PROVE Fence'
      <3>1. ~ Happened({"overrun"})
        BY <2>2, FaultsStay DEF Happened
      <3> QED BY <2>2, <3>1, FenceNext DEF FencedInv, FenceInv
    <2> QED BY <2>1, <2>2 DEF FencedInv
  <1> QED BY <1>1, <1>2, PTL DEF Spec

\* Until an overrun, and with every other fault in any number: a handler
\* that processes a job or records its outcome holds the last claim of it,
\* and the row is as that claim left it.
THEOREM ClaimsHeld == Spec => []HoldsItsClaim
  <1>1. FencedInv => HoldsItsClaim
    BY DEF FencedInv, Fence, HoldsItsClaim
  <1> QED BY <1>1, FencedInvariant, PTL

\* So it is the only one, of all worker processes together (the atomic claim
\* of jobService.ts).
THEOREM Fencing == Spec => []SingleProcessing
  <1>1. FencedInv => SingleProcessing
    BY DEF FencedInv, Fence, ClaimHeld, SingleProcessing
  <1> QED BY <1>1, FencedInvariant, PTL

\* Likewise, a job that waits for an attempt has not used up max_attempts:
\* the attempt number that a handler read at its claim, and judges by at the
\* end, is still the row's.
THEOREM BudgetKept == Spec => []RetryBudget
  <1>1. FencedInv => RetryBudget
    BY DEF FencedInv, Fence, RetryBudget
  <1> QED BY <1>1, FencedInvariant, PTL

=============================================================================
