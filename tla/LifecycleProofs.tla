-------------------------- MODULE LifecycleProofs --------------------------
(***************************************************************************)
(* What holds of the jobs table whatever the faults: Worker implements     *)
(* JobLifecycle, completed jobs are final, and the counters add up.  All   *)
(* three come from one lemma: a step of the whole system runs at most one  *)
(* of the SQL statements of JobsTable, on one row, under that statement's  *)
(* WHERE clause.                                                           *)
(*                                                                         *)
(* And what holds of table and queues together until something is lost:    *)
(* no job is stranded, and the dead-letter queue matches the table.        *)
(***************************************************************************)
EXTENDS WorkerProofs, FiniteSetTheorems

USE DEF Messages, Marking, Publishing, WorkingPc

\* The statement that turns the row r into s, with its WHERE clause.
Statement(r, s) ==
    \/ r.status = "ABSENT" /\ \E p \in Payloads : s = NewRow(p)
    \/ Replayable(r) /\ s = claimReplay(r)
    \/ Claimable(r) /\ s = claimJob(r)
    \/ Markable(r) /\ s \in {markCompleted(r), markRetrying(r), markDeadLettered(r)}
    \/ r.status = "PROCESSING" /\ s = [r EXCEPT !.updated_at = "stale"]

OneStatement == \E j \in Jobs : \E s \in Row :
    /\ Statement(jobs[j], s)
    /\ jobs' = [jobs EXCEPT ![j] = s]

\* The API's steps.
LEMMA StatementApi ==
    ASSUME TypeInv, ApiNext
    PROVE  jobs' = jobs \/ OneStatement
  <1>1. PICK j \in Jobs : Create(j) \/ Replay(j) \/ Dispatch(j) \/ Redispatch(j)
    BY DEF ApiNext
  <1>2. jobs[j] \in Row
    BY DEF TypeInv, TypeOK
  <1>3. CASE Create(j)
    <2>1. PICK p \in Payloads : jobs' = [jobs EXCEPT ![j] = NewRow(p)]
      BY <1>3 DEF Create
    <2>2. NewRow(p) \in Row
      BY <1>2, RowTypes
    <2> QED BY <1>3, <2>1, <2>2 DEF Create, OneStatement, Statement
  <1>4. CASE Replay(j)
    <2>1. claimReplay(jobs[j]) \in Row
      BY <1>2, RowTypes
    <2>2. jobs' = [jobs EXCEPT ![j] = claimReplay(jobs[j])] /\ Replayable(jobs[j])
      BY <1>4 DEF Replay
    <2> QED BY <2>1, <2>2 DEF OneStatement, Statement
  <1>5. CASE Dispatch(j) \/ Redispatch(j)
    BY <1>5 DEF Dispatch, Redispatch
  <1> QED BY <1>1, <1>3, <1>4, <1>5

\* The handler's steps.
LEMMA StatementHandler ==
    ASSUME TypeInv, HandlerNext
    PROVE  jobs' = jobs \/ OneStatement
  <1> USE DEF TypeInv, TypeOK
  <1>1. PICK h \in Handlers :
          \/ DiscardMalformed(h) \/ ThrowOnNull(h)
          \/ ClaimWins(h) \/ ClaimMisses(h) \/ ClaimFails(h)
          \/ Process(h)
          \/ MarkCompleted(h) \/ MarkRetrying(h) \/ MarkDeadLettered(h)
          \/ MarkMisses(h) \/ MarkFails(h)
          \/ Publish(h) \/ PublishFull(h) \/ PublishThrows(h)
          \/ Ack(h) \/ Nack(h)
    BY DEF HandlerNext
  <1>2. CASE \/ DiscardMalformed(h) \/ ClaimMisses(h) \/ Process(h)
             \/ MarkMisses(h) \/ Publish(h) \/ PublishFull(h)
             \/ PublishThrows(h) \/ Ack(h) \/ Nack(h) \/ ThrowOnNull(h)
    BY <1>2 DEF DiscardMalformed, ClaimMisses, Process, MarkMisses, Publish,
                PublishFull, PublishThrows, Ack, Nack, ThrowOnNull
  <1>3. CASE ClaimWins(h) \/ ClaimFails(h)
    <2>1. CASE jobs' = jobs
      BY <2>1
    <2>2. CASE jobs' # jobs
      <3>1. /\ handler[h].job \in Jobs
            /\ Claimable(jobs[handler[h].job])
            /\ jobs' = [jobs EXCEPT ![handler[h].job] =
                            claimJob(jobs[handler[h].job])]
        BY <1>3, <2>2 DEF ClaimWins, ClaimFails
      <3>2. claimJob(jobs[handler[h].job]) \in Row
        BY <3>1, RowTypes
      <3> QED BY <3>1, <3>2 DEF OneStatement, Statement
    <2> QED BY <2>1, <2>2
  <1>4. CASE MarkCompleted(h) \/ MarkRetrying(h) \/ MarkDeadLettered(h) \/ MarkFails(h)
    <2>0. handler[h].pc \in Marking
      BY <1>4 DEF MarkCompleted, MarkRetrying, MarkDeadLettered, MarkFails, At
    <2>1. handler[h].job \in Jobs
      BY <2>0 DEF WellFormed
    <2>2. PICK j \in Jobs : j = handler[h].job
      BY <2>1
    <2>3. /\ markCompleted(jobs[j]) \in Row
          /\ markRetrying(jobs[j]) \in Row
          /\ markDeadLettered(jobs[j]) \in Row
      BY RowTypes
    <2>4. CASE jobs' = jobs
      BY <2>4
    <2>5. CASE jobs' # jobs
      <3>1. /\ Markable(jobs[j])
            /\ \E s \in {markCompleted(jobs[j]), markRetrying(jobs[j]),
                         markDeadLettered(jobs[j])} :
                  jobs' = [jobs EXCEPT ![j] = s]
        <4>1. CASE MarkCompleted(h) \/ MarkRetrying(h) \/ MarkDeadLettered(h)
          BY <2>2, <4>1 DEF MarkCompleted, MarkRetrying, MarkDeadLettered
        <4>2. CASE MarkFails(h)
          <5>1. /\ Markable(jobs[j])
                /\ jobs' = [jobs EXCEPT ![j] = Marked(handler[h].pc, jobs[j])]
            BY <2>2, <2>5, <4>2 DEF MarkFails
          <5>2. Marked(handler[h].pc, jobs[j]) \in
                  {markCompleted(jobs[j]), markRetrying(jobs[j]),
                   markDeadLettered(jobs[j])}
            BY <2>0 DEF Marked
          <5> QED BY <5>1, <5>2
        <4> QED BY <1>4, <4>1, <4>2
      <3> QED BY <2>3, <3>1 DEF OneStatement, Statement
    <2> QED BY <2>4, <2>5
  <1> QED BY <1>1, <1>2, <1>3, <1>4

\* At most one statement, on one row, whatever the step.
LEMMA AtMostOneStatement ==
    TypeInv /\ [Next]_vars => jobs' = jobs \/ OneStatement
  <1> SUFFICES ASSUME TypeInv, [Next]_vars PROVE jobs' = jobs \/ OneStatement
    OBVIOUS
  <1>1. CASE ApiNext
    BY <1>1, StatementApi
  <1>2. CASE BrokerNext
    BY <1>2 DEF BrokerNext, Deliver, RetryExpires, Flush, AckArrives, NackArrives
  <1>3. CASE HandlerNext
    BY <1>3, StatementHandler
  <1>4. CASE EnvironmentNext
    <2>1. CASE \E w \in Workers : Crash(w) \/ Drop(w)
      BY <2>1 DEF Crash, Drop
    <2>2. CASE \E j \in Jobs : GoStale(j)
      <3>1. PICK j \in Jobs : GoStale(j)
        BY <2>2
      <3>2. /\ jobs[j].status = "PROCESSING"
            /\ jobs' = [jobs EXCEPT ![j] = [jobs[j] EXCEPT !.updated_at = "stale"]]
        BY <3>1 DEF GoStale
      <3>3. [jobs[j] EXCEPT !.updated_at = "stale"] \in Row
        BY RowTypes DEF TypeInv, TypeOK
      <3> QED BY <3>2, <3>3 DEF OneStatement, Statement
    <2> QED BY <1>4, <2>1, <2>2 DEF EnvironmentNext
  <1>5. CASE UNCHANGED vars
    BY <1>5 DEF vars
  <1> QED BY <1>1, <1>2, <1>3, <1>4, <1>5 DEF Next

-----------------------------------------------------------------------------
(* Completed jobs.                                                         *)

\* No statement's WHERE clause matches a COMPLETED row, so a completed job
\* is never touched again, whatever the interleaving and the faults.
THEOREM CompletedFinal == Spec => CompletedIsFinal
  <1>1. TypeInv /\ [Next]_vars =>
          [\A j \in Jobs : jobs[j].status = "COMPLETED" => jobs'[j] = jobs[j]]_vars
    <2> SUFFICES ASSUME TypeInv, [Next]_vars, NEW j \in Jobs,
                        jobs[j].status = "COMPLETED"
                 PROVE  jobs'[j] = jobs[j]
      OBVIOUS
    <2>1. CASE OneStatement
      BY <2>1 DEF OneStatement, Statement, Replayable, Claimable, Markable,
                  TypeInv, TypeOK
    <2> QED BY <2>1, AtMostOneStatement
  <1> QED BY <1>1, TypeInvariant, PTL DEF Spec, CompletedIsFinal

-----------------------------------------------------------------------------
(* The counters.                                                           *)

\* The counters of one row agree.
Accounted(r) ==
    /\ r.status \notin {"ABSENT", "QUEUED"} => r.attempt_count >= 1
    /\ r.total_attempt_count >= r.attempt_count + r.replay_count

\* Every statement keeps a row's counters in agreement.  The replay needs
\* the first conjunct: it moves at least one attempt out of attempt_count
\* for the one it adds to replay_count.
LEMMA StatementAccounts ==
    ASSUME NEW r \in Row, NEW s \in Row, Accounted(r), Statement(r, s)
    PROVE  Accounted(s)
  <1> USE DEF Accounted, Row
  <1>1. CASE \E p \in Payloads : s = NewRow(p)
    BY <1>1 DEF NewRow
  <1>2. CASE Replayable(r) /\ s = claimReplay(r)
    BY <1>2 DEF Replayable, claimReplay
  <1>3. CASE Claimable(r) /\ s = claimJob(r)
    BY <1>3 DEF claimJob
  <1>4. CASE /\ Markable(r)
             /\ s \in {markCompleted(r), markRetrying(r), markDeadLettered(r)}
    BY <1>4 DEF Markable, markCompleted, markRetrying, markDeadLettered
  <1>5. CASE r.status = "PROCESSING" /\ s = [r EXCEPT !.updated_at = "stale"]
    BY <1>5
  <1> QED BY <1>1, <1>2, <1>3, <1>4, <1>5 DEF Statement

\* The attempt counters that the worker writes and the replay counter that
\* the API writes agree in every reachable state, whatever the faults.
THEOREM AttemptsAdd == Spec => []AttemptsAccounted
  <1>1. Init => AttemptsAccounted
    BY DEF Init, AttemptsAccounted, NoRow, NewRow
  <1>2. TypeInv /\ AttemptsAccounted /\ [Next]_vars => AttemptsAccounted'
    <2> SUFFICES ASSUME TypeInv, AttemptsAccounted, [Next]_vars
                 PROVE  AttemptsAccounted'
      OBVIOUS
    <2>1. CASE jobs' = jobs
      BY <2>1 DEF AttemptsAccounted
    <2>2. CASE OneStatement
      <3>1. PICK j \in Jobs, s \in Row : /\ Statement(jobs[j], s)
                                         /\ jobs' = [jobs EXCEPT ![j] = s]
        BY <2>2 DEF OneStatement
      <3>2. jobs[j] \in Row /\ Accounted(jobs[j])
        BY DEF TypeInv, TypeOK, AttemptsAccounted, Accounted
      <3>3. Accounted(s)
        BY <3>1, <3>2, StatementAccounts
      <3>4. \A i \in Jobs : Accounted(jobs'[i])
        <4> SUFFICES ASSUME NEW i \in Jobs PROVE Accounted(jobs'[i])
          OBVIOUS
        <4>1. jobs'[i] = s \/ jobs'[i] = jobs[i]
          BY <3>1 DEF TypeInv, TypeOK
        <4>2. Accounted(jobs[i])
          BY DEF AttemptsAccounted, Accounted
        <4> QED BY <3>3, <4>1, <4>2
      <3> QED BY <3>4 DEF AttemptsAccounted, Accounted
    <2> QED BY <2>1, <2>2, AtMostOneStatement
  <1> QED BY <1>1, <1>2, TypeInvariant, PTL DEF Spec

-----------------------------------------------------------------------------
(* The refinement.                                                         *)

\* The lifecycle of one row; LifeOf is this, row by row.
Life(r) == [stage    |-> StageOf(r.status),
            attempts |-> r.attempt_count,
            replays  |-> r.replay_count]

\* A statement on the row of j is a lifecycle step of j, or leaves its
\* lifecycle alone (only time passing over a PROCESSING row does).
LEMMA StatementLife ==
    ASSUME NEW j \in Jobs, jobs \in [Jobs -> Row], NEW s \in Row,
           Statement(jobs[j], s), jobs' = [jobs EXCEPT ![j] = s]
    PROVE  Lifecycle!Next \/ LifeOf' = LifeOf
  <1> DEFINE r == jobs[j]
  <1>0. r \in Row
    OBVIOUS
  <1>1. LifeOf[j] = Life(r)
    BY DEF LifeOf, Life
  <1>2. LifeOf' = [LifeOf EXCEPT ![j] = Life(s)]
    BY DEF LifeOf, Life
  <1>3. /\ LifeOf[j].stage = StageOf(r.status)
        /\ LifeOf[j].attempts = r.attempt_count
        /\ LifeOf[j].replays = r.replay_count
    BY <1>1 DEF Life
  <1>9. LifeOf'[j] = LifeOf[j] => LifeOf' = LifeOf
    BY <1>2 DEF LifeOf
  <1> USE DEF Lifecycle!Next, Lifecycle!Move, StageOf
  <1>4. CASE r.status = "ABSENT" /\ \E p \in Payloads : s = NewRow(p)
    <2>1. LifeOf[j].stage = "none"
      BY <1>3, <1>4
    <2>2. Life(s) = [stage |-> "waiting", attempts |-> 0, replays |-> 0]
      BY <1>4 DEF Life, NewRow
    <2>3. Lifecycle!Submit(j)
      BY <1>2, <2>1, <2>2 DEF Lifecycle!Submit
    <2> QED BY <1>9, <2>3
  <1>5. CASE Replayable(r) /\ s = claimReplay(r)
    <2>1. LifeOf[j].stage = "dead"
      BY <1>3, <1>5 DEF Replayable
    <2>2. Life(s) = [stage |-> "waiting", attempts |-> 0,
                     replays |-> LifeOf[j].replays + 1]
      BY <1>0, <1>3, <1>5 DEF Life, claimReplay, Row
    <2>3. Lifecycle!Revive(j)
      BY <1>2, <2>1, <2>2 DEF Lifecycle!Revive
    <2> QED BY <1>9, <2>3
  <1>6. CASE Claimable(r) /\ s = claimJob(r)
    <2>1. LifeOf[j].stage \in {"waiting", "running"}
      BY <1>3, <1>6 DEF Claimable
    <2>2. Life(s) = [stage |-> "running", attempts |-> LifeOf[j].attempts + 1,
                     replays |-> LifeOf[j].replays]
      BY <1>0, <1>3, <1>6 DEF Life, claimJob, Row
    <2>3. Lifecycle!Attempt(j) \/ Lifecycle!Reclaim(j)
      BY <1>2, <2>1, <2>2 DEF Lifecycle!Attempt, Lifecycle!Reclaim
    <2> QED BY <1>9, <2>3
  <1>7. CASE /\ Markable(r)
             /\ s \in {markCompleted(r), markRetrying(r), markDeadLettered(r)}
    <2>1. LifeOf[j].stage = "running"
      BY <1>3, <1>7 DEF Markable
    <2>2. /\ Life(s).stage \in {"done", "waiting", "dead"}
          /\ Life(s) = [stage |-> Life(s).stage, attempts |-> LifeOf[j].attempts,
                        replays |-> LifeOf[j].replays]
      BY <1>0, <1>3, <1>7
         DEF Life, markCompleted, markRetrying, markDeadLettered, Row
    <2>3. Lifecycle!Succeed(j) \/ Lifecycle!Defer(j) \/ Lifecycle!GiveUp(j)
      BY <1>2, <2>1, <2>2
         DEF Lifecycle!Succeed, Lifecycle!Defer, Lifecycle!GiveUp
    <2> QED BY <1>9, <2>3
  <1>8. CASE r.status = "PROCESSING" /\ s = [r EXCEPT !.updated_at = "stale"]
    <2>1. Life(s) = Life(r)
      BY <1>0, <1>8 DEF Life, Row
    <2> QED BY <1>1, <1>2, <2>1 DEF LifeOf
  <1> QED BY <1>4, <1>5, <1>6, <1>7, <1>8 DEF Statement

\* The worker, the API, the broker and every fault together implement the
\* job lifecycle: a row only ever moves as JobLifecycle promises.
THEOREM ImplementsLifecycle == Spec => FollowsLifecycle
  <1>1. Init => Lifecycle!Init
    BY DEF Init, NoRow, NewRow, Lifecycle!Init, LifeOf, StageOf
  <1>2. TypeInv /\ [Next]_vars => [Lifecycle!Next]_LifeOf
    <2> SUFFICES ASSUME TypeInv, [Next]_vars
                 PROVE  Lifecycle!Next \/ LifeOf' = LifeOf
      OBVIOUS
    <2>1. CASE jobs' = jobs
      BY <2>1 DEF LifeOf
    <2>2. CASE OneStatement
      <3>1. PICK j \in Jobs, s \in Row : /\ Statement(jobs[j], s)
                                         /\ jobs' = [jobs EXCEPT ![j] = s]
        BY <2>2 DEF OneStatement
      <3> QED BY <3>1, StatementLife DEF TypeInv, TypeOK
    <2> QED BY <2>1, <2>2, AtMostOneStatement
  <1> QED BY <1>1, <1>2, TypeInvariant, PTL DEF Spec, FollowsLifecycle,
                                                Lifecycle!Spec

-----------------------------------------------------------------------------
(* No job is stranded, and the dead-letter queue matches the table.        *)

\* A frame waits in amqplib's buffer only behind a handler that is past its
\* publish.
OutPlace == \A h \in Handlers : handler[h].out # "none" =>
    handler[h].pc \in {"ackBare", "acked", "backoff", "nacked"}

\* Only a lost connection closes a channel under a handler.
AllOpen == \A h \in Handlers : handler[h].chan = "open"

\* A process on its first channel has at most one handler at work
\* (prefetch(1)), and the others are at rest: its death takes down nobody
\* but the handler that caused it.
Alone ==
    /\ \A h \in Handlers : handler[h].pc = "idle" => handler[h] = Idle
    /\ \A g, h \in Handlers : /\ WorkerOf[g] = WorkerOf[h]
                               /\ handler[g].pc # "idle"
                               /\ handler[h].pc # "idle" => g = h

\* An id that was not inserted has not been replayed.
AbsentFresh == \A j \in Jobs :
    jobs[j].status = "ABSENT" => jobs[j].replay_count = 0

\* Job j is not stranded; NoOrphan says so of every job.
Attended(j) ==
    /\ jobs[j].status \in {"QUEUED", "RETRYING"} => Driven(j)
    /\ jobs[j].status = "PROCESSING" => \E h \in Handlers : Working(h, j)

\* The handlers that owe the dead-letter queue a message about j.
Senders(j) == {h \in Handlers : /\ handler[h].job = j
                                /\ \/ At(h, "pubDead")
                                   \/ handler[h].out = "dead"}

\* How often the row r was given up; replay_count counts all but the last.
GivenUp(r) == r.replay_count + (IF r.status = "DEAD_LETTERED" THEN 1 ELSE 0)

Balanced(j) == dlq[j] + Cardinality(Senders(j)) = GivenUp(jobs[j])

Placed == TypeInv /\ OutPlace /\ AbsentFresh

\* One handler changes its control state and its buffer, nothing else.
Moved(h, pc, out) ==
    /\ handler'[h].pc = pc
    /\ handler'[h].out = out
    /\ handler'[h].job = handler[h].job
    /\ handler'[h].chan = handler[h].chan
    /\ \A g \in Handlers \ {h} : handler'[g] = handler[g]

\* One handler is replaced by k.
Replaced(h, k) ==
    /\ handler'[h] = k
    /\ \A g \in Handlers \ {h} : handler'[g] = handler[g]

\* A handler that goes on keeps its message, its channel and its buffer.
LEMMA GoToMoves ==
    ASSUME TypeOK, NEW h \in Handlers, NEW pc, GoTo(h, pc)
    PROVE  Moved(h, pc, handler[h].out)
  BY DEF TypeOK, GoTo, Moved, Handler

\* A mark finds the row of the handler's job.
LEMMA MarkHasRow ==
    ASSUME TypeInv, NEW h \in Handlers, handler[h].pc \in WorkingPc \cup Publishing
    PROVE  handler[h].job \in Jobs /\ jobs[handler[h].job] \in Row
  BY DEF TypeInv, TypeOK, WellFormed

\* How each handler step moves its handler.
LEMMA HandlerMoves ==
    ASSUME TypeInv, NEW h \in Handlers
    PROVE  /\ DiscardMalformed(h) => Moved(h, "ackBare", handler[h].out)
           /\ ClaimWins(h) => Moved(h, "process", handler[h].out)
           /\ ClaimMisses(h) => Moved(h, "ackTry", handler[h].out)
           /\ ClaimFails(h) => Moved(h, "backoff", handler[h].out)
           /\ Process(h) => \E pc \in Marking : Moved(h, pc, handler[h].out)
           /\ MarkCompleted(h) => Moved(h, "ackTry", handler[h].out)
           /\ MarkRetrying(h) => Moved(h, "pubRetry", handler[h].out)
           /\ MarkDeadLettered(h) => Moved(h, "pubDead", handler[h].out)
           /\ MarkMisses(h) \/ MarkFails(h) => Moved(h, "backoff", handler[h].out)
           /\ Publish(h) => Moved(h, "ackBare", Frame(handler[h].pc))
           /\ PublishFull(h) => Moved(h, "backoff", Frame(handler[h].pc))
           /\ PublishThrows(h) => Moved(h, "backoff", handler[h].out)
           /\ Flush(h) => Moved(h, handler[h].pc, "none")
  <1> USE DEF TypeInv
  <1>1. ClaimWins(h) => Moved(h, "process", handler[h].out)
    BY DEF ClaimWins, TypeOK, Handler, Moved
  <1>2. ASSUME Process(h) PROVE \E pc \in Marking : Moved(h, pc, handler[h].out)
    <2>1. PICK pc : GoTo(h, pc)
      BY <1>2 DEF Process
    <2>2. Moved(h, pc, handler[h].out)
      BY <2>1, GoToMoves
    <2>3. handler'[h].pc \in Marking
      BY <1>2, TypeProcess
    <2> QED BY <2>2, <2>3 DEF Moved
  <1>3. Publish(h) => Moved(h, "ackBare", Frame(handler[h].pc))
    BY DEF Publish, TypeOK, Handler, Moved
  <1>4. PublishFull(h) => Moved(h, "backoff", Frame(handler[h].pc))
    BY DEF PublishFull, TypeOK, Handler, Moved
  <1>5. Flush(h) => Moved(h, handler[h].pc, "none")
    BY DEF Flush, TypeOK, Handler, Moved
  <1>6. /\ DiscardMalformed(h) => GoTo(h, "ackBare")
        /\ ClaimMisses(h) => GoTo(h, "ackTry")
        /\ ClaimFails(h) => GoTo(h, "backoff")
        /\ MarkCompleted(h) => GoTo(h, "ackTry")
        /\ MarkRetrying(h) => GoTo(h, "pubRetry")
        /\ MarkDeadLettered(h) => GoTo(h, "pubDead")
        /\ MarkMisses(h) \/ MarkFails(h) => GoTo(h, "backoff")
        /\ PublishThrows(h) => GoTo(h, "backoff")
    BY DEF DiscardMalformed, ClaimMisses, ClaimFails, MarkCompleted,
           MarkRetrying, MarkDeadLettered, MarkMisses, MarkFails, PublishThrows
  <1>7. \A pc : GoTo(h, pc) => Moved(h, pc, handler[h].out)
    BY GoToMoves
  <1> QED BY <1>1, <1>2, <1>3, <1>4, <1>5, <1>6, <1>7

\* How the broker's steps replace theirs.
LEMMA BrokerReplaces ==
    ASSUME TypeInv, NEW h \in Handlers
    PROVE  /\ AckArrives(h) \/ NackArrives(h) => Replaced(h, Idle)
           /\ \A m \in Messages : Deliver(h, m) =>
                 Replaced(h, [Idle EXCEPT !.pc = "claim", !.job = m])
  BY DEF TypeInv, TypeOK, AckArrives, NackArrives, Deliver, Replaced

\* What handlers do once their message is to be settled: they send the ack
\* or the nack, on an open channel.
Settles(h) ==
    /\ \/ handler[h].pc \in {"ackTry", "ackBare"} /\ GoTo(h, "acked")
       \/ At(h, "backoff") /\ GoTo(h, "nacked")
    /\ UNCHANGED <<jobs, outbox, mainQ, retryQ, dlq, owner, faults>>

\* The handler steps that lose nothing.
SmoothHandler(h) ==
    \/ DiscardMalformed(h) \/ ClaimWins(h) \/ ClaimMisses(h) \/ Process(h)
    \/ MarkCompleted(h) \/ MarkRetrying(h) \/ MarkDeadLettered(h) \/ MarkMisses(h)
    \/ Publish(h) \/ PublishFull(h) \/ PublishThrows(h) \/ Settles(h)

\* A handler that dies of a null body, and of its process nobody else.
DiesAlone(h) ==
    /\ At(h, "claim") /\ handler[h].job \notin Jobs
    /\ Replaced(h, Idle)
    /\ \A i \in Jobs : mainQ'[i] = mainQ[i]
    /\ UNCHANGED <<jobs, outbox, retryQ, dlq, owner, faults>>

\* That is all a null body does before a connection is lost.
LEMMA ThrowsAlone ==
    ASSUME Alone, NEW h \in Handlers, ThrowOnNull(h)
    PROVE  DiesAlone(h)
  <1>1. /\ handler[h].pc = "claim" /\ handler[h].job \in NullBody
        /\ Die(WorkerOf[h])
        /\ UNCHANGED <<jobs, outbox, retryQ, dlq, owner, faults>>
    BY DEF ThrowOnNull, At
  <1>2. handler[h].job \notin Jobs
    BY <1>1, WorkerAssumption
  <1>3. \A g \in Handlers \ {h} : WorkerOf[g] = WorkerOf[h] =>
            handler[g].pc = "idle" /\ handler[g] = Idle
    BY <1>1 DEF Alone
  <1>4. Replaced(h, Idle)
    BY <1>1, <1>3 DEF Die, Replaced
  <1>5. \A i \in Jobs : ~ Unsettled(WorkerOf[h], i)
    BY <1>2, <1>3 DEF Unsettled
  <1>6. \A i \in Jobs : mainQ'[i] = mainQ[i]
    BY <1>1, <1>5 DEF Die, Requeue
  <1> QED BY <1>1, <1>2, <1>4, <1>6 DEF DiesAlone, At

\* A fault that happens is on record.
LEMMA FaultHappens ==
    ASSUME NEW k, Fault(k), NEW kinds, k \in kinds
    PROVE  Happened(kinds)'
  BY DEF Fault, Happened

\* While no process crashes, no connection is lost and no query fails, these
\* are all the steps there are; in particular no settlement kills a process.
LEMMA SmoothSteps ==
    ASSUME AllOpen, Alone, [Next]_vars, ~ Lossy'
    PROVE  \/ ApiNext \/ BrokerNext
           \/ \E h \in Handlers : SmoothHandler(h) \/ DiesAlone(h)
           \/ \E j \in Jobs : GoStale(j)
           \/ UNCHANGED vars
  <1>1. ~ Fault("crash") /\ ~ Fault("drop") /\ ~ Fault("db")
    BY FaultHappens DEF Lossy
  <1>2. \A h \in Handlers : Ack(h) \/ Nack(h) => Settles(h)
    BY DEF AllOpen, Ack, Nack, Settles
  <1>3. CASE HandlerNext
    BY <1>1, <1>2, <1>3, ThrowsAlone
       DEF HandlerNext, ClaimFails, MarkFails, SmoothHandler
  <1>4. CASE EnvironmentNext
    BY <1>1, <1>4 DEF EnvironmentNext, Crash, Drop
  <1> QED BY <1>3, <1>4 DEF Next

\* Every frame in a buffer stays behind its handler, whatever the faults.
LEMMA OutPlaceNext ==
    ASSUME TypeInv, OutPlace, [Next]_vars
    PROVE  OutPlace'
  <1>0. ASSUME NEW h \in Handlers, NEW pc, NEW out, Moved(h, pc, out),
               \/ out = "none" \/ pc \in {"ackBare", "acked", "backoff", "nacked"}
        PROVE  OutPlace'
    BY <1>0 DEF OutPlace, Moved
  <1>1. ASSUME NEW h \in Handlers, NEW k, Replaced(h, k), k.out = "none"
        PROVE  OutPlace'
    BY <1>1 DEF OutPlace, Replaced
  <1>2. ASSUME NEW w \in Workers, Die(w) PROVE OutPlace'
    BY <1>2 DEF Die, OutPlace, Idle
  <1>3. CASE ApiNext \/ \E j \in Jobs : RetryExpires(j) \/ GoStale(j)
    BY <1>3 DEF ApiNext, Create, Replay, Dispatch, Redispatch, RetryExpires,
                GoStale, OutPlace
  <1>4. ASSUME NEW h \in Handlers, NEW m \in Messages, Deliver(h, m)
        PROVE  OutPlace'
    <2>1. [Idle EXCEPT !.pc = "claim", !.job = m].out = "none"
      BY DEF Idle
    <2> QED BY <1>1, <1>4, <2>1, BrokerReplaces
  <1>5. ASSUME NEW h \in Handlers, AckArrives(h) \/ NackArrives(h)
        PROVE  OutPlace'
    <2>1. Idle.out = "none"
      BY DEF Idle
    <2> QED BY <1>1, <1>5, <2>1, BrokerReplaces
  <1>6. ASSUME NEW h \in Handlers, Flush(h) PROVE OutPlace'
    BY <1>0, <1>6, HandlerMoves
  <1>7. ASSUME NEW h \in Handlers,
               \/ DiscardMalformed(h) \/ ClaimFails(h) \/ MarkMisses(h)
               \/ MarkFails(h) \/ Publish(h) \/ PublishFull(h) \/ PublishThrows(h)
        PROVE  OutPlace'
    <2>1. \E out : Moved(h, "ackBare", out) \/ Moved(h, "backoff", out)
      BY <1>7, HandlerMoves
    <2> QED BY <1>0, <2>1
  <1>8. ASSUME NEW h \in Handlers,
               \/ ClaimWins(h) \/ ClaimMisses(h) \/ Process(h)
               \/ MarkCompleted(h) \/ MarkRetrying(h) \/ MarkDeadLettered(h)
        PROVE  OutPlace'
    <2>1. handler[h].pc \in {"claim", "process", "complete", "retry", "deadLetter"}
      BY <1>8 DEF ClaimWins, ClaimMisses, Process, MarkCompleted,
                  MarkRetrying, MarkDeadLettered, At
    <2>2. handler[h].out = "none"
      BY <2>1 DEF OutPlace
    <2>3. \E pc : Moved(h, pc, handler[h].out)
      BY <1>8, HandlerMoves
    <2> QED BY <1>0, <2>2, <2>3
  <1>9. ASSUME NEW h \in Handlers, Ack(h) \/ Nack(h) \/ ThrowOnNull(h)
        PROVE  OutPlace'
    <2>1. CASE Die(WorkerOf[h])
      BY <1>2, <2>1, WorkerAssumption
    <2>2. CASE \E pc \in {"acked", "backoff", "nacked"} : GoTo(h, pc)
      BY <1>0, <2>2, GoToMoves DEF TypeInv
    <2> QED BY <1>9, <2>1, <2>2 DEF Ack, Nack, ThrowOnNull
  <1>10. ASSUME NEW w \in Workers, Crash(w) \/ Drop(w) PROVE OutPlace'
    <2>1. CASE Crash(w)
      BY <1>2, <2>1 DEF Crash
    <2>2. CASE Drop(w)
      BY <2>2, DetachedType DEF Drop, OutPlace, TypeInv, TypeOK
    <2> QED BY <1>10, <2>1, <2>2
  <1>11. CASE UNCHANGED vars
    BY <1>11 DEF vars, OutPlace
  <1> QED BY <1>3, <1>4, <1>5, <1>6, <1>7, <1>8, <1>9, <1>10, <1>11
          DEF Next, BrokerNext, HandlerNext, EnvironmentNext

\* An absent row changes only by being inserted.
LEMMA AbsentFreshNext ==
    ASSUME TypeInv, AbsentFresh, [Next]_vars
    PROVE  AbsentFresh'
  <1>1. CASE jobs' = jobs
    BY <1>1 DEF AbsentFresh
  <1>2. CASE OneStatement
    <2>1. PICK j \in Jobs, s \in Row : /\ Statement(jobs[j], s)
                                       /\ jobs' = [jobs EXCEPT ![j] = s]
      BY <1>2 DEF OneStatement
    <2>2. jobs[j] \in Row
      BY DEF TypeInv, TypeOK
    <2>3. s.status # "ABSENT"
      BY <2>1, <2>2, RowsStay DEF Statement, NewRow, Row
    <2> QED BY <2>1, <2>3 DEF AbsentFresh, TypeInv, TypeOK
  <1> QED BY <1>1, <1>2, AtMostOneStatement

\* So Placed is an invariant.
LEMMA PlacedInit == Init => Placed
  BY TypeInit DEF Init, Placed, OutPlace, AbsentFresh, Idle, NoRow, NewRow

\* Every step keeps it.
LEMMA PlacedNext == Placed /\ [Next]_vars => Placed'
  BY TypeNext, OutPlaceNext, AbsentFreshNext DEF Placed

\* No smooth step closes a channel.
LEMMA OpenNext ==
    ASSUME TypeInv, AllOpen, Alone, [Next]_vars, ~ Lossy'
    PROVE  AllOpen'
  <1>0. ASSUME NEW h \in Handlers, NEW pc, NEW out, Moved(h, pc, out)
        PROVE  AllOpen'
    BY <1>0 DEF AllOpen, Moved
  <1>1. ASSUME NEW h \in Handlers, NEW k, Replaced(h, k), k.chan = "open"
        PROVE  AllOpen'
    BY <1>1 DEF AllOpen, Replaced
  <1>2. CASE ApiNext \/ \E j \in Jobs : RetryExpires(j) \/ GoStale(j)
    BY <1>2 DEF ApiNext, Create, Replay, Dispatch, Redispatch, RetryExpires,
                GoStale, AllOpen
  <1>3. ASSUME NEW h \in Handlers, NEW m \in Messages, Deliver(h, m)
        PROVE  AllOpen'
    <2>1. [Idle EXCEPT !.pc = "claim", !.job = m].chan = "open"
      BY DEF Idle
    <2> QED BY <1>1, <1>3, <2>1, BrokerReplaces
  <1>4. ASSUME NEW h \in Handlers,
               AckArrives(h) \/ NackArrives(h) \/ DiesAlone(h)
        PROVE  AllOpen'
    <2>1. Idle.chan = "open"
      BY DEF Idle
    <2> QED BY <1>1, <1>4, <2>1, BrokerReplaces DEF DiesAlone
  <1>5. ASSUME NEW h \in Handlers, SmoothHandler(h) \/ Flush(h) PROVE AllOpen'
    <2>1. \E pc, out : Moved(h, pc, out)
      BY <1>5, HandlerMoves, GoToMoves DEF SmoothHandler, Settles, TypeInv
    <2> QED BY <1>0, <2>1
  <1>6. CASE UNCHANGED vars
    BY <1>6 DEF vars, AllOpen
  <1> QED BY <1>2, <1>3, <1>4, <1>5, <1>6, SmoothSteps DEF BrokerNext

\* Nor does one put a second handler of a process to work.
LEMMA AloneNext ==
    ASSUME TypeInv, AllOpen, Alone, [Next]_vars, ~ Lossy'
    PROVE  Alone'
  <1>0. ASSUME NEW h \in Handlers, NEW pc, NEW out, Moved(h, pc, out),
               handler[h].pc # "idle", pc # "idle"
        PROVE  Alone'
    BY <1>0 DEF Alone, Moved
  <1>1. ASSUME NEW h \in Handlers, Replaced(h, Idle) PROVE Alone'
    BY <1>1 DEF Alone, Replaced, Idle
  <1>2. CASE ApiNext \/ \E j \in Jobs : RetryExpires(j) \/ GoStale(j)
    BY <1>2 DEF ApiNext, Create, Replay, Dispatch, Redispatch, RetryExpires,
                GoStale, Alone
  <1>3. ASSUME NEW h \in Handlers, NEW m \in Messages, Deliver(h, m)
        PROVE  Alone'
    <2>1. /\ handler'[h].pc = "claim"
          /\ \A g \in Handlers \ {h} : handler'[g] = handler[g]
      BY <1>3, BrokerReplaces DEF Replaced, Idle
    <2>2. \A g \in Handlers : WorkerOf[g] = WorkerOf[h] => handler[g].pc = "idle"
      BY <1>3 DEF Deliver, At, AllOpen
    <2> QED BY <2>1, <2>2 DEF Alone
  <1>4. ASSUME NEW h \in Handlers,
               AckArrives(h) \/ NackArrives(h) \/ DiesAlone(h)
        PROVE  Alone'
    BY <1>1, <1>4, BrokerReplaces DEF DiesAlone
  <1>5. ASSUME NEW h \in Handlers, Flush(h), handler[h].pc # "idle"
        PROVE  Alone'
    BY <1>0, <1>5, HandlerMoves
  <1>6. ASSUME NEW h \in Handlers, Flush(h) PROVE handler[h].pc # "idle"
    BY <1>6 DEF Flush, Alone, Idle
  <1>7. ASSUME NEW h \in Handlers, SmoothHandler(h) PROVE Alone'
    <2>1. handler[h].pc # "idle"
      BY <1>7 DEF SmoothHandler, DiscardMalformed, ClaimWins, ClaimMisses,
           Process, MarkCompleted, MarkRetrying, MarkDeadLettered, MarkMisses,
           Publish, PublishFull, PublishThrows, Settles, At
    <2>2. \E pc, out : Moved(h, pc, out) /\ pc # "idle"
      BY <1>7, HandlerMoves, GoToMoves DEF SmoothHandler, Settles, TypeInv
    <2> QED BY <1>0, <2>1, <2>2
  <1>8. CASE UNCHANGED vars
    BY <1>8 DEF vars, Alone
  <1> QED BY <1>2, <1>3, <1>4, <1>5, <1>6, <1>7, <1>8, SmoothSteps DEF BrokerNext

\* A handler's step on its own job leaves the other jobs attended.
LEMMA AttendedOthers ==
    ASSUME NEW h \in Handlers, NEW pc, NEW out, Moved(h, pc, out),
           UNCHANGED <<outbox, mainQ, retryQ>>,
           NEW i \in Jobs, i # handler[h].job, jobs'[i] = jobs[i], Attended(i)
    PROVE  Attended(i)'
  BY DEF Moved, Attended, Driven, Working

\* createJob(), claimReplay() and the dispatcher: a job that comes to wait
\* has its event, and an event becomes a message.
LEMMA AttendedApi ==
    ASSUME TypeInv, ApiNext, NEW i \in Jobs, Attended(i)
    PROVE  Attended(i)'
  <1> USE DEF TypeInv, TypeOK
  <1>1. PICK j \in Jobs : Create(j) \/ Replay(j) \/ Dispatch(j) \/ Redispatch(j)
    BY DEF ApiNext
  <1>2. handler' = handler /\ retryQ' = retryQ
    BY <1>1 DEF Create, Replay, Dispatch, Redispatch
  <1>3. CASE Create(j) \/ Replay(j)
    <2>1. /\ mainQ' = mainQ
          /\ outbox' = [outbox EXCEPT ![j] = @ + 1]
      BY <1>3 DEF Create, Replay
    <2>2. i # j => jobs'[i] = jobs[i]
      BY <1>3 DEF Create, Replay
    <2>3. jobs'[j].status = "QUEUED"
      BY <1>3, RowsStay DEF Create, Replay, NewRow
    <2>4. outbox'[j] > 0 /\ (i # j => outbox'[i] = outbox[i])
      BY <2>1
    <2> QED BY <1>2, <2>1, <2>2, <2>3, <2>4 DEF Attended, Driven, Working
  <1>4. CASE Dispatch(j) \/ Redispatch(j)
    <2>1. /\ jobs' = jobs
          /\ mainQ'[j] > 0
          /\ i # j => mainQ'[i] = mainQ[i] /\ outbox'[i] = outbox[i]
      BY <1>4 DEF Dispatch, Redispatch
    <2> QED BY <1>2, <2>1 DEF Attended, Driven, Working
  <1> QED BY <1>1, <1>3, <1>4

\* The broker: a message, a frame and a handler each hand the job on.
LEMMA AttendedBroker ==
    ASSUME Placed, BrokerNext, NEW i \in Jobs, Attended(i)
    PROVE  Attended(i)'
  <1> USE DEF Placed, TypeInv, TypeOK
  <1>0. jobs' = jobs /\ outbox' = outbox
    BY DEF BrokerNext, Deliver, RetryExpires, Flush, AckArrives, NackArrives
  <1>1. ASSUME NEW h \in Handlers, NEW m \in Messages, Deliver(h, m)
        PROVE  Attended(i)'
    <2>1. Replaced(h, [Idle EXCEPT !.pc = "claim", !.job = m])
      BY <1>1, BrokerReplaces
    <2>2. handler'[h].pc = "claim" /\ handler'[h].job = m
      BY <2>1 DEF Replaced, Idle
    <2>3. handler[h].pc = "idle" /\ handler[h].out = "none"
      BY <1>1 DEF Deliver, At, OutPlace
    <2>4. retryQ' = retryQ /\ (i # m => mainQ'[i] = mainQ[i])
      BY <1>1 DEF Deliver
    <2>5. \A g \in Handlers : Working(g, i) => Working(g, i)'
      BY <2>1, <2>3 DEF Replaced, Working
    <2>6. Driven(i) => Driven(i)'
      BY <1>0, <2>1, <2>2, <2>3, <2>4 DEF Replaced, Driven
    <2> QED BY <1>0, <2>5, <2>6 DEF Attended
  <1>2. ASSUME NEW j \in Jobs, RetryExpires(j) PROVE Attended(i)'
    <2>1. /\ handler' = handler
          /\ mainQ'[j] > 0
          /\ i # j => mainQ'[i] = mainQ[i] /\ retryQ'[i] = retryQ[i]
      BY <1>2 DEF RetryExpires
    <2> QED BY <1>0, <2>1 DEF Attended, Driven, Working
  <1>3. ASSUME NEW h \in Handlers, Flush(h) PROVE Attended(i)'
    <2>1. Moved(h, handler[h].pc, "none")
      BY <1>3, HandlerMoves
    <2>2. /\ mainQ' = mainQ
          /\ retryQ[i] > 0 => retryQ'[i] > 0
          /\ handler[h].job = i /\ handler[h].out = "retry" => retryQ'[i] > 0
      BY <1>3 DEF Flush
    <2>3. \A g \in Handlers : Working(g, i) => Working(g, i)'
      BY <2>1 DEF Moved, Working
    <2>4. Driven(i) => Driven(i)'
      BY <1>0, <2>1, <2>2 DEF Moved, Driven
    <2> QED BY <1>0, <2>3, <2>4 DEF Attended
  <1>4. ASSUME NEW h \in Handlers, AckArrives(h) PROVE Attended(i)'
    <2>1. Replaced(h, Idle)
      BY <1>4, BrokerReplaces
    <2>2. /\ handler[h].pc = "acked" /\ handler[h].out = "none"
          /\ mainQ' = mainQ /\ retryQ' = retryQ
      BY <1>4 DEF AckArrives, At
    <2> QED BY <1>0, <2>1, <2>2 DEF Replaced, Attended, Driven, Working
  <1>5. ASSUME NEW h \in Handlers, NackArrives(h) PROVE Attended(i)'
    <2>1. Replaced(h, Idle)
      BY <1>5, BrokerReplaces
    <2>2. /\ handler[h].pc = "nacked" /\ handler[h].out = "none"
          /\ retryQ' = retryQ
          /\ handler[h].job = i => mainQ'[i] > 0
          /\ handler[h].job # i => mainQ'[i] = mainQ[i]
      BY <1>5 DEF NackArrives, At
    <2>3. \A g \in Handlers : Working(g, i) => Working(g, i)'
      BY <2>1, <2>2 DEF Replaced, Working
    <2>4. Driven(i) => Driven(i)'
      BY <1>0, <2>1, <2>2 DEF Replaced, Driven
    <2> QED BY <1>0, <2>3, <2>4 DEF Attended
  <1> QED BY <1>1, <1>2, <1>3, <1>4, <1>5 DEF BrokerNext

\* The handler, on its own job.
LEMMA AttendedHandler ==
    ASSUME Placed, NEW h \in Handlers, SmoothHandler(h),
           NEW i \in Jobs, Attended(i)
    PROVE  Attended(i)'
  <1> USE DEF Placed, TypeInv, TypeOK
  <1>1. PICK pc, out : Moved(h, pc, out)
    BY HandlerMoves, GoToMoves DEF SmoothHandler, Settles
  <1>2. UNCHANGED <<outbox, mainQ, retryQ>>
    BY DEF SmoothHandler, DiscardMalformed, ClaimWins, ClaimMisses, Process,
           MarkCompleted, MarkRetrying, MarkDeadLettered, MarkMisses,
           Publish, PublishFull, PublishThrows, Settles
  <1>3. CASE i # handler[h].job
    <2>1. jobs'[i] = jobs[i]
      BY <1>3 DEF SmoothHandler, DiscardMalformed, ClaimWins, ClaimMisses,
           Process, MarkCompleted, MarkRetrying, MarkDeadLettered, MarkMisses,
           Publish, PublishFull, PublishThrows, Settles
    <2> QED BY <1>1, <1>2, <1>3, <2>1, AttendedOthers
  <1>4. CASE i = handler[h].job
    <2> USE <1>4
    <2>0. jobs[i] \in Row
      OBVIOUS
    <2>1. CASE DiscardMalformed(h)
      BY <2>1, WorkerAssumption DEF DiscardMalformed
    <2>2. CASE ClaimWins(h)
      <3>1. jobs'[i].status = "PROCESSING"
        BY <2>0, <2>2, RowsStay DEF ClaimWins
      <3>2. Working(h, i)'
        BY <2>2, HandlerMoves DEF Moved, Working
      <3> QED BY <3>1, <3>2 DEF Attended
    <2>3. CASE ClaimMisses(h)
      <3>1. /\ jobs' = jobs
            /\ jobs[i].status \notin {"QUEUED", "RETRYING"}
            /\ handler[h].pc = "claim"
        BY <2>3 DEF ClaimMisses, Claimable, At
      <3>2. \A g \in Handlers : Working(g, i) => Working(g, i)'
        BY <1>1, <3>1 DEF Moved, Working
      <3> QED BY <3>1, <3>2 DEF Attended
    <2>4. CASE Process(h)
      <3>1. \E q \in Marking : Moved(h, q, handler[h].out)
        BY <2>4, HandlerMoves
      <3>2. jobs' = jobs /\ handler[h].pc = "process"
        BY <2>4 DEF Process, At
      <3>3. \A g \in Handlers : Working(g, i) => Working(g, i)'
        BY <3>1 DEF Moved, Working
      <3>4. Driven(i) => Driven(i)'
        BY <1>2, <3>1, <3>2 DEF Moved, Driven
      <3> QED BY <3>2, <3>3, <3>4 DEF Attended
    <2>5. CASE MarkCompleted(h) \/ MarkDeadLettered(h)
      <3>1. jobs'[i].status \in {"COMPLETED", "DEAD_LETTERED"}
        BY <2>0, <2>5, RowsStay DEF MarkCompleted, MarkDeadLettered
      <3> QED BY <3>1 DEF Attended
    <2>6. CASE MarkRetrying(h)
      <3>1. jobs'[i].status = "RETRYING"
        BY <2>0, <2>6, RowsStay DEF MarkRetrying
      <3>2. Driven(i)'
        BY <2>6, HandlerMoves DEF Moved, Driven
      <3> QED BY <3>1, <3>2 DEF Attended
    <2>7. CASE MarkMisses(h)
      <3>1. jobs' = jobs /\ jobs[i].status # "PROCESSING"
        BY <2>7 DEF MarkMisses, Markable
      <3>2. Driven(i)'
        BY <2>7, HandlerMoves DEF Moved, Driven
      <3> QED BY <3>1, <3>2 DEF Attended
    <2>8. CASE Publish(h) \/ PublishFull(h) \/ PublishThrows(h)
      <3>1. jobs' = jobs /\ handler[h].pc \in Publishing /\ handler[h].out = "none"
        BY <2>8 DEF Publish, PublishFull, PublishThrows, OutPlace
      <3>2. \A g \in Handlers : Working(g, i) => Working(g, i)'
        BY <1>1, <3>1 DEF Moved, Working
      <3>3. Driven(i) => Driven(i)'
        <4>1. CASE Publish(h)
          <5>1. Moved(h, "ackBare", Frame(handler[h].pc))
            BY <4>1, HandlerMoves
          <5> QED BY <1>2, <3>1, <5>1 DEF Moved, Driven, Frame
        <4>2. CASE PublishFull(h) \/ PublishThrows(h)
          <5>1. handler'[h].pc = "backoff" /\ handler'[h].job = i
            BY <4>2, HandlerMoves DEF Moved
          <5> QED BY <5>1 DEF Driven
        <4> QED BY <2>8, <4>1, <4>2
      <3> QED BY <3>1, <3>2, <3>3 DEF Attended
    <2>9. CASE Settles(h)
      <3>1. jobs' = jobs
        BY <2>9 DEF Settles
      <3>2. \/ /\ handler[h].pc \in {"ackTry", "ackBare"}
               /\ Moved(h, "acked", handler[h].out)
            \/ /\ handler[h].pc = "backoff"
               /\ Moved(h, "nacked", handler[h].out)
        BY <2>9, GoToMoves DEF Settles, At
      <3>3. \A g \in Handlers : Working(g, i) => Working(g, i)'
        BY <3>2 DEF Moved, Working
      <3>4. Driven(i) => Driven(i)'
        BY <1>2, <3>2 DEF Moved, Driven
      <3> QED BY <3>1, <3>3, <3>4 DEF Attended
    <2> QED BY <2>1, <2>2, <2>3, <2>4, <2>5, <2>6, <2>7, <2>8, <2>9
            DEF SmoothHandler
  <1> QED BY <1>3, <1>4

\* The steps that lose nothing leave every job attended.
LEMMA AttendedNext ==
    ASSUME Placed, AllOpen, Alone, [Next]_vars, ~ Lossy',
           NEW i \in Jobs, Attended(i)
    PROVE  Attended(i)'
  <1>1. ASSUME NEW j \in Jobs, GoStale(j) PROVE Attended(i)'
    <2>1. /\ jobs'[i].status = jobs[i].status
          /\ UNCHANGED <<outbox, mainQ, retryQ, handler>>
      BY <1>1 DEF GoStale, Placed, TypeInv, TypeOK, Row
    <2> QED BY <2>1 DEF Attended, Driven, Working
  <1>2. CASE UNCHANGED vars
    BY <1>2 DEF vars, Attended, Driven, Working
  <1>3. ASSUME NEW h \in Handlers, DiesAlone(h) PROVE Attended(i)'
    <2>1. /\ handler[h].job # i
          /\ \A g \in Handlers \ {h} : handler'[g] = handler[g]
          /\ mainQ'[i] = mainQ[i]
          /\ UNCHANGED <<jobs, outbox, retryQ>>
      BY <1>3 DEF DiesAlone, Replaced
    <2> QED BY <2>1 DEF Attended, Driven, Working
  <1> QED BY <1>1, <1>2, <1>3, SmoothSteps, AttendedApi, AttendedBroker,
             AttendedHandler DEF Placed

\* NoOrphan with the open channels and the prefetch that make it inductive.
AttendedInv == Placed /\ (~ Lossy => /\ AllOpen /\ Alone
                                     /\ \A j \in Jobs : Attended(j))

\* It holds in every reachable state.
LEMMA AttendedInvariant == Spec => []AttendedInv
  <1>1. Init => AttendedInv
    <2> SUFFICES ASSUME Init PROVE AttendedInv
      OBVIOUS
    <2>1. Placed
      BY PlacedInit
    <2>2. AllOpen /\ Alone /\ \A j \in Jobs : Attended(j)
      BY DEF Init, AllOpen, Alone, Attended, Idle, NoRow, NewRow
    <2> QED BY <2>1, <2>2 DEF AttendedInv
  <1>2. AttendedInv /\ [Next]_vars => AttendedInv'
    <2> SUFFICES ASSUME AttendedInv, [Next]_vars PROVE AttendedInv'
      OBVIOUS
    <2>1. Placed'
      BY PlacedNext DEF AttendedInv
    <2>2. ASSUME ~ Lossy'
          PROVE  AllOpen' /\ Alone' /\ \A j \in Jobs : Attended(j)'
      <3>1. ~ Lossy
        BY <2>2, FaultsStay DEF Lossy, Happened
      <3> QED BY <2>2, <3>1, OpenNext, AloneNext, AttendedNext
              DEF AttendedInv, Placed
    <2> QED BY <2>1, <2>2 DEF AttendedInv
  <1> QED BY <1>1, <1>2, PTL DEF Spec

\* Until a process dies, a connection is lost or a query fails, no job is
\* stranded, whatever publishes fail, events are duplicated and handlers
\* overrun: at each of its awaits the consumer leaves either a message, a
\* frame or itself behind the job.
THEOREM NobodyStranded == Spec => []NoOrphan
  <1>1. AttendedInv => NoOrphan
    BY DEF AttendedInv, Attended, NoOrphan
  <1> QED BY <1>1, AttendedInvariant, PTL

-----------------------------------------------------------------------------
(* The dead-letter queue.                                                  *)

\* A statement other than markDeadLettered() leaves the times a job was
\* given up as they are; a replay only moves the last one to replay_count.
LEMMA GivenUpCounts ==
    ASSUME NEW r \in Row
    PROVE  /\ GivenUp(r) \in Nat
           /\ r.status = "ABSENT" /\ r.replay_count = 0 =>
                \A p \in Payloads : GivenUp(NewRow(p)) = GivenUp(r)
           /\ Replayable(r) => GivenUp(claimReplay(r)) = GivenUp(r)
           /\ Claimable(r) => GivenUp(claimJob(r)) = GivenUp(r)
           /\ Markable(r) => GivenUp(markCompleted(r)) = GivenUp(r)
           /\ Markable(r) => GivenUp(markRetrying(r)) = GivenUp(r)
           /\ Markable(r) => GivenUp(markDeadLettered(r)) = GivenUp(r) + 1
           /\ GivenUp([r EXCEPT !.updated_at = "stale"]) = GivenUp(r)
  <1> USE DEF GivenUp, Row
  <1>1. GivenUp(r) \in Nat
    OBVIOUS
  <1>2. r.status = "ABSENT" /\ r.replay_count = 0 =>
          \A p \in Payloads : GivenUp(NewRow(p)) = GivenUp(r)
    BY DEF NewRow
  <1>3. Replayable(r) => GivenUp(claimReplay(r)) = GivenUp(r)
    BY DEF Replayable, claimReplay
  <1>4. Claimable(r) => GivenUp(claimJob(r)) = GivenUp(r)
    BY DEF Claimable, claimJob
  <1>5. Markable(r) => /\ GivenUp(markCompleted(r)) = GivenUp(r)
                       /\ GivenUp(markRetrying(r)) = GivenUp(r)
    BY DEF Markable, markCompleted, markRetrying
  <1>6. Markable(r) => GivenUp(markDeadLettered(r)) = GivenUp(r) + 1
    BY DEF Markable, markDeadLettered
  <1>7. GivenUp([r EXCEPT !.updated_at = "stale"]) = GivenUp(r)
    OBVIOUS
  <1> QED BY <1>1, <1>2, <1>3, <1>4, <1>5, <1>6, <1>7

\* There are only so many handlers to owe a message.
LEMMA SendersFinite ==
    ASSUME NEW j \in Jobs
    PROVE  IsFiniteSet(Senders(j)) /\ Cardinality(Senders(j)) \in Nat
  BY WorkerAssumption, FS_Subset, FS_CardinalityType DEF Senders

\* Nobody starts or stops owing, the queue and the count stay.
LEMMA BalancedKept ==
    ASSUME NEW i \in Jobs, Balanced(i), dlq'[i] = dlq[i],
           GivenUp(jobs'[i]) = GivenUp(jobs[i]), Senders(i)' = Senders(i)
    PROVE  Balanced(i)'
  <1>1. GivenUp(jobs[i])' = GivenUp(jobs'[i])
    BY DEF GivenUp
  <1> QED BY <1>1 DEF Balanced

\* The API: a replay turns "dead now" into "dead once".
LEMMA BalancedApi ==
    ASSUME Placed, ApiNext, NEW i \in Jobs, Balanced(i)
    PROVE  Balanced(i)'
  <1> USE DEF Placed, TypeInv, TypeOK
  <1>0. jobs[i] \in Row
    OBVIOUS
  <1>1. PICK j \in Jobs : Create(j) \/ Replay(j) \/ Dispatch(j) \/ Redispatch(j)
    BY DEF ApiNext
  <1>2. dlq' = dlq /\ Senders(i)' = Senders(i)
    BY <1>1 DEF Create, Replay, Dispatch, Redispatch, Senders, At
  <1>3. GivenUp(jobs'[i]) = GivenUp(jobs[i])
    <2>1. CASE jobs'[i] = jobs[i]
      BY <2>1
    <2>2. CASE jobs'[i] # jobs[i]
      <3>1. i = j /\ (Create(i) \/ Replay(i))
        BY <1>1, <2>2 DEF Create, Replay, Dispatch, Redispatch
      <3>2. CASE Create(i)
        <4>1. jobs[i].status = "ABSENT" /\ jobs[i].replay_count = 0
          BY <3>2 DEF Create, AbsentFresh
        <4>2. PICK p \in Payloads : jobs'[i] = NewRow(p)
          BY <3>2 DEF Create
        <4>3. GivenUp(NewRow(p)) = GivenUp(jobs[i])
          BY <1>0, <4>1, GivenUpCounts
        <4> QED BY <4>2, <4>3
      <3>3. CASE Replay(i)
        <4>1. Replayable(jobs[i]) /\ jobs'[i] = claimReplay(jobs[i])
          BY <3>3 DEF Replay
        <4> QED BY <1>0, <4>1, GivenUpCounts
      <3> QED BY <3>1, <3>2, <3>3
    <2> QED BY <2>1, <2>2
  <1> QED BY <1>2, <1>3, BalancedKept

\* The broker: only the flush of a dead-letter frame moves anything, from a
\* handler that owed it to the queue.
LEMMA BalancedBroker ==
    ASSUME Placed, BrokerNext, NEW i \in Jobs, Balanced(i)
    PROVE  Balanced(i)'
  <1> USE DEF Placed, TypeInv, TypeOK
  <1>0. jobs' = jobs
    BY DEF BrokerNext, Deliver, RetryExpires, Flush, AckArrives, NackArrives
  <1>1. CASE dlq' = dlq /\ Senders(i)' = Senders(i)
    BY <1>0, <1>1, BalancedKept
  <1>2. ASSUME NEW h \in Handlers, NEW k, Replaced(h, k),
               k.pc # "pubDead", k.out # "dead",
               handler[h].pc # "pubDead", handler[h].out # "dead"
        PROVE  Senders(i)' = Senders(i)
    BY <1>2 DEF Replaced, Senders, At
  <1>3. ASSUME NEW h \in Handlers, NEW m \in Messages, Deliver(h, m)
        PROVE  Balanced(i)'
    <2>1. handler[h].pc = "idle" /\ handler[h].out = "none"
      BY <1>3 DEF Deliver, At, OutPlace
    <2> DEFINE k == [Idle EXCEPT !.pc = "claim", !.job = m]
    <2>2. k.pc = "claim" /\ k.out = "none" /\ dlq' = dlq
      BY <1>3 DEF Idle, Deliver
    <2>3. Replaced(h, k)
      BY <1>3, BrokerReplaces
    <2> HIDE DEF k
    <2> QED BY <1>1, <1>2, <2>1, <2>2, <2>3
  <1>4. ASSUME NEW h \in Handlers, AckArrives(h) \/ NackArrives(h)
        PROVE  Balanced(i)'
    <2>1. /\ handler[h].pc \in {"acked", "nacked"} /\ handler[h].out = "none"
          /\ dlq' = dlq
      BY <1>4 DEF AckArrives, NackArrives, At
    <2>2. Idle.pc = "idle" /\ Idle.out = "none"
      BY DEF Idle
    <2> QED BY <1>1, <1>2, <1>4, <2>1, <2>2, BrokerReplaces
  <1>5. ASSUME NEW j \in Jobs, RetryExpires(j) PROVE Balanced(i)'
    BY <1>1, <1>5 DEF RetryExpires, Senders, At
  <1>6. ASSUME NEW h \in Handlers, Flush(h) PROVE Balanced(i)'
    <2>1. Moved(h, handler[h].pc, "none")
      BY <1>6, HandlerMoves
    <2>2. handler[h].pc \in {"ackBare", "acked", "backoff", "nacked"}
      BY <1>6 DEF Flush, OutPlace
    <2>3. CASE handler[h].job = i /\ handler[h].out = "dead"
      <3>1. h \in Senders(i) /\ Senders(i)' = Senders(i) \ {h}
        BY <2>1, <2>2, <2>3 DEF Moved, Senders, At
      <3>2. Cardinality(Senders(i)') = Cardinality(Senders(i)) - 1
        BY <3>1, SendersFinite, FS_RemoveElement
      <3>3. dlq'[i] = dlq[i] + 1 /\ dlq[i] \in Nat
        BY <1>6, <2>3 DEF Flush
      <3>4. Cardinality(Senders(i)) \in Nat
        BY SendersFinite
      <3>5. GivenUp(jobs[i])' = GivenUp(jobs[i])
        BY <1>0 DEF GivenUp
      <3> QED BY <3>2, <3>3, <3>4, <3>5 DEF Balanced
    <2>4. CASE ~ (handler[h].job = i /\ handler[h].out = "dead")
      <3>1. Senders(i)' = Senders(i)
        BY <2>1, <2>2, <2>4 DEF Moved, Senders, At
      <3>2. dlq'[i] = dlq[i]
        BY <1>6, <2>4 DEF Flush
      <3> QED BY <1>0, <3>1, <3>2, BalancedKept
    <2> QED BY <2>3, <2>4
  <1> QED BY <1>3, <1>4, <1>5, <1>6 DEF BrokerNext

\* The handler: markDeadLettered() makes its handler owe one message, and a
\* publish that does not throw leaves it owing the frame instead.
LEMMA BalancedHandler ==
    ASSUME Placed, NEW h \in Handlers, SmoothHandler(h), ~ PublishThrows(h),
           NEW i \in Jobs, Balanced(i)
    PROVE  Balanced(i)'
  <1> USE DEF Placed, TypeInv, TypeOK
  <1>0. jobs[i] \in Row /\ dlq[i] \in Nat
    OBVIOUS
  <1>1. dlq' = dlq
    BY DEF SmoothHandler, DiscardMalformed, ClaimWins, ClaimMisses, Process,
           MarkCompleted, MarkRetrying, MarkDeadLettered, MarkMisses,
           Publish, PublishFull, Settles
  <1>2. CASE MarkDeadLettered(h)
    <2>1. /\ handler[h].pc = "deadLetter" /\ Markable(jobs[handler[h].job])
          /\ handler[h].out = "none"
          /\ Moved(h, "pubDead", handler[h].out)
      BY <1>2, HandlerMoves DEF MarkDeadLettered, At, OutPlace
    <2>2. CASE handler[h].job = i
      <3>1. h \notin Senders(i) /\ Senders(i)' = Senders(i) \cup {h}
        BY <2>1, <2>2 DEF Moved, Senders, At
      <3>2. Cardinality(Senders(i)') = Cardinality(Senders(i)) + 1
        BY <3>1, SendersFinite, FS_AddElement
      <3>3. GivenUp(jobs'[i]) = GivenUp(jobs[i]) + 1 /\ GivenUp(jobs[i]) \in Nat
        BY <1>0, <1>2, <2>1, <2>2, GivenUpCounts DEF MarkDeadLettered
      <3>4. GivenUp(jobs[i])' = GivenUp(jobs'[i])
        BY DEF GivenUp
      <3>5. Cardinality(Senders(i)) \in Nat
        BY SendersFinite
      <3> QED BY <1>0, <1>1, <3>2, <3>3, <3>4, <3>5 DEF Balanced
    <2>3. CASE handler[h].job # i
      <3>1. Senders(i)' = Senders(i)
        BY <2>1, <2>3 DEF Moved, Senders, At
      <3>2. jobs'[i] = jobs[i]
        BY <1>2, <2>3 DEF MarkDeadLettered
      <3> QED BY <1>1, <3>1, <3>2, BalancedKept
    <2> QED BY <2>2, <2>3
  <1>3. CASE ~ MarkDeadLettered(h)
    <2>1. GivenUp(jobs'[i]) = GivenUp(jobs[i])
      <3>1. CASE jobs'[i] = jobs[i]
        BY <3>1
      <3>2. CASE jobs'[i] # jobs[i]
        <4>1. ClaimWins(h) \/ MarkCompleted(h) \/ MarkRetrying(h)
          BY <1>3, <3>2 DEF SmoothHandler, DiscardMalformed, ClaimMisses,
             Process, MarkMisses, Publish, PublishFull, Settles
        <4>2. handler[h].job = i
          BY <3>2, <4>1 DEF ClaimWins, MarkCompleted, MarkRetrying
        <4> QED BY <1>0, <4>1, <4>2, GivenUpCounts
                DEF ClaimWins, MarkCompleted, MarkRetrying
      <3> QED BY <3>1, <3>2
    <2>2. Senders(i)' = Senders(i)
      <3>1. ASSUME NEW pc, NEW out, Moved(h, pc, out),
                   (pc = "pubDead" \/ out = "dead")
                      <=> (handler[h].pc = "pubDead" \/ handler[h].out = "dead")
            PROVE  Senders(i)' = Senders(i)
        BY <3>1 DEF Moved, Senders, At
      <3>2. CASE Publish(h) \/ PublishFull(h)
        <4>1. handler[h].pc \in Publishing /\ handler[h].out = "none"
          BY <3>2 DEF Publish, PublishFull, OutPlace
        <4>2. PICK pc \in {"ackBare", "backoff"} : Moved(h, pc, Frame(handler[h].pc))
          BY <3>2, HandlerMoves
        <4> QED BY <3>1, <4>1, <4>2 DEF Frame
      <3>3. CASE ~ (Publish(h) \/ PublishFull(h))
        <4>1. handler[h].pc # "pubDead"
          BY <1>3, <3>3 DEF SmoothHandler, DiscardMalformed, ClaimWins,
             ClaimMisses, Process, MarkCompleted, MarkRetrying, MarkMisses,
             Settles, At
        <4>2. PICK pc \in {"ackBare", "process", "ackTry", "pubRetry", "backoff",
                           "acked", "nacked"} \cup Marking :
                    Moved(h, pc, handler[h].out)
          BY <1>3, <3>3, HandlerMoves, GoToMoves DEF SmoothHandler, Settles
        <4> QED BY <3>1, <4>1, <4>2
      <3> QED BY <3>2, <3>3
    <2> QED BY <1>1, <2>1, <2>2, BalancedKept
  <1> QED BY <1>2, <1>3

\* Every step that loses nothing, no publish having thrown.
LEMMA BalancedNext ==
    ASSUME Placed, AllOpen, Alone, [Next]_vars,
           ~ Lossy', ~ Happened({"throw"})', NEW i \in Jobs, Balanced(i)
    PROVE  Balanced(i)'
  <1>1. \A h \in Handlers : ~ PublishThrows(h)
    BY FaultHappens DEF PublishThrows
  <1>2. ASSUME NEW j \in Jobs, GoStale(j) PROVE Balanced(i)'
    <2>1. jobs[i] \in Row /\ jobs[j] \in Row
      BY DEF Placed, TypeInv, TypeOK
    <2>2. jobs'[i] = jobs[i] \/ jobs'[i] = [jobs[i] EXCEPT !.updated_at = "stale"]
      BY <1>2 DEF GoStale, Placed, TypeInv, TypeOK
    <2>3. GivenUp(jobs'[i]) = GivenUp(jobs[i])
      BY <2>1, <2>2, GivenUpCounts
    <2>4. dlq' = dlq /\ Senders(i)' = Senders(i)
      BY <1>2 DEF GoStale, Senders, At
    <2> QED BY <2>3, <2>4, BalancedKept
  <1>3. CASE UNCHANGED vars
    <2>1. dlq' = dlq /\ jobs' = jobs /\ Senders(i)' = Senders(i)
      BY <1>3 DEF vars, Senders, At
    <2> QED BY <2>1, BalancedKept
  <1>4. ASSUME NEW h \in Handlers, DiesAlone(h) PROVE Balanced(i)'
    <2>1. /\ handler[h].job # i /\ handler'[h].job = None
          /\ \A g \in Handlers \ {h} : handler'[g] = handler[g]
          /\ dlq' = dlq /\ jobs' = jobs
      BY <1>4 DEF DiesAlone, Replaced, Idle
    <2>2. i # None
      BY WorkerAssumption DEF Messages
    <2>3. Senders(i)' = Senders(i)
      BY <2>1, <2>2 DEF Senders, At
    <2> QED BY <2>1, <2>3, BalancedKept
  <1> QED BY <1>1, <1>2, <1>3, <1>4, SmoothSteps, BalancedApi, BalancedBroker,
             BalancedHandler

\* DeadLettersMatch, in the vocabulary of the proof.
BalancedInv == ~ Lossy /\ ~ Happened({"throw"}) => \A j \in Jobs : Balanced(j)

\* It holds in every reachable state; AttendedInv gives it the open channels.
LEMMA BalancedInvariant == Spec => []BalancedInv
  <1>1. Init => BalancedInv
    <2> SUFFICES ASSUME Init, NEW j \in Jobs PROVE Balanced(j)
      BY DEF BalancedInv
    <2>1. Senders(j) = {}
      BY DEF Init, Senders, At, Idle
    <2>2. GivenUp(jobs[j]) = 0 /\ dlq[j] = 0
      BY DEF Init, GivenUp, NoRow, NewRow
    <2> QED BY <2>1, <2>2, FS_EmptySet DEF Balanced
  <1>2. AttendedInv /\ BalancedInv /\ [Next]_vars => BalancedInv'
    <2> SUFFICES ASSUME AttendedInv, BalancedInv, [Next]_vars,
                        ~ Lossy', ~ Happened({"throw"})', NEW j \in Jobs
                 PROVE  Balanced(j)'
      BY DEF BalancedInv
    <2>1. ~ Lossy /\ ~ Happened({"throw"})
      BY FaultsStay DEF Lossy, Happened
    <2> QED BY <2>1, BalancedNext DEF AttendedInv, BalancedInv
  <1> QED BY <1>1, <1>2, AttendedInvariant, PTL DEF Spec

\* Until something is lost or a publish throws, dead-letter queue and table
\* agree: as many messages went, or are about to go, to the queue as the
\* job was given up, over all its replays.
THEOREM DeadLettersCounted == Spec => []DeadLettersMatch
  <1>1. BalancedInv => DeadLettersMatch
    BY DEF BalancedInv, Balanced, Senders, GivenUp, DeadLettersMatch
  <1> QED BY <1>1, BalancedInvariant, PTL

=============================================================================
