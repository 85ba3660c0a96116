------------------------------- MODULE Worker -------------------------------
(***************************************************************************)
(* The life of a job between Postgres and RabbitMQ: the worker's consumer  *)
(* (apps/worker/src/consumer.ts) at the grain of its awaits, over the jobs *)
(* table, the broker's three queues and the API's create and replay.       *)
(*                                                                         *)
(* A message handler is a little process: everything between two awaits is *)
(* one step, and at each await it may be interleaved with other handlers,  *)
(* with the broker, with the API and with the faults of FaultKinds.  The   *)
(* outbox dispatcher is abstracted here to "a pending intent is published  *)
(* once, and possibly again"; the broker is external and modelled from how *)
(* the code uses it.                                                       *)
(***************************************************************************)
EXTENDS JobsTable, FiniteSets

CONSTANTS
    Jobs,        \* job ids that may be inserted
    Foreign,     \* messages that name no row: bad JSON, bad UUID, unknown id
                 \* (a body without a jobId is one of these) or JSON null
    NullBody,    \* the last of these: null parses, and has no jobId to take
    Workers,     \* worker processes
    Handlers,    \* message handlers; see WorkerOf
    WorkerOf,    \* the process a handler runs in.  prefetch(1) leaves one
                 \* handler on the open channel; the others of the process
                 \* were started on channels that have since closed
    Processor,   \* the outcomes processJob() may have on each payload
    Faulty,      \* the kinds of fault that may happen
    MaxReplays,  \* bound on the replays of one job
    MaxFaults    \* bound on the faults of one behaviour, of all kinds

Outcomes == {"ok", "retryable", "nonRetryable"}

\* crash    a worker process dies, or is stopped, between two steps
\* drop     a worker's connection to the broker is lost
\* db       a query fails, its UPDATE having been applied or not
\* throw    a publish throws: no channel could be had, or it was closed
\* full     publish() returns false; amqplib has buffered the frame anyway
\* overrun  a job stays with a working handler past the staleness threshold
\* dup      the dispatcher publishes an event a second time
FaultKinds == {"crash", "drop", "db", "throw", "full", "overrun", "dup"}

Messages == Jobs \cup Foreign

ASSUME WorkerAssumption ==
    /\ Jobs \cap Foreign = {}
    /\ NullBody \subseteq Foreign
    /\ None \notin Messages /\ None \notin Handlers
    /\ IsFiniteSet(Handlers)
    /\ WorkerOf \in [Handlers -> Workers]
    /\ Processor \in [Payloads -> (SUBSET Outcomes) \ {{}}]
    /\ Faulty \subseteq FaultKinds
    /\ MaxReplays \in Nat
    /\ MaxFaults \in Nat

\* The repository's stub processJob(): the payload decides the outcome.
StubPayloads == {"plain", "shouldFail", "shouldFailPermanently"}
StubProcessor == [p \in StubPayloads |->
    CASE p = "plain"                 -> {"ok"}
      [] p = "shouldFail"            -> {"retryable"}
      [] p = "shouldFailPermanently" -> {"nonRetryable"}]

VARIABLES
    jobs,      \* the jobs table
    outbox,    \* per job, intents to publish job.created, not yet published
    mainQ,     \* deadletter.jobs.queue: how many of each message are ready
    retryQ,    \* deadletter.jobs.retry.queue
    dlq,       \* deadletter.jobs.dlq
    handler,   \* the message handlers
    owner,     \* auxiliary: the handler whose claim of the job came last
    faults     \* how many more may happen, and the kinds that have

vars == <<jobs, outbox, mainQ, retryQ, dlq, handler, owner, faults>>

-----------------------------------------------------------------------------
(* The handler's control state.                                            *)
(*   claim                awaiting claimJob()                              *)
(*   process              awaiting processJob()                            *)
(*   complete, retry, deadLetter   awaiting the mark of that outcome       *)
(*   pubRetry, pubDead    awaiting the publish that follows the mark       *)
(*   ackTry, ackBare      about to ack, inside or outside a try block      *)
(*   acked, nacked        the frame is on its way to the broker            *)
(*   backoff              in backoffBeforeRequeue(), then about to nack    *)

Marking    == {"complete", "retry", "deadLetter"}
Publishing == {"pubRetry", "pubDead"}
WorkingPc  == {"process"} \cup Marking

Idle == [pc |-> "idle", job |-> None, attempt |-> 0, chan |-> "open",
         out |-> "none"]

Handler == [ pc      : {"idle", "claim", "ackTry", "ackBare", "acked",
                        "backoff", "nacked"} \cup WorkingPc \cup Publishing,
             job     : Messages \cup {None},
             attempt : Nat,               \* job.attempt_count, as claimed
             chan    : {"open", "closed"},\* the channel msg came on
             out     : {"none", "retry", "dead"} ]  \* published, unflushed

FaultRecord == [left : Nat, kinds : SUBSET FaultKinds]

TypeOK ==
    /\ jobs    \in [Jobs -> Row]
    /\ outbox  \in [Jobs -> Nat]
    /\ mainQ   \in [Messages -> Nat]
    /\ retryQ  \in [Jobs -> Nat]
    /\ dlq     \in [Jobs -> Nat]
    /\ handler \in [Handlers -> Handler]
    /\ owner   \in [Jobs -> Handlers \cup {None}]
    /\ faults  \in FaultRecord

Init ==
    /\ jobs    = [j \in Jobs |-> NoRow]
    /\ outbox  = [j \in Jobs |-> 0]
    /\ mainQ   = [m \in Messages |-> IF m \in Foreign THEN 1 ELSE 0]
    /\ retryQ  = [j \in Jobs |-> 0]
    /\ dlq     = [j \in Jobs |-> 0]
    /\ handler = [h \in Handlers |-> Idle]
    /\ owner   = [j \in Jobs |-> None]
    /\ faults  = [left |-> MaxFaults, kinds |-> {}]

Fault(kind) == /\ kind \in Faulty
               /\ faults.left > 0
               /\ faults' = [left  |-> faults.left - 1,
                             kinds |-> faults.kinds \cup {kind}]

Happened(kinds) == faults.kinds \cap kinds # {}

At(h, pc) == handler[h].pc = pc

GoTo(h, pc) == handler' = [handler EXCEPT ![h].pc = pc]

Working(h, j) == handler[h].pc \in WorkingPc /\ handler[h].job = j

-----------------------------------------------------------------------------
(* The API and its dispatcher.                                             *)

\* createJob(): the row and its outbox event in one transaction.
Create(j) ==
    /\ jobs[j].status = "ABSENT"
    /\ \E p \in Payloads : jobs' = [jobs EXCEPT ![j] = NewRow(p)]
    /\ outbox' = [outbox EXCEPT ![j] = @ + 1]
    /\ UNCHANGED <<mainQ, retryQ, dlq, handler, owner, faults>>

\* claimReplay(): the conditional UPDATE and its outbox event likewise.
Replay(j) ==
    /\ Replayable(jobs[j])
    /\ jobs[j].replay_count < MaxReplays
    /\ jobs' = [jobs EXCEPT ![j] = claimReplay(@)]
    /\ outbox' = [outbox EXCEPT ![j] = @ + 1]
    /\ UNCHANGED <<mainQ, retryQ, dlq, handler, owner, faults>>

\* Mutant: an event is published without having been claimed.
MutDispatchUnclaimed(j) ==
    /\ jobs[j].status # "ABSENT"
    /\ outbox' = [outbox EXCEPT ![j] = @ - 1]
    /\ mainQ' = [mainQ EXCEPT ![j] = @ + 1]
    /\ UNCHANGED <<jobs, retryQ, dlq, handler, owner, faults>>

\* dispatchOutboxBatch(), as far as the worker can see it.
Dispatch(j) ==
    /\ outbox[j] > 0
    /\ outbox' = [outbox EXCEPT ![j] = @ - 1]
    /\ mainQ' = [mainQ EXCEPT ![j] = @ + 1]
    /\ UNCHANGED <<jobs, retryQ, dlq, handler, owner, faults>>

\* The API died between publish and markOutboxPublished, or two ticks held
\* the same event: it is published again ("explicitly NOT exactly-once").
Redispatch(j) ==
    /\ Fault("dup")
    /\ jobs[j].status # "ABSENT"
    /\ mainQ' = [mainQ EXCEPT ![j] = @ + 1]
    /\ UNCHANGED <<jobs, outbox, retryQ, dlq, handler, owner>>

-----------------------------------------------------------------------------
(* The broker.                                                             *)

\* prefetch(1): nothing more is sent on a channel with a message unsettled.
Deliver(h, m) ==
    /\ mainQ[m] > 0
    /\ At(h, "idle")
    /\ \A g \in Handlers : WorkerOf[g] = WorkerOf[h] =>
            At(g, "idle") \/ handler[g].chan = "closed"
    /\ mainQ' = [mainQ EXCEPT ![m] = @ - 1]
    /\ handler' = [handler EXCEPT ![h] =
                     [Idle EXCEPT !.pc = "claim", !.job = m]]
    /\ UNCHANGED <<jobs, outbox, retryQ, dlq, owner, faults>>

\* A message of the retry queue reaches its expiration and is dead-lettered
\* to the main exchange.
RetryExpires(j) ==
    /\ retryQ[j] > 0
    /\ retryQ' = [retryQ EXCEPT ![j] = @ - 1]
    /\ mainQ' = [mainQ EXCEPT ![j] = @ + 1]
    /\ UNCHANGED <<jobs, outbox, dlq, handler, owner, faults>>

\* A published frame leaves amqplib's buffer and the broker routes it.
Flush(h) ==
    /\ handler[h].out # "none"
    /\ retryQ' = [j \in Jobs |->
                    IF j = handler[h].job /\ handler[h].out = "retry"
                    THEN retryQ[j] + 1 ELSE retryQ[j]]
    /\ dlq' = [j \in Jobs |->
                    IF j = handler[h].job /\ handler[h].out = "dead"
                    THEN dlq[j] + 1 ELSE dlq[j]]
    /\ handler' = [handler EXCEPT ![h].out = "none"]
    /\ UNCHANGED <<jobs, outbox, mainQ, owner, faults>>

\* Frames of one connection arrive in order: the ack after the publish.
AckArrives(h) ==
    /\ At(h, "acked")
    /\ handler[h].out = "none"
    /\ handler' = [handler EXCEPT ![h] = Idle]
    /\ UNCHANGED <<jobs, outbox, mainQ, retryQ, dlq, owner, faults>>

NackArrives(h) ==
    /\ At(h, "nacked")
    /\ handler[h].out = "none"
    /\ handler' = [handler EXCEPT ![h] = Idle]
    /\ mainQ' = [mainQ EXCEPT ![handler[h].job] = @ + 1]
    /\ UNCHANGED <<jobs, outbox, retryQ, dlq, owner, faults>>

\* The message w's open channel has not settled (prefetch(1): at most one).
Unsettled(w, m) == \E h \in Handlers : /\ WorkerOf[h] = w
                                       /\ handler[h].pc # "idle"
                                       /\ handler[h].chan = "open"
                                       /\ handler[h].job = m

Requeue(w) == mainQ' = [m \in Messages |->
                          IF Unsettled(w, m) THEN mainQ[m] + 1 ELSE mainQ[m]]

\* Every handler of the process is gone; the broker requeues what it held.
Die(w) ==
    /\ handler' = [h \in Handlers |-> IF WorkerOf[h] = w THEN Idle
                                                         ELSE handler[h]]
    /\ Requeue(w)

-----------------------------------------------------------------------------
(* The handler, one await at a time.                                       *)

\* Mutant: a message that cannot be parsed is requeued like any failure.
MutRequeueMalformed(h) ==
    /\ At(h, "claim")
    /\ handler[h].job \in Foreign \ NullBody
    /\ GoTo(h, "backoff")
    /\ UNCHANGED <<jobs, outbox, mainQ, retryQ, dlq, owner, faults>>

\* JSON.parse() throws, or claimJob() fails with 22P02: ack and discard.
DiscardMalformed(h) ==
    /\ At(h, "claim")
    /\ handler[h].job \in Foreign \ NullBody
    /\ GoTo(h, "ackBare")
    /\ UNCHANGED <<jobs, outbox, mainQ, retryQ, dlq, owner, faults>>

\* The jobId of null: a TypeError outside every try block, an unhandled
\* rejection and so the end of the process, with the message unsettled.
ThrowOnNull(h) ==
    /\ At(h, "claim")
    /\ handler[h].job \in NullBody
    /\ Die(WorkerOf[h])
    /\ UNCHANGED <<jobs, outbox, retryQ, dlq, owner, faults>>

ClaimWins(h) ==
    LET j == handler[h].job IN
    /\ At(h, "claim")
    /\ j \in Jobs
    /\ Claimable(jobs[j])
    /\ jobs' = [jobs EXCEPT ![j] = claimJob(@)]
    /\ handler' = [handler EXCEPT ![h].pc = "process",
                                  ![h].attempt = jobs[j].attempt_count + 1]
    /\ owner' = [owner EXCEPT ![j] = h]
    /\ UNCHANGED <<outbox, mainQ, retryQ, dlq, faults>>

\* Mutant: a lost claim returns without settling the message.
MutClaimMissesUnacked(h) ==
    /\ At(h, "claim")
    /\ handler[h].job \notin NullBody
    /\ handler[h].job \in Jobs => ~ Claimable(jobs[handler[h].job])
    /\ UNCHANGED vars

\* claimJob() matches no row.  The getJobById() that follows only logs.
ClaimMisses(h) ==
    LET j == handler[h].job IN
    /\ At(h, "claim")
    /\ j \notin NullBody
    /\ j \in Jobs => ~ Claimable(jobs[j])
    /\ GoTo(h, "ackTry")
    /\ UNCHANGED <<jobs, outbox, mainQ, retryQ, dlq, owner, faults>>

\* claimJob() throws; the UPDATE may nevertheless have been committed.
ClaimFails(h) ==
    LET j == handler[h].job IN
    /\ At(h, "claim")
    /\ j \notin NullBody
    /\ Fault("db")
    /\ GoTo(h, "backoff")
    /\ \/ UNCHANGED <<jobs, owner>>
       \/ /\ j \in Jobs
          /\ Claimable(jobs[j])
          /\ jobs' = [jobs EXCEPT ![j] = claimJob(@)]
          /\ owner' = [owner EXCEPT ![j] = h]
    /\ UNCHANGED <<outbox, mainQ, retryQ, dlq>>

\* Mutant: one attempt too many.
MutExhausted(attempt) == attempt > MaxAttempts

exhausted(attempt) == attempt >= MaxAttempts

\* Where the handler goes when processJob() settles.
AfterProcess(outcome, attempt) ==
    CASE outcome = "ok"                                 -> "complete"
      [] outcome = "nonRetryable"                       -> "deadLetter"
      [] outcome = "retryable" /\ exhausted(attempt)    -> "deadLetter"
      [] outcome = "retryable" /\ ~ exhausted(attempt)  -> "retry"

Process(h) ==
    /\ At(h, "process")
    /\ \E outcome \in Processor[jobs[handler[h].job].payload] :
            GoTo(h, AfterProcess(outcome, handler[h].attempt))
    /\ UNCHANGED <<jobs, outbox, mainQ, retryQ, dlq, owner, faults>>

MarkCompleted(h) ==
    LET j == handler[h].job IN
    /\ At(h, "complete")
    /\ Markable(jobs[j])
    /\ jobs' = [jobs EXCEPT ![j] = markCompleted(@)]
    /\ GoTo(h, "ackTry")
    /\ UNCHANGED <<outbox, mainQ, retryQ, dlq, owner, faults>>

\* Mutant: the retry is recorded, its message forgotten.
MutMarkRetryingUnpublished(h) ==
    /\ At(h, "retry")
    /\ Markable(jobs[handler[h].job])
    /\ jobs' = [jobs EXCEPT ![handler[h].job] = markRetrying(@)]
    /\ GoTo(h, "ackBare")
    /\ UNCHANGED <<outbox, mainQ, retryQ, dlq, owner, faults>>

MarkRetrying(h) ==
    LET j == handler[h].job IN
    /\ At(h, "retry")
    /\ Markable(jobs[j])
    /\ jobs' = [jobs EXCEPT ![j] = markRetrying(@)]
    /\ GoTo(h, "pubRetry")
    /\ UNCHANGED <<outbox, mainQ, retryQ, dlq, owner, faults>>

MarkDeadLettered(h) ==
    LET j == handler[h].job IN
    /\ At(h, "deadLetter")
    /\ Markable(jobs[j])
    /\ jobs' = [jobs EXCEPT ![j] = markDeadLettered(@)]
    /\ GoTo(h, "pubDead")
    /\ UNCHANGED <<outbox, mainQ, retryQ, dlq, owner, faults>>

\* Mutant: a mark that matched no row is taken for a success.
MutMarkMissesIgnored(h) ==
    /\ handler[h].pc \in Marking
    /\ ~ Markable(jobs[handler[h].job])
    /\ GoTo(h, IF At(h, "deadLetter") THEN "pubDead" ELSE "ackBare")
    /\ UNCHANGED <<jobs, outbox, mainQ, retryQ, dlq, owner, faults>>

\* A mark matches no row and throws; the message goes back.
MarkMisses(h) ==
    /\ handler[h].pc \in Marking
    /\ ~ Markable(jobs[handler[h].job])
    /\ GoTo(h, "backoff")
    /\ UNCHANGED <<jobs, outbox, mainQ, retryQ, dlq, owner, faults>>

Marked(pc, r) == CASE pc = "complete"   -> markCompleted(r)
                   [] pc = "retry"      -> markRetrying(r)
                   [] pc = "deadLetter" -> markDeadLettered(r)

\* The query itself fails, committed or not; the message goes back too.
MarkFails(h) ==
    LET j == handler[h].job IN
    /\ handler[h].pc \in Marking
    /\ Fault("db")
    /\ GoTo(h, "backoff")
    /\ \/ UNCHANGED jobs
       \/ /\ Markable(jobs[j])
          /\ jobs' = [jobs EXCEPT ![j] = Marked(handler[h].pc, @)]
    /\ UNCHANGED <<outbox, mainQ, retryQ, dlq, owner>>

Frame(pc) == IF pc = "pubRetry" THEN "retry" ELSE "dead"

\* publishRetry() or publishDeadLetter() on the channel getChannel() caches,
\* which need not be the one msg came on.
Publish(h) ==
    /\ handler[h].pc \in Publishing
    /\ handler' = [handler EXCEPT ![h].pc = "ackBare",
                                  ![h].out = Frame(handler[h].pc)]
    /\ UNCHANGED <<jobs, outbox, mainQ, retryQ, dlq, owner, faults>>

\* publish() returns false, which the publisher turns into an exception.
PublishFull(h) ==
    /\ handler[h].pc \in Publishing
    /\ Fault("full")
    /\ handler' = [handler EXCEPT ![h].pc = "backoff",
                                  ![h].out = Frame(handler[h].pc)]
    /\ UNCHANGED <<jobs, outbox, mainQ, retryQ, dlq, owner>>

\* Mutant: a failed publish is logged and the message acknowledged.
MutPublishThrowsAcked(h) ==
    /\ handler[h].pc \in Publishing
    /\ Fault("throw")
    /\ GoTo(h, "ackBare")
    /\ UNCHANGED <<jobs, outbox, mainQ, retryQ, dlq, owner>>

PublishThrows(h) ==
    /\ handler[h].pc \in Publishing
    /\ Fault("throw")
    /\ GoTo(h, "backoff")
    /\ UNCHANGED <<jobs, outbox, mainQ, retryQ, dlq, owner>>

\* An ack on a closed channel throws: caught when inside a try block, an
\* unhandled rejection, and so the end of the process, when not.
Ack(h) ==
    /\ handler[h].pc \in {"ackTry", "ackBare"}
    /\ \/ /\ handler[h].chan = "open"
          /\ GoTo(h, "acked") /\ UNCHANGED mainQ
       \/ /\ handler[h].chan = "closed" /\ At(h, "ackTry")
          /\ GoTo(h, "backoff") /\ UNCHANGED mainQ
       \/ /\ handler[h].chan = "closed" /\ At(h, "ackBare")
          /\ Die(WorkerOf[h])
    /\ UNCHANGED <<jobs, outbox, retryQ, dlq, owner, faults>>

\* The sleep is over: nack with requeue, never inside a try block.
Nack(h) ==
    /\ At(h, "backoff")
    /\ \/ /\ handler[h].chan = "open"
          /\ GoTo(h, "nacked") /\ UNCHANGED mainQ
       \/ /\ handler[h].chan = "closed"
          /\ Die(WorkerOf[h])
    /\ UNCHANGED <<jobs, outbox, retryQ, dlq, owner, faults>>

-----------------------------------------------------------------------------
(* Faults and time.                                                        *)

\* The process dies (or runs its SIGTERM handler) and is restarted.
Crash(w) ==
    /\ Fault("crash")
    /\ Die(w)
    /\ UNCHANGED <<jobs, outbox, retryQ, dlq, owner>>

\* What is left of a handler when its process loses the connection.
Detached(k) == IF k.pc \in {"idle", "acked", "nacked"} THEN Idle
               ELSE [k EXCEPT !.chan = "closed", !.out = "none"]

\* The connection is lost: unsettled messages are requeued, buffered frames
\* are gone, running handlers keep a closed channel, and the consumer
\* resubscribes on a new one (resubscribeWithBackoff).
Drop(w) ==
    /\ Fault("drop")
    /\ handler' = [h \in Handlers |-> IF WorkerOf[h] = w
                                      THEN Detached(handler[h])
                                      ELSE handler[h]]
    /\ Requeue(w)
    /\ UNCHANGED <<jobs, outbox, retryQ, dlq, owner>>

\* STALE_PROCESSING_THRESHOLD_SECONDS pass over a PROCESSING row.  It is a
\* fault when a handler is still working on the job, time's course if not.
GoStale(j) ==
    /\ jobs[j].status = "PROCESSING"
    /\ jobs[j].updated_at = "recent"
    /\ jobs' = [jobs EXCEPT ![j].updated_at = "stale"]
    /\ \/ (\E h \in Handlers : Working(h, j)) /\ Fault("overrun")
       \/ (\A h \in Handlers : ~ Working(h, j)) /\ UNCHANGED faults
    /\ UNCHANGED <<outbox, mainQ, retryQ, dlq, handler, owner>>

-----------------------------------------------------------------------------
ApiNext == \E j \in Jobs :
    Create(j) \/ Replay(j) \/ Dispatch(j) \/ Redispatch(j)

BrokerNext ==
    \/ \E h \in Handlers, m \in Messages : Deliver(h, m)
    \/ \E j \in Jobs : RetryExpires(j)
    \/ \E h \in Handlers : Flush(h) \/ AckArrives(h) \/ NackArrives(h)

HandlerNext == \E h \in Handlers :
    \/ DiscardMalformed(h) \/ ThrowOnNull(h)
    \/ ClaimWins(h) \/ ClaimMisses(h) \/ ClaimFails(h)
    \/ Process(h)
    \/ MarkCompleted(h) \/ MarkRetrying(h) \/ MarkDeadLettered(h)
    \/ MarkMisses(h) \/ MarkFails(h)
    \/ Publish(h) \/ PublishFull(h) \/ PublishThrows(h)
    \/ Ack(h) \/ Nack(h)

EnvironmentNext ==
    \/ \E w \in Workers : Crash(w) \/ Drop(w)
    \/ \E j \in Jobs : GoStale(j)

Next == ApiNext \/ BrokerNext \/ HandlerNext \/ EnvironmentNext

Spec == Init /\ [][Next]_vars

\* The dispatcher's interval, the retry queue's TTL, Node's event loop and
\* the broker's delivery each run for as long as they have work.  A queue is
\* first in first out, so a message that is ready again and again is not
\* passed over forever, unless a message is requeued forever: it goes back
\* to the head, and then only it is sure to be delivered.  Time passes over
\* a row that nobody works on.
InTurn == IF NullBody = {} THEN Messages ELSE {}

Fairness ==
    /\ \A j \in Jobs : /\ WF_vars(Dispatch(j)) /\ WF_vars(RetryExpires(j))
                       /\ WF_vars(GoStale(j))
    /\ \A m \in InTurn : SF_vars(\E h \in Handlers : Deliver(h, m))
    /\ SF_vars(\E h \in Handlers, m \in NullBody : Deliver(h, m))
    /\ \A h \in Handlers :
        /\ WF_vars(Flush(h) \/ AckArrives(h) \/ NackArrives(h))
        /\ WF_vars(DiscardMalformed(h) \/ ThrowOnNull(h) \/ ClaimWins(h)
                   \/ ClaimMisses(h) \/ Process(h) \/ MarkCompleted(h) \/ MarkRetrying(h)
                   \/ MarkDeadLettered(h) \/ MarkMisses(h) \/ Publish(h)
                   \/ Ack(h) \/ Nack(h))

FairSpec == Spec /\ Fairness

-----------------------------------------------------------------------------
(* Properties that hold whatever the faults.                               *)

\* A completed job is never touched again, however late a second handler,
\* a redelivery or a replay request comes: the status conditions of
\* claimJob(), of the three marks and of claimReplay() all exclude it.
CompletedIsFinal == [][\A j \in Jobs :
    jobs[j].status = "COMPLETED" => jobs'[j] = jobs[j]]_vars

\* The two attempt counters and the replay counter, written by different
\* services, agree: a job that has left QUEUED was claimed in this cycle,
\* and every cycle a replay closed had cost at least one claim.
AttemptsAccounted == \A j \in Jobs :
    /\ jobs[j].status \notin {"ABSENT", "QUEUED"} => jobs[j].attempt_count >= 1
    /\ jobs[j].total_attempt_count
            >= jobs[j].attempt_count + jobs[j].replay_count

\* The table's rows move only along the promised lifecycle (JobLifecycle).
StageOf(status) == CASE status = "ABSENT"        -> "none"
                     [] status = "QUEUED"        -> "waiting"
                     [] status = "RETRYING"      -> "waiting"
                     [] status = "PROCESSING"    -> "running"
                     [] status = "COMPLETED"     -> "done"
                     [] status = "DEAD_LETTERED" -> "dead"

LifeOf == [j \in Jobs |-> [stage    |-> StageOf(jobs[j].status),
                           attempts |-> jobs[j].attempt_count,
                           replays  |-> jobs[j].replay_count]]

Lifecycle == INSTANCE JobLifecycle WITH life <- LifeOf

\* Every step of the detailed system is a lifecycle step of one job or
\* leaves all lifecycles alone (the refinement of JobLifecycle!Spec).
FollowsLifecycle == Lifecycle!Spec

-----------------------------------------------------------------------------
(* Properties that hold until a handler works on a job past the staleness  *)
(* threshold, which claimPolicy.ts assumes never to happen.                *)

\* A handler that works on a job holds it: it made the last claim, the row
\* is still as that claim left it, and the attempt number it will judge
\* `exhausted` by is the row's.
ClaimHeld == \A h \in Handlers : \A j \in Jobs :
    Working(h, j) => /\ owner[j] = h
                     /\ jobs[j].status = "PROCESSING"
                     /\ jobs[j].updated_at = "recent"
                     /\ jobs[j].attempt_count = handler[h].attempt

\* Until an overrun, a handler that works on a job holds it, whatever
\* crashes, connections, queries and publishes do to the others.
HoldsItsClaim == ~ Happened({"overrun"}) => ClaimHeld

\* Until an overrun, at most one handler, of all worker processes together,
\* is processing a job or recording its outcome (claimJob()'s atomic
\* conditional UPDATE).
SingleProcessing == ~ Happened({"overrun"}) =>
    \A g, h \in Handlers : \A j \in Jobs :
        Working(g, j) /\ Working(h, j) => g = h

\* A job that waits for an attempt still has one.
WithinBudget == \A j \in Jobs :
    jobs[j].status \in {"QUEUED", "RETRYING"} =>
        jobs[j].attempt_count < MaxAttempts

\* Until an overrun, attempts past max_attempts only ever come from
\* reclaiming a stale PROCESSING row: no retry and no replay starts one.
RetryBudget == ~ Happened({"overrun"}) => WithinBudget

-----------------------------------------------------------------------------
(* Properties that hold until a worker dies, loses its connection or has a *)
(* query fail under it.                                                    *)

Lossy == Happened({"crash", "drop", "db"})

\* Something will bring the waiting job j to a handler.
Driven(j) ==
    \/ outbox[j] > 0 \/ mainQ[j] > 0 \/ retryQ[j] > 0
    \/ \E h \in Handlers :
         /\ handler[h].job = j
         /\ \/ handler[h].pc \in {"claim", "pubRetry", "backoff", "nacked"}
            \/ handler[h].out = "retry"

\* No job is stranded, whatever publishing, duplicates and overruns do: a
\* waiting one has a message, a publish or a requeue on its way, a
\* PROCESSING one has a handler that will record its outcome.
NoOrphan == ~ Lossy => \A j \in Jobs :
    /\ jobs[j].status \in {"QUEUED", "RETRYING"} => Driven(j)
    /\ jobs[j].status = "PROCESSING" =>
            \E h \in Handlers : Working(h, j)

\* The dead-letter queue and the table agree: every time a job was given
\* up, one message went, or is about to go, to the queue, and none besides.
\* Holds until a publish throws, too.
DeadLettersMatch == ~ Lossy /\ ~ Happened({"throw"}) => \A j \in Jobs :
    dlq[j] + Cardinality({h \in Handlers : /\ handler[h].job = j
                                           /\ \/ At(h, "pubDead")
                                              \/ handler[h].out = "dead"})
      = jobs[j].replay_count
          + (IF jobs[j].status = "DEAD_LETTERED" THEN 1 ELSE 0)

-----------------------------------------------------------------------------
(* Liveness.                                                               *)

\* Every job that is accepted, or replayed, is finally completed or dead,
\* unless a worker dies, loses its connection or has a query fail; where no
\* null body keeps the head of the queue (InTurn).
JobsSettle == \A j \in Jobs :
    (jobs[j].status \in {"QUEUED", "RETRYING", "PROCESSING"})
        ~> (jobs[j].status \in {"COMPLETED", "DEAD_LETTERED"} \/ Lossy)

\* A message with bad JSON, a bad UUID or an id nobody inserted is got rid
\* of, not redelivered forever (the catch of JSON.parse(), the 22P02 branch
\* and the lost claim), whatever the faults, again where no null body keeps
\* the head of the queue.
PoisonDiscarded == \A m \in Foreign \ NullBody :
    <>[](mainQ[m] = 0 /\ \A h \in Handlers : handler[h].job # m)

\* Whatever the faults, a handler always comes to its end, so that
\* prefetch(1) never leaves a worker deaf.
HandlersReturn == \A h \in Handlers : []<> At(h, "idle")

-----------------------------------------------------------------------------
(* What the repository's documents say and the code does not do: violated  *)
(* by the runs WorkerCrashOrphan and WorkerNullBody (see README.md).       *)

\* "a job stuck in PROCESSING for longer than 60 seconds is treated as
\* orphaned and becomes claimable again [...] without this, a crashed worker
\* would permanently orphan the job" (README.md:164).
StaleJobsReclaimed == \A j \in Jobs :
    (jobs[j].status = "PROCESSING" /\ jobs[j].updated_at = "stale")
        ~> ~ (jobs[j].status = "PROCESSING" /\ jobs[j].updated_at = "stale")

\* "Malformed messages / unknown job ids -> ACKed and discarded."
\* (docs/message-flow.md:99), of every message that names no row.
MalformedDiscarded == \A m \in Foreign :
    <>[](mainQ[m] = 0 /\ \A h \in Handlers : handler[h].job # m)

=============================================================================
