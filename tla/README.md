# DeadLetter: TLA+ verification project

DeadLetter accepts jobs over HTTP, stores them in PostgreSQL, hands them to
workers through RabbitMQ, retries what fails, sets aside what cannot succeed,
and lets an operator replay it. The hard part is not any one handler but what
two stores, several processes and every failure between two awaits make of them
together. This project models that part in TLA+, model-checks it with TLC on
small instances, and proves its main safety properties with TLAPS for every
value of the constants.

## 1. The system

| Part | State it keeps | Operations | What makes it correct |
|---|---|---|---|
| `jobs` table (`infra/migrations`, the two `jobService.ts`) | one row per job: status, `attempt_count`, `total_attempt_count`, `replay_count`, `updated_at`, errors | insert, `claimJob`, three marks, `claimReplay`; each one conditional statement | rows follow one lifecycle; completed is final; counters agree |
| Worker handler (`apps/worker/src/consumer.ts`) | a position between two awaits, the claimed row | parse, claim, process, mark, publish, ack or nack | one handler works on a job; no job is stranded; every handler ends |
| Broker topology (`queue/connection.ts`) | main, retry and dead-letter queues, unsettled messages | deliver, requeue, expire | external; modelled from its use |
| Worker channel cache (`queue/connection.ts`, `resubscribeWithBackoff`) | the cached channel, the subscription | `getChannel`, `invalidate`, resubscribe | a dead channel leaves the cache; the worker listens again, once |
| Outbox and dispatcher (`apps/api/src/outbox`) | `outbox_events` | insert, claim a batch, publish, mark | every event is published, once unless something failed |
| Submission, backpressure, replay (`routes/jobs.ts`, `middleware/backpressure.ts`) | requests between check and insert | admit or refuse, create, replay | the backlog is bounded; intent and job commit together |
| Change poller and broadcaster (`ws/`, `db/changeDetector.ts`) | a cursor over `updated_at`, ticks at their query | start, poll, broadcast | no change is skipped; every change is followed by an event |
| API key and rate limiter (`middleware/auth.ts`, `rateLimiter.ts`) | a token bucket per client | identify, refill, take, refuse | no more requests than the bucket allows; `Retry-After` is true |
| Migrations runner (`scripts/migrate.ts`) | `schema_migrations`, an advisory lock | lock, apply in order, unlock | each file once, in order; the exit code is true |
| Dashboard (`apps/dashboard`) | what is shown, calls under way, a WebSocket | select, refetch, reconnect, replay | the operator gets to see the job as it is |

How they interact. The API and the workers never call each other: they share
the `jobs` table, and the dispatcher turns an outbox row into a message that
names a job id. A worker's claim is a conditional `UPDATE`, so the table, not the
broker, decides who processes. Every publish goes into amqplib's buffer without
confirms and reaches the broker later or never. The dispatcher's interval does
not wait for the tick before it, and `getChannel()` does not wait for a
connection another caller is making. The dashboard learns of a change from an
event that carries no more than the job's id, and fetches the job over HTTP; the
events come from a poller that compares `updated_at` with a cursor of its own.
Migrations run before the API and the workers, which start on exit code 0.

Where it is hard: handlers of several processes interleave at every await;
messages are redelivered, duplicated and lost; a process dies, a connection
drops or a query fails (committed or not) between any two steps; two staleness
thresholds turn waiting into a second claim. `PROJECT.json` lists each such
hazard at its line with the properties that cover it.

## 2. Modules

| Module | Models | Notes |
|---|---|---|
| `JobsTable` | the row and each SQL statement as a WHERE clause and the row it leaves | no state of its own |
| `JobLifecycle` | abstract: what a job's history may be | implemented by `Worker` |
| `Worker` | handlers, table, queues, API as seen by the worker, faults | the core |
| `Outbox` | `outbox_events`, ticks, requests, buffer, faults | |
| `ChannelCache` | `getChannel`, `invalidate`, resubscription | |
| `EventFeed` | abstract: a change of a job is followed by an event, unless it was missed | implemented by `ChangePoller`, extended by `Dashboard` |
| `ChangePoller` | cursor, overlapping ticks, broadcasts, writers with their commit order | |
| `Dashboard` | the detail page, its calls and its WebSocket, on an `EventFeed` | |
| `RateLimiter` | `requireApiKey` and the token buckets, with a wall clock | |
| `Migrate` | racing runs of the migrations runner | |
| `MCWorker`, `MCOutbox`, `MCChannelCache`, `MCChangePoller`, `MCDashboard`, `MCRateLimiter`, `MCMigrate` | instances for TLC | |
| `WorkerProofs`, `LifecycleProofs` | theorems about `Worker` | the second extends the first |
| `OutboxProofs`, `ChannelProofs`, `PollerProofs` | theorems about `Outbox`, `ChannelCache`, `ChangePoller` | |
| `DashboardProofs`, `LimiterProofs`, `MigrateProofs` | theorems about `Dashboard`, `RateLimiter`, `Migrate` | |

### Worker

`handler[h]` is one run of the `consume` callback: `pc` names the await it is at,
`attempt` is the `job.attempt_count` its claim returned, `chan` says whether the
channel its message came on is still open, `out` is a published frame still in
amqplib's buffer. What happens between two awaits is one action. `ClaimWins`,
`ClaimMisses`, `ClaimFails` are the three outcomes of `claimJob()`;
`MarkCompleted`, `MarkRetrying`, `MarkDeadLettered`, `MarkMisses`, `MarkFails`
those of the marks; `Publish`, `PublishFull`, `PublishThrows` those of the two
publishers. `Ack` and `Nack` on a closed channel throw: inside the `try` of the
claim or of `markCompleted()` the exception is caught and leads to the backoff,
elsewhere it is an unhandled rejection and ends the process (`Die`). A query that
fails may have been committed, so `ClaimFails` and `MarkFails` have both outcomes.

`Foreign` are messages that name no row. Bad JSON and a bad UUID are acknowledged
(`DiscardMalformed`), an unknown id misses its claim like a lost race; so does JSON
that is not an object, or has no `jobId`, whose `undefined` is `NULL` to Postgres and
matches nothing. `NullBody` are the bodies that are JSON `null`: they parse, and taking
their `jobId` throws outside every `try` (`ThrowOnNull`), which ends the process with
the message unsettled.

Faults are actions or branches guarded by `Fault(kind)`. At most `MaxFaults` of
them, of the kinds in `Faulty`, happen in a behaviour, and `faults.kinds` records
which did; a property that needs some kind not to have happened says so
(`Happened`). `owner` is auxiliary: which handler claimed last.

Time is abstracted to what the code asks of it. A row's `updated_at` is `recent`
or `stale`; it turns stale freely when nobody works on the job, and as the fault
`overrun` when somebody does, which `claimPolicy.ts` assumes away. Delays
(retry TTL, backoff) take any time.

### Outbox

A row is unclaimed, recently claimed or stale, and published or not. A tick
claims a batch (`ToClaim` is `ORDER BY created_at LIMIT`), then for each event
publishes and marks it; a failed mark runs `markOutboxFailed()`, and a failure of
that one abandons the batch. A request is admitted by the backpressure check and
inserts later, in another step. Replays insert without the check. A crash or a
lost connection empties the buffer.

### ChannelCache

A link is a connection with its channel. It goes down at any time; its `close`
event is delivered later and runs `invalidate()`, which does nothing unless the
link is the cached one. `getChannel()` is two steps with the awaits between them,
for the consumer (`sub`) and for any publisher. `raced` is auxiliary: it records
whether two callers have ever been connecting at once.

### EventFeed, ChangePoller and Dashboard

`EventFeed` is the interface between the API's poller and a browser tab:
`version[j]` counts the changes of a job, `untold` holds the jobs changed after
their last event, `missed` says that a change was lost track of. Its fairness is
its promise: an untold change is told some time, as long as nothing was missed.

`ChangePoller` implements it (`ImplementsFeed`; `missed` is `harm # {}`). `clock` is
Postgres's clock. `Write` commits with a new `updated_at`; `LateWrite` with an
earlier one, because `now()` is when a transaction began. `ToDate` cuts a timestamp
to the precision of a JavaScript `Date`, which is what pg's `timestamptz` becomes.
A tick is at its query (`query`, the cursor read) or has its rows (`rows`);
broadcast and cursor are set in one step after it, without an await. The interval
starts ticks regardless of each other. `Start` is `getStartupCursor()`; `StartFails`
its failure, which `index.ts` logs and does not repeat; `Crash` a restart.

`Dashboard` extends `EventFeed` with the detail page. `calls` are the requests under
way, in the order they were sent. `ServeJob` is the moment the API reads the row,
`DetailAnswered` and `ReplayAnswered` are the continuations in `refreshSelectedJob()`
and `handleReplay()`, which run whatever is selected by then. `for` is the job in the
closure of `onReplayed`, `live` says whether the component that sent a replay is still
mounted, since its button is only disabled in that one. `EventEffect` is the effect
on `[lastEvent, selectedJobId]`, so it also runs on a selection, with the event that
came last. An event is told when the tab receives it (`Receive`), when it is overwritten
before a render (`ReceiveTwo`), or when no connection is open (`BroadcastMissed`).
`harm` is auxiliary and records the ways in which the page may have been left behind;
`DetailCatchesUp` holds only outside them. `seen` of an accepted replay is auxiliary
too, the version the replay made, which `ReplaySeen` asks to be shown, or a later one.

### RateLimiter

A request passes `requireApiKey` and the limiter without an await, so `Pass` and
`Refuse` are each one step. Tokens are counted in parts, `Window` of them to a token,
so that the refill per millisecond is a whole number. The clock is `Date.now()`:
`Tick` moves it on, `SetBack` sets it back. `passed`, `seen`, `promise` and `back` are
auxiliary: when requests of an address passed, the latest time it was seen, the
earliest end of a `Retry-After` it was given, and how far the clock was set back.

### Migrate

`run[r]` is one execution of `main()` between two awaits: waiting for
`pg_advisory_lock`, before the ledger query, before a file's `BEGIN`, before its
ledger entry and `COMMIT`, before the unlock. `files` is the listing of its image,
read before the lock. `txn` is what the open transaction has run, so that what a
`COMMIT` makes durable is what is in it. `LaunchFails`, `SqlFails`, `ConnectionLost`
and `Killed` are the faults; a session that ends at `COMMIT` may or may not have
committed (`SessionEnds`).

### What the models leave out

- Order within a queue, including that RabbitMQ expires only the head of the
  retry queue. Messages are counted per job.
- In `Worker`, a process has one consumer channel, reattached at once after a
  drop; how it gets there, and when it fails to, is `ChannelCache`.
- `throw` may happen to any publish; in the code it mostly needs a closed channel.
- A channel that closes while its connection stays open leaves that connection
  behind; connections are not counted.
- A consumer that the broker cancels while its channel stays open (`consumer.ts:98`,
  `msg` is null). The callback returns and nothing resubscribes, so the worker is deaf
  until its connection ends; the code has no reaction to model, and `ChannelCache` only
  has links that go down.
- `markFailed()`, which nothing calls, and rows with status `FAILED`.
- The test-only sleeps (`CLAIM_TEST_SYNC_EPOCH_MS`, `REPLAY_TEST_DELAY_MS`).
- In `RateLimiter`, double precision. With a capacity that does not divide the
  window's milliseconds, a bucket may be one rounding short of a token at the
  promised second; the model shows the arithmetic, not its last bit. The test header
  is modelled, the properties are about production. That the `Map` of
  buckets is never pruned is growth of memory, which no property here sees.
- In `Dashboard`, the overview: `refreshOverview()` reads and sets `stats`, `jobs`,
  `error`, of which the detail page sees nothing. A job's status: any job that is
  shown may be replayed, and any replay refused. The operator-key prompt (a wrong key
  is a refusal), the 404 of a selected job (rows are never deleted), the reconnect's
  growing delay, which is any time, and the close of the tab. The time an event
  is on the wire is part of the feed's delay.
- In `Migrate`, files that are no transaction of their own: a `COMMIT` inside a file's
  SQL would break `AppliedOnce`. The repository's files have none.

## 3. Runs

| Run | Instance | Shows |
|---|---|---|
| `WorkerFaults` | 1 job and 1 null body, workers with 2 and 1 handlers, `MaxAttempts` 2, 1 replay, 2 faults of all 7 kinds | whatever the faults: `TypeOK`, `AttemptsAccounted`, `CompletedIsFinal`, `FollowsLifecycle`; until an overrun: `HoldsItsClaim`, `SingleProcessing`, `RetryBudget`; until a crash, drop or failed query: `NoOrphan`, and until a throwing publish too: `DeadLettersMatch` |
| `WorkerLive` | 1 job and 1 foreign message, 2 workers, 2 faults, fairness | `JobsSettle`, `PoisonDiscarded`, `HandlersReturn` |
| `OutboxFaults` | 2 events, 2 ticks, 2 requests, threshold 1, 2 faults of all 6 kinds, fairness | `TypeOK`, `SingleDispatch`, `DuplicatesNeedFaults`, `PublishedMeansSent`, `BacklogBounded`, `NoResurrection`, `EventsRetire`, `EventsArrive` |
| `ChannelFaults` | 4 links, 1 publisher, 2 publishes, 3 outages, fairness | `TypeOK`, `SingleConsumer`, `CacheHeals`, `ConsumerRecovers` |
| `PollerFaults` | 2 rows with 2 changes each, 2 ticks, 2 microseconds to a millisecond, 1 fault of all 4 kinds, fairness | `TypeOK`, `NoGap`, `ImplementsFeed` |
| `DashboardFaults` | 2 jobs with 1 change each, 2 calls under way, 1 replay, 1 fault of all 6 kinds, fairness | `TypeOK`, `DetailCatchesUp`, `ReplaySeen` |
| `LimiterClock` | 2 addresses, 1 test header, capacity 2 in 3 seconds of 2 milliseconds, 7 milliseconds, set back by 2 | `TypeOK`, `BurstBound`, `RetryAfterHonest` |
| `MigrateRaces` | 3 files, 2 runs at a time, 4 in all, 2 faults, fairness | `TypeOK`, `AppliedOnce`, `ExitMeansUpToDate`, `FailureHasCause`, `NoneSkipped`, `RunsEnd` |
| `WorkerCrashOrphan` | the stub processor, 1 crash | violation of `StaleJobsReclaimed` |
| `WorkerNullBody` | 1 job and 1 null body, 2 workers, no fault, fairness | violation of `MalformedDiscarded` |
| `OutboxNeedLost` | 1 event, 1 crash | violation of `NeedNeverLost` |
| `ChannelDeaf` | 1 publisher, 2 outages | violation of `WorkerResubscribes` |

**Bounds.** No statement touches two jobs, so one job shows every interleaving on
a row; handlers of two processes, one of which has a handler on a closed channel
beside the one on its open channel, give the claims that race. `MaxAttempts` 2
has an attempt that is retried and one that is exhausted. Two faults are enough
for a fault in the recovery from another. `MCProcessor` lets every attempt end in
every way; `WorkerCrashOrphan` uses the repository's own stub, in which the payload
decides. Two events fill a batch and leave one behind when it is abandoned. Four
links are what a race and its repair use up. Two ticks overlap, and two changes of a
row let one come while the other is being read; two units to a `Date` are enough for
a timestamp to be cut. In `Dashboard` two calls overtake each other, and two jobs
are one too many for a slot that holds one event or one selection. A token every
three ticks of the clock, and seconds of two, have a `Retry-After` that is rounded;
seven ticks empty a bucket, refill it and empty it again. Three files have one
before and one after the one that fails; four launches have two runs race and two
repair what they left. The theorems of section 4 do away with these bounds for the
properties they state.

**Deadlock** is not checked: the bounded systems end when every job is settled
and no fault is left, as the real one does when nobody submits a job, changes one,
sends a request or deploys.

**Symmetry** is used in runs of invariants and action properties only: handlers of
the same process and client addresses are interchangeable.

**Fairness.** Weak fairness for what runs by itself: Node resumes a settled
await, `setInterval` fires, the socket drains, a TTL expires, time passes. Strong
fairness only for the delivery of a message, because a queue is first in, first
out: a message that keeps being ready is not passed over forever. A requeued message goes
back to the head, so with a null body about, which is requeued forever, only its own
delivery is sure (`InTurn`), and the jobs behind it may starve; the properties of
`WorkerLive` are checked without one. Strong fairness also in `Dashboard`
for an event, which only the bound on calls ever holds back. Calls are answered in
turn, the start-up query and those of the ticks return, the reconnect timer runs out,
Postgres gives a free lock to one who waits. No fairness for faults, for the API's
clients, or for an operator's clicks.

### Where documents and code disagree

- **`WorkerCrashOrphan`.** README.md:164 says the stale-`PROCESSING` rule saves
  the job of a crashed worker. The broker redelivers the message at once, when the
  row is still recent; the claim misses and `consumer.ts:150` acknowledges the
  job's only message. When the row turns stale nothing is left to claim it. A
  failed mark, and a claim that was committed although its query failed, end the
  same way: their requeued message returns within 30 seconds.
- **`WorkerNullBody`.** docs/message-flow.md:99 says malformed messages are acknowledged
  and discarded. A body of JSON `null` parses, and `const { jobId } = content`
  (`consumer.ts:109`) throws outside every `try`. Nothing handles the rejection, Node
  ends the process, compose restarts it, and the broker delivers the message again:
  the trace is a loop of `Deliver` and `ThrowOnNull`. `PoisonDiscarded` shows that the
  claim is true of bad JSON, bad UUIDs and unknown ids. No part of the system publishes
  a `null`, nor any of the others.
- **`OutboxNeedLost`.** docs/failure-handling.md:311 says a crash or outage can no
  longer lose the need to publish. `publishJobCreated()` returns when the frame is
  buffered and the event is marked published; a crash before the socket takes the
  frame loses it, and the row is not looked at again.
- **`ChannelDeaf`.** README.md:177 says the worker resubscribes on disconnect. A
  handler that publishes and the consumer may both find the cache empty and
  connect; the later one is cached. When the consumer's channel dies, `invalidate()`
  sees another channel cached and says nothing. `ConsumerRecovers` shows that this
  race is the only way in which links that go down leave the worker deaf.

Two more, which the passing runs show by what their properties have to excuse:

- `changeDetector.ts:26` says that an update after the start-up cursor is guaranteed
  to be caught on the first tick. `updated_at` is when its transaction began: one that
  began before the cursor and commits after it is never caught (the excuse `order` of
  `NoGap`, `missed` in `EventFeed`).
- `useJobEvents.ts:14` says that a dropped event never leaves the dashboard permanently
  incorrect, because of App.tsx's periodic refresh. That refresh is `refreshOverview()`
  alone (`App.tsx:47`): the detail page stays as it is until the next event for its
  job (the excuse `harm` of `DetailCatchesUp`).

## 4. Proofs

Every safety invariant and every action property that a run checks is also proved, for
every value of the constants: any jobs, workers, handlers, ticks, requests, links,
publishers, addresses and files, any bounds, and any number of faults. Each module's
proofs rest on that module's ASSUMEs, which say what the constants are; TLC evaluates
them in every run. A few say a little more. `IsFiniteSet(Handlers)`,
`IsFiniteSet(Ticks)` and `IsFiniteSet(Requests)`: there are finitely many message
handlers, ticks and requests at a time, without which they cannot be counted.
`None \notin Nat` and `None \notin Bucket` in `RateLimiter`: "no bucket" is no bucket.

### Worker

`WorkerProofs`:

- `TypeCorrect`: `Spec => []TypeOK`. `TypeOK` alone is not inductive: `Process`
  reads the payload of its job's row, so `TypeInv` adds `WellFormed` (rows in use
  have a payload; a handler past its claim names such a row).
- `ClaimsHeld` (`HoldsItsClaim`), `Fencing` (`SingleProcessing`) and `BudgetKept`
  (`RetryBudget`). The inductive invariant `FencedInv` is `TypeInv` and,
  until an overrun, `Fence`: `ClaimHeld`, `WithinBudget` and `RetryJudged` (a handler
  about to retry has judged its attempt not exhausted). They need each other: a
  retry keeps the budget because the attempt number the handler read at its claim
  is still the row's, which is `ClaimHeld`, which holds because a claim needs a row
  that is waiting or stale, and neither is being worked on. Most steps are `Calm`
  (no handler starts to work) and one lemma covers them. `RetryBudget` is about retries
  and replays: a stale row is reclaimed whatever its attempt count, and nothing in the
  code bounds how often.

`LifecycleProofs`, first what follows from `AtMostOneStatement`: a step of the whole
system runs at most one statement of `JobsTable`, on one row, under its WHERE clause.

- `CompletedFinal`: `Spec => CompletedIsFinal`: no WHERE clause matches `COMPLETED`.
- `AttemptsAdd`: `Spec => []AttemptsAccounted`; inductive as it stands.
- `ImplementsLifecycle`: `Spec => FollowsLifecycle`, the refinement of `JobLifecycle`
  under the mapping `LifeOf`: each statement is a lifecycle step of its job, the
  passing of time a stutter.

Then table and queues together:

- `NobodyStranded`: `Spec => []NoOrphan`. The inductive invariant `AttendedInv` adds
  `OutPlace` (a frame waits in the buffer only behind a handler past its publish),
  which holds whatever the faults, and, until something is lost, `AllOpen`: no handler
  has a closed channel, and `Alone`: a process has one handler at work, the others at
  rest. So no ack or nack ends a process (`SmoothSteps`), a null body that does takes
  nobody else down with it (`ThrowsAlone`), and each of
  the remaining steps hands the job on: event to message, message to handler, handler
  to mark, mark to publish, frame to retry queue, nack to main queue. An overrun does no
  harm, since a mark that matches no row finds a row that is not `PROCESSING` and
  requeues its message.
- `DeadLettersCounted`: `Spec => []DeadLettersMatch`, from the same invariant and
  `AbsentFresh` (an id not inserted was not replayed). The queue's count and the
  handlers that owe it a message change together: `markDeadLettered()` adds a debtor, a
  publish that does not throw keeps it, the flush of the frame pays. `GivenUp`, the
  row's side of the equation, is changed by no other statement; a replay moves the
  last time to `replay_count`.

### Outbox and ChannelCache

`OutboxProofs`, on `TypeInv`, which is `TypeOK` and `WellFormed` (a tick marks an event
of its batch, a batch is of rows that exist, rows to come are blank):

- `OutboxTypeCorrect`: `Spec => []TypeOK`.
- `OneTickPerEvent` (`SingleDispatch`), with `HeldIsClaimed`: until a tick is slow, an
  event in hand has a recent claim, so the claim of another tick passes it over.
- `PublishedForGood` (`NoResurrection`): an action property; no statement clears
  `published_at`, and the claim's WHERE clause excludes it.
- `NoMarkWithoutMessage` (`PublishedMeansSent`), with `MarkedIsSent`: a tick about to
  mark an event has its frame in the buffer or at the broker.
- `DuplicatesPaidFor` (`DuplicatesNeedFaults`). Not inductive: a tick with an event in
  hand will send another message. `Paid` counts what may still come: the messages an
  event has, plus the ticks that may still publish it, plus one if a later claim may
  take it, are at most one more than the faults so far. Each step moves one unit from
  term to term or spends a fault.
- `BackpressureBound` (`BacklogBounded`): inductive as it stands, because it counts
  the admitted requests with the backlog.

`ChannelProofs`:

- `CacheTypeCorrect`: `Spec => []TypeOK`.
- `OneLiveConsumer` (`SingleConsumer`). The inductive `ConsumerInv` says, until
  two callers have been connecting at once, that whoever connects does so alone and
  with an empty cache (`OneConnects`), and that a live channel that is consumed on, or
  about to be, is the cached one (`ConsumesCached`).

### ChangePoller and Dashboard

`PollerProofs`, from `PollerAssumption` alone, for any rows, ticks, precision and number
of faults:

- `PollerTypeCorrect`: `Spec => []TypeOK`, the cursor never ahead of the clock, which
  rests on `ToDateCuts` (a `Date` is never later than its timestamp).
- `CursorLeavesNoGap`: `Spec => []NoGap`. The inductive invariant `PollerInv` adds
  `InTime` (nothing read is later than the clock) and `Tracked`: as long as writes are
  in order, an untold change is ahead of the cursor and of what every tick under way
  has asked for, and either in that tick's result or later than all of it. So whichever
  tick ends last, and wherever it sets the cursor, it does not pass an untold change.
- `PollerIsFeed`: `Spec => Feed!FeedSpec`, step by step: writes are `Change`, a tick's
  end is `Tell`, a start-up is `Tell` or `Lose`, all else a stutter.

`DashboardProofs`:

- `DashboardTypeCorrect`: `Spec => []TypeOK`, inductive as it stands. The work is in the
  sequence of calls: what is taken out of its middle (`WithoutType`) and the call that
  the answer of a replay sends in turn.
- `UsesFeed`: `Spec => FeedSpec`. The dashboard is checked on behaviours of the
  specification that `PollerIsFeed` shows the poller to implement.

### RateLimiter and Migrate

`LimiterProofs`, the last two in production, where the client key is the address:

- `LimiterTypeCorrect`, `BurstsBounded` (`BurstBound`) and `RetryAfterKept`
  (`RetryAfterHonest`). `BurstBound` is not inductive: the next request may use what is
  left in the bucket. `LimiterInv` says of each address that has a bucket that what it
  got through from any request on, and the tokens left, are no more than a full bucket
  and the refill since (`Accounted`); that the tokens left and the refill until the
  promised time make a token (`Promised`); and that the bucket was last refilled at the
  latest time the address was seen, ahead of the clock by no more than it was set back
  (`InTime`). `retryAfterSeconds` rounds up (`Ceiling`), which is what keeps the promise.

`MigrateProofs`, from `MigrateAssumption`, for any files, runs, launches and faults:

- `MigrateTypeCorrect`, `FilesAppliedOnce` (`AppliedOnce`), `ExitCodesTrue`
  (`ExitMeansUpToDate`), `FailuresCaused` (`FailureHasCause`) and `InFileOrder`
  (`NoneSkipped`). The inductive invariant `MigrateInv` says of each run that it is
  past the lock exactly when it holds it, that between the read and the unlock its
  `pending` is its listing without the ledger, and that its open transaction has run
  the first of them. The middle part is what the lock is for: only its holder writes
  the ledger (`OthersKeep`), so what a run has read stays true, and its ledger entry
  never meets a taken key.

### Only model-checked

The liveness properties and the fairness of `ImplementsFeed`: temporal reasoning under
fairness is out of the prover's reach. These are `JobsSettle`, `PoisonDiscarded`,
`HandlersReturn`, `EventsRetire`, `EventsArrive`, `CacheHeals`, `ConsumerRecovers`,
`RunsEnd`, `DetailCatchesUp` and `ReplaySeen`.

## 5. Not modelled, and the plan

Not modelled because nothing changes over time in them: validation, health and stats
endpoints (reads), the backoff formulas (a delay is any time in the models, so
nothing that is checked rests on them), configuration, logging, load tests,
deployment files. Of the dashboard, the overview and rendering.

Next: `Outbox` and `Worker` composed, that is, that `Outbox` implements the two actions
`Dispatch` and `Redispatch` by which `Worker` knows it.
