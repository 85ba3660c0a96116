------------------------------- MODULE Outbox -------------------------------
(***************************************************************************)
(* The transactional outbox of the API: the rows of outbox_events, the     *)
(* requests that insert them (behind the backpressure check, or from a     *)
(* replay), and the dispatcher that claims, publishes and marks them       *)
(* (apps/api/src/outbox).                                                  *)
(*                                                                         *)
(* The dispatcher's interval does not wait for the tick before it, so      *)
(* several ticks run interleaved, one await at a time.  Publishing is a    *)
(* write into amqplib's buffer, without confirms: the frame reaches the    *)
(* broker later, or never.                                                 *)
(***************************************************************************)
EXTENDS Naturals, FiniteSets

CONSTANTS
    MaxEvents,   \* bound: the rows 1..MaxEvents, in created_at order
    Ticks,       \* the ticks that can be under way at the same time
    Requests,    \* the POST /api/jobs requests under way at the same time
    BatchSize,   \* BATCH_SIZE
    Threshold,   \* BACKPRESSURE_THRESHOLD
    Faulty,      \* the kinds of fault that may happen
    MaxFaults    \* bound on the faults of one behaviour, of all kinds

\* crash  the API process dies, or is stopped
\* drop   its connection to the broker is lost with what is buffered
\* db     a query fails, its UPDATE having been applied or not
\* throw  publishJobCreated() throws: no channel, or a closed one
\* full   publish() returns false, the frame being buffered all the same
\* slow   a tick holds an event past STALE_CLAIM_THRESHOLD_SECONDS
FaultKinds == {"crash", "drop", "db", "throw", "full", "slow"}

Events == 1..MaxEvents

ASSUME OutboxAssumption ==
    /\ MaxEvents \in Nat /\ BatchSize \in Nat \ {0} /\ Threshold \in Nat
    /\ Faulty \subseteq FaultKinds /\ MaxFaults \in Nat
    /\ IsFiniteSet(Requests) /\ IsFiniteSet(Ticks)

VARIABLES
    row,       \* outbox_events
    inserted,  \* how many rows there are
    tick,      \* the dispatcher's ticks
    request,   \* the POST requests
    buf,       \* frames of each event in the channel's buffer
    queue,     \* messages of each event that reached the main queue
    faults     \* how many more may happen, and the kinds that have

vars == <<row, inserted, tick, request, buf, queue, faults>>

Row == [ from         : {"create", "replay"},
         claimed_at   : {"null", "recent", "stale"},
         published_at : {"null", "set"},
         attempts     : Nat ]

\* A tick is at rest, about to publish an event of its batch, or awaiting
\* markOutboxPublished() or markOutboxFailed() for the event cur.
Tick == [ pc    : {"idle", "publish", "markPublished", "markFailed"},
          batch : SUBSET Events,    \* claimed and not dealt with yet
          cur   : Events \cup {0} ]

IdleTick == [pc |-> "idle", batch |-> {}, cur |-> 0]

Blank == [from |-> "create", claimed_at |-> "null", published_at |-> "null",
          attempts |-> 0]

FaultRecord == [left : Nat, kinds : SUBSET FaultKinds]

TypeOK ==
    /\ row      \in [Events -> Row]
    /\ inserted \in 0..MaxEvents
    /\ tick     \in [Ticks -> Tick]
    /\ request  \in [Requests -> {"idle", "admitted"}]
    /\ buf      \in [Events -> Nat]
    /\ queue    \in [Events -> Nat]
    /\ faults   \in FaultRecord

Init ==
    /\ row      = [e \in Events |-> Blank]
    /\ inserted = 0
    /\ tick     = [t \in Ticks |-> IdleTick]
    /\ request  = [r \in Requests |-> "idle"]
    /\ buf      = [e \in Events |-> 0]
    /\ queue    = [e \in Events |-> 0]
    /\ faults   = [left |-> MaxFaults, kinds |-> {}]

Fault(kind) == /\ kind \in Faulty
               /\ faults.left > 0
               /\ faults' = [left  |-> faults.left - 1,
                             kinds |-> faults.kinds \cup {kind}]

Happened(kinds) == faults.kinds \cap kinds # {}

-----------------------------------------------------------------------------
(* Requests.                                                               *)

Pending == {e \in 1..inserted : row[e].published_at = "null"}

\* Mutant: the check lets one more request through.
MutWithinThreshold(pending) == pending <= Threshold + 1

WithinThreshold(pending) == ~ (pending > Threshold)

\* The backpressure middleware calls next(); a rejected request (503) leaves
\* no trace.
Admit(r) ==
    /\ request[r] = "idle"
    /\ WithinThreshold(Cardinality(Pending))
    /\ request' = [request EXCEPT ![r] = "admitted"]
    /\ UNCHANGED <<row, inserted, tick, buf, queue, faults>>

\* insertOutboxEvent(), in the transaction of the job's own change.
insertOutboxEvent(from) ==
    /\ inserted < MaxEvents
    /\ inserted' = inserted + 1
    /\ row' = [row EXCEPT ![inserted + 1] = [Blank EXCEPT !.from = from]]

\* createJob() commits ...
CreateJob(r) ==
    /\ request[r] = "admitted"
    /\ insertOutboxEvent("create")
    /\ request' = [request EXCEPT ![r] = "idle"]
    /\ UNCHANGED <<tick, buf, queue, faults>>

\* ... or never happens: the body is invalid (400), or it is rolled back.
Refuse(r) ==
    /\ request[r] = "admitted"
    /\ request' = [request EXCEPT ![r] = "idle"]
    /\ UNCHANGED <<row, inserted, tick, buf, queue, faults>>

\* claimReplay() commits.  Replays do not pass the backpressure check.
ReplayJob ==
    /\ insertOutboxEvent("replay")
    /\ UNCHANGED <<tick, request, buf, queue, faults>>

-----------------------------------------------------------------------------
(* The dispatcher: dispatchOutboxBatch(), one await at a time.             *)

\* Mutants: claims are ignored; published events are not left out; what a
\* dead tick has claimed stays claimed.
MutEligibleClaimed(r)   == r.published_at = "null"
MutEligiblePublished(r) == r.claimed_at \in {"null", "stale"}
MutEligibleForever(r)   == r.published_at = "null" /\ r.claimed_at = "null"

Eligible(r) == /\ r.published_at = "null"
               /\ r.claimed_at \in {"null", "stale"}

\* ORDER BY created_at LIMIT BatchSize: an eligible row is claimed unless
\* BatchSize older ones are.
ToClaim == LET able == {e \in 1..inserted : Eligible(row[e])}
           IN  {e \in able : Cardinality({d \in able : d < e}) < BatchSize}

\* claimPendingOutboxEvents(): one UPDATE, with SKIP LOCKED.
Claimed == [e \in Events |-> IF e \in ToClaim
                             THEN [row[e] EXCEPT !.claimed_at = "recent"]
                             ELSE row[e]]

Claim(t) ==
    /\ tick[t].pc = "idle"
    /\ ToClaim # {}
    /\ row' = Claimed
    /\ tick' = [tick EXCEPT ![t] = [pc |-> "publish", batch |-> ToClaim,
                                    cur |-> 0]]
    /\ UNCHANGED <<inserted, request, buf, queue, faults>>

\* The claim throws; committed or not, the tick is over.
ClaimFails(t) ==
    /\ tick[t].pc = "idle"
    /\ Fault("db")
    /\ row' = Claimed \/ row' = row
    /\ UNCHANGED <<inserted, tick, request, buf, queue>>

\* The loop body for cur is done: on to the rest of the batch.
NextInBatch(t) ==
    tick' = [tick EXCEPT ![t] =
        IF tick[t].batch \ {tick[t].cur} = {} THEN IdleTick
        ELSE [pc |-> "publish", batch |-> tick[t].batch \ {tick[t].cur},
              cur |-> 0]]

GoTo(t, pc, e) == tick' = [tick EXCEPT ![t].pc = pc, ![t].cur = e]

\* Mutant: the event is marked on the strength of a publish to come.
MutPublish(t, e) ==
    /\ tick[t].pc = "publish" /\ e \in tick[t].batch
    /\ GoTo(t, "markPublished", e)
    /\ UNCHANGED <<row, inserted, request, buf, queue, faults>>

\* publishJobCreated() returns.
Publish(t, e) ==
    /\ tick[t].pc = "publish" /\ e \in tick[t].batch
    /\ buf' = [buf EXCEPT ![e] = @ + 1]
    /\ GoTo(t, "markPublished", e)
    /\ UNCHANGED <<row, inserted, request, queue, faults>>

\* publish() returned false, so publishJobCreated() throws.
PublishFull(t, e) ==
    /\ tick[t].pc = "publish" /\ e \in tick[t].batch
    /\ Fault("full")
    /\ buf' = [buf EXCEPT ![e] = @ + 1]
    /\ GoTo(t, "markFailed", e)
    /\ UNCHANGED <<row, inserted, request, queue>>

PublishThrows(t, e) ==
    /\ tick[t].pc = "publish" /\ e \in tick[t].batch
    /\ Fault("throw")
    /\ GoTo(t, "markFailed", e)
    /\ UNCHANGED <<row, inserted, request, buf, queue>>

markOutboxPublished(r) == [r EXCEPT !.published_at = "set"]

\* Mutant: attempts counts down.
MutMarkOutboxFailed(r) == [r EXCEPT !.claimed_at = "null", !.attempts = @ - 1]

markOutboxFailed(r) == [r EXCEPT !.claimed_at = "null", !.attempts = @ + 1]

MarkPublished(t) ==
    /\ tick[t].pc = "markPublished"
    /\ row' = [row EXCEPT ![tick[t].cur] = markOutboxPublished(@)]
    /\ NextInBatch(t)
    /\ UNCHANGED <<inserted, request, buf, queue, faults>>

\* The mark throws, inside the same try block as the publish.
MarkPublishedFails(t) ==
    /\ tick[t].pc = "markPublished"
    /\ Fault("db")
    /\ \/ row' = [row EXCEPT ![tick[t].cur] = markOutboxPublished(@)]
       \/ row' = row
    /\ GoTo(t, "markFailed", tick[t].cur)
    /\ UNCHANGED <<inserted, request, buf, queue>>

MarkFailed(t) ==
    /\ tick[t].pc = "markFailed"
    /\ row' = [row EXCEPT ![tick[t].cur] = markOutboxFailed(@)]
    /\ NextInBatch(t)
    /\ UNCHANGED <<inserted, request, buf, queue, faults>>

\* markOutboxFailed() throws out of the loop: the batch is abandoned.
MarkFailedFails(t) ==
    /\ tick[t].pc = "markFailed"
    /\ Fault("db")
    /\ \/ row' = [row EXCEPT ![tick[t].cur] = markOutboxFailed(@)]
       \/ row' = row
    /\ tick' = [tick EXCEPT ![t] = IdleTick]
    /\ UNCHANGED <<inserted, request, buf, queue>>

-----------------------------------------------------------------------------
(* The broker, faults and time.                                            *)

\* The socket takes a frame and the broker routes it to the main queue.
Flush(e) ==
    /\ buf[e] > 0
    /\ buf' = [buf EXCEPT ![e] = @ - 1]
    /\ queue' = [queue EXCEPT ![e] = @ + 1]
    /\ UNCHANGED <<row, inserted, tick, request, faults>>

Drop ==
    /\ Fault("drop")
    /\ buf' = [e \in Events |-> 0]
    /\ UNCHANGED <<row, inserted, tick, request, queue>>

Crash ==
    /\ Fault("crash")
    /\ buf' = [e \in Events |-> 0]
    /\ tick' = [t \in Ticks |-> IdleTick]
    /\ request' = [r \in Requests |-> "idle"]
    /\ UNCHANGED <<row, inserted, queue>>

Holds(t, e) == e \in tick[t].batch

\* A claim grows stale.  It is a fault when a tick still has the event.
GoStale(e) ==
    /\ row[e].claimed_at = "recent"
    /\ row' = [row EXCEPT ![e].claimed_at = "stale"]
    /\ \/ (\E t \in Ticks : Holds(t, e)) /\ Fault("slow")
       \/ (\A t \in Ticks : ~ Holds(t, e)) /\ UNCHANGED faults
    /\ UNCHANGED <<inserted, tick, request, buf, queue>>

-----------------------------------------------------------------------------
RequestNext ==
    \/ \E r \in Requests : Admit(r) \/ CreateJob(r) \/ Refuse(r)
    \/ ReplayJob

TickNext == \E t \in Ticks :
    \/ Claim(t) \/ ClaimFails(t)
    \/ \E e \in Events : Publish(t, e) \/ PublishFull(t, e) \/ PublishThrows(t, e)
    \/ MarkPublished(t) \/ MarkPublishedFails(t)
    \/ MarkFailed(t) \/ MarkFailedFails(t)

EnvironmentNext ==
    \/ \E e \in Events : Flush(e) \/ GoStale(e)
    \/ Drop \/ Crash

Next == RequestNext \/ TickNext \/ EnvironmentNext

Spec == Init /\ [][Next]_vars

\* setInterval keeps firing, an awaited call settles, the socket drains, and
\* time passes.  Nothing makes anybody submit a job.
Fairness ==
    /\ \A t \in Ticks : WF_vars(\/ Claim(t)
                                \/ \E e \in Events : Publish(t, e)
                                \/ MarkPublished(t) \/ MarkFailed(t))
    /\ \A e \in Events : WF_vars(Flush(e)) /\ WF_vars(GoStale(e))

FairSpec == Spec /\ Fairness

-----------------------------------------------------------------------------
(* Properties.                                                             *)

\* Until a tick is slow, two ticks never have the same event in hand: the
\* atomic claim, whatever marks fail and whatever batches are abandoned.
SingleDispatch == ~ Happened({"slow"}) =>
    \A s, t \in Ticks : \A e \in Events : Holds(s, e) /\ Holds(t, e) => s = t

\* Once published, an event is not claimed again, although a tick that lost
\* track of it may still reset its claimed_at (markOutboxFailed() has no
\* condition on published_at).  Whatever the faults.
NoResurrection == [][\A e \in Events : row[e].published_at = "set" =>
    /\ row'[e].published_at = "set"
    /\ \A t \in Ticks : Holds(t, e)' => Holds(t, e)]_vars

\* Every duplicate message is paid for by a fault: n faults make at most
\* n + 1 messages of one event.
DuplicatesNeedFaults == \A e \in Events :
    buf[e] + queue[e] <= 1 + (MaxFaults - faults.left)

\* Until a crash or a lost connection, an event marked published has a
\* message at the broker or in the buffer, in whatever order ticks mark it.
PublishedMeansSent == ~ Happened({"crash", "drop"}) => \A e \in Events :
    row[e].published_at = "set" => buf[e] + queue[e] > 0

\* The backpressure check is made before the insert and not with it, so the
\* backlog of created jobs may pass the threshold, but together with the
\* requests still to insert by no more than the requests there can be.
BacklogBounded ==
    Cardinality({e \in Pending : row[e].from = "create"})
      + Cardinality({r \in Requests : request[r] = "admitted"})
        <= Threshold + Cardinality(Requests)

\* Every event is finally marked published, whatever the faults: none is
\* left claimed for good by a tick that failed or a process that died.  (No
\* row is deleted, so a pending event stops being one by its mark only.)
EventsRetire == \A e \in Events : []<>(e \notin Pending)

\* Every event that is inserted reaches the broker, marked or not, unless
\* there is a crash or a lost connection.
EventsArrive == \A e \in Events :
    []<>(e <= inserted => queue[e] > 0 \/ Happened({"crash", "drop"}))

\* "A crash, an API restart, or a RabbitMQ outage at any point can no longer
\* silently lose that need" (docs/failure-handling.md:311): with them, an
\* event still reaches the broker.  Violated by the run OutboxNeedLost (see
\* README.md).
NeedNeverLost == \A e \in Events : (e \in Pending) ~> (queue[e] > 0)

=============================================================================
