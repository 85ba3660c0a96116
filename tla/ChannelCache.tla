---------------------------- MODULE ChannelCache ----------------------------
(***************************************************************************)
(* The worker's connection to RabbitMQ: the cached channel of              *)
(* queue/connection.ts, whose getChannel() is called by the publishers of  *)
(* retry and dead-letter messages and by the consumer, and the consumer's  *)
(* resubscription when the cache is invalidated (consumer.ts).             *)
(*                                                                         *)
(* A link is a connection with its channel.  It goes down at the broker's  *)
(* or the network's will; the "close" event that tells the process of it   *)
(* comes later.                                                            *)
(***************************************************************************)
EXTENDS Naturals, FiniteSets

CONSTANTS
    Links,        \* connections that can exist at the same time
    first,        \* the one that startConsumer() subscribed on
    Publishers,   \* handlers that may be in publishRetry()/publishDeadLetter()
    None,         \* no link
    MaxPublishes, \* bound on the publishes
    MaxDrops      \* bound on lost links and failed connects

ASSUME CacheAssumption ==
    /\ first \in Links /\ None \notin Links
    /\ MaxPublishes \in Nat /\ MaxDrops \in Nat

VARIABLES
    link,       \* "unused", "up" or "down" (and its close event pending)
    cached,     \* the module's `channel`
    publisher,  \* who calls getChannel() to publish
    sub,        \* resubscribeWithBackoff(); at rest iff ~reconnecting
    consumers,  \* the links that channel.consume() was called on
    publishes,  \* how many more publishes may start
    drops,      \* how many more faults may happen
    raced       \* auxiliary: have two callers ever been connecting at once

vars == <<link, cached, publisher, sub, consumers, publishes, drops, raced>>

\* get         at the top of getChannel()
\* connecting  awaiting connect(), createChannel() and the topology on `link`
\* has         getChannel() returned `link`
\* sleep       the resubscription waits for its next try
Caller == [ pc   : {"idle", "get", "connecting", "has", "sleep"},
            link : Links \cup {None} ]

Rest == [pc |-> "idle", link |-> None]

TypeOK ==
    /\ link \in [Links -> {"unused", "up", "down"}]
    /\ cached \in Links \cup {None}
    /\ publisher \in [Publishers -> Caller]
    /\ sub \in Caller
    /\ consumers \subseteq Links
    /\ publishes \in Nat
    /\ drops \in Nat
    /\ raced \in BOOLEAN

Init ==
    /\ link = [l \in Links |-> IF l = first THEN "up" ELSE "unused"]
    /\ cached = first
    /\ publisher = [p \in Publishers |-> Rest]
    /\ sub = Rest
    /\ consumers = {first}
    /\ publishes = MaxPublishes
    /\ drops = MaxDrops
    /\ raced = FALSE

Connecting == sub.pc = "connecting"
              \/ \E p \in Publishers : publisher[p].pc = "connecting"

Free(l) == /\ link[l] = "unused"
           /\ sub.link # l
           /\ \A p \in Publishers : publisher[p].link # l

-----------------------------------------------------------------------------
(* getChannel(), for a caller that is in the state k: the state it goes to *)
(* and what becomes of the links and of the cache.                         *)

\* The cached channel is returned, whether it is still up or not.
Hit(k, k2) ==
    /\ k.pc = "get" /\ cached # None
    /\ k2 = [pc |-> "has", link |-> cached]
    /\ UNCHANGED <<link, cached, drops, raced>>

\* No in-flight guard: every caller that finds the cache empty connects.
Connect(k, k2) ==
    /\ k.pc = "get" /\ cached = None
    /\ \E l \in Links : /\ Free(l)
                        /\ link' = [link EXCEPT ![l] = "up"]
                        /\ k2 = [pc |-> "connecting", link |-> l]
    /\ raced' = (raced \/ Connecting)
    /\ UNCHANGED <<cached, drops>>

\* The last await is over: the new channel replaces whatever is cached.
Cache(k, k2) ==
    /\ k.pc = "connecting" /\ link[k.link] = "up"
    /\ cached' = k.link
    /\ k2 = [pc |-> "has", link |-> k.link]
    /\ UNCHANGED <<link, drops, raced>>

\* getChannel() throws: the broker cannot be reached, or the link goes down
\* before the topology is asserted.
Throws(k) ==
    \/ /\ k.pc = "get" /\ cached = None
       /\ drops > 0 /\ drops' = drops - 1
       /\ UNCHANGED <<link, cached, raced>>
    \/ /\ k.pc = "connecting" /\ link[k.link] # "up"
       /\ UNCHANGED <<link, cached, drops, raced>>

-----------------------------------------------------------------------------
(* The callers.                                                            *)

PublishStarts(p) ==
    /\ publisher[p].pc = "idle"
    /\ publishes > 0 /\ publishes' = publishes - 1
    /\ publisher' = [publisher EXCEPT ![p].pc = "get"]
    /\ UNCHANGED <<link, cached, sub, consumers, drops, raced>>

PublisherGets(p) == \E k2 \in Caller :
    /\ \/ Hit(publisher[p], k2) \/ Connect(publisher[p], k2)
       \/ Cache(publisher[p], k2)
    /\ publisher' = [publisher EXCEPT ![p] = k2]
    /\ UNCHANGED <<sub, consumers, publishes>>

\* The publish is made, or throws on a closed channel, or was never reached.
PublishEnds(p) ==
    /\ \/ publisher[p].pc = "has" /\ UNCHANGED <<link, cached, drops, raced>>
       \/ Throws(publisher[p])
    /\ publisher' = [publisher EXCEPT ![p] = Rest]
    /\ UNCHANGED <<sub, consumers, publishes>>

ConsumerGets == \E k2 \in Caller :
    /\ Hit(sub, k2) \/ Connect(sub, k2) \/ Cache(sub, k2)
    /\ sub' = k2
    /\ UNCHANGED <<publisher, consumers, publishes>>

\* Mutant: consume() is called without awaiting getChannel().
MutConsume ==
    /\ sub.pc \in {"get", "has"}
    /\ consumers' = consumers \cup {sub.link}
    /\ sub' = Rest
    /\ UNCHANGED <<link, cached, publisher, publishes, drops, raced>>

\* prefetch() and consume() succeed; the loop returns.
Consume ==
    /\ sub.pc = "has" /\ link[sub.link] = "up"
    /\ consumers' = consumers \cup {sub.link}
    /\ sub' = Rest
    /\ UNCHANGED <<link, cached, publisher, publishes, drops, raced>>

\* subscribe() throws; the loop sleeps ...
SubscribeFails ==
    /\ \/ /\ sub.pc = "has" /\ link[sub.link] # "up"
          /\ UNCHANGED <<link, cached, drops, raced>>
       \/ Throws(sub)
    /\ sub' = [pc |-> "sleep", link |-> None]
    /\ UNCHANGED <<publisher, consumers, publishes>>

\* ... and tries again.
Wake ==
    /\ sub.pc = "sleep"
    /\ sub' = [pc |-> "get", link |-> None]
    /\ UNCHANGED <<link, cached, publisher, consumers, publishes, drops, raced>>

-----------------------------------------------------------------------------
(* Links go down, one alone or all at once (a broker restart).             *)

Down(l) ==
    /\ link[l] = "up"
    /\ drops > 0 /\ drops' = drops - 1
    /\ link' = [link EXCEPT ![l] = "down"]
    /\ UNCHANGED <<cached, publisher, sub, consumers, publishes, raced>>

BrokerRestarts ==
    /\ drops > 0 /\ drops' = drops - 1
    /\ link' = [l \in Links |-> IF link[l] = "up" THEN "down" ELSE link[l]]
    /\ UNCHANGED <<cached, publisher, sub, consumers, publishes, raced>>

\* Mutants of invalidate(): it was not there before Phase 14; it does not
\* emit; it does not compare identities.
MutInvalidateNever(l) == UNCHANGED <<cached, sub>>
MutInvalidateSilently(l) ==
    /\ cached' = IF cached = l THEN None ELSE cached
    /\ UNCHANGED sub
MutInvalidateAny(l) ==
    /\ cached' = None
    /\ sub' = IF sub.pc = "idle" THEN [pc |-> "get", link |-> None] ELSE sub

\* invalidate(), and the listener of "invalidated": a resubscription starts
\* unless one is under way.  A link that is not the cached one is ignored.
Invalidate(l) ==
    \/ /\ cached = l
       /\ cached' = None
       /\ sub' = IF sub.pc = "idle" THEN [pc |-> "get", link |-> None] ELSE sub
    \/ cached # l /\ UNCHANGED <<cached, sub>>

\* The close event of l is delivered.
Closed(l) ==
    /\ link[l] = "down"
    /\ link' = [link EXCEPT ![l] = "unused"]
    /\ consumers' = consumers \ {l}
    /\ Invalidate(l)
    /\ UNCHANGED <<publisher, publishes, drops, raced>>

-----------------------------------------------------------------------------
Next ==
    \/ \E p \in Publishers : PublishStarts(p) \/ PublisherGets(p) \/ PublishEnds(p)
    \/ ConsumerGets \/ Consume \/ SubscribeFails \/ Wake
    \/ \E l \in Links : Down(l) \/ Closed(l)
    \/ BrokerRestarts

Spec == Init /\ [][Next]_vars

\* Awaited calls settle, timers fire and close events are delivered; nothing
\* makes a publisher start or a link go down.  Reaching the broker is fair
\* because failed connects are bounded by MaxDrops.
Fairness ==
    /\ \A p \in Publishers : WF_vars(PublisherGets(p) \/ PublishEnds(p))
    /\ WF_vars(ConsumerGets \/ Consume \/ SubscribeFails \/ Wake)
    /\ \A l \in Links : WF_vars(Closed(l))

FairSpec == Spec /\ Fairness

-----------------------------------------------------------------------------
(* Properties.                                                             *)

\* A channel that has died does not stay in the cache, whoever put it there
\* and however many callers connect at once: no close event that invalidate()
\* ignores is the cached channel's.
CacheHeals == \A l \in Links :
    (cached = l /\ link[l] # "up") ~> (cached # l \/ link[l] = "up")

\* Until two callers connect at once, the worker never consumes on two live
\* channels, which would double its prefetch of 1, however close events,
\* publishes and resubscriptions interleave.
SingleConsumer == ~ raced =>
    Cardinality({l \in consumers : link[l] = "up"}) <= 1

Listening == \E l \in consumers : link[l] = "up"

\* After the outages the worker is listening again, and stays so, unless two
\* callers have connected at once.
ConsumerRecovers == <>[](Listening \/ raced)

\* "Worker side: actively resubscribes on disconnect" (README.md:177).
\* Violated by the run ChannelDeaf, in which a handler that publishes and
\* the consumer find the cache empty together (see README.md).
WorkerResubscribes == <>[]Listening

=============================================================================
