---------------------------- MODULE ChannelProofs ---------------------------
(***************************************************************************)
(* Theorems about ChannelCache for every value of its constants, with      *)
(* proofs checked by TLAPS.                                                *)
(***************************************************************************)
EXTENDS ChannelCache, FiniteSetTheorems, TLAPS

\* A caller has a link from connect() until its getChannel() is over.
LinkInHand(k) == /\ k.pc \in {"idle", "get", "sleep"} => k.link = None
                 /\ k.pc \in {"connecting", "has"} => k.link \in Links

\* What is cached or consumed on has not been closed, and callers know of
\* the links they use.
WellFormed ==
    /\ \A l \in Links : cached = l => link[l] # "unused"
    /\ \A l \in consumers : link[l] # "unused"
    /\ LinkInHand(sub)
    /\ \A p \in Publishers : LinkInHand(publisher[p])

TypeInv == TypeOK /\ WellFormed

\* One caller connects at a time, and only while nothing is cached.
OneConnects ==
    /\ sub.pc = "connecting" =>
          cached = None /\ \A p \in Publishers : publisher[p].pc # "connecting"
    /\ \A p \in Publishers : publisher[p].pc = "connecting" =>
          cached = None /\ \A q \in Publishers : publisher[q].pc = "connecting" => p = q

\* The live channel that is consumed on is the cached one, and so is the one
\* that the consumer is about to consume on.
ConsumesCached ==
    /\ \A l \in consumers : link[l] = "up" => cached = l
    /\ sub.pc = "has" /\ link[sub.link] = "up" => cached = sub.link

ConsumerInv == ~ raced => OneConnects /\ ConsumesCached

-----------------------------------------------------------------------------
(* Type correctness.                                                       *)

\* The initial states are well-typed and well-formed.
LEMMA TypeInit == Init => TypeInv
  <1> SUFFICES ASSUME Init PROVE TypeInv
    OBVIOUS
  <1>1. Rest \in Caller /\ LinkInHand(Rest)
    BY DEF Rest, Caller, LinkInHand
  <1>2. TypeOK
    BY <1>1, CacheAssumption DEF Init, TypeOK
  <1>3. WellFormed
    BY <1>1, CacheAssumption DEF Init, WellFormed
  <1> QED BY <1>2, <1>3 DEF TypeInv

\* getChannel(): what a caller is told, and what becomes of the links.
LEMMA GetEffect ==
    ASSUME TypeInv, NEW k \in Caller, LinkInHand(k), NEW k2 \in Caller,
           Hit(k, k2) \/ Connect(k, k2) \/ Cache(k, k2)
    PROVE  /\ link' \in [Links -> {"unused", "up", "down"}]
           /\ cached' \in Links \cup {None}
           /\ drops' = drops /\ raced' \in BOOLEAN
           /\ LinkInHand(k2)
           /\ \A l \in Links : link'[l] = "unused" => link[l] = "unused"
           /\ \A l \in Links : cached' = l => link'[l] # "unused"
  <1>1. CASE Hit(k, k2)
    BY <1>1 DEF Hit, TypeInv, TypeOK, WellFormed, LinkInHand
  <1>2. CASE Connect(k, k2)
    <2>1. PICK l \in Links : /\ link' = [link EXCEPT ![l] = "up"]
                             /\ k2 = [pc |-> "connecting", link |-> l]
      BY <1>2 DEF Connect
    <2>2. cached' = cached /\ drops' = drops /\ raced' \in BOOLEAN
      BY <1>2 DEF Connect, TypeInv, TypeOK
    <2> QED BY <2>1, <2>2 DEF TypeInv, TypeOK, WellFormed, LinkInHand
  <1>3. CASE Cache(k, k2)
    BY <1>3 DEF Cache, TypeInv, TypeOK, WellFormed, LinkInHand
  <1> QED BY <1>1, <1>2, <1>3

\* A connection attempt that throws leaves links and cache alone.
LEMMA ThrowsEffect ==
    ASSUME TypeInv, NEW k, Throws(k)
    PROVE  UNCHANGED <<link, cached, raced>> /\ drops' \in Nat
  BY DEF Throws, TypeInv, TypeOK

\* Every step keeps them so.
LEMMA TypeNext == TypeInv /\ [Next]_vars => TypeInv'
  <1> SUFFICES ASSUME TypeInv, [Next]_vars PROVE TypeInv'
    OBVIOUS
  <1>r. Rest \in Caller /\ LinkInHand(Rest)
    BY DEF Rest, Caller, LinkInHand
  <1>s. LET get == [pc |-> "get", link |-> None]
            slp == [pc |-> "sleep", link |-> None]
        IN  get \in Caller /\ LinkInHand(get) /\ slp \in Caller /\ LinkInHand(slp)
    BY DEF Caller, LinkInHand
  <1>1. CASE UNCHANGED vars
    BY <1>1 DEF vars, TypeInv, TypeOK, WellFormed, LinkInHand
  <1>2. ASSUME NEW p \in Publishers, PublishStarts(p) PROVE TypeInv'
    <2>1. publishes' \in Nat
      BY <1>2 DEF PublishStarts, TypeInv, TypeOK
    <2>2. publisher' \in [Publishers -> Caller]
      BY <1>2 DEF PublishStarts, TypeInv, TypeOK, Caller
    <2>3. \A q \in Publishers : LinkInHand(publisher'[q])
      BY <1>2 DEF PublishStarts, TypeInv, TypeOK, WellFormed, Caller, LinkInHand
    <2>4. UNCHANGED <<link, cached, sub, consumers, drops, raced>>
      BY <1>2 DEF PublishStarts
    <2> QED BY <2>1, <2>2, <2>3, <2>4 DEF TypeInv, TypeOK, WellFormed, LinkInHand
  <1>3. ASSUME NEW p \in Publishers, PublisherGets(p) PROVE TypeInv'
    <2>1. PICK k2 \in Caller :
            /\ \/ Hit(publisher[p], k2) \/ Connect(publisher[p], k2)
               \/ Cache(publisher[p], k2)
            /\ publisher' = [publisher EXCEPT ![p] = k2]
      BY <1>3 DEF PublisherGets
    <2>2. publisher[p] \in Caller /\ LinkInHand(publisher[p])
      BY DEF TypeInv, TypeOK, WellFormed
    <2>3. UNCHANGED <<sub, consumers, publishes>>
      BY <1>3 DEF PublisherGets
    <2>4. TypeOK'
      BY <2>1, <2>2, <2>3, GetEffect DEF TypeInv, TypeOK
    <2>5. \A q \in Publishers : publisher'[q] = publisher[q] \/ publisher'[q] = k2
      BY <2>1 DEF TypeInv, TypeOK
    <2>6. \A q \in Publishers : LinkInHand(publisher'[q])
      BY <2>1, <2>2, <2>5, GetEffect DEF TypeInv, WellFormed
    <2>7. LinkInHand(sub') /\ \A l \in consumers' : link'[l] # "unused"
      BY <2>1, <2>2, <2>3, GetEffect DEF TypeInv, TypeOK, WellFormed
    <2> QED BY <2>1, <2>2, <2>4, <2>6, <2>7, GetEffect DEF TypeInv, WellFormed, LinkInHand
  <1>4. ASSUME NEW p \in Publishers, PublishEnds(p) PROVE TypeInv'
    <2>1. UNCHANGED <<link, cached, raced>> /\ drops' \in Nat
      BY <1>4, ThrowsEffect DEF PublishEnds, TypeInv, TypeOK
    <2>2. UNCHANGED <<sub, consumers, publishes>>
      BY <1>4 DEF PublishEnds
    <2>3. /\ publisher' \in [Publishers -> Caller]
          /\ \A q \in Publishers : LinkInHand(publisher'[q])
      BY <1>r, <1>4 DEF PublishEnds, TypeInv, TypeOK, WellFormed
    <2> QED BY <2>1, <2>2, <2>3 DEF TypeInv, TypeOK, WellFormed, LinkInHand
  <1>5. CASE ConsumerGets
    <2>1. PICK k2 \in Caller : /\ Hit(sub, k2) \/ Connect(sub, k2) \/ Cache(sub, k2)
                               /\ sub' = k2
      BY <1>5 DEF ConsumerGets
    <2>2. sub \in Caller /\ LinkInHand(sub)
      BY DEF TypeInv, TypeOK, WellFormed
    <2>3. UNCHANGED <<publisher, consumers, publishes>>
      BY <1>5 DEF ConsumerGets
    <2>4. TypeOK'
      BY <2>1, <2>2, <2>3, GetEffect DEF TypeInv, TypeOK
    <2>5. LinkInHand(sub') /\ \A l \in consumers' : link'[l] # "unused"
      BY <2>1, <2>2, <2>3, GetEffect DEF TypeInv, TypeOK, WellFormed
    <2>6. \A q \in Publishers : LinkInHand(publisher'[q])
      BY <2>3 DEF TypeInv, WellFormed
    <2> QED BY <2>1, <2>2, <2>4, <2>5, <2>6, GetEffect DEF TypeInv, WellFormed, LinkInHand
  <1>6. CASE Consume
    <2>1. sub.link \in Links /\ link[sub.link] = "up"
      BY <1>6 DEF Consume, TypeInv, WellFormed, LinkInHand
    <2>2. /\ UNCHANGED <<link, cached, publisher, publishes, drops, raced>>
          /\ consumers' = consumers \cup {sub.link} /\ sub' = Rest
      BY <1>6 DEF Consume
    <2>3. TypeOK'
      BY <1>r, <2>1, <2>2 DEF TypeInv, TypeOK
    <2>4. LinkInHand(sub') /\ \A l \in consumers' : link'[l] # "unused"
      BY <1>r, <2>1, <2>2 DEF TypeInv, WellFormed
    <2> QED BY <2>2, <2>3, <2>4 DEF TypeInv, WellFormed, LinkInHand
  <1>7. CASE SubscribeFails \/ Wake
    <2>1. UNCHANGED <<link, cached, raced>> /\ drops' \in Nat
      BY <1>7, ThrowsEffect DEF SubscribeFails, Wake, TypeInv, TypeOK
    <2>2. UNCHANGED <<publisher, consumers, publishes>>
      BY <1>7 DEF SubscribeFails, Wake
    <2>3. sub' \in Caller /\ LinkInHand(sub')
      BY <1>s, <1>7 DEF SubscribeFails, Wake
    <2> QED BY <2>1, <2>2, <2>3 DEF TypeInv, TypeOK, WellFormed, LinkInHand
  <1>8. CASE BrokerRestarts \/ \E l \in Links : Down(l)
    <2>1. UNCHANGED <<cached, publisher, sub, consumers, publishes, raced>>
      BY <1>8 DEF BrokerRestarts, Down
    <2>2. drops' \in Nat
      BY <1>8 DEF BrokerRestarts, Down, TypeInv, TypeOK
    <2>3. /\ link' \in [Links -> {"unused", "up", "down"}]
          /\ \A l \in Links : link'[l] = "unused" => link[l] = "unused"
      BY <1>8 DEF BrokerRestarts, Down, TypeInv, TypeOK
    <2>4. TypeOK'
      BY <2>1, <2>2, <2>3 DEF TypeInv, TypeOK
    <2>5. WellFormed'
      BY <2>1, <2>3 DEF TypeInv, TypeOK, WellFormed, LinkInHand
    <2> QED BY <2>4, <2>5 DEF TypeInv
  <1>9. ASSUME NEW l \in Links, Closed(l) PROVE TypeInv'
    <2>1. UNCHANGED <<publisher, publishes, drops, raced>>
      BY <1>9 DEF Closed
    <2>2. /\ link' \in [Links -> {"unused", "up", "down"}] /\ consumers' = consumers \ {l}
          /\ \A m \in Links \ {l} : link'[m] = link[m]
      BY <1>9 DEF Closed, TypeInv, TypeOK
    <2>3. /\ cached' \in Links \cup {None} /\ cached' # l
          /\ cached' # None => cached' = cached
      BY <1>9, CacheAssumption DEF Closed, Invalidate, TypeInv, TypeOK
    <2>4. sub' \in Caller /\ LinkInHand(sub')
      <3>1. sub' = sub \/ sub' = [pc |-> "get", link |-> None]
        BY <1>9 DEF Closed, Invalidate
      <3> QED BY <1>s, <3>1 DEF TypeInv, TypeOK, WellFormed
    <2>5. TypeOK'
      BY <2>1, <2>2, <2>3, <2>4 DEF TypeInv, TypeOK
    <2>6. /\ \A m \in Links : cached' = m => link'[m] # "unused"
          /\ \A m \in consumers' : link'[m] # "unused"
      BY <2>2, <2>3, CacheAssumption DEF TypeInv, TypeOK, WellFormed
    <2>7. \A q \in Publishers : LinkInHand(publisher'[q])
      BY <2>1 DEF TypeInv, WellFormed
    <2> QED BY <2>4, <2>5, <2>6, <2>7 DEF TypeInv, WellFormed, LinkInHand
  <1> QED BY <1>1, <1>2, <1>3, <1>4, <1>5, <1>6, <1>7, <1>8, <1>9 DEF Next

\* So every reachable state is.
LEMMA TypeInvariant == Spec => []TypeInv
  BY TypeInit, TypeNext, PTL DEF Spec

\* The links, the cache, the callers and the consumers have their types.
THEOREM CacheTypeCorrect == Spec => []TypeOK
  BY TypeInvariant, PTL DEF TypeInv

-----------------------------------------------------------------------------
(* One live consumer.                                                      *)

\* The race is on record for good.
LEMMA RacedStays ==
    ASSUME TypeInv, [Next]_vars, ~ raced'
    PROVE  ~ raced
  <1>1. ASSUME NEW k, NEW k2, Hit(k, k2) \/ Connect(k, k2) \/ Cache(k, k2)
        PROVE  raced => raced'
    BY <1>1 DEF Hit, Connect, Cache
  <1>2. ASSUME NEW k, Throws(k) PROVE raced' = raced
    BY <1>2 DEF Throws
  <1> QED BY <1>1, <1>2
          DEF Next, vars, PublishStarts, PublisherGets, PublishEnds, ConsumerGets,
              Consume, SubscribeFails, Wake, Down, Closed, BrokerRestarts

\* Nobody connects or consumes at first.
LEMMA ConsumerInit == Init => ConsumerInv
  BY CacheAssumption DEF Init, ConsumerInv, OneConnects, ConsumesCached, Rest

\* A caller other than the ones that matter returns or gives up.
LEMMA PublisherRests ==
    ASSUME TypeInv, OneConnects, ConsumesCached, NEW p \in Publishers,
           UNCHANGED <<link, cached, sub, consumers>>,
           \A q \in Publishers \ {p} : publisher'[q] = publisher[q],
           publisher'[p].pc # "connecting"
    PROVE  OneConnects' /\ ConsumesCached'
  BY DEF OneConnects, ConsumesCached

\* Until two callers connect at once, every step keeps the consumer on the
\* cached channel.
LEMMA ConsumerStep ==
    ASSUME TypeInv, ConsumerInv, [Next]_vars
    PROVE  ConsumerInv'
  <1> SUFFICES ASSUME ~ raced' PROVE OneConnects' /\ ConsumesCached'
    BY DEF ConsumerInv
  <1>0. ~ raced /\ OneConnects /\ ConsumesCached
    BY RacedStays DEF ConsumerInv
  <1>1. CASE UNCHANGED vars
    BY <1>0, <1>1 DEF vars, OneConnects, ConsumesCached
  <1>2. ASSUME NEW p \in Publishers, PublishStarts(p)
        PROVE  OneConnects' /\ ConsumesCached'
    <2>1. /\ UNCHANGED <<link, cached, sub, consumers>>
          /\ \A q \in Publishers \ {p} : publisher'[q] = publisher[q]
          /\ publisher'[p].pc # "connecting"
      BY <1>2 DEF PublishStarts, TypeInv, TypeOK, Caller
    <2> QED BY <1>0, <2>1, PublisherRests
  <1>3. ASSUME NEW p \in Publishers, PublisherGets(p)
        PROVE  OneConnects' /\ ConsumesCached'
    <2>1. PICK k2 \in Caller :
            /\ \/ Hit(publisher[p], k2) \/ Connect(publisher[p], k2)
               \/ Cache(publisher[p], k2)
            /\ publisher' = [publisher EXCEPT ![p] = k2]
      BY <1>3 DEF PublisherGets
    <2>2. /\ UNCHANGED <<sub, consumers>> /\ publisher'[p] = k2
          /\ \A q \in Publishers \ {p} : publisher'[q] = publisher[q]
      BY <1>3, <2>1 DEF PublisherGets, TypeInv, TypeOK
    <2>3. CASE Hit(publisher[p], k2)
      <3>1. UNCHANGED <<link, cached>> /\ k2.pc = "has"
        BY <2>3 DEF Hit
      <3> QED BY <1>0, <2>2, <3>1, PublisherRests
    <2>4. CASE Connect(publisher[p], k2)
      <3>1. cached = None /\ cached' = None /\ ~ Connecting
        BY <2>4 DEF Connect
      <3>2. PICK l \in Links : Free(l) /\ link' = [link EXCEPT ![l] = "up"]
        BY <2>4 DEF Connect
      <3>3. OneConnects'
        BY <2>2, <3>1 DEF OneConnects, Connecting
      <3>4. \A m \in Links \ {l} : link'[m] = link[m]
        BY <3>2 DEF TypeInv, TypeOK
      <3>5. l \notin consumers /\ sub.link # l
        BY <3>2 DEF Free, TypeInv, WellFormed
      <3>6. sub.pc = "has" => sub.link \in Links
        BY DEF TypeInv, WellFormed, LinkInHand
      <3>7. ConsumesCached'
        BY <1>0, <2>2, <3>1, <3>4, <3>5, <3>6 DEF ConsumesCached, TypeInv, TypeOK
      <3> QED BY <3>3, <3>7
    <2>5. CASE Cache(publisher[p], k2)
      <3>1. publisher[p].pc = "connecting" /\ link' = link /\ k2.pc = "has"
        BY <2>5 DEF Cache
      <3>2. /\ cached = None /\ sub.pc # "connecting"
            /\ \A q \in Publishers \ {p} : publisher[q].pc # "connecting"
        BY <1>0, <3>1 DEF OneConnects
      <3>3. /\ \A l \in consumers : link[l] # "up"
            /\ sub.pc = "has" => link[sub.link] # "up"
        BY <1>0, <3>2, CacheAssumption
        DEF ConsumesCached, TypeInv, TypeOK, WellFormed, LinkInHand
      <3>4. OneConnects'
        BY <2>2, <3>1, <3>2 DEF OneConnects
      <3>5. ConsumesCached'
        BY <2>2, <3>1, <3>3 DEF ConsumesCached
      <3> QED BY <3>4, <3>5
    <2> QED BY <2>1, <2>3, <2>4, <2>5
  <1>4. ASSUME NEW p \in Publishers, PublishEnds(p)
        PROVE  OneConnects' /\ ConsumesCached'
    <2>1. UNCHANGED <<link, cached>>
      BY <1>4, ThrowsEffect DEF PublishEnds
    <2>2. /\ UNCHANGED <<sub, consumers>>
          /\ \A q \in Publishers \ {p} : publisher'[q] = publisher[q]
          /\ publisher'[p].pc # "connecting"
      BY <1>4 DEF PublishEnds, Rest, TypeInv, TypeOK
    <2> QED BY <1>0, <2>1, <2>2, PublisherRests
  <1>5. CASE ConsumerGets
    <2>1. PICK k2 \in Caller : /\ Hit(sub, k2) \/ Connect(sub, k2) \/ Cache(sub, k2)
                               /\ sub' = k2
      BY <1>5 DEF ConsumerGets
    <2>2. UNCHANGED <<publisher, consumers>>
      BY <1>5 DEF ConsumerGets
    <2>3. CASE Hit(sub, k2)
      <3>1. UNCHANGED <<link, cached>> /\ k2.pc = "has" /\ k2.link = cached
        BY <2>3 DEF Hit
      <3> QED BY <1>0, <2>1, <2>2, <3>1 DEF OneConnects, ConsumesCached
    <2>4. CASE Connect(sub, k2)
      <3>1. cached = None /\ cached' = None /\ ~ Connecting
        BY <2>4 DEF Connect
      <3>2. PICK l \in Links : /\ Free(l) /\ link' = [link EXCEPT ![l] = "up"]
                               /\ k2 = [pc |-> "connecting", link |-> l]
        BY <2>4 DEF Connect
      <3>3. OneConnects'
        BY <2>2, <3>1 DEF OneConnects, Connecting
      <3>4. \A m \in Links \ {l} : link'[m] = link[m]
        BY <3>2 DEF TypeInv, TypeOK
      <3>5. l \notin consumers /\ sub'.pc = "connecting"
        BY <2>1, <3>2 DEF Free, TypeInv, WellFormed
      <3>6. ConsumesCached'
        BY <1>0, <2>2, <3>1, <3>4, <3>5 DEF ConsumesCached, TypeInv, TypeOK
      <3> QED BY <3>3, <3>6
    <2>5. CASE Cache(sub, k2)
      <3>1. /\ sub.pc = "connecting" /\ link' = link
            /\ k2.pc = "has" /\ k2.link = cached'
        BY <2>5 DEF Cache
      <3>2. cached = None /\ \A q \in Publishers : publisher[q].pc # "connecting"
        BY <1>0, <3>1 DEF OneConnects
      <3>3. \A l \in consumers : link[l] # "up"
        BY <1>0, <3>2, CacheAssumption DEF ConsumesCached, TypeInv, TypeOK
      <3>4. OneConnects'
        BY <2>1, <2>2, <3>1, <3>2 DEF OneConnects
      <3>5. ConsumesCached'
        BY <2>1, <2>2, <3>1, <3>3 DEF ConsumesCached
      <3> QED BY <3>4, <3>5
    <2> QED BY <2>1, <2>3, <2>4, <2>5
  <1>6. CASE Consume
    <2>1. /\ UNCHANGED <<link, cached, publisher>> /\ sub' = Rest
          /\ consumers' = consumers \cup {sub.link}
          /\ sub.pc = "has" /\ link[sub.link] = "up"
      BY <1>6 DEF Consume
    <2> QED BY <1>0, <2>1 DEF OneConnects, ConsumesCached, Rest
  <1>7. CASE SubscribeFails \/ Wake
    <2>1. UNCHANGED <<link, cached>>
      BY <1>7, ThrowsEffect DEF SubscribeFails, Wake
    <2>2. UNCHANGED <<publisher, consumers>> /\ sub'.pc \in {"sleep", "get"}
      BY <1>7 DEF SubscribeFails, Wake
    <2> QED BY <1>0, <2>1, <2>2 DEF OneConnects, ConsumesCached
  <1>8. CASE BrokerRestarts \/ \E l \in Links : Down(l)
    <2>1. UNCHANGED <<cached, publisher, sub, consumers>>
      BY <1>8 DEF BrokerRestarts, Down
    <2>2. \A l \in Links : link'[l] = "up" => link[l] = "up"
      BY <1>8 DEF BrokerRestarts, Down, TypeInv, TypeOK
    <2>3. sub.pc = "has" => sub.link \in Links
      BY DEF TypeInv, WellFormed, LinkInHand
    <2> QED BY <1>0, <2>1, <2>2, <2>3 DEF OneConnects, ConsumesCached, TypeInv, TypeOK
  <1>9. ASSUME NEW l \in Links, Closed(l) PROVE OneConnects' /\ ConsumesCached'
    <2>1. /\ publisher' = publisher /\ consumers' = consumers \ {l}
          /\ link'[l] = "unused" /\ \A m \in Links \ {l} : link'[m] = link[m]
      BY <1>9 DEF Closed, TypeInv, TypeOK
    <2>2. cached' = cached \/ (cached = l /\ cached' = None)
      BY <1>9 DEF Closed, Invalidate
    <2>3. sub' = sub \/ sub'.pc = "get"
      BY <1>9 DEF Closed, Invalidate
    <2>4. OneConnects'
      BY <1>0, <2>1, <2>2, <2>3 DEF OneConnects
    <2>5. sub.pc = "has" => sub.link \in Links
      BY DEF TypeInv, WellFormed, LinkInHand
    <2>6. ConsumesCached'
      BY <1>0, <2>1, <2>2, <2>3, <2>5 DEF ConsumesCached, TypeInv, TypeOK
    <2> QED BY <2>4, <2>6
  <1> QED BY <1>1, <1>2, <1>3, <1>4, <1>5, <1>6, <1>7, <1>8, <1>9 DEF Next

\* Until two callers of getChannel() connect at once, the worker consumes on
\* at most one live channel, for any number of links and publishers and any
\* interleaving of close events, publishes and resubscriptions: the live
\* channel it consumes on is always the cached one.
THEOREM OneLiveConsumer == Spec => []SingleConsumer
  <1>1. TypeInv /\ ConsumerInv /\ [Next]_vars => ConsumerInv'
    BY ConsumerStep
  <1>2. Spec => []ConsumerInv
    BY <1>1, TypeInvariant, ConsumerInit, PTL DEF Spec
  <1>3. ConsumerInv => SingleConsumer
    <2> SUFFICES ASSUME ConsumerInv, ~ raced
                 PROVE  Cardinality({l \in consumers : link[l] = "up"}) <= 1
      BY DEF SingleConsumer
    <2> DEFINE live == {l \in consumers : link[l] = "up"}
    <2>1. live \subseteq {cached}
      BY DEF ConsumerInv, ConsumesCached
    <2>2. IsFiniteSet({cached}) /\ Cardinality({cached}) = 1
      BY FS_Singleton, Zenon
    <2> HIDE DEF live
    <2>3. Cardinality(live) <= Cardinality({cached})
      BY <2>1, <2>2, FS_Subset, Zenon
    <2> QED BY <2>2, <2>3 DEF live
  <1> QED BY <1>2, <1>3, PTL

=============================================================================
