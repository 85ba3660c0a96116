---------------------------- MODULE LimiterProofs ----------------------------
(***************************************************************************)
(* Theorems about RateLimiter for every value of its constants, with       *)
(* proofs checked by TLAPS.                                                *)
(***************************************************************************)
EXTENDS RateLimiter, SequenceTheorems, TLAPS

ipKey(i) == <<"ip", i>>

\* An address without a bucket has had no request since the process started.
Untouched(i) == /\ passed[i] = <<>>
                /\ seen[i] = 0
                /\ promise[i] = None

\* From any of its requests on, what an address got through and what is left
\* in its bucket are no more than a full bucket and the refill since.
Accounted(i) == \A n \in DOMAIN passed[i] :
    /\ passed[i][n] <= seen[i]
    /\ (Len(passed[i]) - n + 1) * Window + buckets[ipKey(i)].tokens
           <= Capacity * (Window + seen[i] - passed[i][n])

\* By the time that was promised, the bucket has a token.
Promised(i) == promise[i] # None =>
    buckets[ipKey(i)].tokens
      + Capacity * (promise[i] + back - buckets[ipKey(i)].lastRefillMs) >= Window

\* The bucket was refilled at the latest request, which is ahead of the clock
\* by no more than the clock was set back.
InTime(i) == /\ buckets[ipKey(i)].lastRefillMs = seen[i]
             /\ seen[i] <= clock + back

ClientInv(i) == IF buckets[ipKey(i)] = None THEN Untouched(i)
                ELSE Accounted(i) /\ Promised(i) /\ InTime(i)

LimiterInv == Production => \A i \in Ips : ClientInv(i)

-----------------------------------------------------------------------------
(* Arithmetic.                                                             *)

\* Products of sums and differences, which the provers take one at a time.
LEMMA Distributes ==
    ASSUME NEW a \in Int, NEW b \in Int, NEW c \in Int
    PROVE  /\ a * (b + c) = a * b + a * c
           /\ a * (b - c) = a * b - a * c
           /\ (b + c) * a = b * a + c * a
           /\ a * b \in Int /\ a * c \in Int
  OBVIOUS

\* A product grows with its factor.
LEMMA Monotone ==
    ASSUME NEW a \in Nat, NEW b \in Int, NEW c \in Int, b <= c
    PROVE  a * b <= a * c
  OBVIOUS

\* Products of naturals.
LEMMA Products ==
    ASSUME NEW a \in Nat, NEW b \in Nat
    PROVE  /\ a * b \in Nat
           /\ a # 0 /\ b # 0 => a * b # 0
           /\ a # 0 => a * b >= b
  OBVIOUS

\* Rounding up.
LEMMA Ceiling ==
    ASSUME NEW a \in Nat, NEW d \in Nat \ {0}
    PROVE  /\ (a + d - 1) \div d \in Nat
           /\ d * ((a + d - 1) \div d) >= a
  OBVIOUS

\* Window, capacity and second are positive, and a full bucket has a token.
LEMMA WindowType ==
    /\ Window \in Nat \ {0} /\ Capacity \in Nat \ {0} /\ Second \in Nat \ {0}
    /\ Capacity * Window \in Nat /\ Capacity * Window >= Window
    /\ Capacity * Second \in Nat \ {0}
  <1>1. WindowSeconds \in Nat /\ Second \in Nat /\ WindowSeconds # 0 /\ Second # 0
    BY LimiterAssumption
  <1>2. Window \in Nat \ {0}
    BY <1>1, Products DEF Window
  <1>3. Capacity \in Nat /\ Capacity # 0
    BY LimiterAssumption
  <1> QED BY <1>1, <1>2, <1>3, Products

-----------------------------------------------------------------------------
(* The buckets.                                                            *)

\* getOrRefillBucket(): a full bucket, or the one there was with what the
\* clock has brought, up to the capacity.
LEMMA RefillEffect ==
    ASSUME TypeOK, NEW key \in Keys, NEW b, b = getOrRefillBucket(key)
    PROVE  /\ b \in Bucket
           /\ buckets[key] = None =>
                b.tokens = Capacity * Window /\ b.lastRefillMs = clock
           /\ buckets[key] # None =>
                /\ buckets[key] \in Bucket
                /\ b.lastRefillMs = Latest(buckets[key].lastRefillMs, clock)
                /\ \/ b.tokens = buckets[key].tokens + Capacity
                        * (b.lastRefillMs - buckets[key].lastRefillMs)
                   \/ /\ b.tokens = Capacity * Window
                      /\ b.tokens <= buckets[key].tokens + Capacity
                           * (b.lastRefillMs - buckets[key].lastRefillMs)
  <1>0. clock \in Nat
    BY LimiterAssumption DEF TypeOK
  <1>1. CASE buckets[key] = None
    <2>1. b = [tokens |-> Capacity * Window, lastRefillMs |-> clock]
      BY <1>1 DEF getOrRefillBucket
    <2>2. b \in Bucket
      BY <1>0, <2>1, WindowType DEF Bucket
    <2> QED BY <1>1, <2>1, <2>2
  <1>2. CASE buckets[key] # None
    <2> DEFINE o == buckets[key]
               elapsedMs == clock - o.lastRefillMs
    <2>1. o \in Bucket
      BY <1>2 DEF TypeOK
    <2>2. o.tokens \in 0..(Capacity * Window) /\ o.lastRefillMs \in Nat
      BY <2>1 DEF Bucket
    <2>3. CASE elapsedMs > 0
      <3> DEFINE sum == o.tokens + Capacity * elapsedMs
      <3>1. b = [tokens |-> Least(Capacity * Window, sum), lastRefillMs |-> clock]
        BY <1>2, <2>3 DEF getOrRefillBucket
      <3>2. b.lastRefillMs = clock /\ b.tokens = Least(Capacity * Window, sum)
        BY <3>1
      <3>3. b.lastRefillMs = Latest(o.lastRefillMs, clock)
        BY <1>0, <2>2, <2>3, <3>2 DEF Latest
      <3>4. elapsedMs \in Nat
        BY <1>0, <2>2, <2>3
      <3>5. Capacity * elapsedMs \in Nat
        BY <3>4, WindowType, Products
      <3>6. sum \in Nat
        BY <2>2, <3>5
      <3>7. \/ b.tokens = sum /\ sum <= Capacity * Window
            \/ b.tokens = Capacity * Window /\ Capacity * Window <= sum
        <4> HIDE DEF sum
        <4> QED BY <3>2, <3>6, WindowType DEF Least
      <3>8. b.tokens \in 0..(Capacity * Window)
        <4> HIDE DEF sum
        <4> QED BY <3>6, <3>7, WindowType
      <3>9. b \in Bucket
        <4>1. b = [tokens |-> b.tokens, lastRefillMs |-> clock]
          BY <3>1
        <4> QED BY <1>0, <3>8, <4>1 DEF Bucket
      <3> QED BY <1>2, <2>1, <3>2, <3>3, <3>7, <3>9
    <2>4. CASE ~ (elapsedMs > 0)
      <3>1. b = o
        BY <1>2, <2>4 DEF getOrRefillBucket
      <3>2. b.lastRefillMs = Latest(o.lastRefillMs, clock)
        BY <1>0, <2>2, <2>4, <3>1 DEF Latest
      <3>3. Capacity * (b.lastRefillMs - o.lastRefillMs) = 0
        <4>1. b.lastRefillMs - o.lastRefillMs = 0
          BY <2>2, <3>1
        <4> QED BY <4>1, WindowType
      <3>4. b.tokens = o.tokens + 0
        BY <2>2, <3>1
      <3> QED BY <1>2, <2>1, <3>1, <3>2, <3>3, <3>4
    <2> QED BY <2>3, <2>4
  <1> QED BY <1>1, <1>2

\* Retry-After is a whole number of seconds, in which the missing part of a
\* token is refilled.
LEMMA RetryAfterEffect ==
    ASSUME NEW b \in Bucket, b.tokens < Window,
           NEW ms, ms = retryAfterSeconds(b) * Second
    PROVE  /\ retryAfterSeconds(b) \in Nat
           /\ ms \in Nat
           /\ b.tokens + Capacity * ms >= Window
  <1> DEFINE needed    == Window - b.tokens
             perSecond == Capacity * Second
             secs      == (needed + perSecond - 1) \div perSecond
             r         == retryAfterSeconds(b)
  <1>1. b.tokens \in Nat
    BY WindowType DEF Bucket
  <1>2. needed \in Nat
    BY <1>1, WindowType
  <1>3. perSecond \in Nat \ {0}
    BY WindowType
  <1>4. secs \in Nat /\ perSecond * secs >= needed
    <2> HIDE DEF needed, perSecond
    <2> QED BY <1>2, <1>3, Ceiling
  <1>5. r = Latest(1, secs)
    BY DEF retryAfterSeconds
  <1>6. r \in Nat /\ secs <= r
    <2> HIDE DEF secs, r
    <2> QED BY <1>4, <1>5 DEF Latest
  <1>7. perSecond * secs <= perSecond * r
    <2> HIDE DEF secs, r, perSecond
    <2> QED BY <1>3, <1>4, <1>6, Monotone
  <1>8. ms \in Nat /\ Capacity * ms = perSecond * r
    <2>1. ms = r * Second
      OBVIOUS
    <2> HIDE DEF r
    <2> QED BY <1>6, <2>1, WindowType
  <1>9. b.tokens + Capacity * ms >= Window
    <2>1. Capacity * ms >= needed
      <3> HIDE DEF secs, r, perSecond, needed
      <3>1. perSecond * secs \in Nat /\ perSecond * r \in Nat
        BY <1>3, <1>4, <1>6, Products
      <3> QED BY <1>2, <1>4, <1>7, <1>8, <3>1
    <2>2. Capacity * ms \in Nat
      BY <1>8, WindowType, Products
    <2> QED BY <1>1, <2>1, <2>2, WindowType
  <1> QED BY <1>6, <1>8, <1>9

\* A request has a key, its address in production.
LEMMA KeyEffect ==
    ASSUME NEW req \in Request
    PROVE  /\ req.ip \in Ips
           /\ defaultIdentify(req) \in Keys
           /\ Production => defaultIdentify(req) = ipKey(req.ip)
           /\ \A i \in Ips : ipKey(i) \in Keys
           /\ \A i, j \in Ips : ipKey(i) = ipKey(j) => i = j
  BY LimiterAssumption DEF Request, defaultIdentify, Keys, ipKey

\* What a request that passes leaves: a token less, and its time on record.
LEMMA PassEffect ==
    ASSUME TypeOK, NEW req \in Request, Pass(req),
           NEW key, key = defaultIdentify(req),
           NEW b, b = getOrRefillBucket(key), NEW i, i = req.ip
    PROVE  /\ b.tokens >= Window
           /\ buckets'[key] \in Bucket
           /\ buckets'[key].tokens = b.tokens - Window
           /\ buckets'[key].lastRefillMs = b.lastRefillMs
           /\ \A k \in Keys \ {key} : buckets'[k] = buckets[k]
           /\ seen'[i] = Latest(seen[i], clock)
           /\ passed'[i] = Append(passed[i], Latest(seen[i], clock))
           /\ promise'[i] = None
           /\ \A j \in Ips \ {i} : /\ seen'[j] = seen[j]
                                   /\ passed'[j] = passed[j]
                                   /\ promise'[j] = promise[j]
           /\ UNCHANGED <<clock, back>>
           /\ TypeOK'
  <1>1. i \in Ips /\ key \in Keys
    BY KeyEffect
  <1>2. b \in Bucket
    BY <1>1, RefillEffect
  <1> DEFINE c   == [b EXCEPT !.tokens = @ - Window]
             now == Latest(seen[i], clock)
  <1>3. /\ b.tokens >= Window
        /\ buckets' = [buckets EXCEPT ![key] = c]
        /\ seen' = [seen EXCEPT ![i] = now]
        /\ passed' = [passed EXCEPT ![i] = Append(passed[i], now)]
        /\ promise' = [promise EXCEPT ![i] = None]
        /\ UNCHANGED <<clock, back>>
    BY DEF Pass
  <1>4. c \in Bucket /\ c.tokens = b.tokens - Window /\ c.lastRefillMs = b.lastRefillMs
    <2>1. b.tokens \in 0..(Capacity * Window)
      BY <1>2 DEF Bucket
    <2>2. b.tokens - Window \in 0..(Capacity * Window)
      BY <1>3, <2>1, WindowType
    <2> QED BY <1>2, <2>2 DEF Bucket
  <1>5. now \in 0..MaxTime
    BY <1>1 DEF TypeOK, Latest
  <1> HIDE DEF c, now
  <1>6. buckets'[key] = c /\ \A k \in Keys \ {key} : buckets'[k] = buckets[k]
    BY <1>1, <1>3 DEF TypeOK
  <1>7. /\ seen'[i] = now /\ passed'[i] = Append(passed[i], now) /\ promise'[i] = None
        /\ \A j \in Ips \ {i} : /\ seen'[j] = seen[j]
                                /\ passed'[j] = passed[j]
                                /\ promise'[j] = promise[j]
    BY <1>1, <1>3 DEF TypeOK
  <1>8. TypeOK'
    <2>1. buckets' \in [Keys -> Bucket \cup {None}]
      BY <1>1, <1>3, <1>4 DEF TypeOK
    <2>2. seen' \in [Ips -> 0..MaxTime] /\ promise' \in [Ips -> Nat \cup {None}]
      BY <1>1, <1>3, <1>5 DEF TypeOK
    <2>3. passed' \in [Ips -> Seq(0..MaxTime)]
      <3>1. passed[i] \in Seq(0..MaxTime)
        BY <1>1 DEF TypeOK
      <3>2. Append(passed[i], now) \in Seq(0..MaxTime)
        BY <1>5, <3>1
      <3> QED BY <1>1, <1>3, <3>2 DEF TypeOK
    <2> QED BY <1>3, <2>1, <2>2, <2>3 DEF TypeOK
  <1> QED BY <1>3, <1>4, <1>6, <1>7, <1>8 DEF now

\* What a refused request leaves: the bucket refilled, and a promise.
LEMMA RefuseEffect ==
    ASSUME TypeOK, NEW req \in Request, Refuse(req),
           NEW key, key = defaultIdentify(req),
           NEW b, b = getOrRefillBucket(key), NEW i, i = req.ip,
           NEW ms, ms = retryAfterSeconds(b) * Second
    PROVE  /\ b.tokens < Window /\ ms \in Nat
           /\ buckets'[key] = b
           /\ \A k \in Keys \ {key} : buckets'[k] = buckets[k]
           /\ seen'[i] = Latest(seen[i], clock)
           /\ passed' = passed
           /\ promise'[i] = clock + ms \/ (promise'[i] = promise[i] /\ promise[i] # None)
           /\ promise'[i] \in Nat
           /\ \A j \in Ips \ {i} : /\ seen'[j] = seen[j]
                                   /\ promise'[j] = promise[j]
           /\ UNCHANGED <<clock, back>>
           /\ TypeOK'
  <1>1. i \in Ips /\ key \in Keys
    BY KeyEffect
  <1>2. b \in Bucket
    BY <1>1, RefillEffect
  <1> DEFINE until == clock + ms
             due   == IF promise[i] = None THEN until ELSE Least(promise[i], until)
  <1>3. /\ b.tokens < Window
        /\ buckets' = [buckets EXCEPT ![key] = b]
        /\ seen' = [seen EXCEPT ![i] = Latest(seen[i], clock)]
        /\ promise' = [promise EXCEPT ![i] = due]
        /\ UNCHANGED <<clock, passed, back>>
    BY DEF Refuse
  <1>4. ms \in Nat
    BY <1>2, <1>3, RetryAfterEffect
  <1>5. until \in Nat
    BY <1>4, LimiterAssumption DEF TypeOK
  <1>6. due \in Nat /\ (due = until \/ (due = promise[i] /\ promise[i] # None))
    <2> HIDE DEF until
    <2>1. promise[i] \in Nat \cup {None}
      BY <1>1 DEF TypeOK
    <2> QED BY <1>5, <2>1 DEF Least
  <1>7. Latest(seen[i], clock) \in 0..MaxTime
    BY <1>1 DEF TypeOK, Latest
  <1> HIDE DEF due
  <1>8. buckets'[key] = b /\ \A k \in Keys \ {key} : buckets'[k] = buckets[k]
    BY <1>1, <1>3 DEF TypeOK
  <1>9. /\ seen'[i] = Latest(seen[i], clock) /\ promise'[i] = due
        /\ \A j \in Ips \ {i} : seen'[j] = seen[j] /\ promise'[j] = promise[j]
    BY <1>1, <1>3 DEF TypeOK
  <1>10. TypeOK'
    <2>1. buckets' \in [Keys -> Bucket \cup {None}]
      BY <1>1, <1>2, <1>3 DEF TypeOK
    <2>2. seen' \in [Ips -> 0..MaxTime] /\ promise' \in [Ips -> Nat \cup {None}]
      BY <1>1, <1>3, <1>6, <1>7 DEF TypeOK
    <2> QED BY <1>3, <2>1, <2>2 DEF TypeOK
  <1> QED BY <1>3, <1>4, <1>6, <1>8, <1>9, <1>10

\* The initial states are well-typed.
LEMMA TypeInit == Init => TypeOK
  BY LimiterAssumption DEF Init, TypeOK

\* Every step keeps the types.
LEMMA TypeNext == TypeOK /\ [Next]_vars => TypeOK'
  <1> SUFFICES ASSUME TypeOK, [Next]_vars PROVE TypeOK'
    OBVIOUS
  <1>1. ASSUME NEW req \in Request, Pass(req) PROVE TypeOK'
    BY <1>1, PassEffect
  <1>2. ASSUME NEW req \in Request, Refuse(req) PROVE TypeOK'
    BY <1>2, RefuseEffect
  <1>3. CASE Tick
    <2>1. clock' \in 0..MaxTime
      BY <1>3, LimiterAssumption DEF Tick, TypeOK
    <2> QED BY <1>3, <2>1 DEF Tick, TypeOK
  <1>4. CASE SetBack
    <2>1. clock' \in 0..MaxTime /\ back' \in 0..MaxBack
      BY <1>4, LimiterAssumption DEF SetBack, TypeOK
    <2> QED BY <1>4, <2>1 DEF SetBack, TypeOK
  <1>5. CASE Restart
    BY <1>5, LimiterAssumption DEF Restart, TypeOK
  <1>6. CASE UNCHANGED vars
    BY <1>6 DEF vars, TypeOK
  <1> QED BY <1>1, <1>2, <1>3, <1>4, <1>5, <1>6 DEF Next

\* The buckets hold between nothing and their capacity, whatever the clock
\* does.
THEOREM LimiterTypeCorrect == Spec => []TypeOK
  BY TypeInit, TypeNext, PTL DEF Spec

-----------------------------------------------------------------------------
(* The accounts of one address.                                            *)

\* The types of what is kept of one address.
LEMMA ClientTypes ==
    ASSUME TypeOK, NEW i \in Ips
    PROVE  /\ clock \in Nat /\ back \in Nat /\ seen[i] \in Nat
           /\ Len(passed[i]) \in Nat /\ DOMAIN passed[i] = 1..Len(passed[i])
           /\ \A n \in DOMAIN passed[i] : passed[i][n] \in Nat
           /\ promise[i] # None => promise[i] \in Nat
  <1>1. passed[i] \in Seq(0..MaxTime)
    BY DEF TypeOK
  <1>2. Len(passed[i]) \in Nat /\ DOMAIN passed[i] = 1..Len(passed[i])
    BY <1>1, LenProperties
  <1>3. \A n \in DOMAIN passed[i] : passed[i][n] \in 0..MaxTime
    BY <1>1, <1>2, ElementOfSeq
  <1> QED BY <1>2, <1>3, LimiterAssumption DEF TypeOK

\* The refill at the time of a request, before the request is decided.
LEMMA RefillKeeps ==
    ASSUME TypeOK, NEW i \in Ips, ClientInv(i),
           NEW b, b = getOrRefillBucket(ipKey(i)), NEW s, s = Latest(seen[i], clock)
    PROVE  /\ s \in Nat /\ b.lastRefillMs = s /\ s <= clock + back
           /\ b.tokens \in Nat /\ b.tokens <= Capacity * Window
           /\ \A n \in DOMAIN passed[i] :
                /\ passed[i][n] <= s
                /\ (Len(passed[i]) - n + 1) * Window + b.tokens
                     <= Capacity * (Window + s - passed[i][n])
           /\ promise[i] # None /\ b.tokens < Window =>
                b.tokens + Capacity * (promise[i] + back - s) >= Window
  <1>1. ipKey(i) \in Keys
    BY DEF Keys, ipKey
  <1>2. b \in Bucket
    BY <1>1, RefillEffect
  <1>3. b.tokens \in Nat /\ b.tokens <= Capacity * Window
    BY <1>2, WindowType DEF Bucket
  <1>4. s \in Nat /\ seen[i] <= s /\ clock <= s /\ (s = seen[i] \/ s = clock)
    BY ClientTypes DEF Latest
  <1>5. CASE buckets[ipKey(i)] = None
    <2>1. passed[i] = <<>> /\ seen[i] = 0 /\ promise[i] = None
      BY <1>5 DEF ClientInv, Untouched
    <2>2. b.lastRefillMs = clock
      BY <1>1, <1>5, RefillEffect
    <2>3. s = clock
      BY <2>1, ClientTypes DEF Latest
    <2>4. DOMAIN passed[i] = {}
      BY <2>1
    <2> QED BY <1>3, <1>4, <2>1, <2>2, <2>3, <2>4, ClientTypes
  <1>6. CASE buckets[ipKey(i)] # None
    <2> DEFINE o == buckets[ipKey(i)]
    <2>1. Accounted(i) /\ Promised(i) /\ o.lastRefillMs = seen[i] /\ seen[i] <= clock + back
      BY <1>6 DEF ClientInv, InTime
    <2>2. o.tokens \in Nat
      BY <1>1, <1>6, RefillEffect, WindowType DEF Bucket
    <2>3. b.lastRefillMs = s
      BY <1>1, <1>6, <2>1, RefillEffect
    <2> DEFINE more == Capacity * (s - seen[i])
    <2>4. \/ b.tokens = o.tokens + more
          \/ b.tokens = Capacity * Window /\ b.tokens <= o.tokens + more
      BY <1>1, <1>6, <2>1, <2>3, RefillEffect
    <2>5. s <= clock + back
      BY <1>4, <2>1, ClientTypes
    <2>6. more \in Int
      BY <1>4, ClientTypes, WindowType
    <2>7. ASSUME NEW n \in DOMAIN passed[i]
          PROVE  /\ passed[i][n] <= s
                 /\ (Len(passed[i]) - n + 1) * Window + b.tokens
                      <= Capacity * (Window + s - passed[i][n])
      <3> DEFINE got == (Len(passed[i]) - n + 1) * Window
                 p   == passed[i][n]
                 x   == Window + seen[i] - p
      <3>0. /\ p \in Nat /\ n \in Int /\ Len(passed[i]) \in Nat
            /\ seen[i] \in Nat /\ Window \in Nat
        <4>1. Len(passed[i]) \in Nat /\ n \in 1..Len(passed[i])
          BY ClientTypes
        <4> QED BY <4>1, ClientTypes, WindowType
      <3>1. p \in Nat /\ x \in Int /\ got \in Int
        <4> HIDE DEF p
        <4> QED BY <3>0
      <3>2. p <= seen[i] /\ got + o.tokens <= Capacity * x
        BY <2>1 DEF Accounted
      <3>3. Window + s - p = x + (s - seen[i])
        <4> HIDE DEF p
        <4> QED BY <1>4, <3>0
      <3>4. Capacity * (x + (s - seen[i])) = Capacity * x + more /\ Capacity * x \in Int
        <4> HIDE DEF x
        <4> QED BY <1>4, <3>1, ClientTypes, WindowType, Distributes
      <3>5. p <= s
        <4> HIDE DEF p
        <4> QED BY <1>4, <3>1, <3>2, ClientTypes
      <3>6. got + b.tokens <= Capacity * x + more
        <4> HIDE DEF got, x, more, o
        <4> QED BY <1>3, <2>2, <2>4, <2>6, <3>1, <3>2, <3>4
      <3> QED BY <3>3, <3>4, <3>5, <3>6
    <2>8. ASSUME promise[i] # None, b.tokens < Window
          PROVE  b.tokens + Capacity * (promise[i] + back - s) >= Window
      <3> DEFINE y == promise[i] + back - s
                 z == promise[i] + back - seen[i]
      <3>1. y \in Int /\ z \in Int /\ z = y + (s - seen[i])
        BY <1>4, <2>8, ClientTypes
      <3>2. o.tokens + Capacity * z >= Window
        BY <2>1, <2>8 DEF Promised
      <3>3. b.tokens = o.tokens + more
        BY <1>3, <2>4, <2>8, WindowType
      <3>4. Capacity * z = Capacity * y + more /\ Capacity * y \in Int
        <4> HIDE DEF y, z
        <4> QED BY <1>4, <3>1, ClientTypes, WindowType, Distributes
      <3> HIDE DEF y, z, more, o
      <3>5. b.tokens + Capacity * y >= Window
        BY <1>3, <2>2, <2>6, <3>2, <3>3, <3>4, WindowType
      <3> QED BY <3>5 DEF y
    <2> QED BY <1>3, <1>4, <2>3, <2>5, <2>7, <2>8
  <1> QED BY <1>5, <1>6

\* A client that nothing has happened to but time.
LEMMA OthersKeep ==
    ASSUME TypeOK, NEW i \in Ips, ClientInv(i),
           buckets'[ipKey(i)] = buckets[ipKey(i)], seen'[i] = seen[i],
           passed'[i] = passed[i], promise'[i] = promise[i],
           back' \in Nat, back <= back', clock' \in Nat, clock + back <= clock' + back'
    PROVE  ClientInv(i)'
  <1>1. CASE buckets[ipKey(i)] = None
    BY <1>1 DEF ClientInv, Untouched
  <1>2. CASE buckets[ipKey(i)] # None
    <2> DEFINE o == buckets[ipKey(i)]
    <2>1. Accounted(i) /\ Promised(i) /\ InTime(i)
      BY <1>2 DEF ClientInv
    <2>2. Accounted(i)'
      BY <2>1 DEF Accounted
    <2>3. InTime(i)'
      BY <2>1, ClientTypes DEF InTime
    <2>4. Promised(i)'
      <3> SUFFICES ASSUME promise[i] # None
                   PROVE  o.tokens + Capacity * (promise[i] + back' - o.lastRefillMs) >= Window
        BY DEF Promised
      <3>1. o \in Bucket
        BY <1>2 DEF TypeOK, Keys, ipKey
      <3>2. o.tokens \in Nat /\ o.lastRefillMs \in Nat
        BY <3>1, WindowType DEF Bucket
      <3> DEFINE y == promise[i] + back - o.lastRefillMs
                 z == promise[i] + back' - o.lastRefillMs
      <3>3. y \in Int /\ z \in Int /\ y <= z
        <4>1. promise[i] \in Nat /\ back \in Nat
          BY ClientTypes
        <4> HIDE DEF o
        <4> QED BY <3>2, <4>1
      <3>4. o.tokens + Capacity * y >= Window
        BY <2>1 DEF Promised
      <3>5. Capacity * y <= Capacity * z /\ Capacity * y \in Int /\ Capacity * z \in Int
        <4> HIDE DEF y, z
        <4> QED BY <3>3, Monotone, Distributes, WindowType
      <3> HIDE DEF y, z, o
      <3>6. o.tokens + Capacity * z >= Window
        BY <3>2, <3>4, <3>5, WindowType
      <3> QED BY <3>6 DEF z
    <2> QED BY <1>2, <2>2, <2>3, <2>4 DEF ClientInv
  <1> QED BY <1>1, <1>2

\* No address has a bucket at first.
LEMMA LimiterInit == Init => LimiterInv
  BY DEF Init, LimiterInv, ClientInv, Untouched, Keys, ipKey

\* The client whose request passes.
LEMMA PassKeeps ==
    ASSUME TypeOK, Production, NEW req \in Request, Pass(req), ClientInv(req.ip)
    PROVE  ClientInv(req.ip)'
  <1> DEFINE i == req.ip
             key == ipKey(i)
             b == getOrRefillBucket(key)
             s == Latest(seen[i], clock)
             len == Len(passed[i])
  <1>1. i \in Ips /\ key = defaultIdentify(req) /\ key \in Keys
    BY KeyEffect
  <1>2. /\ b.tokens >= Window /\ buckets'[key] \in Bucket
        /\ buckets'[key].tokens = b.tokens - Window
        /\ buckets'[key].lastRefillMs = b.lastRefillMs
        /\ seen'[i] = s /\ passed'[i] = Append(passed[i], s)
        /\ promise'[i] = None /\ UNCHANGED <<clock, back>>
    BY <1>1, PassEffect
  <1>3. /\ s \in Nat /\ b.lastRefillMs = s /\ s <= clock + back
        /\ b.tokens \in Nat /\ b.tokens <= Capacity * Window
        /\ \A n \in DOMAIN passed[i] :
             /\ passed[i][n] <= s
             /\ (len - n + 1) * Window + b.tokens <= Capacity * (Window + s - passed[i][n])
    BY <1>1, RefillKeeps
  <1>4. buckets'[key] # None
    BY <1>2, NoBucketAssumption
  <1>5. InTime(i)' /\ Promised(i)'
    BY <1>2, <1>3 DEF InTime, Promised
  <1>6. Accounted(i)'
    <2> SUFFICES ASSUME NEW n \in DOMAIN passed'[i]
                 PROVE  /\ passed'[i][n] <= s
                        /\ (Len(passed'[i]) - n + 1) * Window + (b.tokens - Window)
                             <= Capacity * (Window + s - passed'[i][n])
      BY <1>2 DEF Accounted
    <2>1. passed[i] \in Seq(0..MaxTime) /\ len \in Nat /\ DOMAIN passed[i] = 1..len
      BY <1>1, ClientTypes DEF TypeOK
    <2>2. /\ Len(passed'[i]) = len + 1 /\ DOMAIN passed'[i] = 1..(len + 1)
          /\ passed'[i][len + 1] = s
          /\ \A m \in 1..len : passed'[i][m] = passed[i][m]
      <3>0. passed[i] \in Seq(Int)
        BY <1>1, <2>1, LimiterAssumption DEF TypeOK
      <3> HIDE DEF s, len
      <3>1. s \in Int
        BY <1>3
      <3> QED BY <1>2, <3>0, <3>1, AppendProperties DEF len
    <2> HIDE DEF b, s, len, key, i
    <2>3. CASE n \in 1..len
      <3>1. n \in DOMAIN passed[i] /\ passed'[i][n] = passed[i][n]
        BY <2>1, <2>2, <2>3
      <3> DEFINE got == (len - n + 1) * Window
      <3>2. got \in Int /\ n \in Int
        BY <2>1, <2>3, WindowType
      <3>3. (len + 1 - n + 1) * Window = got + Window
        <4>1. len + 1 - n + 1 = (len - n + 1) + 1 /\ len - n + 1 \in Int
          BY <2>1, <3>2
        <4>2. ((len - n + 1) + 1) * Window = (len - n + 1) * Window + 1 * Window
          BY <4>1, WindowType, Distributes
        <4>3. 1 * Window = Window
          BY WindowType
        <4> QED BY <4>1, <4>2, <4>3
      <3>4. got + b.tokens <= Capacity * (Window + s - passed[i][n])
        BY <1>3, <3>1
      <3>5. (got + Window) + (b.tokens - Window) = got + b.tokens
        <4> HIDE DEF got
        <4> QED BY <1>3, <3>2, WindowType
      <3>6. (Len(passed'[i]) - n + 1) * Window = got + Window
        <4>1. Len(passed'[i]) = len + 1
          BY <2>2
        <4> HIDE DEF got
        <4> QED BY <2>1, <3>2, <3>3, <4>1, WindowType
      <3>7. passed'[i][n] <= s
        BY <1>3, <3>1
      <3>8. (Len(passed'[i]) - n + 1) * Window + (b.tokens - Window) = got + b.tokens
        BY <3>5, <3>6, Zenon
      <3>9. got + b.tokens <= Capacity * (Window + s - passed'[i][n])
        BY <3>1, <3>4
      <3> HIDE DEF got
      <3> QED BY <3>7, <3>8, <3>9, Zenon
    <2>4. CASE n = len + 1
      <3>1. Len(passed'[i]) - n + 1 = 1 /\ passed'[i][n] = s
        BY <2>1, <2>2, <2>4
      <3>2. 1 * Window + (b.tokens - Window) = b.tokens
        BY <1>3, WindowType
      <3>3. Window + s - s = Window
        BY <1>3, WindowType
      <3> QED BY <1>3, <3>1, <3>2, <3>3
    <2> QED BY <2>1, <2>2, <2>3, <2>4
  <1> QED BY <1>4, <1>5, <1>6 DEF ClientInv

\* The client whose request is refused.
LEMMA RefuseKeeps ==
    ASSUME TypeOK, Production, NEW req \in Request, Refuse(req), ClientInv(req.ip)
    PROVE  ClientInv(req.ip)'
  <1> DEFINE i == req.ip
             key == ipKey(i)
             b == getOrRefillBucket(key)
             s == Latest(seen[i], clock)
             ms == retryAfterSeconds(b) * Second
  <1>1. i \in Ips /\ key = defaultIdentify(req) /\ key \in Keys
    BY KeyEffect
  <1>2. b \in Bucket
    BY <1>1, RefillEffect
  <1>3. /\ b.tokens < Window /\ ms \in Nat /\ buckets'[key] = b
        /\ seen'[i] = s /\ passed' = passed
        /\ promise'[i] = clock + ms \/ (promise'[i] = promise[i] /\ promise[i] # None)
        /\ promise'[i] \in Nat /\ UNCHANGED <<clock, back>>
    BY <1>1, RefuseEffect
  <1>4. /\ s \in Nat /\ b.lastRefillMs = s /\ s <= clock + back /\ b.tokens \in Nat
        /\ \A n \in DOMAIN passed[i] :
             /\ passed[i][n] <= s
             /\ (Len(passed[i]) - n + 1) * Window + b.tokens
                  <= Capacity * (Window + s - passed[i][n])
        /\ promise[i] # None =>
             b.tokens + Capacity * (promise[i] + back - s) >= Window
    BY <1>1, <1>3, RefillKeeps
  <1>5. buckets'[key] # None
    BY <1>2, <1>3, NoBucketAssumption
  <1>6. InTime(i)'
    BY <1>3, <1>4 DEF InTime
  <1>7. Accounted(i)'
    BY <1>3, <1>4 DEF Accounted
  <1>8. Promised(i)'
    <2> SUFFICES b.tokens + Capacity * (promise'[i] + back - s) >= Window
      BY <1>3, <1>4 DEF Promised
    <2>1. CASE promise'[i] = clock + ms
      <3>1. b.tokens + Capacity * ms >= Window
        BY <1>2, <1>3, RetryAfterEffect
      <3> DEFINE y == promise'[i] + back - s
      <3>2. ms <= y /\ y \in Int
        <4> HIDE DEF ms, s
        <4> QED BY <1>1, <1>3, <1>4, <2>1, ClientTypes
      <3>3. Capacity * ms <= Capacity * y /\ Capacity * ms \in Int /\ Capacity * y \in Int
        <4> HIDE DEF ms, y
        <4> QED BY <1>3, <3>2, Monotone, Distributes, WindowType
      <3> HIDE DEF ms, b, y, s
      <3>4. b.tokens + Capacity * y >= Window
        BY <1>4, <3>1, <3>3, WindowType
      <3> QED BY <3>4 DEF y
    <2>2. CASE promise'[i] = promise[i] /\ promise[i] # None
      BY <1>4, <2>2
    <2> QED BY <1>3, <2>1, <2>2
  <1> QED BY <1>5, <1>6, <1>7, <1>8 DEF ClientInv

\* Every step keeps the books of every address.
LEMMA LimiterStep ==
    ASSUME TypeOK, LimiterInv, [Next]_vars
    PROVE  LimiterInv'
  <1> SUFFICES ASSUME Production, NEW i \in Ips PROVE ClientInv(i)'
    BY DEF LimiterInv
  <1>0. ClientInv(i) /\ \A j \in Ips : ClientInv(j)
    BY DEF LimiterInv
  <1>t. clock \in Nat /\ back \in Nat
    BY LimiterAssumption DEF TypeOK
  <1>1. ASSUME NEW req \in Request, Pass(req) PROVE ClientInv(i)'
    <2>1. CASE i = req.ip
      BY <1>0, <1>1, <2>1, PassKeeps
    <2>2. CASE i # req.ip
      <3>1. ipKey(i) \in Keys \ {defaultIdentify(req)} /\ req.ip \in Ips
        BY <2>2, KeyEffect
      <3>2. /\ buckets'[ipKey(i)] = buckets[ipKey(i)] /\ seen'[i] = seen[i]
            /\ passed'[i] = passed[i] /\ promise'[i] = promise[i]
            /\ clock' = clock /\ back' = back
        BY <1>1, <2>2, <3>1, PassEffect
      <3> QED BY <1>0, <1>t, <3>2, OthersKeep
    <2> QED BY <2>1, <2>2
  <1>2. ASSUME NEW req \in Request, Refuse(req) PROVE ClientInv(i)'
    <2>1. CASE i = req.ip
      BY <1>0, <1>2, <2>1, RefuseKeeps
    <2>2. CASE i # req.ip
      <3>1. ipKey(i) \in Keys \ {defaultIdentify(req)} /\ req.ip \in Ips
        BY <2>2, KeyEffect
      <3>2. /\ buckets'[ipKey(i)] = buckets[ipKey(i)] /\ seen'[i] = seen[i]
            /\ passed'[i] = passed[i] /\ promise'[i] = promise[i]
            /\ clock' = clock /\ back' = back
        BY <1>2, <2>2, <3>1, RefuseEffect
      <3> QED BY <1>0, <1>t, <3>2, OthersKeep
    <2> QED BY <2>1, <2>2
  <1>3. CASE Tick \/ SetBack \/ UNCHANGED vars
    <2>1. /\ UNCHANGED <<buckets, passed, seen, promise>>
          /\ back' \in Nat /\ back <= back'
          /\ clock' \in Nat /\ clock + back <= clock' + back'
      <3>1. CASE Tick
        BY <1>t, <3>1 DEF Tick
      <3>2. CASE SetBack
        BY <1>t, <3>2 DEF SetBack
      <3>3. CASE UNCHANGED vars
        BY <1>t, <3>3 DEF vars
      <3> QED BY <1>3, <3>1, <3>2, <3>3
    <2> QED BY <1>0, <2>1, OthersKeep
  <1>4. CASE Restart
    BY <1>4 DEF Restart, ClientInv, Untouched, Keys, ipKey
  <1> QED BY <1>1, <1>2, <1>3, <1>4 DEF Next

\* So they are right in every reachable state.
LEMMA LimiterInvariant == Spec => []LimiterInv
  <1>1. TypeOK /\ LimiterInv /\ [Next]_vars => LimiterInv'
    BY LimiterStep
  <1> QED BY <1>1, LimiterTypeCorrect, LimiterInit, PTL DEF Spec

\* In production, from any of its requests on, no address gets more through
\* than a full bucket and the refill since, for every capacity and window,
\* any number of clients and however the clock is set back: tokens spent and
\* tokens left are accounted for by the same refill.
THEOREM BurstsBounded == Spec => []BurstBound
  <1>1. TypeOK /\ LimiterInv => BurstBound
    <2> SUFFICES ASSUME TypeOK, LimiterInv, Production, NEW i \in Ips,
                        NEW n \in DOMAIN passed[i]
                 PROVE  (Len(passed[i]) - n + 1) * Window
                            <= Capacity * (Window + seen[i] - passed[i][n])
      BY DEF BurstBound
    <2>1. ClientInv(i)
      BY DEF LimiterInv
    <2>2. buckets[ipKey(i)] # None
      <3>1. CASE passed[i] = <<>>
        <4>1. DOMAIN passed[i] = {}
          BY <3>1
        <4> QED BY <4>1
      <3> QED BY <2>1, <3>1 DEF ClientInv, Untouched
    <2> DEFINE got == (Len(passed[i]) - n + 1) * Window
               x == Window + seen[i] - passed[i][n]
               k == buckets[ipKey(i)].tokens
    <2>3. got + k <= Capacity * x
      BY <2>1, <2>2 DEF ClientInv, Accounted
    <2>4. k \in Nat
      <3>1. buckets[ipKey(i)] \in Bucket
        BY <2>2 DEF TypeOK, Keys, ipKey
      <3> QED BY <3>1, WindowType DEF Bucket
    <2>5. got \in Int /\ Capacity * x \in Int
      <3>1. Len(passed[i]) \in Nat /\ n \in 1..Len(passed[i])
        BY ClientTypes
      <3>2. passed[i][n] \in Nat /\ seen[i] \in Nat
        BY ClientTypes
      <3>3. x \in Int
        BY <3>2, WindowType
      <3>4. got \in Int
        BY <3>1, WindowType
      <3> HIDE DEF x, got
      <3> QED BY <3>3, <3>4, WindowType
    <2> HIDE DEF got, x, k
    <2>6. got <= Capacity * x
      BY <2>3, <2>4, <2>5
    <2> QED BY <2>6 DEF got, x
  <1> QED BY <1>1, LimiterTypeCorrect, LimiterInvariant, PTL

\* In production, a client that waits for the first Retry-After it was given,
\* and for as long as the clock was set back, finds a token in its bucket,
\* whatever rounding and whatever further refused requests.
THEOREM RetryAfterKept == Spec => []RetryAfterHonest
  <1>1. TypeOK /\ LimiterInv => RetryAfterHonest
    <2> SUFFICES ASSUME TypeOK, LimiterInv, Production, NEW i \in Ips,
                        promise[i] # None, clock >= promise[i] + back,
                        getOrRefillBucket(ipKey(i)).tokens < Window
                 PROVE  FALSE
      <3>1. ASSUME TypeOK, NEW i \in Ips
            PROVE  getOrRefillBucket(ipKey(i)).tokens \in Nat
        <4>1. getOrRefillBucket(ipKey(i)) \in Bucket
          BY <3>1, RefillEffect DEF Keys, ipKey
        <4> QED BY <4>1, WindowType DEF Bucket
      <3> QED BY <3>1, WindowType DEF RetryAfterHonest, ipKey
    <2> DEFINE b == getOrRefillBucket(ipKey(i))
               s == Latest(seen[i], clock)
               y == promise[i] + back - s
    <2>1. ClientInv(i)
      BY DEF LimiterInv
    <2>2. /\ s \in Nat /\ b.tokens \in Nat
          /\ b.tokens + Capacity * y >= Window
      BY <2>1, RefillKeeps
    <2>3. y \in Int /\ y <= 0
      <3>1. promise[i] \in Nat /\ clock \in Nat /\ back \in Nat /\ seen[i] \in Nat
        BY ClientTypes
      <3>2. clock <= s
        BY <3>1 DEF Latest
      <3> HIDE DEF s
      <3> QED BY <2>2, <3>1, <3>2
    <2>4. Capacity * y <= 0 /\ Capacity * y \in Int
      <3> HIDE DEF y
      <3>1. Capacity * y <= Capacity * 0
        BY <2>3, WindowType, Monotone
      <3> QED BY <2>3, <3>1, WindowType
    <2> HIDE DEF b, y
    <2>5. b.tokens >= Window
      BY <2>2, <2>4, WindowType
    <2>6. b.tokens < Window
      BY DEF b
    <2> QED BY <2>2, <2>5, <2>6, WindowType
  <1> QED BY <1>1, LimiterTypeCorrect, LimiterInvariant, PTL

=============================================================================
