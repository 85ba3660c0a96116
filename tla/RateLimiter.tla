----------------------------- MODULE RateLimiter -----------------------------
(***************************************************************************)
(* The token buckets in front of POST /api/jobs and POST /:id/replay       *)
(* (apps/api/src/middleware/rateLimiter.ts), behind requireApiKey.  Both   *)
(* routes share one limiter, and both middlewares run without an await, so *)
(* a request is one step.                                                  *)
(*                                                                         *)
(* Tokens are counted in parts: a token is Window parts and a millisecond  *)
(* refills Capacity of them, which keeps the code's capacity/windowMs in   *)
(* whole numbers.  Rounding in double precision is left out.               *)
(***************************************************************************)
EXTENDS Integers, Sequences

CONSTANTS
    Ips,            \* the addresses Express resolves req.ip to
    Labels,         \* values of the X-Test-Client-Id header
    None,           \* no header, no bucket, no promise
    Production,     \* NODE_ENV = "production"
    API_KEY,        \* whether a key is configured
    Capacity,       \* RATE_LIMIT_CAPACITY
    WindowSeconds,  \* RATE_LIMIT_WINDOW_SECONDS
    Second,         \* how many ticks of Date.now() make a second
    MaxTime,        \* bound on the clock
    MaxBack         \* bound on how far the clock is set back, in all

ASSUME LimiterAssumption ==
    /\ None \notin Ips /\ None \notin Labels /\ None \notin Nat
    /\ Production \in BOOLEAN /\ API_KEY \in BOOLEAN
    /\ Capacity \in Nat \ {0} /\ WindowSeconds \in Nat \ {0}
    /\ Second \in Nat \ {0} /\ MaxTime \in Nat /\ MaxBack \in Nat

VARIABLES
    clock,    \* Date.now()
    buckets,  \* the Map from client key to Bucket
    passed,   \* auxiliary: per address, when each of its requests passed
    seen,     \* auxiliary: per address, the latest clock of its requests
    promise,  \* auxiliary: per address, when the first Retry-After given
              \* since a request of it passed is over
    back      \* auxiliary: how far the clock has been set back, in all

vars == <<clock, buckets, passed, seen, promise, back>>

Window == WindowSeconds * Second

Keys == {<<"ip", i>> : i \in Ips} \cup {<<"test", l>> : l \in Labels}

Bucket == [tokens : 0..(Capacity * Window), lastRefillMs : Nat]

ASSUME NoBucketAssumption == None \notin Bucket

Request == [ip : Ips, label : Labels \cup {None}, key : {"right", "wrong"}]

TypeOK ==
    /\ clock   \in 0..MaxTime
    /\ buckets \in [Keys -> Bucket \cup {None}]
    /\ passed  \in [Ips -> Seq(0..MaxTime)]
    /\ seen    \in [Ips -> 0..MaxTime]
    /\ promise \in [Ips -> Nat \cup {None}]
    /\ back    \in 0..MaxBack

Init ==
    /\ clock   = 0
    /\ buckets = [k \in Keys |-> None]
    /\ passed  = [i \in Ips |-> <<>>]
    /\ seen    = [i \in Ips |-> 0]
    /\ promise = [i \in Ips |-> None]
    /\ back    = 0

-----------------------------------------------------------------------------
(* The middlewares.                                                        *)

requireApiKey(req) == API_KEY => req.key = "right"

\* Mutant: the header counts in production too.
MutIdentifyHeader(req) == IF req.label # None THEN <<"test", req.label>>
                                              ELSE <<"ip", req.ip>>

\* identify(): req.ip, or the test header outside production.
defaultIdentify(req) ==
    IF ~ Production /\ req.label # None THEN <<"test", req.label>>
                                        ELSE <<"ip", req.ip>>

Least(a, b) == IF a < b THEN a ELSE b
Latest(a, b) == IF a < b THEN b ELSE a

\* Mutant: tokens pile up beyond the capacity.
MutGetOrRefillBucket(key) ==
    IF buckets[key] = None
    THEN [tokens |-> Capacity * Window, lastRefillMs |-> clock]
    ELSE [tokens |-> buckets[key].tokens
                       + Capacity * Latest(0, clock - buckets[key].lastRefillMs),
          lastRefillMs |-> Latest(clock, buckets[key].lastRefillMs)]

\* The bucket as the request finds it.  A clock that was set back refills
\* nothing, and leaves lastRefillMs ahead of it.
getOrRefillBucket(key) ==
    IF buckets[key] = None
    THEN [tokens |-> Capacity * Window, lastRefillMs |-> clock]
    ELSE LET elapsedMs == clock - buckets[key].lastRefillMs
         IN  IF elapsedMs > 0
             THEN [tokens |-> Least(Capacity * Window,
                                    buckets[key].tokens + Capacity * elapsedMs),
                   lastRefillMs |-> clock]
             ELSE buckets[key]

\* Mutant: the seconds are rounded down.
MutRetryAfterSeconds(bucket) ==
    Latest(1, (Window - bucket.tokens) \div (Capacity * Second))

\* Retry-After in seconds: Math.max(1, Math.ceil(...)), rounding up.
retryAfterSeconds(bucket) ==
    LET needed == Window - bucket.tokens
        perSecond == Capacity * Second
    IN  Latest(1, (needed + perSecond - 1) \div perSecond)

\* The request is let through, at the price of a token.
Pass(req) ==
    /\ requireApiKey(req)
    /\ LET key    == defaultIdentify(req)
           bucket == getOrRefillBucket(key)
           now    == Latest(seen[req.ip], clock)
       IN  /\ bucket.tokens >= Window
           /\ buckets' = [buckets EXCEPT ![key] =
                            [bucket EXCEPT !.tokens = @ - Window]]
           /\ seen'    = [seen EXCEPT ![req.ip] = now]
           /\ passed'  = [passed EXCEPT ![req.ip] = Append(@, now)]
    /\ promise' = [promise EXCEPT ![req.ip] = None]
    /\ UNCHANGED <<clock, back>>

\* 429, with a Retry-After.  A request without the key (401) leaves no trace.
Refuse(req) ==
    /\ requireApiKey(req)
    /\ LET key    == defaultIdentify(req)
           bucket == getOrRefillBucket(key)
           until  == clock + retryAfterSeconds(bucket) * Second
       IN  /\ bucket.tokens < Window
           /\ buckets' = [buckets EXCEPT ![key] = bucket]
           /\ promise' = [promise EXCEPT ![req.ip] =
                            IF @ = None THEN until ELSE Least(@, until)]
    /\ seen' = [seen EXCEPT ![req.ip] = Latest(@, clock)]
    /\ UNCHANGED <<clock, passed, back>>

-----------------------------------------------------------------------------
(* Time and restarts.                                                      *)

Tick ==
    /\ clock < MaxTime
    /\ clock' = clock + 1
    /\ UNCHANGED <<buckets, passed, seen, promise, back>>

\* Date.now() is the wall clock, and the wall clock may be set back.
SetBack == \E d \in 1..clock :
    /\ back + d <= MaxBack
    /\ clock' = clock - d
    /\ back'  = back + d
    /\ UNCHANGED <<buckets, passed, seen, promise>>

\* The buckets live in the process and start full again.
Restart ==
    /\ buckets' = [k \in Keys |-> None]
    /\ passed'  = [i \in Ips |-> <<>>]
    /\ seen'    = [i \in Ips |-> 0]
    /\ promise' = [i \in Ips |-> None]
    /\ UNCHANGED <<clock, back>>

Next ==
    \/ \E req \in Request : Pass(req) \/ Refuse(req)
    \/ Tick \/ SetBack \/ Restart

Spec == Init /\ [][Next]_vars

-----------------------------------------------------------------------------
(* Properties.                                                             *)

\* In production, from any of its requests on, an address gets no more
\* through than a full bucket and what was refilled since, over both routes,
\* whatever headers it sends and however the clock is set back.
BurstBound == Production => \A i \in Ips : \A n \in DOMAIN passed[i] :
    (Len(passed[i]) - n + 1) * Window
        <= Capacity * (Window + seen[i] - passed[i][n])

\* In production, a client that was told to come back after a while and does
\* so is let through, whatever other clients do in the meantime.  It waits
\* longer only by as much as the clock was set back.
RetryAfterHonest == Production => \A i \in Ips :
    promise[i] # None /\ clock >= promise[i] + back =>
        getOrRefillBucket(<<"ip", i>>).tokens >= Window

=============================================================================
