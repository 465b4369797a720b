-------------------------- MODULE RateLimitsProofs --------------------------
(***************************************************************************)
(* Proofs about LoginThrottle and Limiter for every number of keys, users  *)
(* and requests and every limit: the exact bounds on guesses and bursts,   *)
(* and that cooldowns and windows are not moved.                           *)
(***************************************************************************)
EXTENDS LoginThrottle, Limiter, FiniteSetTheorems, TLAPS

-----------------------------------------------------------------------------
(* Limiter.  The invariant is about one key: g is granted[k], n the clock, *)
(* r the end of the window of bucket[k] and c its count.                   *)

\* g counts, and nothing is granted after n.
Counts(g, n) ==
  /\ \A i, j \in Time : i <= j => g[i] <= g[j]
  /\ \A i \in Time : i >= n => g[i] = g[n]

\* Between two windows: nothing was granted now, and a span that ends now has
\* missed the call that opened the last window.
Between(g, n) ==
  /\ g[n - 1] = g[n]
  /\ \A i \in Time : i >= n - Window - 1 => g[n] - g[i] <= Calls - 1

\* In a window that began at s: it granted what it counted, at least one call
\* at s, and a span that reaches it missed the opening of the one before.
Within(g, n, s, c) ==
  /\ s \in 1..n /\ c >= 1
  /\ g[n] - g[s - 1] = IF c <= Calls THEN c ELSE Calls
  /\ g[s] - g[s - 1] >= 1
  /\ \A i \in Time : i >= s - Window - 1 /\ i < s => g[s - 1] - g[i] <= Calls - 1

Spans(g) ==
  \A t \in 1..(MaxTime - Window) : g[t + Window] - g[t - 1] <= 2 * Calls - 1

KeyInv(g, n, r, c) ==
  /\ Counts(g, n) /\ Spans(g)
  /\ IF n > r THEN Between(g, n) ELSE Within(g, n, r - Window, c)

LimiterType ==
  /\ now \in 1..MaxTime
  /\ bucket \in [User -> [count: 0..MaxCount, reset: Nat]]
  /\ granted \in [User -> [Time -> Nat]]

LimiterInv ==
  /\ LimiterType
  /\ \A k \in User : KeyInv(granted[k], now, bucket[k].reset, bucket[k].count)

LEMMA Numbers ==
  /\ MaxTime \in Nat /\ MaxTime >= 1 /\ Time \subseteq Nat
  /\ \A t : t \in Time <=> t \in Nat /\ t <= MaxTime
  /\ Calls \in Nat /\ Calls >= 1 /\ Window \in Nat /\ Window >= 1
  /\ MaxCount \in Nat /\ MaxCount > Calls
BY TimeAssumption, WindowAssumption, BucketAssumption DEF Time

LEMMA KeyTick ==
  ASSUME NEW g \in [Time -> Nat], NEW n \in 1..MaxTime, n < MaxTime,
         NEW r \in Nat, NEW c \in Nat, KeyInv(g, n, r, c)
  PROVE  KeyInv(g, n + 1, r, c)
<1> n \in Time /\ n + 1 \in Time /\ n - 1 \in Time /\ n \in Nat
  BY Numbers
<1>1. g[n + 1] = g[n] /\ Counts(g, n + 1)
  BY Numbers DEF KeyInv, Counts
<1>2. CASE n > r
  <2>1. Between(g, n)
    BY <1>2 DEF KeyInv
  <2>2. Between(g, n + 1)
    BY <1>1, <2>1, Numbers DEF Between
  <2> QED
    BY <1>1, <1>2, <2>2 DEF KeyInv
<1>3. CASE n + 1 <= r
  <2>1. Within(g, n, r - Window, c)
    BY <1>3 DEF KeyInv
  <2>2. Within(g, n + 1, r - Window, c)
    BY <1>1, <2>1, Numbers DEF Within
  <2> QED
    BY <1>1, <1>3, <2>2 DEF KeyInv
<1>4. CASE n = r
  <2> DEFINE s == r - Window
  <2>1. Within(g, n, s, c)
    BY <1>4 DEF KeyInv
  <2>2. s \in Time /\ s - 1 \in Time /\ n = s + Window
    BY <1>4, <2>1, Numbers DEF Within
  <2>3. g[n] - g[s] <= Calls - 1
    BY <2>1, <2>2, Numbers DEF Within
  <2>4. ASSUME NEW i \in Time, i >= (n + 1) - Window - 1 PROVE g[n + 1] - g[i] <= Calls - 1
    <3>1. i \in Nat /\ s <= i
      BY <2>2, <2>4, Numbers
    <3>2. g[s] <= g[i]
      BY <2>2, <3>1 DEF KeyInv, Counts
    <3>3. g[s] \in Nat /\ g[i] \in Nat /\ g[n] \in Nat
      BY <2>2
    <3> QED
      BY <1>1, <2>3, <3>2, <3>3, Numbers
  <2>5. Between(g, n + 1)
    BY <1>1, <2>4 DEF Between
  <2> QED
    BY <1>1, <1>4, <2>5 DEF KeyInv
<1> QED
  BY <1>2, <1>3, <1>4

\* A granted call, whatever opened the window: the spans that end before it are
\* what they were, and those that hold it miss the opening of the one before.
LEMMA KeyGrant ==
  ASSUME NEW g \in [Time -> Nat], NEW n \in 1..MaxTime, NEW h,
         h = [t \in Time |-> IF t >= n THEN g[t] + 1 ELSE g[t]],
         Counts(g, n), Spans(g), NEW s \in 1..n, NEW c \in 1..Calls, n <= s + Window,
         h[n] - h[s - 1] = c, h[s] - h[s - 1] >= 1,
         \A i \in Time : i >= s - Window - 1 /\ i < s => g[s - 1] - g[i] <= Calls - 1
  PROVE  /\ h \in [Time -> Nat]
         /\ KeyInv(h, n, s + Window, c)
<1> n \in Time /\ s \in Time /\ s - 1 \in Time /\ n \in Nat /\ s \in Nat
  BY Numbers
<1>1. h \in [Time -> Nat]
  OBVIOUS
<1>2. Counts(h, n)
  <2>1. ASSUME NEW i \in Time, NEW j \in Time, i <= j PROVE h[i] <= h[j]
    <3>1. i \in Nat /\ j \in Nat /\ g[i] \in Nat /\ g[j] \in Nat /\ g[i] <= g[j]
      BY <2>1, Numbers DEF Counts
    <3> QED
      BY <2>1, <3>1
  <2>2. ASSUME NEW i \in Time, i >= n PROVE h[i] = h[n]
    BY <2>2, Numbers DEF Counts
  <2> QED
    BY <2>1, <2>2 DEF Counts
<1>3. ASSUME NEW i \in Time, i >= s - Window - 1, i < s PROVE h[s - 1] - h[i] <= Calls - 1
  BY <1>3, Numbers
<1>4. Within(h, n, s, c)
  BY <1>3, Numbers DEF Within
<1>5. ASSUME NEW t \in 1..(MaxTime - Window) PROVE h[t + Window] - h[t - 1] <= 2 * Calls - 1
  <2> t \in Nat /\ t >= 1 /\ t + Window \in Time /\ t - 1 \in Time
    BY Numbers
  <2>1. CASE t + Window < n \/ t - 1 >= n
    <3>1. h[t + Window] - h[t - 1] = g[t + Window] - g[t - 1]
      BY <2>1, Numbers
    <3> QED
      BY <3>1 DEF Spans
  <2>2. CASE t - 1 < n /\ n <= t + Window
    <3>1. h[t + Window] = h[n] /\ h[n] \in Nat /\ h[s - 1] \in Nat /\ h[t - 1] \in Nat
      BY <1>1, <1>2, <2>2 DEF Counts
    <3>2. CASE t - 1 >= s
      <4>1. h[s - 1] <= h[t - 1]
        BY <1>2, <3>2 DEF Counts
      <4> QED
        BY <3>1, <4>1, Numbers
    <3>3. CASE t - 1 < s
      <4>1. h[s - 1] - h[t - 1] <= Calls - 1
        BY <1>3, <2>2, <3>3, Numbers
      <4> QED
        BY <3>1, <4>1, Numbers
    <3> QED
      BY <3>2, <3>3
  <2> QED
    BY <2>1, <2>2, Numbers
<1>6. ~(n > s + Window) /\ (s + Window) - Window = s
  BY Numbers
<1> QED
  BY <1>1, <1>2, <1>4, <1>5, <1>6 DEF KeyInv, Spans

Bucket == [count: 0..MaxCount, reset: Nat]

\* What CountedCall makes of a bucket.
LEMMA CountedIs ==
  ASSUME now \in 1..MaxTime, NEW b \in Bucket
  PROVE  /\ CountedCall(b) \in Bucket
         /\ ~Lapsed(CountedCall(b))
         /\ CountedCall(b).reset = IF Lapsed(b) THEN now + Window ELSE b.reset
         /\ CountedCall(b).count = IF Lapsed(b) THEN 1
                                   ELSE IF b.count < MaxCount THEN b.count + 1 ELSE b.count
<1> now \in Nat /\ now + Window \in Nat /\ now + Window >= now
  BY Numbers
<1>1. CASE Lapsed(b)
  <2>1. CountedCall(b) = [count |-> 1, reset |-> now + Window]
    BY <1>1, Numbers DEF CountedCall
  <2> QED
    BY <1>1, <2>1, Numbers DEF Bucket, Lapsed
<1>2. CASE ~Lapsed(b)
  <2>1. b.count \in 0..MaxCount /\ b.reset \in Nat
    BY DEF Bucket
  <2>2. CountedCall(b) = [b EXCEPT !.count = IF b.count < MaxCount THEN b.count + 1 ELSE b.count]
    BY <1>2 DEF CountedCall
  <2>3. CountedCall(b) = [count |-> IF b.count < MaxCount THEN b.count + 1 ELSE b.count,
                          reset |-> b.reset]
    BY <2>2 DEF Bucket
  <2> QED
    BY <1>2, <2>1, <2>3, Numbers DEF Bucket, Lapsed
<1> QED
  BY <1>1, <1>2

\* A sweep takes buckets whose window is over, and no others.
LEMMA SweptIs ==
  ASSUME now \in 1..MaxTime, NEW d \in [User -> Bucket]
  PROVE  /\ Swept(d) \in [User -> Bucket]
         /\ \A k \in User : \/ Swept(d)[k] = d[k]
                            \/ Lapsed(d[k]) /\ Swept(d)[k] = ZeroBucket
<1>1. ZeroBucket \in Bucket
  BY Numbers DEF ZeroBucket, Bucket
<1> QED
  BY <1>1 DEF Swept

\* What a call does to its own bucket and to the others.
LEMMA AllowBuckets ==
  ASSUME LimiterType, NEW u \in User, Allow(u)
  PROVE  /\ bucket' \in [User -> Bucket]
         /\ bucket'[u] = CountedCall(bucket[u])
         /\ \A k \in User \ {u} : \/ bucket'[k] = bucket[k]
                                  \/ Lapsed(bucket[k]) /\ bucket'[k] = ZeroBucket
<1> DEFINE d == [bucket EXCEPT ![u] = CountedCall(@)]
<1>1. bucket \in [User -> Bucket]
  BY DEF LimiterType, Bucket
<1>2. /\ CountedCall(bucket[u]) \in Bucket
      /\ ~Lapsed(CountedCall(bucket[u]))
  BY <1>1, CountedIs DEF LimiterType
<1>3. d \in [User -> Bucket] /\ d[u] = CountedCall(bucket[u])
      /\ \A k \in User \ {u} : d[k] = bucket[k]
  BY <1>1, <1>2
<1>4. bucket' = Swept(d)
  BY DEF Allow
<1> HIDE DEF d
<1> QED
  BY <1>2, <1>3, <1>4, SweptIs DEF LimiterType

LEMMA AllowStep ==
  ASSUME LimiterInv, NEW u \in User, Allow(u)
  PROVE  LimiterInv'
<1> DEFINE g == granted[u]
           b == bucket[u]
           h == [t \in Time |-> IF t >= now THEN g[t] + 1 ELSE g[t]]
           c == CountedCall(b).count
           r == CountedCall(b).reset
<1>1. /\ LimiterType /\ now \in 1..MaxTime /\ now' = now
      /\ g \in [Time -> Nat] /\ b \in Bucket
      /\ KeyInv(g, now, b.reset, b.count)
  BY DEF LimiterInv, LimiterType, Bucket, Allow
<1>2. /\ bucket' \in [User -> Bucket]
      /\ bucket'[u] = CountedCall(b)
      /\ \A k \in User \ {u} : bucket'[k] = bucket[k] \/ (Lapsed(bucket[k]) /\ bucket'[k] = ZeroBucket)
  BY <1>1, AllowBuckets
<1>3. /\ c \in 0..MaxCount /\ r \in Nat
      /\ r = IF Lapsed(b) THEN now + Window ELSE b.reset
      /\ c = IF Lapsed(b) THEN 1 ELSE IF b.count < MaxCount THEN b.count + 1 ELSE b.count
  BY <1>1, CountedIs DEF Bucket
<1>4. granted' = IF c <= Calls THEN [granted EXCEPT ![u] = h] ELSE granted
  BY DEF Allow
<1>n. /\ now \in Nat /\ now >= 1 /\ now - 1 \in Time /\ now \in Time
      /\ b.count \in Nat /\ b.reset \in Nat /\ c \in Nat
  BY <1>1, <1>3, Numbers DEF Bucket
<1> HIDE DEF g, b, h, c, r
<1>5. ASSUME Lapsed(b) PROVE h \in [Time -> Nat] /\ KeyInv(h, now, r, c) /\ c <= Calls
  <2>1. Between(g, now) /\ Counts(g, now) /\ Spans(g)
    BY <1>1, <1>5 DEF KeyInv, Lapsed
  <2>2. h[now] - h[now - 1] = 1
    BY <1>1, <1>n, <2>1 DEF Between, h
  <2>3. \A i \in Time : i >= now - Window - 1 /\ i < now => g[now - 1] - g[i] <= Calls - 1
    BY <2>1 DEF Between
  <2>4. h \in [Time -> Nat] /\ KeyInv(h, now, now + Window, 1)
    BY <1>1, <1>n, <2>1, <2>2, <2>3, KeyGrant, Numbers DEF h
  <2> QED
    BY <1>3, <1>5, <2>4, Numbers
<1>6. ASSUME ~Lapsed(b), c <= Calls PROVE h \in [Time -> Nat] /\ KeyInv(h, now, r, c)
  <2> DEFINE s == b.reset - Window
  <2>1. Within(g, now, s, b.count) /\ Counts(g, now) /\ Spans(g)
    BY <1>1, <1>6 DEF KeyInv, Lapsed
  <2>2. s \in 1..now /\ s - 1 \in Time /\ s \in Time /\ now <= s + Window /\ s + Window = r
    BY <1>3, <1>6, <1>n, <2>1, Numbers DEF Within, Lapsed
  <2>3. c = b.count + 1 /\ c \in 1..Calls /\ b.count <= Calls
    BY <1>3, <1>6, <1>n, Numbers
  <2>4. h[now] = g[now] + 1 /\ h[s - 1] = g[s - 1] /\ h[s] \in {g[s], g[s] + 1}
    BY <1>n, <2>2 DEF h
  <2>5. h[now] - h[s - 1] = c /\ h[s] - h[s - 1] >= 1
    BY <1>1, <1>n, <2>1, <2>2, <2>3, <2>4 DEF Within
  <2>6. \A i \in Time : i >= s - Window - 1 /\ i < s => g[s - 1] - g[i] <= Calls - 1
    BY <2>1 DEF Within
  <2> HIDE DEF s
  <2> QED
    BY <1>1, <2>1, <2>2, <2>3, <2>5, <2>6, KeyGrant DEF h
<1>7. ASSUME ~Lapsed(b), ~(c <= Calls) PROVE KeyInv(g, now, r, c)
  <2>1. Within(g, now, b.reset - Window, b.count)
    BY <1>1, <1>7 DEF KeyInv, Lapsed
  <2>2. Within(g, now, b.reset - Window, c)
    BY <1>3, <1>7, <1>n, <2>1, Numbers DEF Within
  <2> QED
    BY <1>1, <1>3, <1>7, <2>2 DEF KeyInv, Lapsed
<1>8. granted' \in [User -> [Time -> Nat]] /\ KeyInv(granted'[u], now, r, c)
  <2>1. granted \in [User -> [Time -> Nat]] /\ granted[u] = g
    BY <1>1 DEF LimiterType, g
  <2> QED
    BY <1>4, <1>5, <1>6, <1>7, <2>1
<1>9. \A k \in User \ {u} : granted'[k] = granted[k]
  BY <1>1, <1>4 DEF LimiterType
<1>10. ASSUME NEW k \in User \ {u}
       PROVE  KeyInv(granted[k], now, bucket'[k].reset, bucket'[k].count)
  <2>1. KeyInv(granted[k], now, bucket[k].reset, bucket[k].count)
    BY DEF LimiterInv
  <2>2. CASE Lapsed(bucket[k]) /\ bucket'[k] = ZeroBucket
    BY <1>n, <2>1, <2>2 DEF KeyInv, Lapsed, ZeroBucket
  <2> QED
    BY <1>2, <2>1, <2>2
<1>11. bucket'[u].reset = r /\ bucket'[u].count = c
  BY <1>2 DEF r, c
<1> QED
  BY <1>1, <1>2, <1>8, <1>9, <1>10, <1>11 DEF LimiterInv, LimiterType, Bucket

LEMMA LimiterInvAlways == LimiterSpec => []LimiterInv
<1>1. ClockInit /\ LimiterInit => LimiterInv
  <2> SUFFICES ASSUME ClockInit, LimiterInit PROVE LimiterInv
    OBVIOUS
  <2>1. LimiterType
    BY Numbers DEF ClockInit, LimiterInit, LimiterType, ZeroBucket
  <2>2. ASSUME NEW k \in User PROVE KeyInv(granted[k], now, bucket[k].reset, bucket[k].count)
    <3>1. now = 1 /\ bucket[k].reset = 0 /\ \A t \in Time : granted[k][t] = 0
      BY DEF ClockInit, LimiterInit, ZeroBucket
    <3>2. Counts(granted[k], now) /\ Between(granted[k], now)
      BY <3>1, Numbers DEF Counts, Between
    <3>3. Spans(granted[k])
      BY <3>1, Numbers DEF Spans
    <3> QED
      BY <3>1, <3>2, <3>3 DEF KeyInv
  <2> QED
    BY <2>1, <2>2 DEF LimiterInv
<1>2. ASSUME LimiterInv, Advance /\ UNCHANGED limiterVars PROVE LimiterInv'
  <2>1. now' = now + 1 /\ now < MaxTime /\ now \in 1..MaxTime /\ UNCHANGED <<bucket, granted>>
    BY <1>2 DEF Advance, LimiterInv, LimiterType, limiterVars
  <2>2. \A k \in User : bucket[k].reset \in Nat /\ bucket[k].count \in Nat
                        /\ granted[k] \in [Time -> Nat]
    BY <1>2 DEF LimiterInv, LimiterType
  <2>3. \A k \in User : KeyInv(granted[k], now + 1, bucket[k].reset, bucket[k].count)
    BY <1>2, <2>1, <2>2, KeyTick DEF LimiterInv
  <2>4. now' \in 1..MaxTime
    BY <2>1, Numbers
  <2> QED
    BY <1>2, <2>1, <2>3, <2>4 DEF LimiterInv, LimiterType
<1>3. ASSUME LimiterInv, UNCHANGED <<now, limiterVars>> PROVE LimiterInv'
  BY <1>3 DEF LimiterInv, LimiterType, limiterVars
<1>4. LimiterInv /\ [LimiterNext \/ (Advance /\ UNCHANGED limiterVars)]_<<now, limiterVars>>
        => LimiterInv'
  BY <1>2, <1>3, AllowStep DEF LimiterNext
<1> QED
  BY <1>1, <1>4, PTL DEF LimiterSpec

(***************************************************************************)
(* No span as long as a window lets more than 2 * Calls - 1 calls of a     *)
(* user through allow, however calls, refusals and sweeps are spread.      *)
(***************************************************************************)
THEOREM BurstsBounded == LimiterSpec => []BurstBounded
<1>1. LimiterInv => BurstBounded
  BY DEF LimiterInv, KeyInv, Spans, BurstBounded
<1> QED
  BY <1>1, LimiterInvAlways, PTL

(***************************************************************************)
(* allow never moves the end of an open window nor lowers its count, and   *)
(* no sweep, by whichever user's call, drops one.                          *)
(***************************************************************************)
THEOREM WindowsFixed == LimiterSpec => WindowFixed
<1> DEFINE Fixed == \A k \in User : ~Lapsed(bucket[k]) =>
              bucket'[k].reset = bucket[k].reset /\ bucket'[k].count >= bucket[k].count
<1>1. ASSUME LimiterInv, NEW u \in User, Allow(u) PROVE Fixed
  <2> SUFFICES ASSUME NEW k \in User, ~Lapsed(bucket[k])
               PROVE  bucket'[k].reset = bucket[k].reset /\ bucket'[k].count >= bucket[k].count
    OBVIOUS
  <2>1. LimiterType /\ bucket[k] \in Bucket /\ bucket[k].count \in Nat
    BY <1>1, Numbers DEF LimiterInv, LimiterType, Bucket
  <2>2. CASE k = u
    <3>1. bucket'[k] = CountedCall(bucket[k])
      BY <1>1, <2>1, <2>2, AllowBuckets
    <3>2. /\ CountedCall(bucket[k]).reset = bucket[k].reset
          /\ CountedCall(bucket[k]).count \in {bucket[k].count, bucket[k].count + 1}
      BY <2>1, CountedIs DEF LimiterType
    <3> QED
      BY <2>1, <3>1, <3>2
  <2>3. CASE k # u
    BY <1>1, <2>1, <2>3, AllowBuckets
  <2> QED
    BY <2>2, <2>3
<1>2. LimiterInv /\ [LimiterNext \/ (Advance /\ UNCHANGED limiterVars)]_<<now, limiterVars>>
        => [Fixed]_limiterVars
  BY <1>1 DEF LimiterNext, limiterVars
<1> QED
  BY <1>2, LimiterInvAlways, PTL DEF LimiterSpec, WindowFixed

-----------------------------------------------------------------------------
(* LoginThrottle. *)

Pending(k) == {q \in Request : req[q] = k}
Requests == Cardinality(Request)

\* A count stays below Max, and one that reached it is set back with the start
\* of the cooldown; nothing was seen in the future.
Settled ==
  \A k \in Key : /\ data[k].lastSeen <= now
                 /\ data[k].failures < Max
                 /\ data[k].blockedUntil # 0 => data[k].failures = 0

\* The passwords that were tried are the counted ones and at most the late
\* ones of the last cooldown; during it the late ones are still bounded by
\* the requests that remain.
Guesses ==
  \A k \in Key :
    IF InCooldown(data[k])
    THEN wrong[k] + Cardinality(Pending(k)) <= Requests - 1
    ELSE wrong[k] <= data[k].failures + (Requests - 1)

LoginInv == TypeOK /\ Settled /\ Guesses /\ AboveCapacityIsYoung

LEMMA Limits ==
  /\ Max \in Nat /\ Max >= 1 /\ Cooldown \in Nat /\ Cooldown >= 1
  /\ Retention \in Nat /\ Capacity \in Nat /\ MaxTime \in Nat /\ MaxTime >= 1
  /\ None \notin Key
  /\ Requests \in Nat /\ Requests >= 1
<1>1. Requests \in Nat /\ Requests # 0
  BY SetAssumption, FS_CardinalityType, FS_EmptySet DEF Requests
<1> QED
  BY <1>1, LimitAssumption, PruneAssumption, SetAssumption, TimeAssumption

LEMMA PendingCount ==
  ASSUME NEW k
  PROVE  /\ IsFiniteSet(Pending(k))
         /\ Cardinality(Pending(k)) \in Nat /\ Cardinality(Pending(k)) <= Requests
<1>1. Pending(k) \in SUBSET Request
  BY DEF Pending
<1> QED
  BY <1>1, SetAssumption, FS_Subset, FS_CardinalityType DEF Requests

\* A request that is answered leaves one less for its key, and the other keys
\* theirs.
LEMMA Answered ==
  ASSUME TypeOK, NEW q \in Request, NEW k \in Key, req[q] = k, req' = [req EXCEPT ![q] = None]
  PROVE  /\ Cardinality(Pending(k)') = Cardinality(Pending(k)) - 1
         /\ Cardinality(Pending(k)') <= Requests - 1
         /\ \A j \in Key \ {k} : Pending(j)' = Pending(j)
<1>1. Pending(k)' = Pending(k) \ {q} /\ q \in Pending(k)
  BY Limits DEF Pending, TypeOK
<1>2. Cardinality(Pending(k)') = Cardinality(Pending(k)) - 1
  BY <1>1, PendingCount, FS_RemoveElement
<1>3. \A j \in Key \ {k} : Pending(j)' = Pending(j)
  BY Limits DEF Pending, TypeOK
<1> QED
  BY <1>2, <1>3, PendingCount, Limits

\* prune keeps what is young or in its cooldown.
LEMMA PrunedIs ==
  ASSUME now \in 1..MaxTime, NEW d \in [Key -> Attempt]
  PROVE  /\ Pruned(d) \in [Key -> Attempt]
         /\ \A k \in Key : \/ Pruned(d)[k] = d[k]
                           \/ /\ Pruned(d)[k] = Zero /\ ~InCooldown(d[k])
                              /\ now - d[k].lastSeen > Retention
         /\ \/ Cardinality(Stored(Pruned(d))) <= Capacity
            \/ \A k \in Stored(Pruned(d)) :
                 /\ Pruned(d)[k] = d[k]
                 /\ InCooldown(d[k]) \/ now - d[k].lastSeen <= Retention
<1>1. Zero \in Attempt
  BY Limits DEF Zero, Attempt
<1>2. CASE Cardinality(Stored(d)) <= Capacity
  BY <1>2 DEF Pruned
<1>3. CASE ~(Cardinality(Stored(d)) <= Capacity)
  <2>1. Pruned(d) = [k \in Key |-> IF ~InCooldown(d[k]) /\ now - d[k].lastSeen > Retention
                                   THEN Zero ELSE d[k]]
    BY <1>3 DEF Pruned
  <2>2. \A k \in Key : now - d[k].lastSeen \in Int
    BY DEF Attempt
  <2>3. ASSUME NEW k \in Stored(Pruned(d))
        PROVE  /\ Pruned(d)[k] = d[k]
               /\ InCooldown(d[k]) \/ now - d[k].lastSeen <= Retention
    BY <2>1, <2>2, <2>3, Limits DEF Stored
  <2> QED
    BY <1>1, <2>1, <2>3
<1> QED
  BY <1>2, <1>3

\* What failed() stores for a key that is not in its cooldown.
LEMMA CountedAttempt ==
  ASSUME LoginInv, NEW k \in Key
  PROVE  LET a == Counted(data[k])
         IN  /\ a \in Attempt /\ a.lastSeen = now /\ a.failures < Max
             /\ \/ a.failures = data[k].failures + 1 /\ a.blockedUntil = 0
                \/ a.failures = 0 /\ a.blockedUntil = now + Cooldown
<1> DEFINE f == (IF data[k].blockedUntil # 0 THEN 0 ELSE data[k].failures) + 1
<1>1. /\ now \in Nat /\ data[k].failures \in Nat
      /\ f = data[k].failures + 1 /\ data[k].failures < Max
  BY Limits DEF LoginInv, TypeOK, Attempt, Settled
<1>2. Counted(data[k]) = [failures     |-> IF f >= Max THEN 0 ELSE f,
                          blockedUntil |-> IF f >= Max THEN now + Cooldown ELSE 0,
                          lastSeen     |-> now]
  BY DEF Counted
<1> HIDE DEF f
<1> QED
  BY <1>1, <1>2, Limits DEF Attempt

\* A map that only loses keys stays young.
LEMMA YoungKept ==
  ASSUME AboveCapacityIsYoung, Stored(data') \subseteq Stored(data),
         \A k \in Stored(data') : data'[k] = data[k]
  PROVE  AboveCapacityIsYoung'
<1>1. IsFiniteSet(Stored(data))
  BY SetAssumption, FS_Subset DEF Stored
<1>2. /\ Cardinality(Stored(data')) <= Cardinality(Stored(data))
      /\ Cardinality(Stored(data')) \in Nat /\ Cardinality(Stored(data)) \in Nat
  BY <1>1, FS_Subset, FS_CardinalityType
<1>3. Stored(data)' = Stored(data')
  BY DEF Stored
<1> QED
  BY <1>2, <1>3, Limits DEF AboveCapacityIsYoung

LEMMA StartStep ==
  ASSUME LoginInv, NEW q \in Request, NEW k \in Key, StartLogin(q, k)
  PROVE  LoginInv'
<1>1. /\ data \in [Key -> Attempt] /\ req \in [Request -> Key \cup {None}]
      /\ now \in Nat /\ now' = now /\ wrong' = wrong /\ ~InCooldown(data[k]) /\ req[q] = None
  BY Limits DEF LoginInv, TypeOK, StartLogin
<1>2. /\ \A j \in Key \ {k} : data'[j] = data[j]
      /\ data'[k] = IF data[k].blockedUntil # 0 THEN Zero ELSE data[k]
  BY <1>1 DEF StartLogin
<1>3. Zero \in Attempt /\ Zero.failures = 0 /\ Zero.blockedUntil = 0 /\ Zero.lastSeen = 0
  BY Limits DEF Zero, Attempt
<1>4. TypeOK'
  BY <1>1, <1>3 DEF LoginInv, TypeOK, StartLogin
<1>5. Settled'
  BY <1>1, <1>2, <1>3, Limits DEF LoginInv, Settled
<1>6. ASSUME NEW j \in Key \ {k} PROVE Pending(j)' = Pending(j)
  BY <1>1, Limits DEF StartLogin, Pending
<1>7. Guesses'
  <2>1. ~InCooldown(data'[k]) /\ data'[k].failures = data[k].failures
    BY <1>1, <1>2, <1>3 DEF InCooldown, LoginInv, Settled
  <2>2. ASSUME NEW j \in Key
        PROVE  IF InCooldown(data'[j])
               THEN wrong[j] + Cardinality(Pending(j)') <= Requests - 1
               ELSE wrong[j] <= data'[j].failures + (Requests - 1)
    <3>1. CASE j = k
      BY <1>1, <2>1, <3>1 DEF LoginInv, Guesses
    <3>2. CASE j # k
      BY <1>2, <1>6, <3>2 DEF LoginInv, Guesses
    <3> QED
      BY <3>1, <3>2
  <2>3. \A j \in Key : InCooldown(data[j])' <=> InCooldown(data'[j])
    BY <1>1 DEF InCooldown
  <2>4. Requests' = Requests
    BY DEF Requests
  <2> QED
    BY <1>1, <2>2, <2>3, <2>4 DEF Guesses
<1>8. AboveCapacityIsYoung'
  BY <1>2, YoungKept DEF LoginInv, Stored
<1> QED
  BY <1>4, <1>5, <1>7, <1>8 DEF LoginInv

LEMMA FailLateStep ==
  ASSUME LoginInv, NEW q \in Request, FailLate(q)
  PROVE  LoginInv'
<1> DEFINE k == req[q]
<1>1. /\ k \in Key /\ UNCHANGED <<now, data>> /\ InCooldown(data[k])
      /\ req' = [req EXCEPT ![q] = None] /\ wrong' = [wrong EXCEPT ![k] = @ + 1]
      /\ TypeOK
  BY DEF LoginInv, TypeOK, FailLate
<1>2. TypeOK' /\ Settled'
  BY <1>1 DEF LoginInv, TypeOK, Settled
<1>3. Guesses'
  <2>1. PICK u \in Key : u = k
    BY <1>1
  <2>2. /\ Cardinality(Pending(u)') = Cardinality(Pending(u)) - 1
        /\ \A j \in Key \ {u} : Pending(j)' = Pending(j)
    BY <1>1, <2>1, Answered
  <2>3. wrong'[u] = wrong[u] + 1 /\ wrong[u] \in Nat /\ \A j \in Key \ {u} : wrong'[j] = wrong[j]
    BY <1>1, <2>1 DEF TypeOK
  <2>4. \A j \in Key : InCooldown(data[j])' <=> InCooldown(data[j])
    BY <1>1 DEF InCooldown
  <2>5. wrong'[u] + Cardinality(Pending(u)') <= Requests - 1
    BY <1>1, <2>1, <2>2, <2>3, PendingCount, Limits DEF LoginInv, Guesses
  <2>6. Requests' = Requests
    BY DEF Requests
  <2> QED
    BY <1>1, <2>1, <2>2, <2>3, <2>4, <2>5, <2>6 DEF LoginInv, Guesses
<1>4. AboveCapacityIsYoung'
  BY <1>1 DEF LoginInv, AboveCapacityIsYoung, Stored
<1> QED
  BY <1>2, <1>3, <1>4 DEF LoginInv

\* What a counted failure does to the map.
LEMMA FailCountedMap ==
  ASSUME LoginInv, NEW q \in Request, NEW k \in Key, req[q] = k, FailCounted(q)
  PROVE  /\ data' \in [Key -> Attempt]
         /\ data'[k] = Counted(data[k])
         /\ \A j \in Key \ {k} : data'[j] = data[j] \/ (data'[j] = Zero /\ ~InCooldown(data[j]))
         /\ \/ Cardinality(Stored(data')) <= Capacity
            \/ \A j \in Stored(data') :
                 InCooldown(data'[j]) \/ now - data'[j].lastSeen <= Retention
<1> DEFINE d == [data EXCEPT ![k] = Counted(@)]
<1>1. /\ data \in [Key -> Attempt] /\ now \in 1..MaxTime /\ now \in Nat
      /\ data' = Pruned(d)
  BY Limits DEF LoginInv, TypeOK, FailCounted
<1>2. Counted(data[k]) \in Attempt /\ Counted(data[k]).lastSeen = now
  BY CountedAttempt
<1>3. d \in [Key -> Attempt] /\ d[k] = Counted(data[k]) /\ \A j \in Key \ {k} : d[j] = data[j]
  BY <1>1, <1>2
<1>4. ~(now - d[k].lastSeen > Retention)
  BY <1>1, <1>2, <1>3, Limits
<1> HIDE DEF d
<1> QED
  BY <1>1, <1>3, <1>4, PrunedIs

LEMMA FailCountedStep ==
  ASSUME LoginInv, NEW q \in Request, FailCounted(q)
  PROVE  LoginInv'
<1>1. PICK k \in Key : req[q] = k
  BY DEF LoginInv, TypeOK, FailCounted
<1>2. /\ TypeOK /\ now \in Nat /\ now' = now /\ ~InCooldown(data[k])
      /\ data[k].failures \in Nat
      /\ req' = [req EXCEPT ![q] = None]
      /\ wrong \in [Key -> Nat]
      /\ wrong' = [j \in Key |-> IF j = k /\ data'[j].failures > 0 THEN wrong[j] + 1
                                 ELSE IF j = k \/ data'[j] # data[j] THEN 0
                                 ELSE wrong[j]]
  BY <1>1, Limits DEF LoginInv, TypeOK, Attempt, FailCounted
<1>3. /\ data' \in [Key -> Attempt]
      /\ data'[k] = Counted(data[k])
      /\ \A j \in Key \ {k} : data'[j] = data[j] \/ (data'[j] = Zero /\ ~InCooldown(data[j]))
      /\ \/ Cardinality(Stored(data')) <= Capacity
         \/ \A j \in Stored(data') :
              InCooldown(data'[j]) \/ now - data'[j].lastSeen <= Retention
  BY <1>1, FailCountedMap
<1>4. /\ data'[k].lastSeen = now /\ data'[k].failures < Max
      /\ \/ data'[k].failures = data[k].failures + 1 /\ data'[k].blockedUntil = 0
         \/ data'[k].failures = 0 /\ data'[k].blockedUntil = now + Cooldown
  BY <1>3, CountedAttempt
<1>5. Zero.failures = 0 /\ Zero.blockedUntil = 0 /\ Zero.lastSeen = 0
  BY DEF Zero
<1>6. TypeOK'
  <2>1. req' \in [Request -> Key \cup {None}]
    BY <1>2 DEF TypeOK
  <2>2. wrong' \in [Key -> Nat]
    BY <1>2
  <2> QED
    BY <1>2, <1>3, <2>1, <2>2 DEF TypeOK
<1>7. Settled'
  <2>1. ASSUME NEW j \in Key
        PROVE  /\ data'[j].lastSeen <= now /\ data'[j].failures < Max
               /\ data'[j].blockedUntil # 0 => data'[j].failures = 0
    <3>1. CASE j = k
      BY <1>2, <1>4, <3>1
    <3>2. CASE j # k
      BY <1>2, <1>3, <1>5, <3>2, Limits DEF LoginInv, Settled
    <3> QED
      BY <3>1, <3>2
  <2> QED
    BY <1>2, <2>1 DEF Settled
<1>8. Guesses'
  <2>1. /\ Cardinality(Pending(k)') <= Requests - 1
        /\ \A j \in Key \ {k} : Pending(j)' = Pending(j)
    BY <1>1, <1>2, Answered
  <2>2. IF InCooldown(data'[k])
        THEN wrong'[k] + Cardinality(Pending(k)') <= Requests - 1
        ELSE wrong'[k] <= data'[k].failures + (Requests - 1)
    <3>1. CASE data'[k].failures = data[k].failures + 1 /\ data'[k].blockedUntil = 0
      <4>1. wrong'[k] = wrong[k] + 1 /\ ~InCooldown(data'[k])
        BY <1>2, <3>1 DEF InCooldown
      <4>2. wrong[k] <= data[k].failures + (Requests - 1)
        BY <1>2 DEF LoginInv, Guesses
      <4>3. wrong[k] \in Nat
        BY <1>2
      <4> QED
        BY <1>2, <3>1, <4>1, <4>2, <4>3, Limits
    <3>2. CASE data'[k].failures = 0 /\ data'[k].blockedUntil = now + Cooldown
      <4>1. wrong'[k] = 0 /\ InCooldown(data'[k])
        BY <1>2, <3>2, Limits DEF InCooldown
      <4>2. Cardinality(Pending(k)') \in Nat
        BY PendingCount, SetAssumption, FS_Subset, FS_CardinalityType DEF Pending
      <4> QED
        BY <2>1, <4>1, <4>2
    <3> QED
      BY <1>4, <3>1, <3>2
  <2>3. ASSUME NEW j \in Key \ {k}
        PROVE  IF InCooldown(data'[j])
               THEN wrong'[j] + Cardinality(Pending(j)') <= Requests - 1
               ELSE wrong'[j] <= data'[j].failures + (Requests - 1)
    <3>1. CASE data'[j] = data[j]
      BY <1>2, <2>1, <3>1 DEF LoginInv, Guesses
    <3>2. CASE data'[j] # data[j]
      <4>1. data'[j] = Zero /\ wrong'[j] = 0
        BY <1>2, <1>3, <3>2
      <4> QED
        BY <1>2, <1>5, <4>1, Limits DEF InCooldown
    <3> QED
      BY <3>1, <3>2
  <2>4. \A j \in Key : InCooldown(data[j])' <=> InCooldown(data'[j])
    BY <1>2 DEF InCooldown
  <2>5. Requests' = Requests
    BY DEF Requests
  <2> QED
    BY <2>2, <2>3, <2>4, <2>5 DEF Guesses
<1>9. AboveCapacityIsYoung'
  <2> SUFFICES ASSUME ~(Cardinality(Stored(data')) <= Capacity),
                      NEW i \in Stored(data'), NEW j \in Stored(data')
               PROVE  \/ data'[i].lastSeen - data'[j].lastSeen <= Retention
                      \/ data'[j].blockedUntil > data'[i].lastSeen
    <3>1. Stored(data)' = Stored(data')
      BY DEF Stored
    <3>2. Cardinality(Stored(data')) \in Nat
      BY SetAssumption, FS_Subset, FS_CardinalityType DEF Stored
    <3> QED
      BY <3>1, <3>2, Limits DEF AboveCapacityIsYoung
  <2>1. i \in Key /\ j \in Key
    BY DEF Stored
  <2>2. /\ data'[i].lastSeen \in Nat /\ data'[j].lastSeen \in Nat
        /\ data'[j].blockedUntil \in Nat /\ data'[i].lastSeen <= now
    BY <1>2, <1>3, <1>7, <2>1 DEF Attempt, Settled
  <2>3. data'[j].blockedUntil > now \/ now - data'[j].lastSeen <= Retention
    BY <1>3 DEF InCooldown
  <2> QED
    BY <1>2, <2>2, <2>3, Limits
<1> QED
  BY <1>6, <1>7, <1>8, <1>9 DEF LoginInv

LEMMA SucceedStep ==
  ASSUME LoginInv, NEW q \in Request, Succeed(q)
  PROVE  LoginInv'
<1>1. PICK k \in Key : req[q] = k
  BY DEF LoginInv, TypeOK, Succeed
<1>2. /\ TypeOK /\ now \in Nat /\ now' = now
      /\ req' = [req EXCEPT ![q] = None]
      /\ data' = [data EXCEPT ![k] = Zero] /\ wrong' = [wrong EXCEPT ![k] = 0]
  BY <1>1, Limits DEF LoginInv, TypeOK, Succeed
<1>3. /\ Zero \in Attempt /\ Zero.failures = 0 /\ Zero.blockedUntil = 0 /\ Zero.lastSeen = 0
  BY Limits DEF Zero, Attempt
<1>4. /\ data'[k] = Zero /\ wrong'[k] = 0
      /\ \A j \in Key \ {k} : data'[j] = data[j] /\ wrong'[j] = wrong[j]
  BY <1>2 DEF TypeOK
<1>5. TypeOK'
  BY <1>2, <1>3 DEF TypeOK
<1>6. Settled'
  BY <1>2, <1>3, <1>4, Limits DEF LoginInv, Settled
<1>7. Guesses'
  <2>1. \A j \in Key \ {k} : Pending(j)' = Pending(j)
    BY <1>1, <1>2, Answered
  <2>2. \A j \in Key : InCooldown(data[j])' <=> InCooldown(data'[j])
    BY <1>2 DEF InCooldown
  <2>3. ~InCooldown(data'[k])
    BY <1>2, <1>3, <1>4 DEF InCooldown
  <2>4. Requests' = Requests
    BY DEF Requests
  <2> QED
    BY <1>3, <1>4, <2>1, <2>2, <2>3, <2>4, Limits DEF LoginInv, Guesses
<1>8. AboveCapacityIsYoung'
  BY <1>4, YoungKept DEF LoginInv, Stored
<1> QED
  BY <1>5, <1>6, <1>7, <1>8 DEF LoginInv

\* Nothing is stored, neither at the start nor after a restart.
LEMMA EmptyInv == now \in 1..MaxTime /\ LoginInit => LoginInv
<1> SUFFICES ASSUME now \in 1..MaxTime, LoginInit PROVE LoginInv
  OBVIOUS
<1>1. /\ Zero \in Attempt /\ Zero.failures = 0 /\ Zero.blockedUntil = 0 /\ Zero.lastSeen = 0
  BY Limits DEF Zero, Attempt
<1>2. now \in Nat
  BY Limits
<1>3. TypeOK /\ Settled
  BY <1>1, <1>2, Limits DEF LoginInit, TypeOK, Settled
<1>4. Guesses
  BY <1>1, <1>2, Limits DEF LoginInit, Guesses, InCooldown
<1>5. Stored(data) = {}
  BY DEF LoginInit, Stored
<1>6. AboveCapacityIsYoung
  BY <1>5 DEF AboveCapacityIsYoung
<1> QED
  BY <1>3, <1>4, <1>6 DEF LoginInv

\* Time passes: a cooldown that ends leaves at most its late guesses behind.
LEMMA LoginTick ==
  ASSUME LoginInv, Advance, UNCHANGED loginVars
  PROVE  LoginInv'
<1>1. /\ now \in Nat /\ now' = now + 1 /\ now' \in 1..MaxTime
      /\ UNCHANGED <<data, req, wrong>>
  BY Limits DEF LoginInv, TypeOK, Advance, loginVars
<1>2. TypeOK' /\ AboveCapacityIsYoung'
  BY <1>1 DEF LoginInv, TypeOK, AboveCapacityIsYoung, Stored
<1>3. Settled'
  <2>1. \A k \in Key : data[k].lastSeen \in Nat
    BY DEF LoginInv, TypeOK, Attempt
  <2> QED
    BY <1>1, <2>1 DEF LoginInv, Settled
<1>4. Guesses'
  <2>1. ASSUME NEW k \in Key
        PROVE  IF data[k].blockedUntil > now + 1
               THEN wrong[k] + Cardinality(Pending(k)) <= Requests - 1
               ELSE wrong[k] <= data[k].failures + (Requests - 1)
    <3>1. /\ wrong[k] \in Nat /\ data[k].failures \in Nat /\ data[k].blockedUntil \in Nat
          /\ Cardinality(Pending(k)) \in Nat
      BY PendingCount, Limits DEF LoginInv, TypeOK, Attempt
    <3> QED
      BY <1>1, <3>1, Limits DEF LoginInv, Guesses, InCooldown
  <2>2. Requests' = Requests /\ \A k \in Key : Pending(k)' = Pending(k)
    BY <1>1 DEF Requests, Pending
  <2> QED
    BY <1>1, <2>1, <2>2 DEF Guesses, InCooldown
<1> QED
  BY <1>2, <1>3, <1>4 DEF LoginInv

LEMMA LoginInvAlways == LoginSpec => []LoginInv
<1>1. ClockInit /\ LoginInit => LoginInv
  BY EmptyInv, Limits DEF ClockInit
<1>2. ASSUME LoginInv, Restart PROVE LoginInv'
  <2>1. (now \in 1..MaxTime /\ LoginInit)'
    BY <1>2 DEF Restart, LoginInit, LoginInv, TypeOK
  <2> QED
    BY <2>1, EmptyInv, PTL
<1>3. ASSUME LoginInv, UNCHANGED <<now, loginVars>> PROVE LoginInv'
  BY <1>3 DEF LoginInv, loginVars, TypeOK, Settled, Guesses, InCooldown, Pending, Requests,
              AboveCapacityIsYoung, Stored
<1>4. LoginInv /\ [LoginNext \/ (Advance /\ UNCHANGED loginVars)]_<<now, loginVars>> => LoginInv'
  BY <1>2, <1>3, StartStep, FailLateStep, FailCountedStep, SucceedStep, LoginTick
  DEF LoginNext
<1> QED
  BY <1>1, <1>4, PTL DEF LoginSpec

\* The attempts of loginAttempts stay well formed, and the clock in its bounds.
THEOREM TypeCorrect == LoginSpec => []TypeOK
BY LoginInvAlways, PTL DEF LoginInv

(***************************************************************************)
(* Between two cooldowns of a key at most Max - 1 wrong passwords are      *)
(* tried, plus one for each other request that passed blocked() before the *)
(* first cooldown: however logins, failures, prunes and restarts           *)
(* interleave.                                                             *)
(***************************************************************************)
THEOREM GuessingBounded == LoginSpec => []GuessesBounded
<1>1. LoginInv => GuessesBounded
  <2> SUFFICES ASSUME LoginInv, NEW k \in Key
               PROVE  wrong[k] <= (Max - 1) + (Requests - 1)
    BY DEF GuessesBounded, Requests
  <2>1. /\ wrong[k] \in Nat /\ data[k].failures \in Nat /\ data[k].failures < Max
        /\ Cardinality(Pending(k)) \in Nat
    BY PendingCount DEF LoginInv, TypeOK, Attempt, Settled
  <2>2. \/ wrong[k] + Cardinality(Pending(k)) <= Requests - 1
        \/ wrong[k] <= data[k].failures + (Requests - 1)
    BY DEF LoginInv, Guesses
  <2> QED
    BY <2>1, <2>2, Limits
<1> QED
  BY <1>1, LoginInvAlways, PTL

(***************************************************************************)
(* When prune leaves more than Capacity keys, each of them is young        *)
(* compared with every other, or was in its cooldown when the other failed.*)
(***************************************************************************)
THEOREM CapacityIsYoung == LoginSpec => []AboveCapacityIsYoung
BY LoginInvAlways, PTL DEF LoginInv

(***************************************************************************)
(* failed, prune and the requests of other keys leave a running cooldown   *)
(* alone: only a success that was under way, or a restart, ends it early.  *)
(***************************************************************************)
THEOREM CooldownsFixed == LoginSpec => CooldownFixed
<1> DEFINE Fixed == \A k \in Key : InCooldown(data[k]) =>
                      \/ data'[k] = data[k]
                      \/ \E q \in Request : req[q] = k /\ Succeed(q)
                      \/ Restart
<1>1. ASSUME LoginInv, LoginNext PROVE Fixed
  <2> SUFFICES ASSUME NEW k \in Key, InCooldown(data[k]), ~Restart
               PROVE  data'[k] = data[k] \/ \E q \in Request : req[q] = k /\ Succeed(q)
    OBVIOUS
  <2>1. ASSUME NEW q \in Request, NEW j \in Key, StartLogin(q, j) PROVE data'[k] = data[k]
    BY <1>1, <2>1 DEF StartLogin, LoginInv, TypeOK
  <2>2. ASSUME NEW q \in Request, FailLate(q) PROVE data'[k] = data[k]
    BY <2>2 DEF FailLate
  <2>3. ASSUME NEW q \in Request, FailCounted(q) PROVE data'[k] = data[k]
    <3>1. PICK j \in Key : req[q] = j /\ j # k
      BY <1>1, <2>3 DEF FailCounted, LoginInv, TypeOK
    <3> QED
      BY <1>1, <2>3, <3>1, FailCountedMap
  <2>4. ASSUME NEW q \in Request, Succeed(q), req[q] # k PROVE data'[k] = data[k]
    BY <1>1, <2>4 DEF Succeed, LoginInv, TypeOK
  <2> QED
    BY <1>1, <2>1, <2>2, <2>3, <2>4 DEF LoginNext
<1>2. LoginInv /\ [LoginNext \/ (Advance /\ UNCHANGED loginVars)]_<<now, loginVars>>
        => [Fixed]_loginVars
  BY <1>1 DEF loginVars
<1> QED
  BY <1>2, LoginInvAlways, PTL DEF LoginSpec, CooldownFixed
=============================================================================
