------------------------------ MODULE Limiter ------------------------------
(***************************************************************************)
(* The fixed-window limiter of internal/api/ratelimit.go (terminalLimit    *)
(* and passwordLimit of the server): allow runs under its mutex and counts *)
(* every call, also the ones it refuses.                                   *)
(***************************************************************************)
EXTENDS Clock, FiniteSets

CONSTANTS User,     \* the keys: terminalLimit and passwordLimit use user ids
          Calls,    \* calls a window allows (10 terminals, 5 passwords)
          Window,   \* its length (1 min, 10 min)
          Buckets,  \* keys above which expired buckets are dropped (10000)
          MaxCount  \* bound: counts from here on, all refused, are alike

ASSUME WindowAssumption == Calls \in Nat \ {0} /\ Window \in Nat \ {0}
ASSUME BucketAssumption == Buckets \in Nat /\ MaxCount \in Nat /\ MaxCount > Calls

VARIABLES bucket, \* the map; a key that is not in it has the zero bucket
          granted \* history: calls allowed for a key up to each instant

limiterVars == <<bucket, granted>>

Time == 0..MaxTime

ZeroBucket == [count |-> 0, reset |-> 0]

LimiterInit ==
  /\ bucket = [k \in User |-> ZeroBucket]
  /\ granted = [k \in User |-> [t \in Time |-> 0]]

-----------------------------------------------------------------------------
\* Mutant of Lapsed: the last instant of a window counts as over.
LapsedEarly(b) == now >= b.reset

\* n.After(b.reset): the window is over.
Lapsed(b) == now > b.reset

\* Mutant of CountedCall: every call moves the window.
CountedCallSliding(b) ==
  [count |-> IF Lapsed(b) THEN 1 ELSE IF b.count < MaxCount THEN b.count + 1 ELSE b.count,
   reset |-> now + Window]

\* The bucket of a key after the call was counted.
CountedCall(b) ==
  LET open == IF Lapsed(b) THEN [count |-> 0, reset |-> now + Window] ELSE b
  IN  [open EXCEPT !.count = IF @ < MaxCount THEN @ + 1 ELSE @]

\* Above the capacity every bucket whose window is over is dropped.
Swept(d) ==
  IF Cardinality({k \in User : d[k] # ZeroBucket}) <= Buckets THEN d
  ELSE [k \in User |-> IF Lapsed(d[k]) THEN ZeroBucket ELSE d[k]]

Allow(k) ==
  /\ bucket' = Swept([bucket EXCEPT ![k] = CountedCall(@)])
  /\ granted' = IF CountedCall(bucket[k]).count <= Calls
                THEN [granted EXCEPT ![k] = [t \in Time |-> IF t >= now THEN @[t] + 1 ELSE @[t]]]
                ELSE granted
  /\ UNCHANGED now

LimiterNext == \E k \in User : Allow(k)

LimiterSpec ==
  /\ ClockInit /\ LimiterInit
  /\ [][LimiterNext \/ (Advance /\ UNCHANGED limiterVars)]_<<now, limiterVars>>

-----------------------------------------------------------------------------
(***************************************************************************)
(* A fixed window lets a burst through on each side of its border.  Any    *)
(* span as long as a window meets at most two of them, and misses the call *)
(* that opened the first: 2 * Calls - 1 is the exact bound, also when      *)
(* buckets are dropped at the capacity in between.                         *)
(***************************************************************************)
BurstBounded ==
  \A k \in User : \A t \in 1..(MaxTime - Window) :
    granted[k][t + Window] - granted[k][t - 1] <= 2 * Calls - 1

(***************************************************************************)
(* Refused calls are counted but never move the end of the window, and no  *)
(* sweep drops a window that is open: a caller who is refused is served    *)
(* again one window after its first call, however often it retries.        *)
(***************************************************************************)
WindowFixed ==
  [][\A k \in User : ~Lapsed(bucket[k]) =>
       bucket'[k].reset = bucket[k].reset /\ bucket'[k].count >= bucket[k].count]_limiterVars
=============================================================================
