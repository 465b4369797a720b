--------------------------- MODULE LoginThrottle ---------------------------
(***************************************************************************)
(* The login throttle of internal/api/ratelimit.go as the login handler    *)
(* of internal/api/server.go uses it.  blocked, failed and clear each run  *)
(* under the mutex; between blocked and failed (or clear) the handler      *)
(* verifies the password, which is slow, with no lock held.                *)
(*                                                                         *)
(* A key is lower(trim(username)) | client IP.                             *)
(***************************************************************************)
EXTENDS Clock, FiniteSets

CONSTANTS Key, Request,
          Max,       \* failures that start a cooldown (5)
          Cooldown,  \* its length (20 s)
          Retention, \* age at which prune may forget a key (10 min)
          Capacity,  \* keys above which prune works (10000)
          None

ASSUME LimitAssumption == Max \in Nat \ {0} /\ Cooldown \in Nat \ {0}
ASSUME PruneAssumption == Retention \in Nat /\ Capacity \in Nat
ASSUME SetAssumption ==
  /\ IsFiniteSet(Key) /\ None \notin Key
  /\ IsFiniteSet(Request) /\ Request # {}

VARIABLES data,  \* the map; a key that is not in it has the zero attempt
          req,   \* the key whose password a request is verifying, or None
          wrong  \* history: wrong passwords since the key was last cleared,
                 \* forgotten or put into a cooldown

loginVars == <<data, req, wrong>>

Attempt == [failures: 0..Max, blockedUntil: Nat, lastSeen: Nat]

Zero == [failures |-> 0, blockedUntil |-> 0, lastSeen |-> 0]

TypeOK ==
  /\ now \in 1..MaxTime
  /\ data \in [Key -> Attempt]
  /\ req \in [Request -> Key \cup {None}]
  /\ wrong \in [Key -> Nat]

LoginInit ==
  /\ data = [k \in Key |-> Zero]
  /\ req = [q \in Request |-> None]
  /\ wrong = [k \in Key |-> 0]

-----------------------------------------------------------------------------
\* attempt.blockedUntil.After(now)
InCooldown(a) == a.blockedUntil > now

Stored(d) == {k \in Key : d[k] # Zero}

\* Mutant of Pruned: the map is never pruned.
PrunedNever(d) == d

\* prune, on the map with the new attempt stored.
Pruned(d) ==
  IF Cardinality(Stored(d)) <= Capacity THEN d
  ELSE [k \in Key |-> IF ~InCooldown(d[k]) /\ now - d[k].lastSeen > Retention
                      THEN Zero ELSE d[k]]

\* Mutants of Counted: the cooldown starts one failure late, or the count is
\* not set back when a cooldown starts or is over.
CountedLate(a) ==
  LET failures == (IF a.blockedUntil # 0 THEN 0 ELSE a.failures) + 1
  IN  [failures     |-> IF failures > Max THEN 0 ELSE failures,
       blockedUntil |-> IF failures > Max THEN now + Cooldown ELSE 0,
       lastSeen     |-> now]
CountedOn(a) ==
  LET failures == a.failures + 1
  IN  [failures     |-> failures,
       blockedUntil |-> IF failures >= Max THEN now + Cooldown ELSE 0,
       lastSeen     |-> now]

\* The attempt failed() stores for a key that is not in a cooldown.
Counted(a) ==
  LET failures == (IF a.blockedUntil # 0 THEN 0 ELSE a.failures) + 1
  IN  [failures     |-> IF failures >= Max THEN 0 ELSE failures,
       blockedUntil |-> IF failures >= Max THEN now + Cooldown ELSE 0,
       lastSeen     |-> now]

-----------------------------------------------------------------------------
\* login passes blocked(): an expired cooldown is deleted.  (A key in its
\* cooldown gets 429 and nothing changes.)
StartLogin(q, k) ==
  /\ req[q] = None
  /\ ~InCooldown(data[k])
  /\ data' = IF data[k].blockedUntil # 0 THEN [data EXCEPT ![k] = Zero] ELSE data
  /\ req' = [req EXCEPT ![q] = k]
  /\ UNCHANGED <<now, wrong>>

\* Mutant of FailLate: a late failure starts the cooldown again.
FailLateRearms(q) ==
  /\ req[q] # None
  /\ InCooldown(data[req[q]])
  /\ data' = [data EXCEPT ![req[q]].blockedUntil = now + Cooldown]
  /\ wrong' = [wrong EXCEPT ![req[q]] = @ + 1]
  /\ req' = [req EXCEPT ![q] = None]
  /\ UNCHANGED now

\* Authenticate refuses, failed() finds a cooldown that began meanwhile:
\* 429, and the attempt is neither counted nor does it prolong the cooldown.
FailLate(q) ==
  /\ req[q] # None
  /\ InCooldown(data[req[q]])
  /\ wrong' = [wrong EXCEPT ![req[q]] = @ + 1]
  /\ req' = [req EXCEPT ![q] = None]
  /\ UNCHANGED <<now, data>>

\* Authenticate refuses and failed() counts: 401, or 429 with the cooldown.
FailCounted(q) ==
  /\ req[q] # None
  /\ ~InCooldown(data[req[q]])
  /\ data' = Pruned([data EXCEPT ![req[q]] = Counted(@)])
  /\ wrong' = [k \in Key |-> IF k = req[q] /\ data'[k].failures > 0 THEN wrong[k] + 1
                             ELSE IF k = req[q] \/ data'[k] # data[k] THEN 0
                             ELSE wrong[k]]
  /\ req' = [req EXCEPT ![q] = None]
  /\ UNCHANGED now

\* Authenticate accepts: clear().
Succeed(q) ==
  /\ req[q] # None
  /\ data' = [data EXCEPT ![req[q]] = Zero]
  /\ wrong' = [wrong EXCEPT ![req[q]] = 0]
  /\ req' = [req EXCEPT ![q] = None]
  /\ UNCHANGED now

\* The throttle lives in memory.
Restart ==
  /\ data' = [k \in Key |-> Zero]
  /\ req' = [q \in Request |-> None]
  /\ wrong' = [k \in Key |-> 0]
  /\ UNCHANGED now

LoginNext ==
  \/ \E q \in Request, k \in Key : StartLogin(q, k)
  \/ \E q \in Request : FailLate(q) \/ FailCounted(q) \/ Succeed(q)
  \/ Restart

LoginSpec ==
  /\ ClockInit /\ LoginInit
  /\ [][LoginNext \/ (Advance /\ UNCHANGED loginVars)]_<<now, loginVars>>

-----------------------------------------------------------------------------
(***************************************************************************)
(* docs/authentication.md: five failures trigger a cooldown.  Requests     *)
(* that passed blocked() together may all try a password, so the exact     *)
(* bound on wrong passwords between two cooldowns of a key is Max - 1,     *)
(* plus those in flight when the first cooldown began.                     *)
(***************************************************************************)
GuessesBounded ==
  \A k \in Key : wrong[k] <= (Max - 1) + (Cardinality(Request) - 1)

(***************************************************************************)
(* A running cooldown is neither prolonged by late failures nor dropped by *)
(* prune or by other keys: it ends with time, with a login that was        *)
(* already being verified and succeeds, or with the process.               *)
(***************************************************************************)
CooldownFixed ==
  [][\A k \in Key : InCooldown(data[k]) =>
       \/ data'[k] = data[k]
       \/ \E q \in Request : req[q] = k /\ Succeed(q)
       \/ Restart]_loginVars

(***************************************************************************)
(* Only prune forgets keys nobody comes back to, it works only above the   *)
(* capacity, and it never takes a key that is young or in its cooldown: a  *)
(* map above the capacity still grows.  What it then holds is as young as  *)
(* it can be: of any two keys, the older one failed within Retention of    *)
(* the newer one, or was still in its cooldown.                            *)
(***************************************************************************)
AboveCapacityIsYoung ==
  Cardinality(Stored(data)) > Capacity =>
    \A j, k \in Stored(data) :
      \/ data[j].lastSeen - data[k].lastSeen <= Retention
      \/ data[k].blockedUntil > data[j].lastSeen
=============================================================================
