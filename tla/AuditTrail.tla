----------------------------- MODULE AuditTrail -----------------------------
(***************************************************************************)
(* The audit trail and the expiry times of internal/database/database.go:  *)
(* what is stored as a timestamp and later compared or sorted as text.     *)
(*                                                                         *)
(* Audit takes the time, inserts the event and trims the table, one        *)
(* statement at a time on a pool of one connection: two requests           *)
(* interleave between them, and either statement can fail or the server    *)
(* can stop before it.  RecoverPassword, run by a host command, inserts an *)
(* event in its own transaction and does not trim.                         *)
(***************************************************************************)
EXTENDS Timestamps, Clock, FiniteSets

CONSTANTS Event, Writer, NoEvent,
          Grant, \* sessions and terminal sessions
          Keep,  \* events that trimming leaves (100,000)
          TTL    \* life of a grant

ASSUME TrailAssumption == Keep \in Nat /\ TTL \in Nat \ {0} /\ NoEvent \notin Event
ASSUME WriterAssumption == IsFiniteSet(Writer)

VARIABLES trail,   \* table audit_events
          stamp,   \* the timestamp of each event, as text
          taken,   \* history: the instant it was formatted from, 0 if none
          writer,  \* the calls of Audit
          loose,   \* history: events inserted and never followed by a trim
          expires, \* column expires_at of each grant, as text
          due      \* history: the instant it was formatted from, 0 if none

auditVars == <<trail, stamp, taken, writer, loose>>
trailVars == <<now, auditVars, expires, due>>

Idle == [pc |-> "idle", event |-> NoEvent]

Inserted == {w \in Writer : writer[w].pc = "trim"}

TrailInit ==
  /\ ClockInit
  /\ trail = {} /\ loose = 0
  /\ stamp = [e \in Event |-> << >>] /\ taken = [e \in Event |-> 0]
  /\ writer = [w \in Writer |-> Idle]
  /\ expires = [g \in Grant |-> << >>] /\ due = [g \in Grant |-> 0]

-----------------------------------------------------------------------------
\* Mutants of Newest: it keeps one event more, or the oldest events.
NewestAndOne(S, n) ==
  IF Cardinality(S) <= n + 1 THEN {S}
  ELSE {K \in SUBSET S : Cardinality(K) = n + 1
          /\ \A k \in K, d \in S \ K : ~TextLess(stamp[k], stamp[d])}
NewestAscending(S, n) ==
  IF Cardinality(S) <= n THEN {S}
  ELSE {K \in SUBSET S : Cardinality(K) = n
          /\ \A k \in K, d \in S \ K : ~TextLess(stamp[d], stamp[k])}

\* ORDER BY timestamp DESC LIMIT n, or what LIMIT -1 OFFSET n leaves out; the
\* order of equal timestamps is SQLite's choice.
Newest(S, n) ==
  IF Cardinality(S) <= n THEN {S}
  ELSE {K \in SUBSET S : Cardinality(K) = n
          /\ \A k \in K, d \in S \ K : ~TextLess(stamp[k], stamp[d])}

Stamp(e) ==
  /\ taken[e] = 0
  /\ stamp' = [stamp EXCEPT ![e] = Text(now)]
  /\ taken' = [taken EXCEPT ![e] = now]

BeginAudit(w, e) ==
  /\ writer[w] = Idle
  /\ Stamp(e)
  /\ writer' = [writer EXCEPT ![w] = [pc |-> "insert", event |-> e]]
  /\ UNCHANGED <<now, trail, loose, expires, due>>

Insert(w) ==
  /\ writer[w].pc = "insert"
  /\ trail' = trail \cup {writer[w].event}
  /\ writer' = [writer EXCEPT ![w].pc = "trim"]
  /\ UNCHANGED <<now, stamp, taken, loose, expires, due>>

\* Server.audit only logs the error.
InsertFails(w) ==
  /\ writer[w].pc = "insert"
  /\ writer' = [writer EXCEPT ![w] = Idle]
  /\ UNCHANGED <<now, trail, stamp, taken, loose, expires, due>>

Trim(w) ==
  /\ writer[w].pc = "trim"
  /\ trail' \in Newest(trail, Keep)
  /\ writer' = [writer EXCEPT ![w] = Idle]
  /\ loose' = 0
  /\ UNCHANGED <<now, stamp, taken, expires, due>>

TrimFails(w) ==
  /\ writer[w].pc = "trim"
  /\ writer' = [writer EXCEPT ![w] = Idle]
  /\ loose' = loose + 1
  /\ UNCHANGED <<now, trail, stamp, taken, expires, due>>

\* The event of RecoverPassword, committed with the new password.
RecoverPassword(e) ==
  /\ Stamp(e)
  /\ trail' = trail \cup {e}
  /\ loose' = loose + 1
  /\ UNCHANGED <<now, writer, expires, due>>

\* The server stops; a call of Audit that was under way is lost.
Stop ==
  /\ \E w \in Writer : writer[w] # Idle
  /\ writer' = [w \in Writer |-> Idle]
  /\ loose' = loose + Cardinality(Inserted)
  /\ UNCHANGED <<now, trail, stamp, taken, expires, due>>

-----------------------------------------------------------------------------
\* Mutant of ExpiresAt: the instant is formatted in a zone ahead of UTC.
ExpiresAtLocal(t) == Text(t + TTL + 2 * Second)

\* t.Add(ttl).Format(time.RFC3339Nano)
ExpiresAt(t) == Text(t + TTL)

\* CreateSession and CreateTerminal.
CreateGrant(g) ==
  /\ due[g] = 0
  /\ expires' = [expires EXCEPT ![g] = ExpiresAt(now)]
  /\ due' = [due EXCEPT ![g] = now + TTL]
  /\ UNCHANGED <<now, auditVars>>

\* expires_at > now() of ResolveSession and GetTerminal.
Accepted(g) == TextLess(Text(now), expires[g])

TrailTick ==
  /\ Advance
  /\ UNCHANGED <<auditVars, expires, due>>

TrailNext ==
  \/ \E w \in Writer, e \in Event : BeginAudit(w, e)
  \/ \E w \in Writer :
       Insert(w) \/ InsertFails(w) \/ Trim(w) \/ TrimFails(w)
  \/ \E e \in Event : RecoverPassword(e)
  \/ Stop
  \/ \E g \in Grant : CreateGrant(g)
  \/ TrailTick

TrailSpec == TrailInit /\ [][TrailNext]_trailVars

-----------------------------------------------------------------------------
TrailTypeOK ==
  /\ now \in 1 .. MaxTime
  /\ trail \subseteq Event
  /\ stamp \in [Event -> Seq(Int)] /\ taken \in [Event -> Nat]
  /\ writer \in [Writer -> [pc: {"idle", "insert", "trim"}, event: Event \cup {NoEvent}]]
  /\ loose \in Nat
  /\ expires \in [Grant -> Seq(Int)] /\ due \in [Grant -> Nat]

(***************************************************************************)
(* ResolveSession and GetTerminal compare texts whose order within a       *)
(* second is not that of time: a session can be refused and accepted again *)
(* before it ends.  Whatever the instants, the error stays below one       *)
(* second in both directions.                                              *)
(***************************************************************************)
ExpiryWithinSecond ==
  \A g \in Grant : due[g] # 0 =>
    /\ Accepted(g) => now < due[g] + Second
    /\ ~Accepted(g) => now > due[g] - Second

(***************************************************************************)
(* docs/audit.md: "SQLite retains up to 100,000 newest events".  Calls of  *)
(* Audit interleave, fail between their statements and are cut off: the    *)
(* table exceeds the limit by no more than the calls now between insert    *)
(* and trim and the inserts that were not followed by a trim, and the next *)
(* trim repairs it.                                                        *)
(***************************************************************************)
TrailBounded ==
  Cardinality(trail) <= Keep + Cardinality(Inserted) + loose

(***************************************************************************)
(* The same sentence's "newest": the trim sorts texts, and an event may    *)
(* arrive after younger ones.  No event is deleted that is a second or     *)
(* more younger than one that is kept.                                     *)
(***************************************************************************)
RetentionKeepsNewest ==
  [][\A d \in trail \ trail', k \in trail' : taken[d] < taken[k] + Second]_trailVars
=============================================================================
