-------------------------- MODULE AuditTrailProofs --------------------------
(***************************************************************************)
(* The order of two timestamp texts is that of their seconds, whatever the *)
(* rest looks like (TextOrder).  With that, what AuditTrail says of expiry *)
(* and retention follows from the invariant that every text stored is that *)
(* of the instant its history variable names.                              *)
(***************************************************************************)
EXTENDS AuditTrail, FiniteSetTheorems, WellFoundedInduction, TLAPS

\* A second has at least one instant.
LEMMA SecondPositive == Second \in Nat \ {0}
BY FractionAssumption, PowerAssumption DEF Second

\* Instants whose seconds are ordered differ by what the order allows.
LEMMA DivisionOrder ==
  ASSUME NEW n \in Nat \ {0}, NEW a \in Nat, NEW b \in Nat
  PROVE  /\ a \div n <= b \div n => a < b + n
         /\ ~(a \div n < b \div n) => a > b - n
OBVIOUS

\* A non-empty set of naturals has a least element.
LEMMA LeastNatural ==
  ASSUME NEW T \in SUBSET Nat, T # {}
  PROVE  \E x \in T : \A y \in T : x <= y
<1> DEFINE R == {ss \in Nat \X Nat : ss[1] < ss[2]}
<1>1. IsWellFoundedOn(R, Nat)
  BY NatLessThanWellFounded, Zenon DEF OpToRel
<1>2. \A x, y \in Nat : <<y, x>> \in R <=> y < x
  OBVIOUS
<1> HIDE DEF R
<1>3. PICK x \in T : \A y \in T : ~ (<<y, x>> \in R)
  BY <1>1, WFMin, Zenon
<1>4. \A y \in T : ~(y < x)
  BY <1>2, <1>3, Zenon
<1>5. \A y \in T : x <= y
  BY <1>4
<1> QED BY <1>5

\* A digit is a number.
LEMMA DigitType ==
  ASSUME NEW t \in Nat, NEW i \in 1 .. Places
  PROVE  Digit(t, i) \in Int
<1>1. Places - i \in 0 .. Places
  BY FractionAssumption
<1>2. Base ^ (Places - i) \in Nat \ {0}
  BY <1>1, PowerAssumption
<1> QED BY <1>2, FractionAssumption DEF Digit

\* The number of significant digits is well defined.
LEMMA SignificantType ==
  ASSUME NEW t \in Nat
  PROVE  Significant(t) \in 0 .. Places
<1> DEFINE T == {n \in 0 .. Places : \A i \in n + 1 .. Places : Digit(t, i) = 0}
<1>1. T \in SUBSET Nat /\ Places \in T
  BY FractionAssumption
<1>2. PICK n \in T : \A m \in T : n <= m
  BY <1>1, LeastNatural
<1>3. n = 0 \/ Digit(t, n) # 0
  <2> SUFFICES ASSUME n # 0, Digit(t, n) = 0 PROVE FALSE
    OBVIOUS
  <2>1. n - 1 \in 0 .. Places
    BY FractionAssumption
  <2>2. \A i \in n .. Places : i = n \/ i \in n + 1 .. Places
    BY FractionAssumption
  <2>3. n - 1 \in T
    BY <2>1, <2>2
  <2> QED BY <2>3, <1>1, <1>2
<1> QED BY <1>3 DEF Significant

\* A text is a sequence of codes that begins with the second.
LEMMA TextHead ==
  ASSUME NEW t \in Nat
  PROVE  /\ Text(t) \in Seq(Int)
         /\ 1 \in DOMAIN Text(t)
         /\ Text(t)[1] = t \div Second
         /\ t \div Second \in Int
<1>1. t \div Second \in Int
  BY SecondPositive
<1>2. Fraction(t) \in Seq(Int)
  <2> DEFINE ds == [i \in 1 .. Significant(t) |-> Digit(t, i)]
  <2>1. \A i \in 1 .. Significant(t) : Digit(t, i) \in Int
    BY SignificantType, DigitType, FractionAssumption
  <2>2. Significant(t) \in Nat
    BY SignificantType, FractionAssumption
  <2>3. ds \in Seq(Int)
    BY <2>1, <2>2
  <2> QED BY <2>3 DEF Fraction, Dot
<1>3. Zulu \in Int
  BY FractionAssumption DEF Zulu
<1> QED BY <1>1, <1>2, <1>3 DEF Text

\* Comparing texts is comparing instants up to one second.
LEMMA TextOrder ==
  ASSUME NEW a \in Nat, NEW b \in Nat
  PROVE  /\ TextLess(Text(a), Text(b)) => a < b + Second
         /\ ~TextLess(Text(a), Text(b)) => a > b - Second
<1>1. TextLess(Text(a), Text(b)) => a \div Second <= b \div Second
  <2> SUFFICES ASSUME NEW i \in DOMAIN Text(a) \cap DOMAIN Text(b),
                      Text(a)[i] < Text(b)[i],
                      \A j \in 1 .. i - 1 : Text(a)[j] = Text(b)[j]
               PROVE  a \div Second <= b \div Second
    BY DEF TextLess
  <2>1. i \in Nat \ {0}
    <3>1. Text(a) \in Seq(Int)
      BY TextHead
    <3>2. DOMAIN Text(a) = 1 .. Len(Text(a)) /\ Len(Text(a)) \in Nat
      BY <3>1
    <3> QED BY <3>2
  <2>2. CASE i = 1
    BY <2>2, TextHead
  <2>3. CASE i # 1
    <3>1. 1 \in 1 .. i - 1
      BY <2>1, <2>3
    <3>2. a \div Second = b \div Second
      BY <3>1, TextHead
    <3> QED BY <3>2, SecondPositive
  <2> QED BY <2>2, <2>3
<1>2. a \div Second < b \div Second => TextLess(Text(a), Text(b))
  <2> HAVE a \div Second < b \div Second
  <2>1. 1 \in DOMAIN Text(a) \cap DOMAIN Text(b) /\ Text(a)[1] < Text(b)[1]
    BY TextHead
  <2>2. \A j \in 1 .. 1 - 1 : Text(a)[j] = Text(b)[j]
    OBVIOUS
  <2> QED BY <2>1, <2>2 DEF TextLess
<1> QED BY <1>1, <1>2, DivisionOrder, SecondPositive

-----------------------------------------------------------------------------
\* Every text in the tables is that of the instant the history names.
StampsTrue ==
  /\ \A e \in Event : taken[e] # 0 => stamp[e] = Text(taken[e])
  /\ \A e \in trail : taken[e] # 0
  /\ \A w \in Writer : writer[w].pc = "insert" =>
       writer[w].event \in Event /\ taken[writer[w].event] # 0
  /\ \A g \in Grant : due[g] # 0 => expires[g] = Text(due[g])

SizeOK == IsFiniteSet(trail) /\ TrailBounded

\* The expiry property, from the invariant.
LEMMA ExpiryOfInv ==
  ASSUME TrailTypeOK, StampsTrue
  PROVE  ExpiryWithinSecond
<1> SUFFICES ASSUME NEW g \in Grant, due[g] # 0
             PROVE  /\ Accepted(g) => now < due[g] + Second
                    /\ ~Accepted(g) => now > due[g] - Second
  BY DEF ExpiryWithinSecond
<1>1. now \in Nat /\ due[g] \in Nat
  BY TimeAssumption DEF TrailTypeOK
<1>2. expires[g] = Text(due[g])
  BY DEF StampsTrue
<1> QED BY <1>1, <1>2, TextOrder DEF Accepted

\* An action that stamps event e with the present time.
LEMMA StampStep ==
  ASSUME TrailTypeOK, StampsTrue, NEW e \in Event, Stamp(e)
  PROVE  /\ stamp' \in [Event -> Seq(Int)] /\ taken' \in [Event -> Nat]
         /\ taken'[e] # 0
         /\ \A f \in Event : taken'[f] # 0 => stamp'[f] = Text(taken'[f])
         /\ \A f \in Event : taken[f] # 0 => taken'[f] # 0
<1>1. now \in Nat \ {0}
  BY TimeAssumption DEF TrailTypeOK
<1>2. Text(now) \in Seq(Int)
  BY <1>1, TextHead
<1> QED BY <1>1, <1>2 DEF Stamp, TrailTypeOK, StampsTrue

\* The invariant holds initially.
LEMMA InitInv == TrailInit => TrailTypeOK /\ StampsTrue /\ SizeOK
<1> SUFFICES ASSUME TrailInit PROVE TrailTypeOK /\ StampsTrue /\ SizeOK
  OBVIOUS
<1>1. TrailTypeOK
  BY TimeAssumption DEF TrailInit, ClockInit, TrailTypeOK, Idle
<1>2. StampsTrue
  BY DEF TrailInit, StampsTrue, Idle
<1>3. Inserted = {}
  BY DEF TrailInit, Inserted, Idle
<1>4. SizeOK
  BY <1>3, FS_EmptySet, TrailAssumption DEF TrailInit, SizeOK, TrailBounded
<1> QED BY <1>1, <1>2, <1>4

\* Every action keeps the types and the texts true to their instants.
LEMMA TypeStep == TrailTypeOK /\ StampsTrue /\ [TrailNext]_trailVars => TrailTypeOK' /\ StampsTrue'
<1> SUFFICES ASSUME TrailTypeOK, StampsTrue, [TrailNext]_trailVars PROVE TrailTypeOK' /\ StampsTrue'
  OBVIOUS
<1>1. ASSUME NEW w \in Writer, NEW e \in Event, BeginAudit(w, e)
      PROVE  TrailTypeOK' /\ StampsTrue'
  <2>1. Stamp(e)
    BY <1>1 DEF BeginAudit
  <2>2. TrailTypeOK'
    BY <1>1, <2>1, StampStep DEF BeginAudit, TrailTypeOK
  <2>3. StampsTrue'
    BY <1>1, <2>1, StampStep DEF BeginAudit, TrailTypeOK, StampsTrue
  <2> QED BY <2>2, <2>3
<1>2. ASSUME NEW w \in Writer,
             Insert(w) \/ InsertFails(w) \/ TrimFails(w)
      PROVE  TrailTypeOK' /\ StampsTrue'
  <2>1. CASE Insert(w)
    <3>1. writer[w].event \in Event /\ taken[writer[w].event] # 0
      BY <2>1 DEF Insert, StampsTrue
    <3>2. TrailTypeOK'
      BY <2>1, <3>1 DEF Insert, TrailTypeOK
    <3>3. StampsTrue'
      BY <2>1, <3>1 DEF Insert, TrailTypeOK, StampsTrue
    <3> QED BY <3>2, <3>3
  <2>2. CASE InsertFails(w) \/ TrimFails(w)
    <3>1. /\ writer' = [writer EXCEPT ![w] = Idle]
          /\ loose' \in Nat
          /\ UNCHANGED <<now, trail, stamp, taken, expires, due>>
      BY <2>2 DEF InsertFails, TrimFails, TrailTypeOK
    <3>2. TrailTypeOK'
      BY <3>1 DEF TrailTypeOK, Idle
    <3>3. StampsTrue'
      BY <3>1 DEF TrailTypeOK, StampsTrue, Idle
    <3> QED BY <3>2, <3>3
  <2> QED BY <1>2, <2>1, <2>2
<1>3. ASSUME NEW w \in Writer, Trim(w)
      PROVE  TrailTypeOK' /\ StampsTrue'
  <2>1. trail' \subseteq trail
    BY <1>3 DEF Trim, Newest
  <2>2. TrailTypeOK'
    BY <1>3, <2>1 DEF Trim, TrailTypeOK, Idle
  <2>3. StampsTrue'
    BY <1>3, <2>1 DEF Trim, TrailTypeOK, StampsTrue, Idle
  <2> QED BY <2>2, <2>3
<1>4. ASSUME NEW e \in Event, RecoverPassword(e)
      PROVE  TrailTypeOK' /\ StampsTrue'
  <2>1. Stamp(e)
    BY <1>4 DEF RecoverPassword
  <2>2. TrailTypeOK'
    BY <1>4, <2>1, StampStep DEF RecoverPassword, TrailTypeOK
  <2>3. StampsTrue'
    BY <1>4, <2>1, StampStep DEF RecoverPassword, TrailTypeOK, StampsTrue
  <2> QED BY <2>2, <2>3
<1>5. CASE Stop
  <2>1. IsFiniteSet(Inserted) /\ Cardinality(Inserted) \in Nat
    BY WriterAssumption, FS_Subset, FS_CardinalityType DEF Inserted
  <2>2. TrailTypeOK'
    BY <1>5, <2>1 DEF Stop, TrailTypeOK, Idle
  <2>3. StampsTrue'
    BY <1>5 DEF Stop, TrailTypeOK, StampsTrue, Idle
  <2> QED BY <2>2, <2>3
<1>6. ASSUME NEW g \in Grant, CreateGrant(g)
      PROVE  TrailTypeOK' /\ StampsTrue'
  <2>1. now \in Nat /\ now + TTL \in Nat
    BY TimeAssumption, TrailAssumption DEF TrailTypeOK
  <2>2. Text(now + TTL) \in Seq(Int)
    BY <2>1, TextHead
  <2>3. TrailTypeOK'
    BY <1>6, <2>1, <2>2 DEF CreateGrant, ExpiresAt, auditVars, TrailTypeOK
  <2>4. StampsTrue'
    BY <1>6, <2>1 DEF CreateGrant, ExpiresAt, auditVars, TrailTypeOK, StampsTrue
  <2> QED BY <2>3, <2>4
<1>7. CASE TrailTick
  <2>1. TrailTypeOK'
    BY <1>7, TimeAssumption DEF TrailTick, Advance, auditVars, TrailTypeOK
  <2>2. StampsTrue'
    BY <1>7 DEF TrailTick, Advance, auditVars, StampsTrue
  <2> QED BY <2>1, <2>2
<1>8. CASE UNCHANGED trailVars
  <2>1. TrailTypeOK'
    BY <1>8 DEF trailVars, auditVars, TrailTypeOK
  <2>2. StampsTrue'
    BY <1>8 DEF trailVars, auditVars, StampsTrue
  <2> QED BY <2>1, <2>2
<1> QED BY <1>1, <1>2, <1>3, <1>4, <1>5, <1>6, <1>7, <1>8 DEF TrailNext

\* Every action keeps the size of the trail within its bound.
LEMMA SizeStep == TrailTypeOK /\ SizeOK /\ [TrailNext]_trailVars => SizeOK'
<1> SUFFICES ASSUME TrailTypeOK, SizeOK, [TrailNext]_trailVars PROVE SizeOK'
  OBVIOUS
<1> DEFINE T == Cardinality(trail)  I == Cardinality(Inserted)
<1>1. IsFiniteSet(trail) /\ T \in Nat
  BY FS_CardinalityType DEF SizeOK
<1>2. IsFiniteSet(Inserted) /\ I \in Nat
  BY WriterAssumption, FS_Subset, FS_CardinalityType DEF Inserted
<1>3. IsFiniteSet(Inserted') /\ Cardinality(Inserted') \in Nat
  <2>1. Inserted' \subseteq Writer
    BY DEF Inserted
  <2> QED BY <2>1, WriterAssumption, FS_Subset, FS_CardinalityType
<1>4. T <= Keep + I + loose /\ loose \in Nat /\ Keep \in Nat
  BY TrailAssumption DEF SizeOK, TrailBounded, TrailTypeOK
<1>5. ASSUME NEW w \in Writer, NEW e \in Event, BeginAudit(w, e)
      PROVE  SizeOK'
  <2>1. Inserted' = Inserted
    BY <1>5 DEF BeginAudit, Inserted, TrailTypeOK, Idle
  <2> QED BY <1>1, <1>4, <1>5, <2>1 DEF BeginAudit, SizeOK, TrailBounded
<1>6. ASSUME NEW w \in Writer, Insert(w)
      PROVE  SizeOK'
  <2> DEFINE e == writer[w].event
  <2>1. Inserted' = Inserted \cup {w} /\ w \notin Inserted
    BY <1>6 DEF Insert, Inserted, TrailTypeOK
  <2>2. Cardinality(Inserted') = I + 1
    BY <1>2, <2>1, FS_AddElement
  <2>3. trail' = trail \cup {e}
    BY <1>6 DEF Insert
  <2>4. IsFiniteSet(trail') /\ (Cardinality(trail') = T \/ Cardinality(trail') = T + 1)
    BY <1>1, <2>3, FS_AddElement
  <2>5. loose' = loose
    BY <1>6 DEF Insert
  <2> QED BY <1>1, <1>2, <1>4, <2>2, <2>4, <2>5 DEF SizeOK, TrailBounded
<1>7. ASSUME NEW w \in Writer, InsertFails(w)
      PROVE  SizeOK'
  <2>1. Inserted' = Inserted
    BY <1>7 DEF InsertFails, Inserted, TrailTypeOK, Idle
  <2> QED BY <1>1, <1>4, <1>7, <2>1 DEF InsertFails, SizeOK, TrailBounded
<1>8. ASSUME NEW w \in Writer, Trim(w)
      PROVE  SizeOK'
  <2>1. trail' \subseteq trail /\ Cardinality(trail') <= Keep
    BY <1>1, <1>4, <1>8 DEF Trim, Newest
  <2>2. IsFiniteSet(trail') /\ Cardinality(trail') \in Nat
    BY <1>1, <2>1, FS_Subset, FS_CardinalityType
  <2>3. loose' = 0
    BY <1>8 DEF Trim
  <2> QED BY <1>3, <1>4, <2>1, <2>2, <2>3 DEF SizeOK, TrailBounded
<1>9. ASSUME NEW w \in Writer, TrimFails(w)
      PROVE  SizeOK'
  <2>1. Inserted' = Inserted \ {w} /\ w \in Inserted
    BY <1>9 DEF TrimFails, Inserted, TrailTypeOK, Idle
  <2>2. Cardinality(Inserted') = I - 1
    BY <1>2, <2>1, FS_RemoveElement
  <2>3. trail' = trail /\ loose' = loose + 1
    BY <1>9 DEF TrimFails
  <2> QED BY <1>1, <1>2, <1>4, <2>2, <2>3 DEF SizeOK, TrailBounded
<1>10. ASSUME NEW e \in Event, RecoverPassword(e)
       PROVE  SizeOK'
  <2>1. Inserted' = Inserted /\ trail' = trail \cup {e} /\ loose' = loose + 1
    BY <1>10 DEF RecoverPassword, Inserted
  <2>2. IsFiniteSet(trail') /\ (Cardinality(trail') = T \/ Cardinality(trail') = T + 1)
    BY <1>1, <2>1, FS_AddElement
  <2> QED BY <1>1, <1>2, <1>4, <2>1, <2>2 DEF SizeOK, TrailBounded
<1>11. CASE Stop
  <2>1. trail' = trail /\ loose' = loose + I
    BY <1>11 DEF Stop
  <2> QED BY <1>1, <1>2, <1>3, <1>4, <2>1 DEF SizeOK, TrailBounded
<1>12. ASSUME UNCHANGED auditVars
       PROVE  SizeOK'
  <2>1. Inserted' = Inserted
    BY <1>12 DEF auditVars, Inserted
  <2> QED BY <1>1, <1>4, <1>12, <2>1 DEF auditVars, SizeOK, TrailBounded
<1>13. (\E g \in Grant : CreateGrant(g)) \/ TrailTick \/ UNCHANGED trailVars => UNCHANGED auditVars
  BY DEF CreateGrant, TrailTick, trailVars
<1> QED
  BY <1>5, <1>6, <1>7, <1>8, <1>9, <1>10, <1>11, <1>12, <1>13 DEF TrailNext

\* What a trim deletes is less than a second younger than what it keeps.
LEMMA RetentionStep ==
  TrailTypeOK /\ StampsTrue /\ [TrailNext]_trailVars =>
    \A d \in trail \ trail', k \in trail' : taken[d] < taken[k] + Second
<1> SUFFICES ASSUME TrailTypeOK, StampsTrue, [TrailNext]_trailVars,
                    NEW d \in trail \ trail', NEW k \in trail'
             PROVE  taken[d] < taken[k] + Second
  OBVIOUS
<1>1. PICK w \in Writer : Trim(w)
  BY DEF TrailNext, BeginAudit, Insert, InsertFails, TrimFails, RecoverPassword,
         Stop, CreateGrant, TrailTick, auditVars, trailVars
<1>2. trail' \subseteq trail /\ k \in trail /\ ~TextLess(stamp[k], stamp[d])
  BY <1>1 DEF Trim, Newest
<1>3. /\ stamp[k] = Text(taken[k]) /\ stamp[d] = Text(taken[d])
      /\ taken[k] \in Nat /\ taken[d] \in Nat
  BY <1>2 DEF TrailTypeOK, StampsTrue
<1>4. taken[k] > taken[d] - Second
  BY <1>2, <1>3, TextOrder
<1> QED BY <1>3, <1>4, SecondPositive

-----------------------------------------------------------------------------
(***************************************************************************)
(* The types of the tables and of the calls of Audit.                      *)
(***************************************************************************)
THEOREM TypeCorrect == TrailSpec => []TrailTypeOK
<1>1. TrailTypeOK /\ StampsTrue /\ [TrailNext]_trailVars => (TrailTypeOK /\ StampsTrue)'
  BY TypeStep
<1> QED BY <1>1, InitInv, PTL DEF TrailSpec

(***************************************************************************)
(* Whatever the radix and the number of digits of a fraction, the life of  *)
(* a session and the instants at which it is created and looked up, the    *)
(* comparison of texts in ResolveSession and GetTerminal is wrong by less  *)
(* than one second.                                                        *)
(***************************************************************************)
THEOREM ExpiryError == TrailSpec => []ExpiryWithinSecond
<1>1. TrailTypeOK /\ StampsTrue /\ [TrailNext]_trailVars => (TrailTypeOK /\ StampsTrue)'
  BY TypeStep
<1>2. TrailTypeOK /\ StampsTrue => ExpiryWithinSecond
  BY ExpiryOfInv
<1> QED BY <1>1, <1>2, InitInv, PTL DEF TrailSpec

(***************************************************************************)
(* The table of audit events exceeds its limit by no more than the inserts *)
(* whose trim is still to come or was lost, for any number of concurrent   *)
(* calls of Audit.                                                         *)
(***************************************************************************)
THEOREM TrailSize == TrailSpec => []TrailBounded
<1>1. TrailTypeOK /\ StampsTrue /\ SizeOK /\ [TrailNext]_trailVars
        => (TrailTypeOK /\ StampsTrue /\ SizeOK)'
  BY TypeStep, SizeStep
<1>2. SizeOK => TrailBounded
  BY DEF SizeOK
<1> QED BY <1>1, <1>2, InitInv, PTL DEF TrailSpec

(***************************************************************************)
(* The DELETE of Audit removes no event that is a second or more younger   *)
(* than one it keeps, in whatever order the events were inserted.          *)
(***************************************************************************)
THEOREM RetentionOrder == TrailSpec => RetentionKeepsNewest
<1>1. TrailTypeOK /\ StampsTrue /\ [TrailNext]_trailVars => (TrailTypeOK /\ StampsTrue)'
  BY TypeStep
<1>2. TrailTypeOK /\ StampsTrue /\ [TrailNext]_trailVars =>
        [\A d \in trail \ trail', k \in trail' : taken[d] < taken[k] + Second]_trailVars
  BY RetentionStep
<1> QED BY <1>1, <1>2, InitInv, PTL DEF TrailSpec, RetentionKeepsNewest
=============================================================================
