--------------------------- MODULE GatewayProofs ---------------------------
(***************************************************************************)
(* Proofs about Gateway for every set of tickets, calls and containers and *)
(* every ticket life: the ticket map is bounded, tickets are single-use    *)
(* (Gateway implements TicketOffice), and a valid one is not cleaned up.   *)
(***************************************************************************)
EXTENDS Gateway, TLAPS

(***************************************************************************)
(* MapSpansOneTTL is kept by IssueTicket because an entry expires at most  *)
(* one TTL from now; the reference of a call that has inspected it is one  *)
(* Docker can resolve again.                                               *)
(***************************************************************************)
ExpiresSoon == \A t \in Ticket : InMap(t) => tickets[t].expires <= now + TTL

InspectedRef == \A c \in Call : call[c].pc = "inspected" => call[c].ref \in Ref

Inv == TypeOK /\ ExpiresSoon /\ MapSpansOneTTL /\ InspectedRef

-----------------------------------------------------------------------------
LEMMA InitInv == Init => Inv
<1> SUFFICES ASSUME Init PROVE Inv
  OBVIOUS
<1>1. TypeOK
  BY TimeAssumption DEF Init, TypeOK, NoTicket, Idle, TicketRow, CallState
<1>2. ExpiresSoon /\ MapSpansOneTTL /\ InspectedRef
  BY DEF Init, NoTicket, Idle, ExpiresSoon, MapSpansOneTTL, InspectedRef, InMap
<1> QED
  BY <1>1, <1>2 DEF Inv

\* What IssueTicket leaves of the entries that are not the new one.
LEMMA IssueRows ==
  ASSUME TypeOK, NEW c \in Call, NEW t \in Ticket, IssueTicket(c, t)
  PROVE  /\ tickets' \in [Ticket -> TicketRow]
         /\ tickets'[t] = [state |-> "held", expires |-> now + TTL,
                           ref |-> call[c].ref, container |-> call[c].container]
         /\ \A u \in Ticket \ {t} :
              /\ tickets'[u].expires = tickets[u].expires
              /\ tickets'[u].ref = tickets[u].ref
              /\ tickets'[u].container = tickets[u].container
              /\ Removable(u) => tickets'[u].state = "deleted"
              /\ ~Removable(u) => tickets'[u].state = tickets[u].state
<1>1. now + TTL \in Nat /\ call[c] \in CallState /\ \A u \in Ticket : tickets[u] \in TicketRow
  BY TimeAssumption DEF TypeOK
<1>2. tickets'[t] = [state |-> "held", expires |-> now + TTL,
                     ref |-> call[c].ref, container |-> call[c].container]
  BY DEF IssueTicket
<1>3. ASSUME NEW u \in Ticket \ {t}
      PROVE  tickets'[u] = [tickets[u] EXCEPT !.state = IF Removable(u) THEN "deleted" ELSE @]
  BY DEF IssueTicket
<1>4. tickets'[t] \in TicketRow
  BY <1>1, <1>2 DEF TicketRow, CallState
<1>5. ASSUME NEW u \in Ticket \ {t}
      PROVE  /\ tickets'[u] \in TicketRow
             /\ tickets'[u].expires = tickets[u].expires
             /\ tickets'[u].ref = tickets[u].ref
             /\ tickets'[u].container = tickets[u].container
             /\ Removable(u) => tickets'[u].state = "deleted"
             /\ ~Removable(u) => tickets'[u].state = tickets[u].state
  BY <1>1, <1>3 DEF TicketRow
<1>6. DOMAIN tickets' = Ticket /\ tickets' = [u \in Ticket |-> tickets'[u]]
  BY DEF IssueTicket
<1> QED
  BY <1>2, <1>4, <1>5, <1>6

LEMMA RestartRows ==
  ASSUME TypeOK, Restart
  PROVE  /\ tickets' \in [Ticket -> TicketRow]
         /\ \A t \in Ticket :
              /\ tickets'[t].expires = tickets[t].expires
              /\ tickets'[t].ref = tickets[t].ref
              /\ tickets'[t].container = tickets[t].container
              /\ tickets'[t].state = IF tickets[t].state = "fresh" THEN "fresh" ELSE "deleted"
  BY DEF Restart, TypeOK, TicketRow

LEMMA RedeemRows ==
  ASSUME TypeOK, NEW c \in Call, NEW t \in Ticket, Redeem(c, t)
  PROVE  /\ tickets' \in [Ticket -> TicketRow]
         /\ tickets'[t].state = "used" /\ tickets[t].state = "held"
         /\ \A u \in Ticket :
              /\ tickets'[u].expires = tickets[u].expires
              /\ tickets'[u].ref = tickets[u].ref
              /\ tickets'[u].container = tickets[u].container
              /\ u # t => tickets'[u].state = tickets[u].state
  BY DEF Redeem, Redeemable, TypeOK, TicketRow

LEMMA TypeStep == Inv /\ [Next]_vars => TypeOK'
<1> SUFFICES ASSUME Inv, [Next]_vars PROVE TypeOK'
  OBVIOUS
<1> USE DEF Inv, TypeOK
<1>1. ASSUME NEW c \in Call, NEW r \in Ref, Inspect(c, r) PROVE TypeOK'
  BY <1>1 DEF Inspect, CallState
<1>2. ASSUME NEW c \in Call, CreateExec(c) PROVE TypeOK'
  <2>1. call'[c] \in CallState
    BY <1>2 DEF CreateExec, CallState, InspectedRef
  <2> QED
    BY <1>2, <2>1 DEF CreateExec
<1>3. ASSUME NEW c \in Call, AttachExec(c) PROVE TypeOK'
  BY <1>3 DEF AttachExec, CallState
<1>4. ASSUME NEW c \in Call, EndCall(c) PROVE TypeOK'
  BY <1>4 DEF EndCall, Idle, CallState
<1>5. ASSUME NEW c \in Call, NEW t \in Ticket, IssueTicket(c, t) PROVE TypeOK'
  <2>1. tickets' \in [Ticket -> TicketRow]
    BY <1>5, IssueRows
  <2> QED
    BY <1>5, <2>1 DEF IssueTicket, Idle, CallState
<1>6. ASSUME NEW c \in Call, NEW t \in Ticket, Redeem(c, t) PROVE TypeOK'
  <2>1. tickets' \in [Ticket -> TicketRow]
    BY <1>6, RedeemRows
  <2>2. opened' \in [Ticket -> Nat]
    BY <1>6 DEF Redeem
  <2>3. call' \in [Call -> CallState]
    BY <1>6 DEF Redeem, CallState, TicketRow
  <2> QED
    BY <1>6, <2>1, <2>2, <2>3 DEF Redeem
<1>7. CASE Tick
  BY <1>7, TimeAssumption DEF Tick
<1>8. ASSUME NEW n \in Name, NEW k \in Container, Rename(n, k) PROVE TypeOK'
  BY <1>8 DEF Rename
<1>9. CASE Restart
  <2>1. tickets' \in [Ticket -> TicketRow]
    BY <1>9, RestartRows
  <2> QED
    BY <1>9, <2>1 DEF Restart, Idle, CallState
<1>10. CASE UNCHANGED vars
  BY <1>10 DEF vars
<1> QED
  BY <1>1, <1>2, <1>3, <1>4, <1>5, <1>6, <1>7, <1>8, <1>9, <1>10 DEF Next

LEMMA MapStep == Inv /\ [Next]_vars => ExpiresSoon' /\ MapSpansOneTTL'
<1> SUFFICES ASSUME Inv, [Next]_vars PROVE ExpiresSoon' /\ MapSpansOneTTL'
  OBVIOUS
<1> USE TimeAssumption DEF Inv, ExpiresSoon, MapSpansOneTTL, InMap
<1>0. now \in Nat /\ \A t \in Ticket : tickets[t].expires \in Nat
  BY DEF TypeOK, TicketRow
<1>1. ASSUME NEW c \in Call, NEW t \in Ticket, IssueTicket(c, t)
      PROVE  ExpiresSoon' /\ MapSpansOneTTL'
  <2>1. tickets'[t].expires = now + TTL /\ now' = now
    BY <1>1, IssueRows DEF IssueTicket
  <2>2. ASSUME NEW u \in Ticket \ {t}, InMap(u)'
        PROVE  /\ InMap(u) /\ tickets'[u].expires = tickets[u].expires
               /\ now <= tickets[u].expires
    <3>1. /\ tickets'[u].expires = tickets[u].expires
          /\ Removable(u) => tickets'[u].state = "deleted"
          /\ ~Removable(u) => tickets'[u].state = tickets[u].state
      BY <1>1, IssueRows
    <3> QED
      BY <1>0, <2>2, <3>1 DEF Removable, Expired
  <2> QED
    BY <1>0, <2>1, <2>2
<1>2. ASSUME NEW c \in Call, NEW t \in Ticket, Redeem(c, t)
      PROVE  ExpiresSoon' /\ MapSpansOneTTL'
  <2>1. now' = now /\ \A u \in Ticket : /\ tickets'[u].expires = tickets[u].expires
                                        /\ InMap(u)' => InMap(u)
    BY <1>2, RedeemRows DEF Redeem
  <2> QED
    BY <2>1
<1>3. CASE Tick
  BY <1>0, <1>3 DEF Tick
<1>4. CASE Restart
  <2>1. \A t \in Ticket : ~InMap(t)'
    BY <1>4, RestartRows
  <2> QED
    BY <2>1
<1> QED
  BY <1>1, <1>2, <1>3, <1>4 DEF Next, vars, Inspect, CreateExec, AttachExec, EndCall, Rename

LEMMA RefStep == Inv /\ [Next]_vars => InspectedRef'
<1> SUFFICES ASSUME Inv, [Next]_vars PROVE InspectedRef'
  OBVIOUS
<1> USE DEF Inv, TypeOK, InspectedRef
<1>1. ASSUME NEW c \in Call, NEW r \in Ref, Inspect(c, r) PROVE InspectedRef'
  BY <1>1 DEF Inspect
<1>2. ASSUME NEW c \in Call, CreateExec(c) \/ AttachExec(c) \/ EndCall(c) PROVE InspectedRef'
  <2>1. CASE CreateExec(c) \/ AttachExec(c)
    BY <2>1 DEF CreateExec, AttachExec, CallState
  <2>2. CASE EndCall(c)
    BY <2>2 DEF EndCall, Idle
  <2> QED
    BY <1>2, <2>1, <2>2
<1>3. ASSUME NEW c \in Call, NEW t \in Ticket, IssueTicket(c, t) \/ Redeem(c, t)
      PROVE  InspectedRef'
  BY <1>3 DEF IssueTicket, Redeem, Idle
<1>4. CASE Restart
  BY <1>4 DEF Restart, Idle
<1> QED
  BY <1>1, <1>2, <1>3, <1>4 DEF Next, vars, Tick, Rename

LEMMA Invariance == Spec => []Inv
<1>1. Inv /\ [Next]_vars => Inv'
  BY TypeStep, MapStep, RefStep DEF Inv
<1> QED
  BY InitInv, <1>1, PTL DEF Spec

-----------------------------------------------------------------------------
\* Every reachable state of the handler is well typed.
THEOREM TypeCorrect == Spec => []TypeOK
<1>1. Inv => TypeOK
  BY DEF Inv
<1> QED
  BY <1>1, Invariance, PTL

\* cleanupTickets on every createExec bounds the map, whatever the TTL.
THEOREM MapSpansOneTTLAlways == Spec => []MapSpansOneTTL
<1>1. Inv => MapSpansOneTTL
  BY DEF Inv
<1> QED
  BY <1>1, Invariance, PTL

-----------------------------------------------------------------------------
\* The value of the refinement mapping, before and after a step.
LEMMA MappingRows ==
  /\ OfficeState = [t \in Ticket |-> OfficeState[t]]
  /\ OfficeState' = [t \in Ticket |-> OfficeState'[t]]
  /\ \A t \in Ticket :
       /\ OfficeState[t] = IF tickets[t].state = "fresh" THEN "fresh"
                           ELSE IF Redeemable(t) THEN "valid" ELSE "spent"
       /\ OfficeState'[t] = IF tickets'[t].state = "fresh" THEN "fresh"
                            ELSE IF Redeemable(t)' THEN "valid" ELSE "spent"
  BY DEF OfficeState

\* A step that only takes validity away is a Lapse.
LEMMA LapseStep ==
  ASSUME opened' = opened,
         \A t \in Ticket :
           OfficeState'[t] = OfficeState[t] \/
           (OfficeState[t] = "valid" /\ OfficeState'[t] = "spent")
  PROVE  Office!OfficeNext
<1> DEFINE old == {t \in Ticket : OfficeState'[t] # OfficeState[t]}
<1>1. old \in SUBSET Ticket /\ \A t \in old : OfficeState[t] = "valid"
  OBVIOUS
<1>2. OfficeState' = [t \in Ticket |-> IF t \in old THEN "spent" ELSE OfficeState[t]]
  BY MappingRows
<1>3. Office!Lapse(old)
  BY <1>1, <1>2 DEF Office!Lapse
<1> QED
  BY <1>1, <1>3 DEF Office!OfficeNext

LEMMA OfficeStep == Inv /\ [Next]_vars => [Office!OfficeNext]_Office!office
<1> SUFFICES ASSUME Inv, [Next]_vars
             PROVE  Office!OfficeNext \/ UNCHANGED <<OfficeState, opened>>
  BY DEF Office!office
<1> USE DEF Inv
<1>0. \A t \in Ticket : tickets[t].expires \in Nat /\ now \in Nat
  BY DEF TypeOK, TicketRow
<1>1. ASSUME UNCHANGED <<now, tickets, opened>>
      PROVE  UNCHANGED <<OfficeState, opened>>
  BY <1>1 DEF OfficeState, Redeemable, Expired
<1>2. ASSUME NEW c \in Call, NEW t \in Ticket, IssueTicket(c, t) PROVE Office!OfficeNext
  <2>1. OfficeState[t] = "fresh"
    BY <1>2, MappingRows DEF IssueTicket
  <2>2. OfficeState'[t] = "valid"
    <3>1. tickets'[t].state = "held" /\ tickets'[t].expires = now + TTL /\ now' = now
      BY <1>2, IssueRows DEF IssueTicket
    <3>2. Redeemable(t)'
      BY <1>0, <3>1, TimeAssumption DEF Redeemable, Expired
    <3> QED
      BY <3>1, <3>2, MappingRows
  <2>3. ASSUME NEW u \in Ticket \ {t} PROVE OfficeState'[u] = OfficeState[u]
    <3>1. /\ tickets'[u].expires = tickets[u].expires /\ now' = now
          /\ Removable(u) => tickets'[u].state = "deleted"
          /\ ~Removable(u) => tickets'[u].state = tickets[u].state
      BY <1>2, IssueRows DEF IssueTicket
    <3>2. Redeemable(u)' <=> Redeemable(u)
      BY <3>1 DEF Redeemable, Removable, Expired, InMap
    <3>3. tickets'[u].state = "fresh" <=> tickets[u].state = "fresh"
      BY <3>1 DEF Removable, InMap
    <3> QED
      BY <3>2, <3>3, MappingRows
  <2>4. OfficeState' = [u \in Ticket |-> IF u = t THEN "valid"
                                         ELSE IF u \in {} THEN "spent" ELSE OfficeState[u]]
    BY <2>2, <2>3, MappingRows
  <2>5. opened' = opened
    BY <1>2 DEF IssueTicket
  <2>6. Office!IssueOne(t)
    <3>1. {} \in SUBSET {u \in Ticket : OfficeState[u] = "valid"}
      OBVIOUS
    <3> QED
      BY <2>1, <2>4, <2>5, <3>1 DEF Office!IssueOne
  <2> QED
    BY <2>6 DEF Office!OfficeNext
<1>3. ASSUME NEW c \in Call, NEW t \in Ticket, Redeem(c, t) PROVE Office!OfficeNext
  <2>1. OfficeState[t] = "valid"
    BY <1>3, MappingRows DEF Redeem, Redeemable
  <2>2. OfficeState'[t] = "spent"
    BY <1>3, RedeemRows, MappingRows DEF Redeemable
  <2>3. ASSUME NEW u \in Ticket \ {t} PROVE OfficeState'[u] = OfficeState[u]
    <3>1. /\ tickets'[u].expires = tickets[u].expires /\ now' = now
          /\ tickets'[u].state = tickets[u].state
      BY <1>3, RedeemRows DEF Redeem
    <3> QED
      BY <3>1, MappingRows DEF Redeemable, Expired
  <2>4. OfficeState' = [OfficeState EXCEPT ![t] = "spent"]
    BY <2>2, <2>3, MappingRows
  <2>5. Office!RedeemOne(t)
    BY <1>3, <2>1, <2>4 DEF Redeem, Office!RedeemOne
  <2> QED
    BY <2>5 DEF Office!OfficeNext
<1>4. CASE Tick
  <2>1. \A t \in Ticket : Redeemable(t)' => Redeemable(t)
    BY <1>0, <1>4 DEF Tick, Redeemable, Expired
  <2> QED
    BY <1>4, <2>1, MappingRows, LapseStep DEF Tick
<1>5. CASE Restart
  <2>1. ASSUME NEW t \in Ticket
        PROVE  /\ tickets'[t].state = "fresh" <=> tickets[t].state = "fresh"
               /\ ~Redeemable(t)'
    BY <1>5, RestartRows DEF Redeemable
  <2> QED
    BY <1>5, <2>1, MappingRows, LapseStep DEF Restart
<1> QED
  BY <1>1, <1>2, <1>3, <1>4, <1>5
  DEF Next, vars, Inspect, CreateExec, AttachExec, EndCall, Rename

(***************************************************************************)
(* The Used flag, the expiry and the clean-up under the mutex of the       *)
(* handler implement TicketOffice: tickets are single-use.                 *)
(***************************************************************************)
THEOREM GatewayImplementsOffice == Spec => ImplementsOffice
<1>1. Init => Office!OfficeInit
  BY DEF Init, NoTicket, OfficeState, Office!OfficeInit
<1> QED
  BY <1>1, OfficeStep, Invariance, PTL DEF Spec, ImplementsOffice, Office!OfficeSpec

LEMMA KeptStep ==
  Inv /\ [Next]_vars => \A t \in Ticket : (Redeemable(t) /\ ~InMap(t)') => Restart
<1> SUFFICES ASSUME Inv, [Next]_vars, NEW t \in Ticket, Redeemable(t), ~InMap(t)', ~Restart
             PROVE  FALSE
  OBVIOUS
<1> USE DEF Inv
<1>1. ASSUME NEW c \in Call, NEW u \in Ticket, IssueTicket(c, u) PROVE FALSE
  <2>1. t \in Ticket \ {u} /\ TypeOK
    BY <1>1 DEF IssueTicket, Redeemable
  <2>2. ~Removable(t) => tickets'[t].state = tickets[t].state
    BY <1>1, <2>1, IssueRows
  <2> QED
    BY <2>2 DEF Removable, Redeemable, InMap
<1>2. ASSUME NEW c \in Call, NEW u \in Ticket, Redeem(c, u) PROVE FALSE
  BY <1>2, RedeemRows DEF Redeemable, InMap
<1> QED
  BY <1>1, <1>2 DEF Next, vars, Inspect, CreateExec, AttachExec, EndCall, Rename,
                    Tick, Redeemable, InMap

\* attach and cleanupTickets agree on the instant of expiry.
THEOREM KeptUntilExpiryAlways == Spec => KeptUntilExpiry
<1>1. Inv /\ [Next]_vars =>
        [\A t \in Ticket : (Redeemable(t) /\ ~InMap(t)') => Restart]_vars
  BY KeptStep
<1> QED
  BY <1>1, Invariance, PTL DEF Spec, KeptUntilExpiry
=============================================================================
