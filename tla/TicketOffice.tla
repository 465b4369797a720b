---------------------------- MODULE TicketOffice ----------------------------
(***************************************************************************)
(* What the Gateway promises about exec tickets (docs/terminal.md: "issues *)
(* a 30-second single-use ticket"): a ticket is valid once, from the       *)
(* moment it is issued, until it is redeemed or stops being good; nothing  *)
(* makes a spent ticket valid again.  How long a ticket is good, and how   *)
(* the Gateway forgets tickets, is left to Gateway.                        *)
(***************************************************************************)
EXTENDS Naturals

CONSTANT Ticket

VARIABLES state,  \* "fresh" (never issued), "valid" or "spent"
          opened  \* how often each ticket was exchanged for a shell

office == <<state, opened>>

OfficeInit ==
  /\ state = [t \in Ticket |-> "fresh"]
  /\ opened = [t \in Ticket |-> 0]

\* Issuing a ticket may retire tickets that no longer are good.
IssueOne(t) ==
  /\ state[t] = "fresh"
  /\ \E old \in SUBSET {u \in Ticket : state[u] = "valid"} :
       state' = [u \in Ticket |-> IF u = t THEN "valid"
                                  ELSE IF u \in old THEN "spent" ELSE state[u]]
  /\ UNCHANGED opened

RedeemOne(t) ==
  /\ state[t] = "valid"
  /\ state' = [state EXCEPT ![t] = "spent"]
  /\ opened' = [opened EXCEPT ![t] = @ + 1]

\* Time passes, or the Gateway stops: some tickets are good no longer.
Lapse(old) ==
  /\ \A t \in old : state[t] = "valid"
  /\ state' = [t \in Ticket |-> IF t \in old THEN "spent" ELSE state[t]]
  /\ UNCHANGED opened

OfficeNext ==
  \/ \E t \in Ticket : IssueOne(t) \/ RedeemOne(t)
  \/ \E old \in SUBSET Ticket : Lapse(old)

OfficeSpec == OfficeInit /\ [][OfficeNext]_office
=============================================================================
