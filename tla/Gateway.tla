------------------------------ MODULE Gateway ------------------------------
(***************************************************************************)
(* The Docker Gateway's exec path (internal/gateway/handler.go):           *)
(* createExec inspects the container, creates the exec and issues a        *)
(* ticket; attach exchanges the ticket for the shell.  The map 'tickets'   *)
(* is guarded by a mutex, the calls to Docker run outside it.              *)
(*                                                                         *)
(* Docker resolves a reference when it is called: an id always names the   *)
(* same container, a name can be taken over by a new one.                  *)
(***************************************************************************)
EXTENDS Integers, FiniteSets

CONSTANTS Ticket,    \* random tokens, never drawn twice
          Call,      \* concurrent requests to the Gateway
          Container,
          Guarded,   \* containers labelled dockerview.system or .protected
          Ref,       \* references a path may carry: ids and names
          Name,      \* the references that are names
          None,
          TTL,       \* life of a ticket (30 seconds)
          MaxTime    \* bound on the clock

ASSUME ContainerAssumption == Guarded \subseteq Container /\ None \notin Container
ASSUME RefAssumption == Name \subseteq Ref
ASSUME TicketAssumption == None \notin Ticket
ASSUME TimeAssumption == TTL \in Nat /\ MaxTime \in Nat

VARIABLES now,     \* the clock
          target,  \* Docker: the container a reference names now
          call,    \* the requests being handled
          tickets, \* the map of the handler, with what became of each token
          opened   \* history: how often attach accepted a token

vars == <<now, target, call, tickets, opened>>

\* "held" and "used" are entries of the map; "fresh" and "deleted" are not.
TicketRow == [state: {"fresh", "held", "used", "deleted"}, expires: Nat,
              ref: Ref \cup {None}, container: Container \cup {None}]

NoTicket == [state |-> "fresh", expires |-> 0, ref |-> None, container |-> None]

CallState == [pc: {"idle", "inspected", "created", "redeemed", "attached"},
              ref: Ref \cup {None}, container: Container \cup {None}]

Idle == [pc |-> "idle", ref |-> None, container |-> None]

TypeOK ==
  /\ now \in 0..MaxTime
  /\ target \in [Ref -> Container]
  /\ call \in [Call -> CallState]
  /\ tickets \in [Ticket -> TicketRow]
  /\ opened \in [Ticket -> Nat]

Init ==
  /\ now = 0
  /\ target \in [Ref -> Container]
  /\ call = [c \in Call |-> Idle]
  /\ tickets = [t \in Ticket |-> NoTicket]
  /\ opened = [t \in Ticket |-> 0]

-----------------------------------------------------------------------------
InMap(t) == tickets[t].state \in {"held", "used"}

\* time.Now().After(Expires)
Expired(t) == now > tickets[t].expires

\* Mutants of Removable: abandoned tickets are kept, or the instant of expiry
\* is treated as past.
RemovableUsedOnly(t) == tickets[t].state = "used"
RemovableEarly(t) == InMap(t) /\ (tickets[t].state = "used" \/ now >= tickets[t].expires)

\* cleanupTickets deletes an entry that is used or expired.
Removable(t) == InMap(t) /\ (tickets[t].state = "used" \/ Expired(t))

\* The test of attach, under the lock.
Redeemable(t) == tickets[t].state = "held" /\ ~Expired(t)

-----------------------------------------------------------------------------
\* inspectRaw and the two label checks of createExec.
Inspect(c, r) ==
  /\ call[c].pc = "idle"
  /\ target[r] \notin Guarded
  /\ call' = [call EXCEPT ![c] = [pc |-> "inspected", ref |-> r, container |-> None]]
  /\ UNCHANGED <<now, target, tickets, opened>>

\* Docker.CreateExec: Docker resolves the reference again.
CreateExec(c) ==
  /\ call[c].pc = "inspected"
  /\ call' = [call EXCEPT ![c].pc = "created", ![c].container = target[call[c].ref]]
  /\ UNCHANGED <<now, target, tickets, opened>>

\* Mutant of IssueTicket: the life of the ticket is subtracted.
IssueTicketBackdated(c, t) ==
  /\ call[c].pc = "created"
  /\ tickets[t].state = "fresh"
  /\ tickets' = [tickets EXCEPT ![t] =
       [state |-> "held", expires |-> now - TTL,
        ref |-> call[c].ref, container |-> call[c].container]]
  /\ call' = [call EXCEPT ![c] = Idle]
  /\ UNCHANGED <<now, target, opened>>

\* The locked section of createExec: cleanupTickets, then the new entry.
IssueTicket(c, t) ==
  /\ call[c].pc = "created"
  /\ tickets[t].state = "fresh"
  /\ tickets' = [u \in Ticket |->
       IF u = t
       THEN [state |-> "held", expires |-> now + TTL,
             ref |-> call[c].ref, container |-> call[c].container]
       ELSE [tickets[u] EXCEPT !.state = IF Removable(u) THEN "deleted" ELSE @]]
  /\ call' = [call EXCEPT ![c] = Idle]
  /\ UNCHANGED <<now, target, opened>>

\* Mutant of Redeem: the flag Used is set and never tested.
RedeemAgain(c, t) ==
  /\ call[c].pc = "idle"
  /\ InMap(t) /\ ~Expired(t)
  /\ tickets' = [tickets EXCEPT ![t].state = "used"]
  /\ opened' = [opened EXCEPT ![t] = @ + 1]
  /\ call' = [call EXCEPT ![c] = [pc |-> "redeemed", ref |-> tickets[t].ref,
                                  container |-> tickets[t].container]]
  /\ UNCHANGED <<now, target>>

\* The locked section of attach.
Redeem(c, t) ==
  /\ call[c].pc = "idle"
  /\ Redeemable(t)
  /\ tickets' = [tickets EXCEPT ![t].state = "used"]
  /\ opened' = [opened EXCEPT ![t] = @ + 1]
  /\ call' = [call EXCEPT ![c] = [pc |-> "redeemed", ref |-> tickets[t].ref,
                                  container |-> tickets[t].container]]
  /\ UNCHANGED <<now, target>>

\* Upgrade and Docker.AttachExec succeed: the shell is connected.
AttachExec(c) ==
  /\ call[c].pc = "redeemed"
  /\ call' = [call EXCEPT ![c].pc = "attached"]
  /\ UNCHANGED <<now, target, tickets, opened>>

\* The request ends: a bad body or shell, an error from Docker, a failed
\* upgrade, or the end of the stream.  A redeemed ticket stays used.
EndCall(c) ==
  /\ call[c].pc \in {"inspected", "redeemed", "attached"}
  /\ call' = [call EXCEPT ![c] = Idle]
  /\ UNCHANGED <<now, target, tickets, opened>>

-----------------------------------------------------------------------------
Tick ==
  /\ now < MaxTime
  /\ now' = now + 1
  /\ UNCHANGED <<target, call, tickets, opened>>

\* Docker: a container is removed and its name given to another one.
Rename(n, k) ==
  /\ target' = [target EXCEPT ![n] = k]
  /\ UNCHANGED <<now, call, tickets, opened>>

\* The Gateway process restarts with an empty map.
Restart ==
  /\ tickets' = [t \in Ticket |->
       [tickets[t] EXCEPT !.state = IF @ = "fresh" THEN "fresh" ELSE "deleted"]]
  /\ call' = [c \in Call |-> Idle]
  /\ UNCHANGED <<now, target, opened>>

Next ==
  \/ \E c \in Call, r \in Ref : Inspect(c, r)
  \/ \E c \in Call : CreateExec(c) \/ AttachExec(c) \/ EndCall(c)
  \/ \E c \in Call, t \in Ticket : IssueTicket(c, t) \/ Redeem(c, t)
  \/ Tick
  \/ \E n \in Name, k \in Container : Rename(n, k)
  \/ Restart

Spec == Init /\ [][Next]_vars

-----------------------------------------------------------------------------
(***************************************************************************)
(* The map with its flag, expiry and clean-up implements single-use        *)
(* tickets: what attach would accept is exactly what is valid.             *)
(***************************************************************************)
OfficeState ==
  [t \in Ticket |-> IF tickets[t].state = "fresh" THEN "fresh"
                    ELSE IF Redeemable(t) THEN "valid" ELSE "spent"]

Office == INSTANCE TicketOffice WITH state <- OfficeState

(***************************************************************************)
(* attach and cleanupTickets, racing calls, expiry and restarts included,  *)
(* never accept a ticket twice or after it went bad.                       *)
(***************************************************************************)
ImplementsOffice == Office!OfficeSpec

(***************************************************************************)
(* A ticket that attach would still accept leaves the map only through     *)
(* attach: cleanupTickets and attach agree on the instant of expiry (both  *)
(* use After), so the clean-up of another request cannot take a ticket     *)
(* away while the Server is about to dial it.                              *)
(***************************************************************************)
KeptUntilExpiry ==
  [][\A t \in Ticket :
       (Redeemable(t) /\ ~InMap(t)') => Restart]_vars

(***************************************************************************)
(* The map is bounded by the clean-up alone: its entries were issued       *)
(* within one TTL of each other, however many tickets were abandoned       *)
(* (terminalWS drops a ticket when the browser's upgrade fails).           *)
(***************************************************************************)
MapSpansOneTTL ==
  \A t, u \in Ticket :
    InMap(t) /\ InMap(u) => tickets[u].expires <= tickets[t].expires + TTL

-----------------------------------------------------------------------------
(***************************************************************************)
(* docs/authorization.md: "Containers labeled `dockerview.system=true`     *)
(* cannot be exec'd or restarted, even by Admin".  The label check and the *)
(* exec are two calls to Docker, and ValidateContainerID lets names pass:  *)
(* a name that changes hands in between is checked on one container and    *)
(* entered on another, so the code does not keep this.                     *)
(***************************************************************************)
GuardedNeverEntered ==
  /\ \A t \in Ticket : tickets[t].state # "fresh" => tickets[t].container \notin Guarded
  /\ \A c \in Call : call[c].container \notin Guarded
=============================================================================
