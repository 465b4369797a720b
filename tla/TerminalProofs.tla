--------------------------- MODULE TerminalProofs ---------------------------
(***************************************************************************)
(* Proofs about Terminal and ShellSession for any number of terminals,     *)
(* connections and tickets: no goroutine blocks on the channel 'done', an  *)
(* attached row has a connection behind it, connections share no shell,    *)
(* and the end of a terminal is recorded once; also when the Gateway and   *)
(* the shell are the ones of ShellSession.                                 *)
(***************************************************************************)
EXTENDS ShellSession, TLAPS

Early == {"idle", "found", "authorized", "ticketed", "upgraded"}

\* There is no shell before DialExec, and no goroutine before Attach.
NotYet ==
  \A c \in Conn :
    /\ conn[c].pc \in Early => sock[c]["shell"] = "none"
    /\ conn[c].pc \in Early \cup {"dialed"} =>
         done[c] = 0 /\ \A g \in Task : task[c][g] = "off"

\* A ticket that was never issued is held by nobody, and only a spent one was
\* ever exchanged.
Issued ==
  \A k \in Ticket :
    /\ state[k] = "fresh" => \A c \in Conn : conn[c].ticket # k
    /\ state[k] # "spent" => opened[k] = 0

\* A ticket is held by one connection; one with a shell has spent its own.
Held ==
  \A c \in Conn :
    /\ conn[c].pc \in {"ticketed", "upgraded"} => conn[c].ticket \in Ticket
    /\ sock[c]["shell"] # "none" =>
         conn[c].ticket \in Ticket /\ state[conn[c].ticket] = "spent"
         /\ opened[conn[c].ticket] = 1
    /\ conn[c].ticket \in Ticket =>
         \A d \in Conn \ {c} : conn[d].ticket # conn[c].ticket

\* Every token in 'done' comes from a goroutine that has exited since.
Exited(c, g) == IF task[c][g] = "exited" THEN 1 ELSE 0

Reported ==
  \A c \in Conn :
    done[c] <= Exited(c, "browser") + Exited(c, "shell") + Exited(c, "watchdog")

Inv == TypeOK /\ NotYet /\ Issued /\ Held /\ Reported /\ AttachedIsLive /\ EndRecordedOnce

-----------------------------------------------------------------------------
LEMMA InitInv == Init => Inv
<1> SUFFICES ASSUME Init PROVE Inv
  OBVIOUS
<1> USE DEF Init, Office!OfficeInit
<1>1. TypeOK
  BY DEF TypeOK, Pc, DoneCap
<1>2. NotYet /\ Issued /\ Held
  BY NoneAssumption DEF NotYet, Issued, Held, Early, Side, Task
<1>3. Reported
  BY DEF Reported, Exited, Task, Side
<1>4. AttachedIsLive /\ EndRecordedOnce
  BY DEF AttachedIsLive, EndRecordedOnce
<1> QED
  BY <1>1, <1>2, <1>3, <1>4 DEF Inv

\* The goroutines only touch 'task', 'done' and 'quiet'.
LEMMA GoroutineFrame ==
  ASSUME NEW c \in Conn, Goroutine(c)
  PROVE  UNCHANGED <<row, signedIn, allowed, conn, sock, ends, state, opened>>
BY DEF Goroutine, Copy, CopyEnds, CopyTooLong, WatchTick, WatchPolicy, WatchStop,
       Send, db, office

\* What a goroutine does: it changes its own state, and adds a token or none.
LEMMA GoroutineStep ==
  ASSUME TypeOK, NEW c \in Conn, Goroutine(c)
  PROVE  /\ quiet' \in [Conn -> BOOLEAN]
         /\ \/ UNCHANGED <<task, done>>
            \/ \E g \in Task, s \in {"run", "resolved", "send", "exited"} :
                 /\ task[c][g] \in {"run", "resolved"}
                 /\ task' = [task EXCEPT ![c][g] = s] /\ UNCHANGED done
            \/ \E g \in Task :
                 /\ task[c][g] = "send"
                 /\ done[c] < DoneCap
                 /\ task' = [task EXCEPT ![c][g] = "exited"]
                 /\ done' = [done EXCEPT ![c] = @ + 1]
<1>1. ASSUME NEW side \in Side, Copy(c, side) \/ CopyEnds(c, side) \/ CopyTooLong(c, side)
      PROVE  /\ quiet' \in [Conn -> BOOLEAN]
             /\ UNCHANGED done
             /\ task[c][side] = "run"
             /\ UNCHANGED task \/ task' = [task EXCEPT ![c][side] = "send"]
  BY <1>1 DEF Copy, CopyEnds, CopyTooLong, SetTask, TypeOK
<1>2. ASSUME WatchTick(c) \/ WatchPolicy(c) \/ WatchStop(c)
      PROVE  /\ quiet' \in [Conn -> BOOLEAN]
             /\ UNCHANGED done
             /\ task[c]["watchdog"] \in {"run", "resolved"}
             /\ \E s \in {"run", "resolved", "send", "exited"} :
                  task' = [task EXCEPT ![c]["watchdog"] = s]
  BY <1>2 DEF WatchTick, WatchPolicy, WatchStop, SetTask, TypeOK
<1>3. ASSUME NEW g \in Task, Send(c, g)
      PROVE  /\ quiet' \in [Conn -> BOOLEAN]
             /\ task[c][g] = "send"
             /\ done[c] < DoneCap
             /\ task' = [task EXCEPT ![c][g] = "exited"]
             /\ done' = [done EXCEPT ![c] = @ + 1]
  BY <1>3 DEF Send, SetTask, TypeOK
<1>4. Side \subseteq Task /\ "watchdog" \in Task
  BY DEF Task
<1> QED
  BY <1>1, <1>2, <1>3, <1>4 DEF Goroutine

LEMMA GoroutineOwn ==
  ASSUME TypeOK, NEW c \in Conn, Goroutine(c)
  PROVE  \A d \in Conn \ {c} : task'[d] = task[d] /\ done'[d] = done[d]
<1> SUFFICES ASSUME NEW d \in Conn \ {c} PROVE task'[d] = task[d] /\ done'[d] = done[d]
  OBVIOUS
<1>1. ASSUME NEW g \in Task, NEW s, task' = [task EXCEPT ![c][g] = s] PROVE task'[d] = task[d]
  BY <1>1 DEF TypeOK
<1>2. ASSUME done' = [done EXCEPT ![c] = @ + 1] PROVE done'[d] = done[d]
  BY <1>2 DEF TypeOK
<1> QED
  BY <1>1, <1>2, GoroutineStep

-----------------------------------------------------------------------------
\* Touch changes the status of one row at most.
LEMMA TouchRow ==
  ASSUME TypeOK, NEW c \in Conn, NEW s \in {"created", "attached", "ended"}, Touch(c, s)
  PROVE  /\ row' \in [Term -> {"none", "created", "attached", "ended"}]
         /\ \A t \in Term : row'[t] = IF t = conn[c].term THEN s ELSE row[t]
BY DEF Touch, TypeOK

LEMMA OpenSock ==
  ASSUME TypeOK, NEW c \in Conn, NEW x \in Side, sock' = [sock EXCEPT ![c][x] = "open"]
  PROVE  /\ sock' \in [Conn -> [Side -> {"none", "open", "closed"}]]
         /\ sock'[c][x] = "open"
         /\ \A d \in Conn, y \in Side : d # c \/ y # x => sock'[d][y] = sock[d][y]
BY DEF TypeOK

\* Closed opens nothing.
LEMMA ClosedSock ==
  ASSUME TypeOK, NEW c \in Conn, Closed(c)
  PROVE  /\ sock' \in [Conn -> [Side -> {"none", "open", "closed"}]]
         /\ \A d \in Conn, x \in Side : sock'[d][x] = "none" <=> sock[d][x] = "none"
BY DEF Closed, TypeOK

LEMMA PeerSock ==
  ASSUME TypeOK, NEW c \in Conn, NEW x \in Side, PeerCloses(c, x)
  PROVE  /\ sock' \in [Conn -> [Side -> {"none", "open", "closed"}]]
         /\ \A d \in Conn, y \in Side : sock'[d][y] = "none" <=> sock[d][y] = "none"
BY DEF PeerCloses, TypeOK

LEMMA GatewaySock ==
  ASSUME TypeOK, GatewayDies
  PROVE  /\ sock' \in [Conn -> [Side -> {"none", "open", "closed"}]]
         /\ \A d \in Conn, y \in Side : sock'[d][y] = "none" <=> sock[d][y] = "none"
<1>1. ASSUME NEW d \in Conn
      PROVE  /\ sock'[d] \in [Side -> {"none", "open", "closed"}]
             /\ \A y \in Side : sock'[d][y] = "none" <=> sock[d][y] = "none"
  <2>1. sock'[d] = [sock[d] EXCEPT !["shell"] = IF sock[d]["shell"] = "open" THEN "closed"
                                                ELSE sock[d]["shell"]]
    BY DEF GatewayDies
  <2>2. sock[d] \in [Side -> {"none", "open", "closed"}] /\ "shell" \in Side
    BY DEF TypeOK, Side
  <2> QED
    BY <2>1, <2>2
<1> QED
  BY <1>1 DEF GatewayDies

LEMMA CrashSock ==
  ASSUME TypeOK, Crash
  PROVE  /\ sock' \in [Conn -> [Side -> {"none", "open", "closed"}]]
         /\ \A d \in Conn, x \in Side : sock'[d][x] = "none" <=> sock[d][x] = "none"
BY DEF Crash, TypeOK

\* Looking a terminal up sets the whole record of an idle connection.
LEMMA FoundConn ==
  ASSUME TypeOK, NEW c \in Conn, NEW t \in Term, GetTerminal(c, t)
  PROVE  /\ conn' \in [Conn -> [pc: Pc, term: Term \cup {None}, ticket: Ticket \cup {None}]]
         /\ conn[c].pc = "idle"
         /\ conn'[c].pc = "found" /\ conn'[c].term = t /\ conn'[c].ticket = None
         /\ \A d \in Conn \ {c} : conn'[d] = conn[d]
BY DEF GetTerminal, TypeOK, Pc

\* A step of a handler only touches the pc of its own connection.
LEMMA GoConn ==
  ASSUME TypeOK, NEW c \in Conn, NEW pc \in Pc, Go(c, pc)
  PROVE  /\ conn' \in [Conn -> [pc: Pc, term: Term \cup {None}, ticket: Ticket \cup {None}]]
         /\ conn'[c].pc = pc
         /\ \A d \in Conn : /\ conn'[d].term = conn[d].term
                           /\ conn'[d].ticket = conn[d].ticket
                           /\ d # c => conn'[d].pc = conn[d].pc
BY DEF Go, TypeOK

LEMMA GoFrame ==
  ASSUME TypeOK, NEW c \in Conn, NEW pc, Go(c, pc)
  PROVE  \A d \in Conn : /\ conn'[d].term = conn[d].term
                         /\ conn'[d].ticket = conn[d].ticket
                         /\ conn'[d].pc = IF d = c THEN pc ELSE conn[d].pc
BY DEF Go, TypeOK

LEMMA TicketedConn ==
  ASSUME TypeOK, NEW c \in Conn, NEW k \in Ticket,
         conn' = [conn EXCEPT ![c] = [pc |-> "ticketed", term |-> @.term, ticket |-> k]]
  PROVE  /\ conn' \in [Conn -> [pc: Pc, term: Term \cup {None}, ticket: Ticket \cup {None}]]
         /\ conn'[c].pc = "ticketed" /\ conn'[c].ticket = k /\ conn'[c].term = conn[c].term
         /\ \A d \in Conn \ {c} : conn'[d] = conn[d]
<1> DEFINE C == [pc: Pc, term: Term \cup {None}, ticket: Ticket \cup {None}]
<1>1. conn \in [Conn -> C] /\ "ticketed" \in Pc
  BY DEF TypeOK, Pc
<1>2. [pc |-> "ticketed", term |-> conn[c].term, ticket |-> k] \in C
  BY <1>1
<1> QED
  BY <1>1, <1>2

\* A crash leaves a connection as it is, or ends it.
LEMMA CrashConn ==
  ASSUME TypeOK, Crash
  PROVE  /\ conn' \in [Conn -> [pc: Pc, term: Term \cup {None}, ticket: Ticket \cup {None}]]
         /\ \A d \in Conn : /\ conn'[d].term = conn[d].term
                           /\ conn'[d].ticket = conn[d].ticket
                           /\ conn'[d].pc = IF conn[d].pc \in {"idle", "gone"}
                                            THEN conn[d].pc ELSE "crashed"
<1> DEFINE C == [pc: Pc, term: Term \cup {None}, ticket: Ticket \cup {None}]
<1>1. conn \in [Conn -> C] /\ "crashed" \in Pc
  BY DEF TypeOK, Pc
<1>2. ASSUME NEW d \in Conn
      PROVE  /\ conn'[d] \in C
             /\ conn'[d].term = conn[d].term /\ conn'[d].ticket = conn[d].ticket
             /\ conn'[d].pc = IF conn[d].pc \in {"idle", "gone"} THEN conn[d].pc ELSE "crashed"
  <2>1. [conn[d] EXCEPT !.pc = "crashed"]
          = [pc |-> "crashed", term |-> conn[d].term, ticket |-> conn[d].ticket]
    BY <1>1
  <2>2. [pc |-> "crashed", term |-> conn[d].term, ticket |-> conn[d].ticket] \in C
    BY <1>1
  <2>3. conn'[d] = IF conn[d].pc \in {"idle", "gone"} THEN conn[d]
                   ELSE [conn[d] EXCEPT !.pc = "crashed"]
    BY DEF Crash
  <2> QED
    BY <1>1, <2>1, <2>2, <2>3
<1>3. conn' = [d \in Conn |-> conn'[d]]
  BY DEF Crash
<1> HIDE DEF C
<1>4. conn' \in [Conn -> C]
  BY <1>2, <1>3
<1> QED
  BY <1>2, <1>4 DEF C

\* The office, when it is called: see TicketOffice.
LEMMA IssueOffice ==
  ASSUME TypeOK, NEW k \in Ticket, Office!IssueOne(k)
  PROVE  /\ state' \in [Ticket -> {"fresh", "valid", "spent"}] /\ UNCHANGED opened
         /\ state[k] = "fresh" /\ state'[k] = "valid"
         /\ \A u \in Ticket \ {k} :
              state'[u] = state[u] \/ (state[u] = "valid" /\ state'[u] = "spent")
BY DEF Office!IssueOne, TypeOK

LEMMA RedeemOffice ==
  ASSUME TypeOK, NEW k \in Ticket, Office!RedeemOne(k)
  PROVE  /\ state' \in [Ticket -> {"fresh", "valid", "spent"}]
         /\ opened' \in [Ticket -> Nat]
         /\ state[k] = "valid" /\ state'[k] = "spent" /\ opened'[k] = opened[k] + 1
         /\ \A u \in Ticket \ {k} : state'[u] = state[u] /\ opened'[u] = opened[u]
BY DEF Office!RedeemOne, TypeOK

LEMMA LapseOffice ==
  ASSUME TypeOK, NEW k \in Ticket, TicketLapses(k)
  PROVE  /\ state' \in [Ticket -> {"fresh", "valid", "spent"}] /\ UNCHANGED opened
         /\ \A u \in Ticket :
              state'[u] = state[u] \/ (state[u] = "valid" /\ state'[u] = "spent")
BY DEF TicketLapses, Office!Lapse, TypeOK

\* A step of Terminal, or the one step of ShellSession that is none: the
\* Gateway closes its end of every shell at once.
Step == [Next]_vars \/ GatewayDies

LEMMA TypeStep == Inv /\ Step => TypeOK'
<1> SUFFICES ASSUME Inv, Step PROVE TypeOK'
  OBVIOUS
<1>t. TypeOK
  BY DEF Inv
<1>p. {"found", "authorized", "ticketed", "upgraded", "dialed", "running", "closing",
       "recording", "gone", "crashed"} \subseteq Pc
  BY DEF Pc
<1> USE DEF db, office
<1>1. ASSUME NEW c \in Conn, Goroutine(c) PROVE TypeOK'
  <2>1. ASSUME NEW g \in Task, NEW s \in {"run", "resolved", "send", "exited"},
               task' = [task EXCEPT ![c][g] = s]
        PROVE  task' \in [Conn -> [Task -> {"off", "run", "resolved", "send", "exited"}]]
    BY <1>t, <2>1 DEF TypeOK
  <2>2. ASSUME done[c] < DoneCap, done' = [done EXCEPT ![c] = @ + 1]
        PROVE  done' \in [Conn -> 0..DoneCap]
    <3>1. done[c] \in 0..DoneCap
      BY <1>t DEF TypeOK
    <3>2. done[c] + 1 \in 0..DoneCap
      BY <2>2, <3>1 DEF DoneCap
    <3> QED
      BY <1>t, <2>2, <3>2 DEF TypeOK
  <2>3. /\ task' \in [Conn -> [Task -> {"off", "run", "resolved", "send", "exited"}]]
        /\ done' \in [Conn -> 0..DoneCap]
    <3>1. CASE UNCHANGED <<task, done>>
      BY <1>t, <3>1 DEF TypeOK
    <3>2. ASSUME NEW g \in Task, NEW s \in {"run", "resolved", "send", "exited"},
                 task' = [task EXCEPT ![c][g] = s], UNCHANGED done
          PROVE  /\ task' \in [Conn -> [Task -> {"off", "run", "resolved", "send", "exited"}]]
                 /\ done' \in [Conn -> 0..DoneCap]
      BY <1>t, <2>1, <3>2 DEF TypeOK
    <3>3. ASSUME NEW g \in Task, done[c] < DoneCap,
                 task' = [task EXCEPT ![c][g] = "exited"],
                 done' = [done EXCEPT ![c] = @ + 1]
          PROVE  /\ task' \in [Conn -> [Task -> {"off", "run", "resolved", "send", "exited"}]]
                 /\ done' \in [Conn -> 0..DoneCap]
      BY <2>1, <2>2, <3>3
    <3> QED
      BY <1>t, <1>1, <3>1, <3>2, <3>3, GoroutineStep
  <2> QED
    BY <1>t, <1>1, <2>3, GoroutineStep, GoroutineFrame DEF TypeOK
<1>2. ASSUME NEW c \in Conn, NEW t \in Term, GetTerminal(c, t) PROVE TypeOK'
  BY <1>t, <1>2 DEF GetTerminal, TypeOK, Pc
<1>3. ASSUME NEW c \in Conn, Authorize(c) PROVE TypeOK'
  BY <1>t, <1>p, <1>3, GoConn DEF Authorize, TypeOK
<1>4. ASSUME NEW c \in Conn, NEW k \in Ticket, CreateExec(c, k) PROVE TypeOK'
  BY <1>t, <1>4, TicketedConn, IssueOffice DEF CreateExec, TypeOK
<1>5. ASSUME NEW c \in Conn, CreateExecFails(c) PROVE TypeOK'
  <2>1. state' \in [Ticket -> {"fresh", "valid", "spent"}] /\ UNCHANGED opened
    BY <1>t, <1>5, IssueOffice DEF CreateExecFails, TypeOK
  <2>2. row' \in [Term -> {"none", "created", "attached", "ended"}]
    BY <1>t, <1>5, TouchRow DEF CreateExecFails, TypeOK
  <2> QED
    BY <1>t, <1>p, <1>5, <2>1, <2>2, GoConn DEF CreateExecFails, TypeOK
<1>6. ASSUME NEW c \in Conn, Upgrade(c) \/ UpgradeFails(c) PROVE TypeOK'
  <2>1. sock' \in [Conn -> [Side -> {"none", "open", "closed"}]]
    BY <1>t, <1>6, OpenSock DEF Upgrade, UpgradeFails, TypeOK, Side
  <2>2. conn' \in [Conn -> [pc: Pc, term: Term \cup {None}, ticket: Ticket \cup {None}]]
    BY <1>t, <1>p, <1>6, GoConn DEF Upgrade, UpgradeFails
  <2> QED
    BY <1>t, <1>6, <2>1, <2>2 DEF Upgrade, UpgradeFails, TypeOK
<1>7. ASSUME NEW c \in Conn, DialExec(c) PROVE TypeOK'
  <2>1. conn[c].ticket \in Ticket
    BY <1>7 DEF DialExec, Inv, Held
  <2> QED
    BY <1>t, <1>p, <1>7, <2>1, RedeemOffice, GoConn, OpenSock DEF DialExec, TypeOK, Side
<1>8. ASSUME NEW c \in Conn, DialExecFails(c) PROVE TypeOK'
  <2>1. conn[c].ticket \in Ticket
    BY <1>8 DEF DialExecFails, Inv, Held
  <2>2. state' \in [Ticket -> {"fresh", "valid", "spent"}] /\ opened' \in [Ticket -> Nat]
    BY <1>t, <1>8, <2>1, RedeemOffice DEF DialExecFails, TypeOK
  <2> QED
    BY <1>t, <1>p, <1>8, <2>2, TouchRow, ClosedSock, GoConn DEF DialExecFails, TypeOK
<1>9. ASSUME NEW c \in Conn, Attach(c) PROVE TypeOK'
  BY <1>t, <1>p, <1>9, TouchRow, GoConn DEF Attach, TypeOK
<1>10. ASSUME NEW c \in Conn, Receive(c) PROVE TypeOK'
  BY <1>t, <1>p, <1>10, GoConn DEF Receive, TypeOK, DoneCap
<1>11. ASSUME NEW c \in Conn, EndRow(c) PROVE TypeOK'
  BY <1>t, <1>p, <1>11, TouchRow, GoConn DEF EndRow, TypeOK
<1>12. ASSUME NEW c \in Conn, Return(c) PROVE TypeOK'
  BY <1>t, <1>p, <1>12, ClosedSock, GoConn DEF Return, TypeOK
<1>13. ASSUME NEW t \in Term, CreateTerminal(t) PROVE TypeOK'
  BY <1>t, <1>13 DEF CreateTerminal, TypeOK
<1>14. ASSUME NEW c \in Conn, GoQuiet(c) PROVE TypeOK'
  BY <1>t, <1>14 DEF GoQuiet, TypeOK
<1>15. ASSUME NEW c \in Conn, NEW x \in Side, PeerCloses(c, x) PROVE TypeOK'
  BY <1>t, <1>15 DEF PeerCloses, TypeOK
<1>16. CASE ChangeLogin \/ ChangeAccess
  BY <1>t, <1>16 DEF ChangeLogin, ChangeAccess, TypeOK
<1>17. CASE Crash
  <2>1. /\ task' \in [Conn -> [Task -> {"off", "run", "resolved", "send", "exited"}]]
        /\ done' \in [Conn -> 0..DoneCap] /\ quiet' \in [Conn -> BOOLEAN]
    BY <1>17 DEF Crash, DoneCap
  <2> QED
    BY <1>t, <1>17, <2>1, CrashConn, CrashSock DEF Crash, TypeOK
<1>18. ASSUME NEW k \in Ticket, TicketLapses(k) PROVE TypeOK'
  BY <1>t, <1>18, LapseOffice DEF TicketLapses, TypeOK
<1>19. CASE UNCHANGED vars
  BY <1>t, <1>19 DEF vars, TypeOK
<1>20. CASE GatewayDies
  BY <1>t, <1>20, GatewaySock DEF GatewayDies, TypeOK
<1> QED
  BY <1>1, <1>2, <1>3, <1>4, <1>5, <1>6, <1>7, <1>8, <1>9, <1>10, <1>11, <1>12,
     <1>13, <1>14, <1>15, <1>16, <1>17, <1>18, <1>19, <1>20
  DEF Step, Next, Handler, Environment

\* EXEC_END is written by Return alone, from a state with no event yet.

\* EXEC_END is written by Return alone, from a state with no event yet.

\* EXEC_END is written by Return alone, from a state with no event yet.

\* EXEC_END is written by Return alone, from a state with no event yet.

\* EXEC_END is written by Return alone, from a state with no event yet.

\* EXEC_END is written by Return alone, from a state with no event yet.

\* EXEC_END is written by Return alone, from a state with no event yet.

\* EXEC_END is written by Return alone, from a state with no event yet.

\* EXEC_END is written by Return alone, from a state with no event yet.
LEMMA EndsStep == Inv /\ Step => EndRecordedOnce'
<1> SUFFICES ASSUME Inv, Step PROVE EndRecordedOnce'
  OBVIOUS
<1>t. TypeOK
  BY DEF Inv
<1> USE DEF db, office, EndRecordedOnce, NotYet, Early, Side, Inv
<1>1. ASSUME NEW c \in Conn, Goroutine(c) PROVE EndRecordedOnce'
  BY <1>t, <1>1, GoroutineFrame
<1>2. ASSUME NEW c \in Conn, NEW t \in Term, GetTerminal(c, t) PROVE EndRecordedOnce'
  BY <1>t, <1>2, FoundConn DEF GetTerminal
<1>3. ASSUME NEW c \in Conn, Authorize(c) PROVE EndRecordedOnce'
  BY <1>t, <1>3, GoFrame DEF Authorize
<1>4. ASSUME NEW c \in Conn, NEW k \in Ticket, CreateExec(c, k) PROVE EndRecordedOnce'
  BY <1>t, <1>4, TicketedConn, IssueOffice DEF CreateExec
<1>5. ASSUME NEW c \in Conn, CreateExecFails(c) PROVE EndRecordedOnce'
  BY <1>t, <1>5, GoFrame, IssueOffice, TouchRow DEF CreateExecFails
<1>6. ASSUME NEW c \in Conn, Upgrade(c) \/ UpgradeFails(c) PROVE EndRecordedOnce'
  BY <1>t, <1>6, GoFrame, OpenSock DEF Upgrade, UpgradeFails
<1>7. ASSUME NEW c \in Conn, DialExec(c) PROVE EndRecordedOnce'
  BY <1>t, <1>7, GoFrame, OpenSock DEF DialExec
<1>8. ASSUME NEW c \in Conn, DialExecFails(c) PROVE EndRecordedOnce'
  BY <1>t, <1>8, GoFrame, ClosedSock, TouchRow DEF DialExecFails
<1>9. ASSUME NEW c \in Conn, Attach(c) PROVE EndRecordedOnce'
  BY <1>t, <1>9, GoFrame, TouchRow DEF Attach
<1>10. ASSUME NEW c \in Conn, Receive(c) PROVE EndRecordedOnce'
  BY <1>t, <1>10, GoFrame DEF Receive
<1>11. ASSUME NEW c \in Conn, EndRow(c) PROVE EndRecordedOnce'
  BY <1>t, <1>11, GoFrame, TouchRow DEF EndRow
<1>12. ASSUME NEW c \in Conn, Return(c) PROVE EndRecordedOnce'
  <2> ends[c] \in Nat
    BY <1>t DEF TypeOK
  <2>1. ends[c] = 0
    BY <1>12 DEF Return
  <2>2. /\ conn'[c].pc = "gone" /\ ends'[c] = 1
        /\ \A d \in Conn \ {c} :
             /\ conn'[d].pc = conn[d].pc /\ ends'[d] = ends[d]
             /\ sock'[d]["shell"] = "none" <=> sock[d]["shell"] = "none"
    BY <1>t, <1>12, <2>1, GoFrame, ClosedSock DEF Return, TypeOK
  <2> QED
    <3>1. ASSUME NEW d \in Conn \ {c}
          PROVE  /\ ends'[d] <= 1
                 /\ conn'[d].pc = "gone" /\ sock'[d]["shell"] # "none" => ends'[d] = 1
                 /\ ends'[d] = 1 => conn'[d].pc = "gone"
      BY <2>2
    <3> QED
      BY <2>2, <3>1
<1>13. ASSUME NEW t \in Term, CreateTerminal(t) PROVE EndRecordedOnce'
  BY <1>t, <1>13 DEF CreateTerminal
<1>14. ASSUME NEW c \in Conn, GoQuiet(c) PROVE EndRecordedOnce'
  BY <1>t, <1>14 DEF GoQuiet
<1>15. ASSUME NEW c \in Conn, NEW x \in Side, PeerCloses(c, x) PROVE EndRecordedOnce'
  BY <1>t, <1>15, PeerSock DEF PeerCloses
<1>16. CASE ChangeLogin \/ ChangeAccess
  BY <1>t, <1>16 DEF ChangeLogin, ChangeAccess
<1>17. CASE Crash
  BY <1>t, <1>17, CrashConn, CrashSock DEF Crash
<1>18. ASSUME NEW k \in Ticket, TicketLapses(k) PROVE EndRecordedOnce'
  BY <1>t, <1>18, LapseOffice DEF TicketLapses
<1>19. CASE UNCHANGED vars
  BY <1>t, <1>19 DEF vars
<1>20. CASE GatewayDies
  BY <1>t, <1>20, GatewaySock DEF GatewayDies
<1> QED
  BY <1>1, <1>2, <1>3, <1>4, <1>5, <1>6, <1>7, <1>8, <1>9, <1>10, <1>11, <1>12,
     <1>13, <1>14, <1>15, <1>16, <1>17, <1>18, <1>19, <1>20
  DEF Step, Next, Handler, Environment

\* Whoever makes a row live goes on doing so: no step but Attach sets
\* "attached", and only EndRow leaves the pcs that will end the row.
LEMMA LiveStep == Inv /\ Step => AttachedIsLive'
<1> SUFFICES ASSUME Inv, Step PROVE AttachedIsLive'
  OBVIOUS
<1>t. TypeOK
  BY DEF Inv
<1> DEFINE Live == {"running", "closing", "crashed"}
           Kept == /\ \A t \in Term : row'[t] = "attached" => row[t] = "attached"
                   /\ \A d \in Conn : conn[d].pc \in Live =>
                        conn'[d].term = conn[d].term /\ conn'[d].pc \in Live
<1>k. ASSUME Kept PROVE AttachedIsLive'
  BY <1>k DEF AttachedIsLive, Inv
<1> USE DEF db, office
<1>1. ASSUME NEW c \in Conn, Goroutine(c) PROVE Kept
  BY <1>t, <1>1, GoroutineFrame
<1>2. ASSUME NEW c \in Conn, NEW t \in Term, GetTerminal(c, t) PROVE Kept
  BY <1>t, <1>2, FoundConn DEF GetTerminal
<1>3. ASSUME NEW c \in Conn, Authorize(c) PROVE Kept
  BY <1>t, <1>3, GoFrame DEF Authorize
<1>4. ASSUME NEW c \in Conn, NEW k \in Ticket, CreateExec(c, k) PROVE Kept
  BY <1>t, <1>4, TicketedConn, IssueOffice DEF CreateExec
<1>5. ASSUME NEW c \in Conn, CreateExecFails(c) PROVE Kept
  BY <1>t, <1>5, GoFrame, IssueOffice, TouchRow DEF CreateExecFails
<1>6. ASSUME NEW c \in Conn, Upgrade(c) \/ UpgradeFails(c) PROVE Kept
  BY <1>t, <1>6, GoFrame, OpenSock DEF Upgrade, UpgradeFails
<1>7. ASSUME NEW c \in Conn, DialExec(c) PROVE Kept
  BY <1>t, <1>7, GoFrame, OpenSock DEF DialExec
<1>8. ASSUME NEW c \in Conn, DialExecFails(c) PROVE Kept
  BY <1>t, <1>8, GoFrame, ClosedSock, TouchRow DEF DialExecFails
<1>9. ASSUME NEW c \in Conn, Attach(c) PROVE AttachedIsLive'
  <2> SUFFICES ASSUME NEW t \in Term, row'[t] = "attached"
               PROVE  \E d \in Conn : conn'[d].term = t /\ conn'[d].pc \in Live
    BY DEF AttachedIsLive
  <2>1. /\ conn[c].pc = "dialed" /\ conn'[c].pc = "running" /\ conn'[c].term = conn[c].term
        /\ \A d \in Conn : conn'[d].term = conn[d].term /\ (d # c => conn'[d].pc = conn[d].pc)
    BY <1>t, <1>9, GoFrame DEF Attach
  <2>2. CASE t = conn[c].term
    BY <2>1, <2>2
  <2>3. CASE t # conn[c].term
    <3>1. row[t] = "attached"
      BY <1>t, <1>9, <2>3, TouchRow DEF Attach
    <3>2. PICK d \in Conn : conn[d].term = t /\ conn[d].pc \in Live
      BY <3>1 DEF Inv, AttachedIsLive
    <3> QED
      BY <2>1, <3>2
  <2> QED
    BY <2>2, <2>3
<1>10. ASSUME NEW c \in Conn, Receive(c) PROVE Kept
  BY <1>t, <1>10, GoFrame DEF Receive
<1>11. ASSUME NEW c \in Conn, EndRow(c) PROVE AttachedIsLive'
  <2> SUFFICES ASSUME NEW t \in Term, row'[t] = "attached"
               PROVE  \E d \in Conn : conn'[d].term = t /\ conn'[d].pc \in Live
    BY DEF AttachedIsLive
  <2>1. /\ conn'[c].pc = "recording"
        /\ \A d \in Conn : conn'[d].term = conn[d].term /\ (d # c => conn'[d].pc = conn[d].pc)
    BY <1>t, <1>11, GoFrame DEF EndRow
  <2>2. row[t] = "attached" /\ t # conn[c].term
    BY <1>t, <1>11, TouchRow DEF EndRow
  <2>3. PICK d \in Conn : conn[d].term = t /\ conn[d].pc \in Live
    BY <2>2 DEF Inv, AttachedIsLive
  <2> QED
    BY <2>1, <2>2, <2>3
<1>12. ASSUME NEW c \in Conn, Return(c) PROVE Kept
  BY <1>t, <1>12, GoFrame, ClosedSock DEF Return
<1>13. ASSUME NEW t \in Term, CreateTerminal(t) PROVE Kept
  BY <1>t, <1>13 DEF CreateTerminal, TypeOK
<1>14. ASSUME NEW c \in Conn, GoQuiet(c) PROVE Kept
  BY <1>t, <1>14 DEF GoQuiet
<1>15. ASSUME NEW c \in Conn, NEW x \in Side, PeerCloses(c, x) PROVE Kept
  BY <1>t, <1>15, PeerSock DEF PeerCloses
<1>16. ASSUME ChangeLogin \/ ChangeAccess PROVE Kept
  BY <1>t, <1>16 DEF ChangeLogin, ChangeAccess
<1>17. ASSUME Crash PROVE Kept
  BY <1>t, <1>17, CrashConn, CrashSock DEF Crash
<1>18. ASSUME NEW k \in Ticket, TicketLapses(k) PROVE Kept
  BY <1>t, <1>18, LapseOffice DEF TicketLapses
<1>19. ASSUME UNCHANGED vars PROVE Kept
  BY <1>t, <1>19 DEF vars
<1>20. ASSUME GatewayDies PROVE Kept
  BY <1>t, <1>20, GatewaySock DEF GatewayDies
<1> QED
  BY <1>k, <1>1, <1>2, <1>3, <1>4, <1>5, <1>6, <1>7, <1>8, <1>9, <1>10, <1>11, <1>12,
     <1>13, <1>14, <1>15, <1>16, <1>17, <1>18, <1>19, <1>20
  DEF Step, Next, Handler, Environment

\* A pc before Attach has only ever been reached from one before Attach.
LEMMA NotYetStep == Inv /\ Step => NotYet'
<1> SUFFICES ASSUME Inv, Step PROVE NotYet'
  OBVIOUS
<1>t. TypeOK
  BY DEF Inv
<1> DEFINE Kept ==
      \A d \in Conn :
        /\ conn'[d].pc \in Early =>
             conn[d].pc \in Early /\ sock'[d]["shell"] = sock[d]["shell"]
        /\ conn'[d].pc \in Early \cup {"dialed"} =>
             /\ conn[d].pc \in Early \cup {"dialed"}
             /\ done'[d] = done[d] /\ task'[d] = task[d]
<1>k. ASSUME Kept PROVE NotYet'
  BY <1>k DEF NotYet, Inv
<1> USE DEF Early, Side
<1> USE DEF db, office
<1>1. ASSUME NEW c \in Conn, Goroutine(c) PROVE Kept
  <2>1. ASSUME conn[c].pc \in Early \cup {"dialed"}
        PROVE  done'[c] = done[c] /\ task'[c] = task[c]
    <3>1. \A g \in Task : task[c][g] = "off"
      BY <2>1 DEF Inv, NotYet
    <3> QED
      BY <1>t, <1>1, <3>1, GoroutineStep
  <2> QED
    BY <1>t, <1>1, <2>1, GoroutineFrame, GoroutineOwn
<1>2. ASSUME NEW c \in Conn, NEW t \in Term, GetTerminal(c, t) PROVE Kept
  BY <1>t, <1>2, FoundConn DEF GetTerminal
<1>3. ASSUME NEW c \in Conn, Authorize(c) PROVE Kept
  BY <1>t, <1>3, GoFrame DEF Authorize
<1>4. ASSUME NEW c \in Conn, NEW k \in Ticket, CreateExec(c, k) PROVE Kept
  BY <1>t, <1>4, TicketedConn, IssueOffice DEF CreateExec
<1>5. ASSUME NEW c \in Conn, CreateExecFails(c) PROVE Kept
  BY <1>t, <1>5, GoFrame, IssueOffice, TouchRow DEF CreateExecFails
<1>6. ASSUME NEW c \in Conn, Upgrade(c) \/ UpgradeFails(c) PROVE Kept
  BY <1>t, <1>6, GoFrame, OpenSock DEF Upgrade, UpgradeFails
<1>7. ASSUME NEW c \in Conn, DialExec(c) PROVE Kept
  BY <1>t, <1>7, GoFrame, OpenSock DEF DialExec
<1>8. ASSUME NEW c \in Conn, DialExecFails(c) PROVE Kept
  <2>1. \A d \in Conn \ {c} : conn'[d].pc = conn[d].pc /\ sock'[d] = sock[d]
    BY <1>t, <1>8, GoFrame DEF DialExecFails, Closed, TypeOK
  <2> QED
    BY <1>t, <1>8, <2>1, GoFrame DEF DialExecFails
<1>9. ASSUME NEW c \in Conn, Attach(c) PROVE Kept
  BY <1>t, <1>9, GoFrame DEF Attach, TypeOK
<1>10. ASSUME NEW c \in Conn, Receive(c) PROVE Kept
  BY <1>t, <1>10, GoFrame DEF Receive, TypeOK
<1>11. ASSUME NEW c \in Conn, EndRow(c) PROVE Kept
  BY <1>t, <1>11, GoFrame, TouchRow DEF EndRow
<1>12. ASSUME NEW c \in Conn, Return(c) PROVE Kept
  <2>1. \A d \in Conn \ {c} : conn'[d].pc = conn[d].pc /\ sock'[d] = sock[d]
    BY <1>t, <1>12, GoFrame DEF Return, Closed, TypeOK
  <2> QED
    BY <1>t, <1>12, <2>1, GoFrame DEF Return
<1>13. ASSUME NEW t \in Term, CreateTerminal(t) PROVE Kept
  BY <1>t, <1>13 DEF CreateTerminal
<1>14. ASSUME NEW c \in Conn, GoQuiet(c) PROVE Kept
  BY <1>t, <1>14 DEF GoQuiet
<1>15. ASSUME NEW c \in Conn, NEW x \in Side, PeerCloses(c, x) PROVE Kept
  <2>1. \A d \in Conn : conn[d].pc \in Early => sock'[d]["shell"] = sock[d]["shell"]
    BY <1>t, <1>15, PeerSock DEF PeerCloses, Inv, NotYet
  <2> QED
    BY <1>15, <2>1 DEF PeerCloses
<1>16. ASSUME ChangeLogin \/ ChangeAccess PROVE Kept
  BY <1>t, <1>16 DEF ChangeLogin, ChangeAccess
<1>17. ASSUME Crash PROVE Kept
  <2>1. \A d \in Conn : conn'[d].pc \in Early \cup {"dialed"} => conn[d].pc = "idle"
    BY <1>t, <1>17, CrashConn
  <2>2. \A d \in Conn : conn[d].pc = "idle" =>
          /\ sock[d]["shell"] = "none" /\ done[d] = 0 /\ \A g \in Task : task[d][g] = "off"
    BY DEF Inv, NotYet
  <2>3. \A d \in Conn : conn[d].pc = "idle" =>
          sock'[d]["shell"] = sock[d]["shell"] /\ done'[d] = done[d]
    BY <1>t, <1>17, <2>2, CrashSock DEF Crash
  <2>4. \A d \in Conn : conn[d].pc = "idle" => task'[d] = task[d]
    BY <1>t, <1>17, <2>2 DEF Crash, TypeOK
  <2> QED
    BY <2>1, <2>3, <2>4
<1>18. ASSUME NEW k \in Ticket, TicketLapses(k) PROVE Kept
  BY <1>t, <1>18, LapseOffice DEF TicketLapses
<1>19. ASSUME UNCHANGED vars PROVE Kept
  BY <1>t, <1>19 DEF vars
<1>20. ASSUME GatewayDies PROVE Kept
  <2>1. \A d \in Conn : conn[d].pc \in Early => sock'[d]["shell"] = sock[d]["shell"]
    BY <1>t, <1>20, GatewaySock DEF GatewayDies, Inv, NotYet
  <2> QED
    BY <1>20, <2>1 DEF GatewayDies
<1> QED
  BY <1>k, <1>1, <1>2, <1>3, <1>4, <1>5, <1>6, <1>7, <1>8, <1>9, <1>10, <1>11, <1>12,
     <1>13, <1>14, <1>15, <1>16, <1>17, <1>18, <1>19, <1>20
  DEF Step, Next, Handler, Environment

\* No ticket becomes unissued again, none is spent back, and a connection
\* only takes a ticket that has just been issued.
LEMMA IssuedStep == Inv /\ Step => Issued'
<1> SUFFICES ASSUME Inv, Step PROVE Issued'
  OBVIOUS
<1>t. TypeOK
  BY DEF Inv
<1> DEFINE Kept ==
      /\ \A k \in Ticket :
           /\ state'[k] = "fresh" => state[k] = "fresh"
           /\ state'[k] # "spent" => state[k] # "spent" /\ opened'[k] = opened[k]
      /\ \A d \in Conn : \/ conn'[d].ticket = conn[d].ticket
                         \/ conn'[d].ticket = None
                         \/ conn'[d].ticket \in Ticket /\ state'[conn'[d].ticket] # "fresh"
<1>k. ASSUME Kept PROVE Issued'
  BY <1>k, NoneAssumption DEF Issued, Inv
<1> USE DEF db, office
<1>1. ASSUME NEW c \in Conn, Goroutine(c) PROVE Kept
  BY <1>t, <1>1, GoroutineFrame
<1>2. ASSUME NEW c \in Conn, NEW t \in Term, GetTerminal(c, t) PROVE Kept
  BY <1>t, <1>2, FoundConn DEF GetTerminal
<1>3. ASSUME NEW c \in Conn, Authorize(c) PROVE Kept
  BY <1>t, <1>3, GoFrame DEF Authorize
<1>4. ASSUME NEW c \in Conn, NEW k \in Ticket, CreateExec(c, k) PROVE Kept
  BY <1>t, <1>4, TicketedConn, IssueOffice DEF CreateExec
<1>5. ASSUME NEW c \in Conn, CreateExecFails(c) PROVE Kept
  BY <1>t, <1>5, GoFrame, IssueOffice, TouchRow DEF CreateExecFails
<1>6. ASSUME NEW c \in Conn, Upgrade(c) \/ UpgradeFails(c) PROVE Kept
  BY <1>t, <1>6, GoFrame, OpenSock DEF Upgrade, UpgradeFails
<1>7. ASSUME NEW c \in Conn, DialExec(c) PROVE Kept
  <2>1. conn[c].ticket \in Ticket
    BY <1>7 DEF DialExec, Inv, Held
  <2> QED
    BY <1>t, <1>7, <2>1, GoFrame, RedeemOffice DEF DialExec
<1>8. ASSUME NEW c \in Conn, DialExecFails(c) PROVE Kept
  <2>1. conn[c].ticket \in Ticket
    BY <1>8 DEF DialExecFails, Inv, Held
  <2> QED
    BY <1>t, <1>8, <2>1, GoFrame, RedeemOffice DEF DialExecFails
<1>9. ASSUME NEW c \in Conn, Attach(c) PROVE Kept
  BY <1>t, <1>9, GoFrame, TouchRow DEF Attach
<1>10. ASSUME NEW c \in Conn, Receive(c) PROVE Kept
  BY <1>t, <1>10, GoFrame DEF Receive
<1>11. ASSUME NEW c \in Conn, EndRow(c) PROVE Kept
  BY <1>t, <1>11, GoFrame, TouchRow DEF EndRow
<1>12. ASSUME NEW c \in Conn, Return(c) PROVE Kept
  BY <1>t, <1>12, GoFrame, ClosedSock DEF Return
<1>13. ASSUME NEW t \in Term, CreateTerminal(t) PROVE Kept
  BY <1>t, <1>13 DEF CreateTerminal
<1>14. ASSUME NEW c \in Conn, GoQuiet(c) PROVE Kept
  BY <1>t, <1>14 DEF GoQuiet
<1>15. ASSUME NEW c \in Conn, NEW x \in Side, PeerCloses(c, x) PROVE Kept
  BY <1>t, <1>15, PeerSock DEF PeerCloses
<1>16. ASSUME ChangeLogin \/ ChangeAccess PROVE Kept
  BY <1>t, <1>16 DEF ChangeLogin, ChangeAccess
<1>17. ASSUME Crash PROVE Kept
  BY <1>t, <1>17, CrashConn, CrashSock DEF Crash
<1>18. ASSUME NEW k \in Ticket, TicketLapses(k) PROVE Kept
  BY <1>t, <1>18, LapseOffice DEF TicketLapses
<1>19. ASSUME UNCHANGED vars PROVE Kept
  BY <1>t, <1>19 DEF vars
<1>20. ASSUME GatewayDies PROVE Kept
  BY <1>t, <1>20, GatewaySock DEF GatewayDies
<1> QED
  BY <1>k, <1>1, <1>2, <1>3, <1>4, <1>5, <1>6, <1>7, <1>8, <1>9, <1>10, <1>11, <1>12,
     <1>13, <1>14, <1>15, <1>16, <1>17, <1>18, <1>19, <1>20
  DEF Step, Next, Handler, Environment

\* CreateExec takes a ticket nobody holds, DialExec exchanges one that was
\* never exchanged.
LEMMA HeldStep == Inv /\ Step => Held'
<1> SUFFICES ASSUME Inv, Step PROVE Held'
  OBVIOUS
<1>t. TypeOK
  BY DEF Inv
<1> DEFINE Spent ==
      \A k \in Ticket : state[k] = "spent" => state'[k] = "spent" /\ opened'[k] = opened[k]
<1> DEFINE Kept ==
      /\ Spent
      /\ \A d \in Conn :
           /\ conn'[d].ticket = conn[d].ticket
           /\ conn'[d].pc \in {"ticketed", "upgraded"} => conn[d].pc \in {"ticketed", "upgraded"}
           /\ sock'[d]["shell"] = "none" <=> sock[d]["shell"] = "none"
<1>k. ASSUME Kept PROVE Held'
  BY <1>k DEF Held, Inv
<1> USE DEF Side
<1> USE DEF db, office
<1>1. ASSUME NEW c \in Conn, Goroutine(c) PROVE Kept
  BY <1>t, <1>1, GoroutineFrame
<1>2. ASSUME NEW c \in Conn, NEW t \in Term, GetTerminal(c, t) PROVE Held'
  <2>1. \A d \in Conn \ {c} : conn'[d] = conn[d]
    BY <1>t, <1>2, FoundConn
  <2>2. /\ conn'[c].pc = "found" /\ conn'[c].ticket = None
        /\ sock[c]["shell"] = "none" /\ UNCHANGED <<sock, state, opened>>
    BY <1>t, <1>2, FoundConn DEF GetTerminal, Inv, NotYet, Early
  <2> QED
    BY <2>1, <2>2, NoneAssumption DEF Inv, Held
<1>3. ASSUME NEW c \in Conn, Authorize(c) PROVE Kept
  BY <1>t, <1>3, GoFrame DEF Authorize
<1>4. ASSUME NEW c \in Conn, NEW k \in Ticket, CreateExec(c, k) PROVE Held'
  <2>1. \A d \in Conn \ {c} : conn'[d] = conn[d] /\ conn[d].ticket # k
    BY <1>t, <1>4, TicketedConn, IssueOffice DEF CreateExec, Inv, Issued
  <2>2. /\ conn'[c].pc = "ticketed" /\ conn'[c].ticket = k
        /\ sock[c]["shell"] = "none" /\ UNCHANGED sock
    BY <1>t, <1>4, TicketedConn DEF CreateExec, Inv, NotYet, Early
  <2>3. Spent
    BY <1>t, <1>4, IssueOffice DEF CreateExec
  <2> QED
    BY <2>1, <2>2, <2>3 DEF Inv, Held
<1>5. ASSUME NEW c \in Conn, CreateExecFails(c) PROVE Kept
  BY <1>t, <1>5, GoFrame, IssueOffice, TouchRow DEF CreateExecFails
<1>6. ASSUME NEW c \in Conn, Upgrade(c) \/ UpgradeFails(c) PROVE Kept
  BY <1>t, <1>6, GoFrame, OpenSock DEF Upgrade, UpgradeFails
<1>7. ASSUME NEW c \in Conn, DialExec(c) PROVE Held'
  <2>1. conn[c].ticket \in Ticket
    BY <1>7 DEF DialExec, Inv, Held
  <2>2. /\ state[conn[c].ticket] = "valid" /\ state'[conn[c].ticket] = "spent"
        /\ opened'[conn[c].ticket] = opened[conn[c].ticket] + 1
    BY <1>t, <1>7, <2>1, RedeemOffice DEF DialExec
  <2>3. opened'[conn[c].ticket] = 1
    BY <2>1, <2>2 DEF Inv, Issued
  <2>4. Spent
    BY <1>t, <1>7, <2>1, RedeemOffice DEF DialExec
  <2>5. \A d \in Conn : conn'[d].ticket = conn[d].ticket
    BY <1>t, <1>7, GoFrame DEF DialExec
  <2>6. conn'[c].pc = "dialed" /\ \A d \in Conn \ {c} : conn'[d].pc = conn[d].pc
    BY <1>t, <1>7, GoFrame DEF DialExec
  <2>7. \A d \in Conn \ {c} : sock'[d]["shell"] = sock[d]["shell"]
    BY <1>t, <1>7, OpenSock DEF DialExec
  <2>8. ASSUME NEW d \in Conn
        PROVE  /\ conn'[d].pc \in {"ticketed", "upgraded"} => conn'[d].ticket \in Ticket
               /\ sock'[d]["shell"] # "none" =>
                    conn'[d].ticket \in Ticket /\ state'[conn'[d].ticket] = "spent"
                    /\ opened'[conn'[d].ticket] = 1
    <3>1. CASE d = c
      BY <2>1, <2>2, <2>3, <2>5, <3>1
    <3>2. CASE d # c
      BY <2>4, <2>5, <2>6, <2>7, <3>2 DEF Inv, Held
    <3> QED
      BY <3>1, <3>2
  <2>9. \A d \in Conn : conn'[d].ticket \in Ticket =>
          \A e \in Conn \ {d} : conn'[e].ticket # conn'[d].ticket
    BY <2>5 DEF Inv, Held
  <2> QED
    BY <2>8, <2>9 DEF Held
<1>8. ASSUME NEW c \in Conn, DialExecFails(c) PROVE Kept
  <2>1. conn[c].ticket \in Ticket
    BY <1>8 DEF DialExecFails, Inv, Held
  <2> QED
    BY <1>t, <1>8, <2>1, GoFrame, ClosedSock, RedeemOffice DEF DialExecFails
<1>9. ASSUME NEW c \in Conn, Attach(c) PROVE Kept
  BY <1>t, <1>9, GoFrame, TouchRow DEF Attach
<1>10. ASSUME NEW c \in Conn, Receive(c) PROVE Kept
  BY <1>t, <1>10, GoFrame DEF Receive
<1>11. ASSUME NEW c \in Conn, EndRow(c) PROVE Kept
  BY <1>t, <1>11, GoFrame, TouchRow DEF EndRow
<1>12. ASSUME NEW c \in Conn, Return(c) PROVE Kept
  BY <1>t, <1>12, GoFrame, ClosedSock DEF Return
<1>13. ASSUME NEW t \in Term, CreateTerminal(t) PROVE Kept
  BY <1>t, <1>13 DEF CreateTerminal
<1>14. ASSUME NEW c \in Conn, GoQuiet(c) PROVE Kept
  BY <1>t, <1>14 DEF GoQuiet
<1>15. ASSUME NEW c \in Conn, NEW x \in Side, PeerCloses(c, x) PROVE Kept
  BY <1>t, <1>15, PeerSock DEF PeerCloses
<1>16. ASSUME ChangeLogin \/ ChangeAccess PROVE Kept
  BY <1>t, <1>16 DEF ChangeLogin, ChangeAccess
<1>17. ASSUME Crash PROVE Kept
  BY <1>t, <1>17, CrashConn, CrashSock DEF Crash
<1>18. ASSUME NEW k \in Ticket, TicketLapses(k) PROVE Kept
  BY <1>t, <1>18, LapseOffice DEF TicketLapses
<1>19. ASSUME UNCHANGED vars PROVE Kept
  BY <1>t, <1>19 DEF vars
<1>20. ASSUME GatewayDies PROVE Kept
  BY <1>t, <1>20, GatewaySock DEF GatewayDies
<1> QED
  BY <1>k, <1>1, <1>2, <1>3, <1>4, <1>5, <1>6, <1>7, <1>8, <1>9, <1>10, <1>11, <1>12,
     <1>13, <1>14, <1>15, <1>16, <1>17, <1>18, <1>19, <1>20
  DEF Step, Next, Handler, Environment

\* A token is added together with the exit of the goroutine it comes from.
LEMMA ReportedStep == Inv /\ Step => Reported'
<1> SUFFICES ASSUME Inv, Step PROVE Reported'
  OBVIOUS
<1>t. TypeOK
  BY DEF Inv
<1> DEFINE Kept ==
      \A d \in Conn : done'[d] = 0 \/ (done'[d] <= done[d] /\ task'[d] = task[d])
<1>d. \A d \in Conn : done[d] \in Nat
  <2>1. \A d \in Conn : done[d] \in 0..DoneCap
    BY <1>t DEF TypeOK
  <2> QED
    BY <2>1 DEF DoneCap
<1>e. \A d \in Conn : done'[d] \in Nat
  <2>1. \A d \in Conn : done'[d] \in 0..DoneCap
    BY TypeStep DEF TypeOK
  <2> QED
    BY <2>1 DEF DoneCap
<1>k. ASSUME Kept PROVE Reported'
  <2> SUFFICES ASSUME NEW d \in Conn
               PROVE  (done[d] <= Exited(d, "browser") + Exited(d, "shell") + Exited(d, "watchdog"))'
    BY DEF Reported
  <2>1. done[d] <= Exited(d, "browser") + Exited(d, "shell") + Exited(d, "watchdog")
    BY DEF Inv, Reported
  <2>2. CASE done'[d] = 0
    BY <2>2 DEF Exited
  <2>3. CASE done'[d] <= done[d] /\ task'[d] = task[d]
    <3>1. \A g : Exited(d, g)' = Exited(d, g)
      BY <2>3 DEF Exited
    <3>2. \A g : Exited(d, g) \in Nat
      BY DEF Exited
    <3>3. done'[d] \in Nat /\ done[d] \in Nat
      BY <1>d, <1>e
    <3> QED
      BY <2>1, <2>3, <3>1, <3>2, <3>3
  <2> QED
    BY <1>k, <2>2, <2>3
<1> USE DEF db, office
<1>1. ASSUME NEW c \in Conn, Goroutine(c) PROVE Reported'
  <2> SUFFICES ASSUME NEW d \in Conn
               PROVE  (done[d] <= Exited(d, "browser") + Exited(d, "shell") + Exited(d, "watchdog"))'
    BY DEF Reported
  <2> DEFINE Sum == Exited(d, "browser") + Exited(d, "shell") + Exited(d, "watchdog")
  <2>1. done[d] <= Sum
    BY DEF Inv, Reported
  <2>2. CASE d # c \/ UNCHANGED <<task, done>>
    <3>1. task'[d] = task[d] /\ done'[d] = done[d]
      BY <1>t, <1>1, <2>2, GoroutineOwn
    <3> QED
      BY <2>1, <3>1 DEF Exited
  <2>3. ASSUME d = c, NEW g \in Task, NEW s \in {"run", "resolved", "send", "exited"},
               task[c][g] \in {"run", "resolved"},
               task' = [task EXCEPT ![c][g] = s], UNCHANGED done
        PROVE  done'[d] <= Sum'
    <3>1. \A h \in Task : Exited(d, h) <= Exited(d, h)'
      BY <1>t, <2>3 DEF Exited, TypeOK
    <3>2. \A h \in Task : Exited(d, h) \in Nat /\ Exited(d, h)' \in Nat
      BY DEF Exited
    <3> QED
      BY <1>d, <2>1, <2>3, <3>1, <3>2 DEF Task, Side
  <2>4. ASSUME d = c, NEW g \in Task, task[c][g] = "send",
               task' = [task EXCEPT ![c][g] = "exited"], done' = [done EXCEPT ![c] = @ + 1]
        PROVE  done'[d] <= Sum'
    <3>1. \A h \in Task : Exited(d, h)' = IF h = g THEN Exited(d, h) + 1 ELSE Exited(d, h)
      BY <1>t, <2>4 DEF Exited, TypeOK
    <3>2. \A h \in Task : Exited(d, h) \in Nat
      BY DEF Exited
    <3>3. done'[d] = done[d] + 1
      BY <1>t, <2>4 DEF TypeOK
    <3> QED
      BY <1>d, <2>1, <3>1, <3>2, <3>3 DEF Task, Side
  <2> QED
    BY <1>t, <1>1, <2>2, <2>3, <2>4, GoroutineStep
<1>2. ASSUME NEW c \in Conn, NEW t \in Term, GetTerminal(c, t) PROVE Kept
  BY <1>t, <1>2, FoundConn, <1>d DEF GetTerminal
<1>3. ASSUME NEW c \in Conn, Authorize(c) PROVE Kept
  BY <1>t, <1>3, GoFrame, <1>d DEF Authorize
<1>4. ASSUME NEW c \in Conn, NEW k \in Ticket, CreateExec(c, k) PROVE Kept
  BY <1>t, <1>4, TicketedConn, IssueOffice, <1>d DEF CreateExec
<1>5. ASSUME NEW c \in Conn, CreateExecFails(c) PROVE Kept
  BY <1>t, <1>5, GoFrame, IssueOffice, TouchRow, <1>d DEF CreateExecFails
<1>6. ASSUME NEW c \in Conn, Upgrade(c) \/ UpgradeFails(c) PROVE Kept
  BY <1>t, <1>6, GoFrame, OpenSock, <1>d DEF Upgrade, UpgradeFails
<1>7. ASSUME NEW c \in Conn, DialExec(c) PROVE Kept
  BY <1>t, <1>7, GoFrame, OpenSock, <1>d DEF DialExec
<1>8. ASSUME NEW c \in Conn, DialExecFails(c) PROVE Kept
  BY <1>t, <1>8, GoFrame, ClosedSock, TouchRow, <1>d DEF DialExecFails
<1>9. ASSUME NEW c \in Conn, Attach(c) PROVE Kept
  BY <1>t, <1>9 DEF Attach, TypeOK, Inv, NotYet, Early
<1>10. ASSUME NEW c \in Conn, Receive(c) PROVE Kept
  BY <1>t, <1>10, GoFrame, <1>d DEF Receive
<1>11. ASSUME NEW c \in Conn, EndRow(c) PROVE Kept
  BY <1>t, <1>11, GoFrame, TouchRow, <1>d DEF EndRow
<1>12. ASSUME NEW c \in Conn, Return(c) PROVE Kept
  BY <1>t, <1>12, GoFrame, ClosedSock, <1>d DEF Return
<1>13. ASSUME NEW t \in Term, CreateTerminal(t) PROVE Kept
  BY <1>t, <1>13, <1>d DEF CreateTerminal
<1>14. ASSUME NEW c \in Conn, GoQuiet(c) PROVE Kept
  BY <1>t, <1>14, <1>d DEF GoQuiet
<1>15. ASSUME NEW c \in Conn, NEW x \in Side, PeerCloses(c, x) PROVE Kept
  BY <1>t, <1>15, PeerSock, <1>d DEF PeerCloses
<1>16. ASSUME ChangeLogin \/ ChangeAccess PROVE Kept
  BY <1>t, <1>16, <1>d DEF ChangeLogin, ChangeAccess
<1>17. ASSUME Crash PROVE Kept
  BY <1>t, <1>17, CrashConn, CrashSock, <1>d DEF Crash
<1>18. ASSUME NEW k \in Ticket, TicketLapses(k) PROVE Kept
  BY <1>t, <1>18, LapseOffice, <1>d DEF TicketLapses
<1>19. ASSUME UNCHANGED vars PROVE Kept
  BY <1>t, <1>19, <1>d DEF vars
<1>20. ASSUME GatewayDies PROVE Kept
  BY <1>t, <1>20, GatewaySock, <1>d DEF GatewayDies
<1> QED
  BY <1>k, <1>1, <1>2, <1>3, <1>4, <1>5, <1>6, <1>7, <1>8, <1>9, <1>10, <1>11, <1>12,
     <1>13, <1>14, <1>15, <1>16, <1>17, <1>18, <1>19, <1>20
  DEF Step, Next, Handler, Environment

-----------------------------------------------------------------------------
LEMMA InvStep == Inv /\ Step => Inv'
BY TypeStep, NotYetStep, IssuedStep, HeldStep, ReportedStep, LiveStep, EndsStep DEF Inv

\* What the invariant says about the properties of the runs.
LEMMA InvMeans == Inv => SendNeverBlocks /\ OwnShell
<1> SUFFICES ASSUME Inv PROVE SendNeverBlocks /\ OwnShell
  OBVIOUS
<1>1. OwnShell
  BY DEF Inv, Held, OwnShell
<1>2. ASSUME NEW c \in Conn, NEW g \in Task, task[c][g] = "send" PROVE done[c] < DoneCap
  <2>1. done[c] <= Exited(c, "browser") + Exited(c, "shell") + Exited(c, "watchdog")
    BY DEF Inv, Reported
  <2>2. Exited(c, g) = 0 /\ \A h \in Task : Exited(c, h) \in {0, 1}
    BY <1>2 DEF Exited
  <2>3. g \in {"browser", "shell", "watchdog"} /\ Task = {"browser", "shell", "watchdog"}
    BY DEF Task, Side
  <2>4. done[c] \in 0..DoneCap
    BY DEF Inv, TypeOK
  <2> QED
    BY <2>1, <2>2, <2>3, <2>4 DEF DoneCap
<1> QED
  BY <1>1, <1>2 DEF SendNeverBlocks

LEMMA InvAlways == Spec => []Inv
<1>1. Inv /\ [Next]_vars => Inv'
  BY InvStep DEF Step
<1> QED
  BY InitInv, <1>1, PTL DEF Spec

\* The state of terminalWS and of its table stays well formed, for any number
\* of connections; in particular a full channel never overflows.
THEOREM TypeCorrect == Spec => []TypeOK
BY InvAlways, PTL DEF Inv

(***************************************************************************)
(* However many terminals and connections there are, and whatever they do, *)
(* the buffer of 'done' always has room: copyWS and the watchdog of        *)
(* terminalWS never block on the send that ends them.                      *)
(***************************************************************************)
THEOREM NeverBlocks == Spec => []SendNeverBlocks
BY InvAlways, InvMeans, PTL

(***************************************************************************)
(* A row of terminal_sessions that says "attached" always has a connection *)
(* that will end it, or that the Server crashed under.                     *)
(***************************************************************************)
THEOREM AttachedRowsLive == Spec => []AttachedIsLive
BY InvAlways, PTL DEF Inv

(***************************************************************************)
(* A connection of terminalWS that reached a shell exchanged a ticket that *)
(* is its own and that was exchanged once.                                 *)
(***************************************************************************)
THEOREM ShellsNotShared == Spec => []OwnShell
BY InvAlways, InvMeans, PTL

(***************************************************************************)
(* terminalWS writes EXEC_END at most once, and before it returns from a   *)
(* connection that had a shell.                                            *)
(***************************************************************************)
THEOREM EndRecorded == Spec => []EndRecordedOnce
BY InvAlways, PTL DEF Inv

-----------------------------------------------------------------------------
\* Apart from the death of the Gateway, every step of ShellSession is a step
\* of Terminal for the Server, or leaves it alone.
LEMMA ShellStep == [ShellNext]_shellVars => Step
<1> USE DEF gateVars
<1>1. ASSUME NEW c \in Conn, ServerStep(c) PROVE Next
  <2>1. CASE \E t \in Term : GetTerminal(c, t)
    BY <2>1 DEF Next, Handler
  <2>2. CASE \E k \in Ticket : CreateExec(c, k)
    BY <2>2 DEF Next, Handler
  <2>3. CASE \/ Authorize(c) \/ CreateExecFails(c) \/ Upgrade(c) \/ UpgradeFails(c) \/ Attach(c)
             \/ Receive(c) \/ EndRow(c) \/ Return(c)
    BY <2>3 DEF Next, Handler
  <2>4. CASE \E side \in Side : CopyEnds(c, side)
    BY <2>4 DEF Next, Goroutine
  <2>5. CASE WatchTick(c) \/ WatchPolicy(c) \/ WatchStop(c) \/ \E g \in Task : Send(c, g)
    BY <2>5 DEF Next, Goroutine
  <2>6. CASE GoQuiet(c) \/ PeerCloses(c, "browser")
    BY <2>6 DEF Next, Environment, Side
  <2> QED
    BY <1>1, <2>1, <2>2, <2>3, <2>4, <2>5, <2>6 DEF ServerStep
<1>2. ASSUME NEW c \in Conn, HangUp(c) PROVE [Next]_vars
  BY <1>2 DEF HangUp, Next, Environment, Side
<1>3. ASSUME NEW c \in Conn, GatewayStep(c) PROVE [Next]_vars
  <2>1. CASE AttachExecFails(c) \/ GwReturns(c)
    BY <1>2, <2>1 DEF AttachExecFails, GwReturns
  <2>2. CASE ShellMessage(c)
    BY <2>2 DEF ShellMessage, Next, Goroutine, Side
  <2> QED
    BY <1>3, <2>1, <2>2
    DEF GatewayStep, AttachExec, ReaderWriteFails, ReaderEnds, GwReads, ResizeReturns,
        WriteReturns, GwReadFails, GwCloses
<1>4. ASSUME NEW c \in Conn, Dial(c) \/ DialFails(c) PROVE Next
  BY <1>4 DEF Dial, DialFails, Next, Handler
<1>5. ASSUME NEW c \in Conn, UserMessage(c) \/ UserMessageTooLong(c) PROVE Next
  BY <1>5 DEF UserMessage, UserMessageTooLong, Next, Goroutine, Side
<1>6. ASSUME NEW c \in Conn, ShellExits(c) \/ UserFallsSilent(c) PROVE UNCHANGED vars
  BY <1>6 DEF ShellExits, UserFallsSilent
<1>7. CASE Elsewhere
  BY <1>7 DEF Elsewhere, Step, Next, Environment
<1>8. CASE UNCHANGED shellVars
  BY <1>8 DEF shellVars, Step
<1> QED
  BY <1>1, <1>3, <1>4, <1>5, <1>6, <1>7, <1>8 DEF ShellNext, Step

(***************************************************************************)
(* The Gateway's end of a shell, with its own crashes, breaks none of the  *)
(* four promises of the Server: they hold when the other ends of its       *)
(* sockets are the handler attach and the shell of ShellSession.           *)
(***************************************************************************)
THEOREM ShellKeepsPromises ==
  ShellSpec => [](SendNeverBlocks /\ AttachedIsLive /\ OwnShell /\ EndRecordedOnce)
<1>1. ShellInit => Inv
  BY InitInv DEF ShellInit
<1>2. Inv /\ [ShellNext]_shellVars => Inv'
  BY ShellStep, InvStep
<1>3. Inv => SendNeverBlocks /\ AttachedIsLive /\ OwnShell /\ EndRecordedOnce
  BY InvMeans DEF Inv
<1> QED
  BY <1>1, <1>2, <1>3, PTL DEF ShellSpec
=============================================================================
