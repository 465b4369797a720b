------------------------------ MODULE Terminal ------------------------------
(***************************************************************************)
(* Terminal sessions of the DockerView server: createTerminal and          *)
(* terminalWS of internal/api/server.go, the table terminal_sessions, and  *)
(* the Gateway's tickets as TicketOffice promises them.                    *)
(*                                                                         *)
(* One user and one container: GetTerminal matches the owner and every     *)
(* connection of a terminal belongs to it.  'signedIn' says whether the    *)
(* user's session resolves, 'allowed' whether Evaluate grants              *)
(* container.exec on the container now.  A connection is one WebSocket     *)
(* request with its three goroutines (two copyWS and the watchdog), which  *)
(* report their end on the buffered channel 'done'.                        *)
(***************************************************************************)
EXTENDS Naturals, FiniteSets

CONSTANTS Term,   \* terminal session ids
          Conn,   \* WebSocket requests
          Ticket, \* exec tickets of the Gateway
          None

ASSUME NoneAssumption == None \notin Term /\ None \notin Ticket

VARIABLES row,      \* table terminal_sessions: the status of each row
          signedIn, \* the user's session resolves
          allowed,  \* container.exec is granted on the container
          conn,     \* handler of each connection
          sock,     \* its sockets
          task,     \* its goroutines
          done,     \* tokens in its channel 'done'
          quiet,    \* no message for the idle timeout
          ends,     \* history: EXEC_END events of the connection
          state,    \* TicketOffice: what a ticket is worth
          opened    \* TicketOffice: how often it was exchanged

Office == INSTANCE TicketOffice

db == <<row, signedIn, allowed>>
office == <<state, opened>>
vars == <<row, signedIn, allowed, conn, sock, task, done, quiet, ends, state, opened>>

Side == {"browser", "shell"}   \* copyWS(gateway, browser), copyWS(browser, gateway)
Task == Side \cup {"watchdog"}

\* Mutant of DoneCap: room for one report.
DoneCapOne == 1

\* done := make(chan struct{}, 3)
DoneCap == 3

Pc == {"idle", "found", "authorized", "ticketed", "upgraded", "dialed",
       "running", "closing", "recording", "gone", "crashed"}

TypeOK ==
  /\ row \in [Term -> {"none", "created", "attached", "ended"}]
  /\ signedIn \in BOOLEAN /\ allowed \in BOOLEAN
  /\ conn \in [Conn -> [pc: Pc, term: Term \cup {None}, ticket: Ticket \cup {None}]]
  /\ sock \in [Conn -> [Side -> {"none", "open", "closed"}]]
  /\ task \in [Conn -> [Task -> {"off", "run", "resolved", "send", "exited"}]]
  /\ done \in [Conn -> 0..DoneCap]
  /\ quiet \in [Conn -> BOOLEAN]
  /\ ends \in [Conn -> Nat]
  /\ state \in [Ticket -> {"fresh", "valid", "spent"}]
  /\ opened \in [Ticket -> Nat]

Init ==
  /\ row = [t \in Term |-> "none"]
  /\ signedIn = TRUE /\ allowed \in BOOLEAN
  /\ conn = [c \in Conn |-> [pc |-> "idle", term |-> None, ticket |-> None]]
  /\ sock = [c \in Conn |-> [x \in Side |-> "none"]]
  /\ task = [c \in Conn |-> [g \in Task |-> "off"]]
  /\ done = [c \in Conn |-> 0]
  /\ quiet = [c \in Conn |-> FALSE]
  /\ ends = [c \in Conn |-> 0]
  /\ Office!OfficeInit

-----------------------------------------------------------------------------
Go(c, pc) == conn' = [conn EXCEPT ![c].pc = pc]

\* TouchTerminal: UPDATE ... SET status=? WHERE id=?, whatever the status was.
Touch(c, status) == row' = [row EXCEPT ![conn[c].term] = status]

Closed(c) == sock' = [sock EXCEPT ![c] = [x \in Side |-> IF @[x] = "open" THEN "closed" ELSE @[x]]]

-----------------------------------------------------------------------------
\* createTerminal: authorizeResource, then CreateTerminal and EXEC_START.
CreateTerminal(t) ==
  /\ signedIn /\ allowed
  /\ row[t] = "none"
  /\ row' = [row EXCEPT ![t] = "created"]
  /\ UNCHANGED <<signedIn, allowed, conn, sock, task, done, quiet, ends, office>>

(***************************************************************************)
(* terminalWS up to the lookup: requireSession, Origin, CSRF, GetTerminal. *)
(* A refused lookup changes nothing and no browser is obliged to connect,  *)
(* so the expires_at of the row only makes this step not happen: a row     *)
(* that is never looked up again covers it.                                *)
(***************************************************************************)
GetTerminal(c, t) ==
  /\ conn[c].pc = "idle"
  /\ signedIn
  /\ row[t] \in {"created", "attached"}
  /\ conn' = [conn EXCEPT ![c] = [pc |-> "found", term |-> t, ticket |-> None]]
  /\ UNCHANGED <<db, sock, task, done, quiet, ends, office>>

\* authorizeResource: a denial answers 403, an error of the Gateway or of the
\* store 404 or 500; both leave the row as it is.
Authorize(c) ==
  /\ conn[c].pc = "found"
  /\ (allowed /\ Go(c, "authorized")) \/ Go(c, "gone")
  /\ UNCHANGED <<db, sock, task, done, quiet, ends, office>>

\* Mutant of CreateExec: a ticket that is still valid is used again.
CreateExecShared(c, k) ==
  /\ conn[c].pc = "authorized"
  /\ Office!IssueOne(k) \/ (state[k] = "valid" /\ UNCHANGED office)
  /\ conn' = [conn EXCEPT ![c] = [pc |-> "ticketed", term |-> @.term, ticket |-> k]]
  /\ UNCHANGED <<db, sock, task, done, quiet, ends>>

CreateExec(c, k) ==
  /\ conn[c].pc = "authorized"
  /\ Office!IssueOne(k)
  /\ conn' = [conn EXCEPT ![c] = [pc |-> "ticketed", term |-> @.term, ticket |-> k]]
  /\ UNCHANGED <<db, sock, task, done, quiet, ends>>

\* The Gateway refuses, or its answer with the ticket is lost.  The update
\* uses the request's context: if the browser went away the row stays.
CreateExecFails(c) ==
  /\ conn[c].pc = "authorized"
  /\ UNCHANGED office \/ \E k \in Ticket : Office!IssueOne(k)
  /\ Touch(c, "ended") \/ UNCHANGED row
  /\ Go(c, "gone")
  /\ UNCHANGED <<signedIn, allowed, sock, task, done, quiet, ends>>

Upgrade(c) ==
  /\ conn[c].pc = "ticketed"
  /\ sock' = [sock EXCEPT ![c]["browser"] = "open"]
  /\ Go(c, "upgraded")
  /\ UNCHANGED <<db, task, done, quiet, ends, office>>

\* The handler returns at once: row and ticket are left behind.
UpgradeFails(c) ==
  /\ conn[c].pc = "ticketed"
  /\ Go(c, "gone")
  /\ UNCHANGED <<db, sock, task, done, quiet, ends, office>>

DialExec(c) ==
  /\ conn[c].pc = "upgraded"
  /\ Office!RedeemOne(conn[c].ticket)
  /\ sock' = [sock EXCEPT ![c]["shell"] = "open"]
  /\ Go(c, "dialed")
  /\ UNCHANGED <<db, task, done, quiet, ends>>

\* The ticket is refused, or spent before the connection fails.  Dial and
\* update use the request's context: if the browser went away before the
\* upgrade both fail and the row stays.
DialExecFails(c) ==
  /\ conn[c].pc = "upgraded"
  /\ UNCHANGED office \/ Office!RedeemOne(conn[c].ticket)
  /\ Touch(c, "ended") \/ UNCHANGED row
  /\ Closed(c)
  /\ Go(c, "gone")
  /\ UNCHANGED <<signedIn, allowed, task, done, quiet, ends>>

\* TouchTerminal(..., "attached"), then the three goroutines are started.
Attach(c) ==
  /\ conn[c].pc = "dialed"
  /\ Touch(c, "attached")
  /\ task' = [task EXCEPT ![c] = [g \in Task |-> "run"]]
  /\ quiet' = [quiet EXCEPT ![c] = FALSE]
  /\ Go(c, "running")
  /\ UNCHANGED <<signedIn, allowed, sock, done, ends, office>>

-----------------------------------------------------------------------------
SetTask(c, g, s) == task' = [task EXCEPT ![c][g] = s]

\* copyWS moves a message from 'side'.  The write may fail, on a peer that is
\* gone or at its deadline of 10 s, or vanish in a peer that has just left.
Copy(c, side) ==
  /\ task[c][side] = "run"
  /\ sock[c][side] = "open"
  /\ quiet' = [quiet EXCEPT ![c] = FALSE]
  /\ UNCHANGED task \/ SetTask(c, side, "send")
  /\ UNCHANGED <<db, conn, sock, done, ends, office>>

\* ReadMessage fails: the socket is closed.
CopyEnds(c, side) ==
  /\ task[c][side] = "run"
  /\ sock[c][side] = "closed"
  /\ SetTask(c, side, "send")
  /\ UNCHANGED <<db, conn, sock, done, quiet, ends, office>>

\* ReadMessage fails: the message exceeds the read limit of 16 KiB.
CopyTooLong(c, side) ==
  /\ task[c][side] = "run"
  /\ sock[c][side] = "open"
  /\ SetTask(c, side, "send")
  /\ UNCHANGED <<db, conn, sock, done, quiet, ends, office>>

\* Mutant of WatchTick: the idle time is not looked at.
WatchTickNoIdle(c) ==
  /\ task[c]["watchdog"] = "run"
  /\ (signedIn /\ SetTask(c, "watchdog", "resolved")) \/ SetTask(c, "watchdog", "send")
  /\ UNCHANGED <<db, conn, sock, done, quiet, ends, office>>

\* The ticker fires: the idle time, then ResolveSession, of which an error,
\* also at the end of the 4 s, counts as a refusal.
WatchTick(c) ==
  /\ task[c]["watchdog"] = "run"
  /\ \/ ~quiet[c] /\ signedIn /\ SetTask(c, "watchdog", "resolved")
     \/ SetTask(c, "watchdog", "send")
  /\ UNCHANGED <<db, conn, sock, done, quiet, ends, office>>

\* Mutant of WatchPolicy: the decision is not made again.
WatchPolicyTrusted(c) ==
  /\ task[c]["watchdog"] = "resolved"
  /\ SetTask(c, "watchdog", "run")
  /\ UNCHANGED <<db, conn, sock, done, quiet, ends, office>>

\* inspectResource, ListPolicies and Evaluate, with errors likewise.
WatchPolicy(c) ==
  /\ task[c]["watchdog"] = "resolved"
  /\ (allowed /\ SetTask(c, "watchdog", "run")) \/ SetTask(c, "watchdog", "send")
  /\ UNCHANGED <<db, conn, sock, done, quiet, ends, office>>

\* case <-watchdogStop, closed when the handler returns.
WatchStop(c) ==
  /\ task[c]["watchdog"] = "run"
  /\ conn[c].pc = "gone"
  /\ SetTask(c, "watchdog", "exited")
  /\ UNCHANGED <<db, conn, sock, done, quiet, ends, office>>

\* done <- struct{}{} blocks while the buffer is full.
Send(c, g) ==
  /\ task[c][g] = "send"
  /\ done[c] < DoneCap
  /\ done' = [done EXCEPT ![c] = @ + 1]
  /\ SetTask(c, g, "exited")
  /\ UNCHANGED <<db, conn, sock, quiet, ends, office>>

-----------------------------------------------------------------------------
\* <-done
Receive(c) ==
  /\ conn[c].pc = "running"
  /\ done[c] > 0
  /\ done' = [done EXCEPT ![c] = @ - 1]
  /\ Go(c, "closing")
  /\ UNCHANGED <<db, sock, task, quiet, ends, office>>

\* Mutant of EndRow: the row is not marked ended.
EndRowSkipped(c) ==
  /\ conn[c].pc = "closing"
  /\ Go(c, "recording")
  /\ UNCHANGED <<db, sock, task, done, quiet, ends, office>>

EndRow(c) ==
  /\ conn[c].pc = "closing"
  /\ Touch(c, "ended")
  /\ Go(c, "recording")
  /\ UNCHANGED <<signedIn, allowed, sock, task, done, quiet, ends, office>>

\* Mutants of Return: no EXEC_END, or the sockets are left open.
ReturnUnrecorded(c) ==
  /\ conn[c].pc = "recording"
  /\ Closed(c)
  /\ Go(c, "gone")
  /\ UNCHANGED <<db, task, done, quiet, ends, office>>
ReturnLeavesOpen(c) ==
  /\ conn[c].pc = "recording"
  /\ ends' = [ends EXCEPT ![c] = @ + 1]
  /\ Go(c, "gone")
  /\ UNCHANGED <<db, sock, task, done, quiet, office>>

\* EXEC_END, then the deferred close of watchdogStop and of both sockets.
Return(c) ==
  /\ conn[c].pc = "recording"
  /\ ends' = [ends EXCEPT ![c] = @ + 1]
  /\ Closed(c)
  /\ Go(c, "gone")
  /\ UNCHANGED <<db, task, done, quiet, office>>

-----------------------------------------------------------------------------
\* The browser, or the Gateway's end of the shell, goes away.
PeerCloses(c, side) ==
  /\ sock[c][side] = "open"
  /\ sock' = [sock EXCEPT ![c][side] = "closed"]
  /\ UNCHANGED <<db, conn, task, done, quiet, ends, office>>

\* The idle timeout passes without a message.
GoQuiet(c) ==
  /\ conn[c].pc = "running" /\ ~quiet[c]
  /\ quiet' = [quiet EXCEPT ![c] = TRUE]
  /\ UNCHANGED <<db, conn, sock, task, done, ends, office>>

\* Logout, revocation, expiry of the login or disablement; or the user is
\* enabled again, or the texts of the last second compare the other way.
ChangeLogin ==
  /\ signedIn' = ~signedIn
  /\ UNCHANGED <<row, allowed, conn, sock, task, done, quiet, ends, office>>

\* A policy, a role or the user's roles change.
ChangeAccess ==
  /\ allowed' = ~allowed
  /\ UNCHANGED <<row, signedIn, conn, sock, task, done, quiet, ends, office>>

TicketLapses(k) ==
  /\ state[k] = "valid"
  /\ Office!Lapse({k})
  /\ UNCHANGED <<db, conn, sock, task, done, quiet, ends>>

\* The server process dies: handlers and goroutines vanish, the rows stay.
Crash ==
  /\ conn' = [c \in Conn |-> IF conn[c].pc \in {"idle", "gone"} THEN conn[c]
                             ELSE [conn[c] EXCEPT !.pc = "crashed"]]
  /\ sock' = [c \in Conn |-> [x \in Side |-> IF sock[c][x] = "open" THEN "closed" ELSE sock[c][x]]]
  /\ task' = [c \in Conn |-> [g \in Task |-> "off"]]
  /\ done' = [c \in Conn |-> 0]
  /\ quiet' = [c \in Conn |-> FALSE]
  /\ UNCHANGED <<db, ends, office>>

-----------------------------------------------------------------------------
Handler(c) ==
  \/ \E t \in Term : GetTerminal(c, t)
  \/ Authorize(c)
  \/ \E k \in Ticket : CreateExec(c, k)
  \/ CreateExecFails(c)
  \/ Upgrade(c) \/ UpgradeFails(c)
  \/ DialExec(c) \/ DialExecFails(c)
  \/ Attach(c)
  \/ Receive(c) \/ EndRow(c) \/ Return(c)

Goroutine(c) ==
  \/ \E side \in Side : Copy(c, side) \/ CopyEnds(c, side) \/ CopyTooLong(c, side)
  \/ WatchTick(c) \/ WatchPolicy(c) \/ WatchStop(c)
  \/ \E g \in Task : Send(c, g)

Environment ==
  \/ \E t \in Term : CreateTerminal(t)
  \/ \E c \in Conn : GoQuiet(c) \/ \E side \in Side : PeerCloses(c, side)
  \/ ChangeLogin \/ ChangeAccess \/ Crash
  \/ \E k \in Ticket : TicketLapses(k)

Next == (\E c \in Conn : Handler(c) \/ Goroutine(c)) \/ Environment

Spec == Init /\ [][Next]_vars

(***************************************************************************)
(* Every goroutine runs: a closed socket makes ReadMessage return, the     *)
(* ticker fires and the check is bounded by its 4 s context.  The select   *)
(* of the watchdog picks among ready cases at random, so watchdogStop,     *)
(* once closed, is taken in the end though ticks keep coming: strong       *)
(* fairness.  No message, peer or administrator is ever obliged to act.    *)
(***************************************************************************)
Fairness ==
  \A c \in Conn :
    /\ WF_vars(Receive(c) \/ EndRow(c) \/ Return(c))
    /\ \A side \in Side : WF_vars(CopyEnds(c, side) \/ Send(c, side))
    /\ WF_vars(WatchTick(c) \/ WatchPolicy(c) \/ Send(c, "watchdog"))
    /\ SF_vars(WatchStop(c))

-----------------------------------------------------------------------------
(***************************************************************************)
(* No goroutine ever waits on the channel 'done', although the handler     *)
(* takes a single token out: the buffer has room for whoever reports.      *)
(***************************************************************************)
SendNeverBlocks ==
  \A c \in Conn : \A g \in Task : task[c][g] = "send" => done[c] < DoneCap

(***************************************************************************)
(* A row that says "attached" has a connection behind it that will mark it *)
(* ended, even when several connections share the terminal; only a crash   *)
(* of the server leaves one behind.                                        *)
(***************************************************************************)
AttachedIsLive ==
  \A t \in Term : row[t] = "attached" =>
    \E c \in Conn : conn[c].term = t /\ conn[c].pc \in {"running", "closing", "crashed"}

(***************************************************************************)
(* Each connection that reached a shell exchanged a ticket of its own,     *)
(* exactly once: two browsers on one terminal never share an exec.         *)
(***************************************************************************)
OwnShell ==
  \A c \in Conn : sock[c]["shell"] # "none" =>
    /\ conn[c].ticket \in Ticket /\ opened[conn[c].ticket] = 1
    /\ \A d \in Conn \ {c} : conn[d].ticket # conn[c].ticket

\* EXEC_END is written at most once, and before the handler of an attached
\* connection returns.
EndRecordedOnce ==
  \A c \in Conn : /\ ends[c] <= 1
                  /\ conn[c].pc = "gone" /\ sock[c]["shell"] # "none" => ends[c] = 1
                  /\ ends[c] = 1 => conn[c].pc = "gone"

-----------------------------------------------------------------------------
Over(c) == conn[c].pc \in {"gone", "crashed"}

(***************************************************************************)
(* Logout, revocation or disablement ends an open terminal unless the      *)
(* login is back meanwhile, and so does the loss of container.exec: the    *)
(* watchdog repeats both checks on its ticks, also while messages flow.    *)
(* The checks are two reads, so a login and a grant that come and go in    *)
(* turn, never both there, can keep a terminal open.                       *)
(***************************************************************************)
AccessLossEnds ==
  \A c \in Conn :
    /\ (conn[c].pc = "running" /\ ~signedIn) ~> (Over(c) \/ signedIn)
    /\ (conn[c].pc = "running" /\ ~allowed) ~> (Over(c) \/ allowed)

\* A terminal without traffic for the idle timeout is closed.
IdleEnds ==
  \A c \in Conn : (conn[c].pc = "running" /\ quiet[c]) ~> (Over(c) \/ ~quiet[c])

(***************************************************************************)
(* A disconnect on either side closes the other side and is recorded       *)
(* (docs/terminal.md: "Disconnect closes both sockets/attach and writes    *)
(* duration-only audit").                                                  *)
(***************************************************************************)
DisconnectEnds ==
  \A c \in Conn :
    (conn[c].pc = "running" /\ \E x \in Side : sock[c][x] = "closed")
      ~> \/ conn[c].pc = "gone" /\ ends[c] = 1 /\ \A x \in Side : sock[c][x] = "closed"
         \/ conn[c].pc = "crashed"

-----------------------------------------------------------------------------
(***************************************************************************)
(* docs/terminal.md: "a closed or expired session cannot be reopened".     *)
(* GetTerminal looks at the status long before TouchTerminal overwrites    *)
(* it, so the code does not keep this for two connections of one terminal. *)
(***************************************************************************)
ClosedStaysClosed ==
  [][\A t \in Term : row[t] = "ended" => row'[t] = "ended"]_vars
=============================================================================
