--------------------------- MODULE ShellSession ---------------------------
(***************************************************************************)
(* Terminal composed with the Gateway's end of the shell: the handler      *)
(* attach of internal/gateway/handler.go, the goroutine that reads the     *)
(* attached exec, and the shell in the container.                          *)
(*                                                                         *)
(* Terminal lets the Gateway's end go away, and messages come, at any      *)
(* time.  Here they come from somewhere: the shell's output, the user's    *)
(* input, the end of attach.  The Gateway never learns from its reader     *)
(* that the shell is gone; it waits for the Server.                        *)
(*                                                                         *)
(* Output is written and read in one step: both ends have a deadline of    *)
(* 10 s.  The user's messages wait in the socket to the Gateway ('inbox')  *)
(* while attach is busy: its calls to Docker and its writes to the exec    *)
(* have neither a deadline nor a context that ends with the connection.    *)
(***************************************************************************)
EXTENDS Terminal

CONSTANT Backlog \* messages the socket to the Gateway holds

ASSUME BacklogAssumption == Backlog \in Nat \ {0}

VARIABLES gw,     \* the handler attach of each connection
          reader, \* its goroutine
          att,    \* the hijacked connection to the exec
          shell,  \* the process in the container
          inbox,  \* messages that wait for the main loop of attach
          mute    \* the user sends nothing any more

gateVars == <<gw, reader, att, shell, inbox, mute>>
shellVars == <<vars, gateVars>>

ShellTypeOK ==
  /\ gw \in [Conn -> {"none", "attaching", "loop", "resizing", "writing",
                      "closing", "waiting", "gone"}]
  /\ reader \in [Conn -> {"off", "run", "exited"}]
  /\ att \in [Conn -> {"none", "open", "closed"}]
  /\ shell \in [Conn -> {"none", "running", "exited"}]
  /\ inbox \in [Conn -> 0..Backlog]
  /\ mute \in [Conn -> BOOLEAN]

ShellInit ==
  /\ Init
  /\ gw = [c \in Conn |-> "none"]
  /\ reader = [c \in Conn |-> "off"]
  /\ att = [c \in Conn |-> "none"]
  /\ shell = [c \in Conn |-> "none"]
  /\ inbox = [c \in Conn |-> 0]
  /\ mute = [c \in Conn |-> FALSE]

GoGw(c, pc) == gw' = [gw EXCEPT ![c] = pc]

\* The connection to the Server is given up, with the messages in it.
Drop(c) == inbox' = [inbox EXCEPT ![c] = 0]

-----------------------------------------------------------------------------
\* The ticket is exchanged and the WebSocket is up on both ends.
Dial(c) ==
  /\ DialExec(c)
  /\ GoGw(c, "attaching")
  /\ UNCHANGED <<reader, att, shell, inbox, mute>>

\* The Server gives up.  If the ticket was spent the Gateway may have upgraded
\* the connection and go on without it.
DialFails(c) ==
  /\ DialExecFails(c)
  /\ UNCHANGED gw \/ (office' # office /\ GoGw(c, "attaching"))
  /\ UNCHANGED <<reader, att, shell, inbox, mute>>

\* AttachExec starts the shell and the reader goroutine.
AttachExec(c) ==
  /\ gw[c] = "attaching"
  /\ att' = [att EXCEPT ![c] = "open"]
  /\ shell' = [shell EXCEPT ![c] = "running"]
  /\ reader' = [reader EXCEPT ![c] = "run"]
  /\ GoGw(c, "loop")
  /\ UNCHANGED <<vars, inbox, mute>>

\* The deferred ws.Close, seen by the Server as its peer closing.
HangUp(c) ==
  IF sock[c]["shell"] = "open" THEN PeerCloses(c, "shell") ELSE UNCHANGED vars

\* AttachExec fails: an error message, which the Server may pass on, and the
\* end.
AttachExecFails(c) ==
  /\ gw[c] = "attaching"
  /\ GoGw(c, "gone")
  /\ HangUp(c)
  /\ Drop(c)
  /\ UNCHANGED <<reader, att, shell, mute>>

-----------------------------------------------------------------------------
\* The reader passes output on, copyWS(browser, gateway) takes it.
ShellMessage(c) ==
  /\ reader[c] = "run" /\ att[c] = "open" /\ shell[c] = "running"
  /\ Copy(c, "shell")
  /\ UNCHANGED gateVars

\* WriteMessage fails: the Server is gone, or reads nothing for 10 s.
ReaderWriteFails(c) ==
  /\ reader[c] = "run" /\ att[c] = "open" /\ shell[c] = "running"
  /\ sock[c]["shell"] # "open" \/ task[c]["shell"] # "run"
  /\ reader' = [reader EXCEPT ![c] = "exited"]
  /\ UNCHANGED <<vars, gw, att, shell, inbox, mute>>

\* Read fails: the shell has exited, or the connection was closed.
ReaderEnds(c) ==
  /\ reader[c] = "run"
  /\ shell[c] = "exited" \/ att[c] = "closed"
  /\ reader' = [reader EXCEPT ![c] = "exited"]
  /\ UNCHANGED <<vars, gw, att, shell, inbox, mute>>

\* The main loop takes a message: another type or a resize out of bounds is
\* skipped, a resize calls Docker, anything else is written to the exec.
GwReads(c) ==
  /\ gw[c] = "loop" /\ inbox[c] > 0
  /\ inbox' = [inbox EXCEPT ![c] = @ - 1]
  /\ \E pc \in {"loop", "resizing", "writing"} : GoGw(c, pc)
  /\ UNCHANGED <<vars, reader, att, shell, mute>>

\* ResizeExec returns; its error is ignored.
ResizeReturns(c) ==
  /\ gw[c] = "resizing"
  /\ GoGw(c, "loop")
  /\ UNCHANGED <<vars, reader, att, shell, inbox, mute>>

\* attached.Conn.Write returns: there was room in front of the shell's stdin,
\* or the connection to the exec broke.
WriteReturns(c) ==
  /\ gw[c] = "writing"
  /\ GoGw(c, "loop") \/ GoGw(c, "closing")
  /\ UNCHANGED <<vars, reader, att, shell, inbox, mute>>

\* Mutant of GwReadFails: the loop goes on after a failed read.
GwReadFailsAgain(c) ==
  /\ gw[c] = "loop"
  /\ sock[c]["shell"] # "open" \/ conn[c].pc = "recording"
  /\ UNCHANGED shellVars

\* ReadMessage fails: the Server has closed, or has sent its close message;
\* messages that still wait may have been read before, or are lost.
GwReadFails(c) ==
  /\ gw[c] = "loop"
  /\ sock[c]["shell"] # "open" \/ conn[c].pc = "recording"
  /\ GoGw(c, "closing")
  /\ Drop(c)
  /\ UNCHANGED <<vars, reader, att, shell, mute>>

\* attached.Close()
GwCloses(c) ==
  /\ gw[c] = "closing"
  /\ att' = [att EXCEPT ![c] = "closed"]
  /\ GoGw(c, "waiting")
  /\ UNCHANGED <<vars, reader, shell, inbox, mute>>

\* The reader has closed 'done', or a second has passed; the deferred
\* functions close the WebSocket.
GwReturns(c) ==
  /\ gw[c] = "waiting"
  /\ GoGw(c, "gone")
  /\ HangUp(c)
  /\ Drop(c)
  /\ UNCHANGED <<reader, att, shell, mute>>

-----------------------------------------------------------------------------
(***************************************************************************)
(* copyWS(gateway, browser) passes a message of the user on.  It waits in  *)
(* the socket; when that is full WriteMessage fails at its deadline.       *)
(* After the Gateway has closed, the message fails or vanishes.            *)
(***************************************************************************)
UserMessage(c) ==
  LET open == sock[c]["shell"] = "open"
      passed == task'[c]["browser"] = "run"
  IN  /\ ~mute[c]
      /\ Copy(c, "browser")
      /\ open => (passed <=> inbox[c] < Backlog)
      /\ inbox' = [inbox EXCEPT ![c] = IF open /\ passed THEN @ + 1 ELSE @]
      /\ UNCHANGED <<gw, reader, att, shell, mute>>

\* A message of the user above the read limit.  (The Gateway's are at most
\* 8 KiB: it reads the shell into a buffer of that size.)
UserMessageTooLong(c) ==
  /\ ~mute[c]
  /\ CopyTooLong(c, "browser")
  /\ UNCHANGED gateVars

\* exit, or the container stops, while somebody is attached.
ShellExits(c) ==
  /\ shell[c] = "running" /\ att[c] = "open"
  /\ shell' = [shell EXCEPT ![c] = "exited"]
  /\ UNCHANGED <<vars, gw, reader, att, inbox, mute>>

UserFallsSilent(c) ==
  /\ ~mute[c] /\ conn[c].pc = "running"
  /\ mute' = [mute EXCEPT ![c] = TRUE]
  /\ UNCHANGED <<vars, gw, reader, att, shell, inbox>>

\* The Gateway process dies: its handlers, goroutines and sockets with it.
GatewayDies ==
  /\ gw' = [c \in Conn |-> IF gw[c] = "none" THEN "none" ELSE "gone"]
  /\ reader' = [c \in Conn |-> IF reader[c] = "run" THEN "exited" ELSE reader[c]]
  /\ att' = [c \in Conn |-> IF att[c] = "open" THEN "closed" ELSE att[c]]
  /\ sock' = [c \in Conn |-> [sock[c] EXCEPT !["shell"] = IF @ = "open" THEN "closed" ELSE @]]
  /\ inbox' = [c \in Conn |-> 0]
  /\ UNCHANGED <<db, conn, task, done, quiet, ends, office, shell, mute>>

-----------------------------------------------------------------------------
GatewayStep(c) ==
  \/ AttachExec(c) \/ AttachExecFails(c)
  \/ ShellMessage(c) \/ ReaderWriteFails(c) \/ ReaderEnds(c)
  \/ GwReads(c) \/ ResizeReturns(c) \/ WriteReturns(c)
  \/ GwReadFails(c) \/ GwCloses(c) \/ GwReturns(c)

\* The steps of Terminal the Gateway has no part in.
ServerStep(c) ==
  /\ \/ \E t \in Term : GetTerminal(c, t)
     \/ Authorize(c)
     \/ \E k \in Ticket : CreateExec(c, k)
     \/ CreateExecFails(c)
     \/ Upgrade(c) \/ UpgradeFails(c)
     \/ Attach(c)
     \/ \E side \in Side : CopyEnds(c, side)
     \/ WatchTick(c) \/ WatchPolicy(c) \/ WatchStop(c)
     \/ \E g \in Task : Send(c, g)
     \/ Receive(c) \/ EndRow(c) \/ Return(c)
     \/ GoQuiet(c)
     \/ PeerCloses(c, "browser")
  /\ UNCHANGED gateVars

Elsewhere ==
  /\ \/ \E t \in Term : CreateTerminal(t)
     \/ ChangeLogin \/ ChangeAccess \/ Crash
     \/ \E k \in Ticket : TicketLapses(k)
  /\ UNCHANGED gateVars

ShellNext ==
  \/ \E c \in Conn :
       \/ ServerStep(c) \/ GatewayStep(c)
       \/ Dial(c) \/ DialFails(c)
       \/ UserMessage(c) \/ UserMessageTooLong(c)
       \/ ShellExits(c) \/ UserFallsSilent(c)
  \/ Elsewhere
  \/ GatewayDies

\* Nobody sends a message any more.
Silent(c) == mute[c] /\ shell[c] = "exited"

(***************************************************************************)
(* The fairness of Terminal, and for the Gateway: its goroutines run, a    *)
(* closed connection makes Read and ReadMessage return, as the exit of the *)
(* shell does a Write to it, and the second of the last wait passes.       *)
(* Docker need not answer a call, a running shell need not read or write.  *)
(* Time passes: where nothing is sent any more, the idle timeout comes.    *)
(***************************************************************************)
GatewayFairness ==
  \A c \in Conn :
    /\ WF_shellVars(ReaderEnds(c))
    /\ WF_shellVars(GwReads(c) \/ GwReadFails(c) \/ GwCloses(c) \/ GwReturns(c))
    /\ WF_shellVars(shell[c] = "exited" /\ WriteReturns(c))
    /\ WF_shellVars(Silent(c) /\ GoQuiet(c) /\ UNCHANGED gateVars)

ShellSpec == ShellInit /\ [][ShellNext]_shellVars /\ Fairness /\ GatewayFairness

-----------------------------------------------------------------------------
\* The handler attach waits for Docker or for the shell to read, without a
\* deadline.
InDocker(c) == gw[c] \in {"attaching", "resizing", "writing"}

(***************************************************************************)
(* However a terminal ends, with a crash of the Server or of the Gateway   *)
(* too, all that was opened for it goes away in both processes: the three  *)
(* goroutines of terminalWS, the handler attach, its reader and the        *)
(* connection to the exec.  One thing keeps the Gateway's part: a call of  *)
(* attach that Docker, or a shell that does not read, never lets return.   *)
(***************************************************************************)
AllReleased ==
  \A c \in Conn :
    Over(c) ~> /\ \A g \in Task : task[c][g] \in {"off", "exited"}
               /\ \/ gw[c] \in {"none", "gone"} /\ reader[c] # "run" /\ att[c] # "open"
                  \/ InDocker(c)

(***************************************************************************)
(* The Gateway does not tell the Server that a shell has exited, and its   *)
(* handler waits in ReadMessage.  Once the user stops typing the idle      *)
(* watchdog of the Server notices all the same, and both ends are closed,  *)
(* the Gateway's unless it is still in a call to Docker.                   *)
(***************************************************************************)
ShellExitEnds ==
  \A c \in Conn :
    (conn[c].pc = "running" /\ shell[c] = "exited" /\ mute[c])
      ~> (Over(c) /\ (gw[c] = "gone" \/ InDocker(c)))

-----------------------------------------------------------------------------
(***************************************************************************)
(* docs/terminal.md: "Disconnect closes both sockets/attach".  The code    *)
(* does not: while attach writes to a shell that does not read, or waits   *)
(* for Docker, it does not notice that the Server has gone, and the        *)
(* connection to the exec stays open.                                      *)
(***************************************************************************)
DisconnectClosesAttach == \A c \in Conn : Over(c) ~> att[c] # "open"
=============================================================================
