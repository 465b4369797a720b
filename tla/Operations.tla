----------------------------- MODULE Operations -----------------------------
(***************************************************************************)
(* A request that passes through the Server and the Gateway to Docker:     *)
(* restart, stats, logs (a snapshot) or stream (live logs).  The parts are *)
(* the handler in internal/api/server.go with its GatewayClient, the       *)
(* handler in internal/gateway/handler.go, and for logs the goroutine of   *)
(* Logs in internal/gateway/service.go that copies Docker's stream into a  *)
(* pipe.                                                                   *)
(*                                                                         *)
(* Nothing tells a part directly that another one is gone.  The browser's  *)
(* leaving cancels the request's context in the Server, which closes the   *)
(* connection to the Gateway; that cancels the context there, which ends a *)
(* pending call to Docker or the read of its stream.  Docker itself may    *)
(* hang at any time.  Requests share no state, so there is one; it has     *)
(* passed authorizeResource.                                               *)
(***************************************************************************)
VARIABLES op,        \* what is asked for
          tty,       \* the container has a terminal: its stream is not copied
          browser,   \* "left" once the client has disconnected
          sv,        \* the Server's handler
          result,    \* what it will record
          events,    \* the audit events of the request
          link,      \* the connection to the Gateway
          gw,        \* the Gateway's handler
          copier,    \* the goroutine of Logs
          pipe,      \* io.Pipe between copier and handler
          dk,        \* what Docker does for the request
          restarted, \* history: Docker restarted the container
          excused    \* history: the Server stopped, or SQLite refused the event

serverVars == <<browser, sv, result, events, excused>>
gatewayVars == <<gw, copier, pipe>>
operationVars == <<op, tty, serverVars, link, gatewayVars, dk, restarted>>

Op == {"restart", "stats", "logs", "stream"}
Following == op \in {"logs", "stream"}

\* How the Gateway's handler ends: an error status, a whole answer, the end of
\* a body, or with its process.
Ended == {"refused", "answered", "ended", "gone"}

OperationsTypeOK ==
  /\ op \in Op /\ tty \in BOOLEAN
  /\ browser \in {"open", "left"}
  /\ sv \in {"idle", "waiting", "reading", "sending", "record", "respond", "done"}
  /\ result \in {"none", "success", "failed"}
  /\ events \subseteq {"success", "failed"}
  /\ link \in {"none", "open", "closed"}
  /\ gw \in {"idle", "inspect", "call", "calling", "piping", "writing"} \cup Ended
  /\ copier \in {"off", "read", "write", "exited"}
  /\ pipe \in {"open", "unread", "unwritten"}
  /\ dk \in {"idle", "busy", "done", "failed", "streaming", "eof", "closed"}
  /\ restarted \in BOOLEAN /\ excused \in BOOLEAN

OperationsInit ==
  /\ op \in Op /\ tty \in BOOLEAN
  /\ browser = "open" /\ sv = "idle" /\ result = "none" /\ events = {}
  /\ link = "none" /\ gw = "idle" /\ copier = "off" /\ pipe = "open"
  /\ dk = "idle" /\ restarted = FALSE /\ excused = FALSE

-----------------------------------------------------------------------------
(* The Server. *)

\* GatewayClient.request: client.Do.
Call ==
  /\ sv = "idle"
  /\ sv' = "waiting" /\ link' = "open" /\ gw' = "inspect"
  /\ UNCHANGED <<op, tty, browser, result, events, excused, copier, pipe, dk, restarted>>

\* An error of client.Do: only restart records it.
Fail ==
  /\ sv = "waiting"
  /\ sv' = IF op = "restart" THEN "record" ELSE "respond"
  /\ result' = "failed"
  /\ link' = "closed"
  /\ UNCHANGED <<op, tty, browser, events, excused, gatewayVars, dk, restarted>>

\* The client's 15 s; Stream, which logs and stream use, has no limit.
Timeout == ~Following /\ Fail

\* The context is cancelled, the connection is lost, or the status is an error.
CallFails ==
  /\ browser = "left" \/ link = "closed" \/ gw = "refused"
  /\ Fail

\* Mutant of CallAnswered: the status is not looked at.
CallAnsweredAny ==
  /\ sv = "waiting" /\ link = "open" /\ gw \in {"answered", "refused"}
  /\ sv' = IF op = "restart" THEN "record" ELSE "respond"
  /\ result' = "success"
  /\ UNCHANGED <<op, tty, browser, events, excused, link, gatewayVars, dk, restarted>>

\* A whole answer with a status below 400.
CallAnswered ==
  /\ sv = "waiting" /\ link = "open" /\ gw = "answered"
  /\ sv' = IF op = "restart" THEN "record" ELSE "respond"
  /\ result' = "success"
  /\ UNCHANGED <<op, tty, browser, events, excused, link, gatewayVars, dk, restarted>>

\* The Gateway sends the header of a stream with its first data, or at its end.
Headers ==
  /\ Following /\ sv = "waiting" /\ link = "open" /\ gw \in {"writing", "ended"}
  /\ sv' = IF op = "stream" THEN "record" ELSE "reading"
  /\ result' = "success"
  /\ UNCHANGED <<op, tty, browser, events, excused, link, gatewayVars, dk, restarted>>

AfterRecord == IF op = "stream" THEN "reading" ELSE "respond"

\* Mutant of Record: the event is written with the context of the request.
RecordCancelled ==
  /\ sv = "record"
  /\ events' = IF browser = "open" THEN events \cup {result} ELSE events
  /\ sv' = AfterRecord
  /\ UNCHANGED <<op, tty, browser, result, excused, link, gatewayVars, dk, restarted>>

\* s.audit writes with context.Background().
Record ==
  /\ sv = "record"
  /\ events' = events \cup {result}
  /\ sv' = AfterRecord
  /\ UNCHANGED <<op, tty, browser, result, excused, link, gatewayVars, dk, restarted>>

\* The write fails; that is logged, and the handler goes on.
RecordFails ==
  /\ sv = "record"
  /\ excused' = TRUE
  /\ sv' = AfterRecord
  /\ UNCHANGED <<op, tty, browser, result, events, link, gatewayVars, dk, restarted>>

\* Data: the stream is passed on at once, the snapshot is gathered.
Read ==
  /\ sv = "reading" /\ link = "open" /\ gw = "writing"
  /\ gw' = "piping"
  /\ sv' = IF op = "stream" THEN "sending" ELSE "reading"
  /\ UNCHANGED <<op, tty, browser, result, events, excused, link, copier, pipe, dk, restarted>>

\* Fprintf and Flush; they fail when the browser is gone.
Send ==
  /\ sv = "sending"
  /\ IF browser = "open"
     THEN sv' = "reading" /\ UNCHANGED link
     ELSE sv' = "done" /\ link' = "closed"
  /\ UNCHANGED <<op, tty, browser, result, events, excused, gatewayVars, dk, restarted>>

\* The end of the body, or an error: for a snapshot they are the same.
ReadEnds ==
  /\ sv = "reading"
  /\ gw = "ended" \/ link = "closed" \/ browser = "left"
  /\ sv' = IF op = "stream" THEN "done" ELSE "record"
  /\ link' = IF op = "stream" \/ browser = "left" THEN "closed" ELSE link
  /\ UNCHANGED <<op, tty, browser, result, events, excused, gatewayVars, dk, restarted>>

\* A snapshot is cut at 8 MiB.
Cut ==
  /\ sv = "reading" /\ op = "logs"
  /\ sv' = "record"
  /\ UNCHANGED <<op, tty, browser, result, events, excused, link, gatewayVars, dk, restarted>>

\* The answer, and the deferred body.Close.
Respond ==
  /\ sv = "respond"
  /\ sv' = "done" /\ link' = "closed"
  /\ UNCHANGED <<op, tty, browser, result, events, excused, gatewayVars, dk, restarted>>

BrowserLeaves ==
  /\ sv # "idle" /\ browser = "open"
  /\ browser' = "left"
  /\ UNCHANGED <<op, tty, sv, result, events, excused, link, gatewayVars, dk, restarted>>

\* The process ends.  On a signal it does not wait for handlers either: main
\* returns as soon as Shutdown has closed the listener.
ServerStops ==
  /\ sv \notin {"idle", "done"}
  /\ sv' = "done" /\ browser' = "left" /\ link' = "closed" /\ excused' = TRUE
  /\ UNCHANGED <<op, tty, result, events, gatewayVars, dk, restarted>>

-----------------------------------------------------------------------------
(* The Gateway. *)

\* r.Context() of the Gateway's handler is done.
Cancelled == link = "closed"

GwGo(pc) ==
  /\ gw' = pc
  /\ UNCHANGED <<op, tty, serverVars, link, copier, pipe, restarted>>

\* inspectRaw succeeds, and a restart finds neither label.
Inspected == gw = "inspect" /\ GwGo("call") /\ UNCHANGED dk

\* Docker answers with an error, or a label forbids the restart.
InspectRefused == gw = "inspect" /\ GwGo("refused") /\ UNCHANGED dk

InspectCancelled == Cancelled /\ InspectRefused

CallDocker == gw = "call" /\ GwGo("calling") /\ dk' = "busy"

\* Docker has answered.  Logs then inspects the container: the stream of one
\* without a terminal, or whose inspection fails, goes through the goroutine.
DockerReplied ==
  /\ gw = "calling"
  /\ \/ dk = "done" /\ gw' = "answered" /\ UNCHANGED copier
     \/ dk = "failed" /\ gw' = "refused" /\ UNCHANGED copier
     \/ dk \in {"streaming", "eof"} /\ gw' = "piping" /\ copier' = "read"
     \/ dk \in {"streaming", "eof"} /\ tty /\ gw' = "piping" /\ UNCHANGED copier
  /\ UNCHANGED <<op, tty, serverVars, link, pipe, dk, restarted>>

\* The call returns an error; Docker may go on with a restart.
DockerCallCancelled ==
  /\ gw = "calling" /\ dk = "busy" /\ Cancelled
  /\ GwGo("refused")
  /\ dk' = IF Following THEN "closed" ELSE dk

\* The goroutine hands its data to the handler's read.
PipePasses ==
  /\ copier = "write" /\ gw = "piping"
  /\ copier' = "read" /\ gw' = "writing"
  /\ UNCHANGED <<op, tty, serverVars, link, pipe, dk, restarted>>

\* Mutant of CopyEnds: the goroutine does not close its end of the pipe.
CopyEndsSilently ==
  /\ copier = "read"
  /\ dk = "eof" \/ Cancelled
  /\ copier' = "exited" /\ dk' = "closed"
  /\ UNCHANGED <<op, tty, serverVars, link, gw, pipe, restarted>>

\* The read of Docker's stream ends, or fails when the context is cancelled:
\* CloseWithError on the pipe, and the deferred r.Close.
CopyEnds ==
  /\ copier = "read"
  /\ dk = "eof" \/ Cancelled
  /\ copier' = "exited" /\ pipe' = "unwritten" /\ dk' = "closed"
  /\ UNCHANGED <<op, tty, serverVars, link, gw, restarted>>

\* A write into the pipe fails when the handler has closed it.
CopyFails ==
  /\ copier = "write" /\ pipe = "unread"
  /\ copier' = "exited" /\ dk' = "closed"
  /\ UNCHANGED <<op, tty, serverVars, link, gw, pipe, restarted>>

\* The handler returns: the deferred body.Close ends the pipe or the stream.
HandlerReturns ==
  /\ gw' = "ended"
  /\ IF copier = "off"
     THEN dk' = "closed" /\ UNCHANGED pipe
     ELSE pipe' = "unread" /\ UNCHANGED dk
  /\ UNCHANGED <<op, tty, serverVars, link, copier, restarted>>

\* Its read ends with the pipe, or directly with the stream.
BodyEnds ==
  /\ gw = "piping"
  /\ IF copier = "off" THEN dk = "eof" \/ Cancelled ELSE pipe = "unwritten"
  /\ HandlerReturns

\* Its write fails.
WriteFails == gw = "writing" /\ Cancelled /\ HandlerReturns

GatewayDies ==
  /\ gw \notin Ended \cup {"idle"}
  /\ gw' = "gone" /\ link' = "closed"
  /\ copier' = IF copier = "off" THEN "off" ELSE "exited"
  /\ dk' = IF Following /\ dk # "idle" THEN "closed" ELSE dk
  /\ UNCHANGED <<op, tty, serverVars, pipe, restarted>>

-----------------------------------------------------------------------------
(* Docker. *)

DockerDone ==
  /\ dk = "busy"
  /\ dk' = IF Following THEN "streaming" ELSE "done"
  /\ restarted' = (restarted \/ op = "restart")
  /\ UNCHANGED <<op, tty, serverVars, link, gatewayVars>>

DockerFails ==
  /\ dk = "busy"
  /\ dk' = "failed"
  /\ UNCHANGED <<op, tty, serverVars, link, gatewayVars, restarted>>

DockerEmits ==
  /\ dk = "streaming"
  /\ \/ copier = "off" /\ gw = "piping" /\ gw' = "writing" /\ UNCHANGED copier
     \/ copier = "read" /\ copier' = "write" /\ UNCHANGED gw
  /\ UNCHANGED <<op, tty, serverVars, link, pipe, dk, restarted>>

DockerEnds ==
  /\ dk = "streaming"
  /\ dk' = "eof"
  /\ UNCHANGED <<op, tty, serverVars, link, gatewayVars, restarted>>

-----------------------------------------------------------------------------
\* What the two processes do of themselves.
ServerStep ==
  \/ Timeout \/ CallFails \/ CallAnswered \/ Headers \/ Record
  \/ Read \/ Send \/ ReadEnds \/ Respond

GatewayStep ==
  \/ InspectCancelled \/ CallDocker \/ DockerReplied \/ DockerCallCancelled
  \/ BodyEnds \/ WriteFails

CopierStep == PipePasses \/ CopyEnds \/ CopyFails

OperationsNext ==
  \/ Call \/ ServerStep \/ GatewayStep \/ CopierStep
  \/ RecordFails \/ Cut \/ BrowserLeaves \/ ServerStops
  \/ Inspected \/ InspectRefused \/ GatewayDies
  \/ DockerDone \/ DockerFails \/ DockerEmits \/ DockerEnds

\* Handlers and goroutines run, the client's timer fires, and the transport
\* ends a read whose context is cancelled even if data keeps coming.  Docker
\* and the browser promise nothing.
OperationsFairness ==
  /\ WF_operationVars(ServerStep)
  /\ WF_operationVars(ReadEnds)
  /\ WF_operationVars(GatewayStep)
  /\ WF_operationVars(CopierStep)

OperationsSpec == OperationsInit /\ [][OperationsNext]_operationVars /\ OperationsFairness

-----------------------------------------------------------------------------
(***************************************************************************)
(* docs/audit.md: "Container restart success or failure".  The client can  *)
(* give up while Docker goes on, so a "failed" event may stand beside a    *)
(* container that was restarted; a "success" event never stands beside one *)
(* that was not.                                                           *)
(***************************************************************************)
SuccessIsReal == op = "restart" /\ "success" \in events => restarted

(***************************************************************************)
(* A restart that was asked for is recorded in the end: the browser may    *)
(* leave, the Gateway may die and Docker may hang.  Only the end of the    *)
(* Server or a failing database excuses it.                                *)
(***************************************************************************)
RestartRecorded ==
  op = "restart" /\ sv # "idle" ~> events # {} \/ excused

(***************************************************************************)
(* docs/security.md: "streams are context-cancelled and closed".  Once the *)
(* browser has left or the Server's handler has ended, both handlers, the  *)
(* goroutine and Docker's stream end too, although Docker sends nothing    *)
(* that would wake them.                                                   *)
(***************************************************************************)
StreamsReleased ==
  browser = "left" \/ sv = "done" ~>
    /\ sv = "done" /\ gw \in Ended
    /\ copier \in {"off", "exited"} /\ dk \notin {"streaming", "eof"}
=============================================================================
