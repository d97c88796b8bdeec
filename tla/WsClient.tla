------------------------------ MODULE WsClient ------------------------------
(***************************************************************************)
(* The connection of the agent to the panel (websocket.c) and the threads  *)
(* that share it: the report thread connects, sends and disconnects, the   *)
(* receive thread it starts reads frames, the heartbeat thread sends       *)
(* pings, and main stops them and destroys the client.  The connection is  *)
(* a TLS one.  The panel answers the WebSocket handshake as RFC 6455 has it *)
(* or, what only this client can read, with a second colon.                *)
(***************************************************************************)
EXTENDS Integers

CONSTANTS
  Threshold,    \* V2_FALLBACK_THRESHOLD
  MaxRetries,   \* config.max_retries
  FaultMax      \* bound: connections lost or closed, attempts and calls that fail

ASSUME ParameterAssumption ==
  Threshold \in Nat \ {0} /\ MaxRetries \in Nat \ {0} /\ FaultMax \in Nat

VARIABLES
  open,        \* client->fd >= 0
  link,        \* "up", or "down": reads of the socket fail
  path,        \* the endpoint the connection was made to, "v1" or "v2"
  ctx,         \* client->ssl_ctx # NULL
  connected, shouldStop,   \* the flags under state_mutex
  failCount,   \* v2_state.fail_count
  recv,        \* the receive thread; "none" when there is none to join
  rep, useV2, retries,     \* the report thread and its locals
  disc,        \* progress of ws_client_disconnect, of which one at most runs
  hb,          \* the heartbeat thread
  main, running,           \* the main thread and g_running
  accept,      \* how the panel writes "Sec-WebSocket-Accept": with one colon,
               \* as it should ("compliant"), or with two ("doubled")
  faults

connVars == <<open, link, path, ctx>>
flagVars == <<connected, shouldStop>>
repVars  == <<rep, useV2, retries>>
mainVars == <<main, running>>
vars == <<connVars, flagVars, failCount, recv, repVars, disc, hb, mainVars, accept, faults>>

Init ==
  /\ open = FALSE /\ link = "down" /\ path = "v2" /\ ctx = FALSE
  /\ connected = FALSE /\ shouldStop = FALSE /\ failCount = 0 /\ recv = "none"
  /\ rep = "top" /\ useV2 = FALSE /\ retries = 0 /\ disc = "none"
  /\ hb = "check" /\ main = "running" /\ running = TRUE
  /\ accept \in {"compliant", "doubled"} /\ faults = 0

Fault == faults < FaultMax /\ faults' = faults + 1

(* ws_client_note_protocol_result.  The count knows no limit;
   protocol_version, which nothing in the agent reads, is left out. *)
Note(success) == failCount' = (IF success THEN 0 ELSE failCount + 1)

(* ws_client_should_use_current_protocol *)
UseV2 == failCount < Threshold

-----------------------------------------------------------------------------
(* ws_client_disconnect, called by the report thread or by main.            *)

BeginDisconnect ==
  /\ shouldStop' = TRUE /\ connected' = FALSE
  /\ link' = "down" /\ disc' = "join"
  /\ UNCHANGED <<open, path, ctx, failCount, recv, hb, accept, faults>>

JoinReceiverUnchecked ==
  /\ disc = "join" /\ disc' = "free" /\ UNCHANGED recv
  /\ UNCHANGED <<connVars, flagVars, failCount, repVars, hb, mainVars, accept, faults>>
JoinReceiver ==
  /\ disc = "join" /\ recv \in {"none", "ended"}
  /\ recv' = "none" /\ disc' = "free"
  /\ UNCHANGED <<connVars, flagVars, failCount, repVars, hb, mainVars, accept, faults>>

(* The TLS object and the socket go, ssl_ctx stays; the caller goes on. *)
FreeConnection ==
  /\ disc = "free" /\ disc' = "none" /\ open' = FALSE
  /\ rep' = IF rep = "reconnect" THEN "dial" ELSE IF rep = "hangup" THEN "info" ELSE rep
  /\ main' = IF main = "disconnect" THEN "destroy" ELSE main
  /\ UNCHANGED <<link, path, ctx, flagVars, failCount, recv, useV2, retries, hb,
                 running, accept, faults>>

-----------------------------------------------------------------------------
(* The report thread.                                                       *)

RepOnly == UNCHANGED <<disc, hb, mainVars, accept>>

Top ==
  /\ rep = "top" /\ retries' = 0
  /\ rep' = IF connected THEN "version" ELSE "retry"
  /\ RepOnly /\ UNCHANGED <<connVars, flagVars, failCount, recv, useV2, faults>>

RetryOnceMore ==
  /\ rep = "retry"
  /\ rep' = IF retries > MaxRetries THEN "done" ELSE IF running THEN "connect" ELSE "version"
  /\ RepOnly
  /\ UNCHANGED <<connVars, flagVars, failCount, recv, useV2, retries, faults>>
Retry ==
  /\ rep = "retry"
  /\ rep' = IF retries >= MaxRetries THEN "done" ELSE IF running THEN "connect" ELSE "version"
  /\ RepOnly
  /\ UNCHANGED <<connVars, flagVars, failCount, recv, useV2, retries, faults>>

(* ws_client_connect clears the stop flag, then disconnects what is open. *)
ResetStopAfterStop ==
  /\ rep = "connect" /\ UNCHANGED shouldStop
  /\ rep' = IF open THEN "close" ELSE "dial"
  /\ RepOnly /\ UNCHANGED <<connVars, connected, failCount, recv, useV2, retries, faults>>
ResetStop ==
  /\ rep = "connect" /\ shouldStop' = FALSE
  /\ rep' = IF open THEN "close" ELSE "dial"
  /\ RepOnly /\ UNCHANGED <<connVars, connected, failCount, recv, useV2, retries, faults>>

CloseOld ==
  /\ rep = "close" /\ rep' = "reconnect" /\ BeginDisconnect
  /\ UNCHANGED <<useV2, retries, mainVars>>

(* Address lookup and TCP connection, to the endpoint of the protocol in use. *)
Dial ==
  /\ rep = "dial" /\ path' = IF UseV2 THEN "v2" ELSE "v1"
  /\ \/ open' = TRUE /\ link' = "up" /\ rep' = "handshake"
        /\ UNCHANGED <<failCount, faults>>
     \/ Fault /\ Note(FALSE) /\ rep' = "failed" /\ UNCHANGED <<open, link>>
  /\ RepOnly /\ UNCHANGED <<ctx, flagVars, recv, useV2, retries>>

(* Everything of the attempt is freed again. *)
DropAttempt ==
  /\ open' = FALSE /\ link' = "down" /\ ctx' = FALSE /\ UNCHANGED path

(* ws_extract_header, as ws_handshake calls it: the name it is given ends in a
   colon, and it expects another one after the name. *)
ReplyAccepted == accept = "doubled"

(* A new SSL_CTX, the TLS handshake and the WebSocket handshake. *)
Handshake ==
  /\ rep = "handshake"
  /\ \/ link = "up" /\ ReplyAccepted /\ ctx' = TRUE /\ rep' = "check"
        /\ UNCHANGED <<open, link, path, failCount, faults>>
     \/ (IF link = "up" /\ ReplyAccepted THEN Fault ELSE UNCHANGED faults)
        /\ Note(FALSE) /\ DropAttempt /\ rep' = "failed"
  /\ RepOnly /\ UNCHANGED <<flagVars, recv, useV2, retries>>

(* The stop flag is checked again: it may have been set during the handshake. *)
CheckStop ==
  /\ rep = "check"
  /\ IF shouldStop
     THEN DropAttempt /\ rep' = "aborted" /\ UNCHANGED connected
     ELSE connected' = TRUE /\ rep' = "spawn" /\ UNCHANGED <<open, link, path, ctx>>
  /\ RepOnly /\ UNCHANGED <<shouldStop, failCount, recv, useV2, retries, faults>>

(* The receive thread is created, or the attempt fails after all. *)
SpawnReceiver ==
  /\ rep = "spawn"
  /\ \/ recv' = "top" /\ rep' = "connected"
        /\ UNCHANGED <<open, link, path, ctx, connected, failCount, faults>>
     \/ Fault /\ Note(FALSE) /\ DropAttempt /\ connected' = FALSE
        /\ rep' = "failed" /\ UNCHANGED recv
  /\ RepOnly /\ UNCHANGED <<shouldStop, useV2, retries>>

NoteSuccess ==
  /\ rep = "connected" /\ Note(TRUE) /\ rep' = "basic"
  /\ RepOnly /\ UNCHANGED <<connVars, flagVars, recv, useV2, retries, faults>>

AttemptFailed ==
  /\ rep \in {"failed", "aborted"} /\ retries' = retries + 1 /\ rep' = "retry"
  /\ RepOnly /\ UNCHANGED <<connVars, flagVars, failCount, recv, useV2, faults>>

(* ws_client_send_text: nothing happens unless connected; a frame for a dead
   socket may still be accepted by the kernel.  The failures nobody acts upon
   are bounded too: the receive thread, busy with a handler, may not notice the
   dead socket for any number of cycles, and each adds to the count. *)
SendText(ok, failed) ==
  \/ ~connected /\ rep' = failed /\ UNCHANGED <<failCount, faults>>
  \/ connected /\ rep' = ok /\ UNCHANGED <<failCount, faults>>
  \/ /\ connected /\ Note(FALSE) /\ rep' = failed
     /\ IF link = "up" \/ rep = "info" THEN Fault ELSE UNCHANGED faults

(* The result of sending the basic info is ignored. *)
SendBasicInfo ==
  /\ \/ rep = "basic" /\ SendText("version", "version")
     \/ rep = "info" /\ SendText("sleep", "sleep")
  /\ RepOnly /\ UNCHANGED <<connVars, flagVars, recv, useV2, retries>>

(* The protocol is chosen, the report is written, the connection checked. *)
PrepareReport ==
  /\ rep = "version" /\ useV2' = UseV2 /\ rep' = "report"
  /\ RepOnly /\ UNCHANGED <<connVars, flagVars, failCount, recv, retries, faults>>

CheckConnected ==
  /\ rep = "report" /\ rep' = IF connected THEN "send" ELSE "info"
  /\ RepOnly /\ UNCHANGED <<connVars, flagVars, failCount, recv, useV2, retries, faults>>

SendReport ==
  /\ rep = "send" /\ SendText("info", "drop")
  /\ RepOnly /\ UNCHANGED <<connVars, flagVars, recv, useV2, retries>>

HangUp ==
  /\ rep = "drop" /\ rep' = "hangup" /\ BeginDisconnect
  /\ UNCHANGED <<useV2, retries, mainVars>>

Sleep ==
  /\ rep = "sleep" /\ rep' = IF running THEN "top" ELSE "done"
  /\ RepOnly /\ UNCHANGED <<connVars, flagVars, failCount, recv, useV2, retries, faults>>

Report ==
  \/ Top \/ Retry \/ ResetStop \/ CloseOld \/ Dial \/ Handshake \/ CheckStop
  \/ SpawnReceiver \/ NoteSuccess \/ AttemptFailed \/ SendBasicInfo \/ PrepareReport
  \/ CheckConnected \/ SendReport \/ HangUp \/ Sleep

-----------------------------------------------------------------------------
(* The receive thread.                                                      *)

RecvOnly == UNCHANGED <<connVars, shouldStop, repVars, disc, hb, mainVars, accept>>

RecvTop ==
  /\ recv = "top" /\ recv' = IF shouldStop \/ ~connected THEN "ended" ELSE "read"
  /\ RecvOnly /\ UNCHANGED <<connected, failCount, faults>>

(* A message or a ping: the handler runs, or a pong is sent, on this thread.  A
   handler that runs a task ends when the task's command does, if ever. *)
FrameArrives ==
  /\ recv = "read" /\ link = "up" /\ recv' = "handle"
  /\ RecvOnly /\ UNCHANGED <<connected, failCount, faults>>

Handled ==
  /\ recv = "handle" /\ recv' = "top"
  /\ RecvOnly /\ UNCHANGED <<connected, failCount, faults>>

(* A close frame, or a frame ws_fragment_accumulate rejects. *)
ClosedByFrame ==
  /\ recv = "read" /\ link = "up" /\ Fault
  /\ connected' = FALSE /\ recv' = "ended"
  /\ RecvOnly /\ UNCHANGED failCount

(* The socket fails, is silent for too long, or brings an invalid frame. *)
ReceiveFails ==
  /\ recv = "read" /\ recv' = "failed" /\ Note(FALSE)
  /\ IF link = "up" THEN Fault ELSE UNCHANGED faults
  /\ RecvOnly /\ UNCHANGED connected

MarkClosedNot ==
  /\ recv = "failed" /\ recv' = "ended"
  /\ RecvOnly /\ UNCHANGED <<connected, failCount, faults>>
MarkClosed ==
  /\ recv = "failed" /\ connected' = FALSE /\ recv' = "ended"
  /\ RecvOnly /\ UNCHANGED <<failCount, faults>>

LinkLost ==
  /\ open /\ link = "up" /\ Fault /\ link' = "down"
  /\ UNCHANGED <<open, path, ctx, flagVars, failCount, recv, repVars, disc, hb, mainVars,
                 accept>>

Receiver == RecvTop \/ MarkClosed \/ (link = "down" /\ ReceiveFails)

-----------------------------------------------------------------------------
(* The heartbeat thread and the main thread.                                *)

HbOnly ==
  UNCHANGED <<connVars, flagVars, failCount, recv, repVars, disc, mainVars, accept, faults>>

HeartbeatCheck ==
  /\ hb = "check" /\ hb' = (IF connected THEN "write" ELSE "sleep") /\ HbOnly

(* The ping is written, with whatever socket and TLS object there is by then. *)
HeartbeatWrite == hb = "write" /\ hb' = "sleep" /\ HbOnly

HeartbeatNeverEnds == hb = "sleep" /\ hb' = "check" /\ HbOnly
HeartbeatSleep ==
  /\ hb = "sleep" /\ hb' = (IF running THEN "check" ELSE "done") /\ HbOnly

Heartbeat == HeartbeatCheck \/ HeartbeatWrite \/ HeartbeatSleep

SignalArrives ==
  /\ main = "running" /\ running' = FALSE /\ main' = "stop"
  /\ UNCHANGED <<connVars, flagVars, failCount, recv, repVars, disc, hb, accept, faults>>

StopClient ==
  /\ main = "stop" /\ shouldStop' = TRUE /\ main' = "join"
  /\ UNCHANGED <<connVars, connected, failCount, recv, repVars, disc, hb, running, accept,
                 faults>>

DisconnectUnjoined ==
  /\ main = "join" /\ rep = "done"
  /\ main' = "disconnect" /\ BeginDisconnect /\ UNCHANGED <<repVars, running>>
DisconnectAtEnd ==
  /\ main = "join" /\ rep = "done" /\ hb = "done"
  /\ main' = "disconnect" /\ BeginDisconnect /\ UNCHANGED <<repVars, running>>

(* The disconnect inside ws_client_destroy finds nothing left to do. *)
Destroy ==
  /\ main = "destroy" /\ main' = "destroyed" /\ ctx' = FALSE
  /\ UNCHANGED <<open, link, path, flagVars, failCount, recv, repVars, disc, hb,
                 running, accept, faults>>

Main == StopClient \/ DisconnectAtEnd \/ Destroy

-----------------------------------------------------------------------------
Next ==
  \/ Report \/ JoinReceiver \/ FreeConnection
  \/ RecvTop \/ FrameArrives \/ Handled \/ ClosedByFrame \/ ReceiveFails \/ MarkClosed
  \/ LinkLost \/ Heartbeat \/ SignalArrives \/ Main
  \/ main = "destroyed" /\ UNCHANGED vars

Spec == Init /\ [][Next]_vars

(* The agent's threads run on; the network, the panel, the operator and the
   commands that tasks run owe nothing.  A read of a dead socket returns. *)
Fairness ==
  /\ WF_vars(Report) /\ WF_vars(JoinReceiver) /\ WF_vars(FreeConnection)
  /\ WF_vars(Receiver) /\ WF_vars(Heartbeat) /\ WF_vars(Main)

FairSpec == Spec /\ Fairness

-----------------------------------------------------------------------------
TypeOK ==
  /\ open \in BOOLEAN /\ link \in {"up", "down"} /\ path \in {"v1", "v2"}
  /\ ctx \in BOOLEAN
  /\ connected \in BOOLEAN /\ shouldStop \in BOOLEAN /\ failCount \in Nat
  /\ recv \in {"none", "top", "read", "handle", "failed", "ended"}
  /\ rep \in {"top", "retry", "connect", "close", "reconnect", "dial", "handshake",
              "check", "aborted", "spawn", "connected", "failed", "basic", "version",
              "report", "send", "drop", "hangup", "info", "sleep", "done"}
  /\ useV2 \in BOOLEAN /\ retries \in 0..MaxRetries
  /\ disc \in {"none", "join", "free"}
  /\ hb \in {"check", "write", "sleep", "done"}
  /\ main \in {"running", "stop", "join", "disconnect", "destroy", "destroyed"}
  /\ running \in BOOLEAN /\ accept \in {"compliant", "doubled"}
  /\ faults \in 0..FaultMax

Alive == recv \in {"top", "read", "handle", "failed"}

(* The receive thread has its socket and its TLS object for as long as it
   runs, and a second one is never started beside it: every way to close the
   connection joins it first. *)
ReceiverHasConnection ==
  /\ Alive => open /\ ctx
  /\ rep \in {"dial", "handshake", "check", "spawn"} => recv = "none"

(* A connection that counts as connected is being read, or the agent is
   stopping.  Otherwise the report thread, which reconnects only when the
   flag is down, would never notice that the panel is gone. *)
ConnectedIsServed == connected /\ rep # "spawn" => Alive \/ ~running

ReaderState == IF Alive THEN "running" ELSE recv

Connection == INSTANCE ClientConnection WITH
  socket <- open, announced <- connected, reader <- ReaderState,
  stopping <- ~running, over <- main = "destroyed"

(* However the report thread, the receive thread and main interleave, a
   connection is built, announced, read, withdrawn, joined and closed in this
   order: none is opened over another one, no thread is left unjoined, no flag
   outlives its reader, and at the end nothing is left. *)
ImplementsConnection == Connection!Spec

(* Nobody uses the client once main has begun to take it apart. *)
DestroyedAlone ==
  main \in {"disconnect", "destroy", "destroyed"} =>
    /\ rep = "done" /\ hb = "done"
    /\ main # "disconnect" => recv = "none" /\ ~open

(* The agent that is told to stop stops, wherever its threads are, provided
   the handlers of messages return.  One that runs a command which does not end
   keeps the receive thread, the join of it and so the stop from ending. *)
Stops == []<>(recv # "handle") => (~running ~> main = "destroyed")

(* A report cycle that finds the connection down brings it back, provided the
   panel's reply passes ReplyAccepted and the faults to come are at least two
   less than the retries: the attempt the disconnect inside ws_client_connect
   may abort counts as a retry too.  The retries of one cycle are all there
   are: the report thread ends with the last of them. *)
Reconnects ==
  ReplyAccepted /\ rep = "top" /\ ~connected /\ FaultMax - faults + 2 <= MaxRetries
    ~> (connected \/ ~running)

(* websocket.c:238-241 says of ws_extract_header that it returns "-1 if the
   header is not found".  A panel that answers as RFC 6455 has it sends the
   header, and a handshake that nothing disturbs fails. *)
CompliantReplyAccepted ==
  [][Handshake /\ link = "up" /\ UNCHANGED faults => rep' = "check"]_vars

(* websocket.c:1435 lets a connection attempt be aborted "If ws_client_stop
   was called during that window".  The disconnect at the start of every
   reconnection sets the same flag. *)
AbortOnlyWhenStopping == rep = "aborted" => ~running

(* main.c:702: "The payload format is selected per connection based on the
   negotiated protocol version".  The success of a v1 connection resets the
   failure count: the next payload is a v2 one. *)
PayloadMatchesEndpoint == rep = "send" /\ connected => (useV2 <=> path = "v2")
=============================================================================
