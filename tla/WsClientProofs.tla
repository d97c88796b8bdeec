--------------------------- MODULE WsClientProofs ---------------------------
(***************************************************************************)
(* Theorems about WsClient: who may use the connection, for every retry    *)
(* limit, fallback threshold and number of faults.                         *)
(***************************************************************************)
EXTENDS WsClient, TLAPS

(* TypeOK in two parts, which different provers are good at. *)
FlagTypes ==
  /\ open \in BOOLEAN /\ ctx \in BOOLEAN /\ connected \in BOOLEAN
  /\ shouldStop \in BOOLEAN /\ useV2 \in BOOLEAN /\ running \in BOOLEAN

ValueTypes ==
  /\ link \in {"up", "down"} /\ path \in {"v1", "v2"} /\ failCount \in Nat
  /\ recv \in {"none", "top", "read", "handle", "failed", "ended"}
  /\ rep \in {"top", "retry", "connect", "close", "reconnect", "dial", "handshake",
              "check", "aborted", "spawn", "connected", "failed", "basic", "version",
              "report", "send", "drop", "hangup", "info", "sleep", "done"}
  /\ retries \in 0..MaxRetries /\ disc \in {"none", "join", "free"}
  /\ hb \in {"check", "write", "sleep", "done"}
  /\ main \in {"running", "stop", "join", "disconnect", "destroy", "destroyed"}
  /\ accept \in {"compliant", "doubled"} /\ faults \in 0..FaultMax

(* An attempt to connect is under way: there is a retry left. *)
Attempting == {"connect", "close", "reconnect", "dial", "handshake", "check", "spawn",
               "failed", "aborted"}

(* The thread that set disc waits for the end of ws_client_disconnect. *)
DisconnectOwner ==
  /\ disc # "none" => (rep \in {"reconnect", "hangup"} \/ main = "disconnect")
  /\ (rep \in {"reconnect", "hangup"} \/ main = "disconnect") => disc # "none"
  /\ disc = "free" => recv = "none"

(* A connection under construction has what it has got so far, and a receive
   thread exists only beside an open socket. *)
Construction ==
  /\ rep \in {"handshake", "check", "spawn"} => open
  /\ rep \in {"check", "spawn"} => ctx
  /\ rep \in Attempting => retries < MaxRetries
  /\ ~open => recv = "none"

(* The flags: main clears g_running before anything else, and a stop flag that
   comes with a live connection is main's. *)
StopFlags ==
  /\ main # "running" => ~running
  /\ shouldStop /\ connected => ~running

(* The flag is raised between the handshake and the receive thread and at no
   other time: not during an attempt, nor while the connection is taken apart. *)
Announcement ==
  /\ rep = "retry" \/ rep \in Attempting \ {"spawn"} => ~connected
  /\ rep = "spawn" => connected
  /\ rep = "dial" => ~open
  /\ disc # "none" \/ main \in {"destroy", "destroyed"} => ~connected

IInv ==
  /\ TypeOK /\ ReceiverHasConnection /\ ConnectedIsServed /\ DestroyedAlone
  /\ DisconnectOwner /\ Construction /\ StopFlags /\ Announcement
-----------------------------------------------------------------------------
LEMMA TypesSplit == TypeOK <=> FlagTypes /\ ValueTypes
  BY DEF TypeOK, FlagTypes, ValueTypes

(* The initial states: no connection, no retry, nobody disconnecting. *)
LEMMA InitIInv == Init => IInv
<1> SUFFICES ASSUME Init PROVE IInv
  OBVIOUS
<1>1. FlagTypes
  BY DEF Init, FlagTypes
<1>2. ValueTypes
  BY ParameterAssumption DEF Init, ValueTypes, ParameterAssumption
<1>3. ReceiverHasConnection /\ ConnectedIsServed /\ DestroyedAlone
  BY DEF Init, ReceiverHasConnection, ConnectedIsServed, DestroyedAlone, Alive
<1>4. DisconnectOwner /\ Construction /\ StopFlags /\ Announcement
  BY DEF Init, DisconnectOwner, Construction, StopFlags, Announcement, Attempting
<1> QED
  BY <1>1, <1>2, <1>3, <1>4, TypesSplit DEF IInv

(* The flags stay Boolean. *)
LEMMA NextFlagTypes == TypeOK /\ [Next]_vars => FlagTypes'
<1> SUFFICES ASSUME TypeOK, [Next]_vars PROVE FlagTypes'
  OBVIOUS
<1> USE DEF TypeOK, FlagTypes, connVars, flagVars, repVars, mainVars
<1>1. CASE Top
  BY <1>1 DEF Top, RepOnly
<1>2. CASE Retry
  BY <1>2 DEF Retry, RepOnly
<1>3. CASE ResetStop
  BY <1>3 DEF ResetStop, RepOnly
<1>4. CASE CloseOld
  BY <1>4 DEF CloseOld, BeginDisconnect
<1>5. CASE Dial
  BY <1>5 DEF Dial, RepOnly, Note, Fault, UseV2
<1>6. CASE Handshake
  BY <1>6 DEF Handshake, RepOnly, Note, Fault, DropAttempt
<1>7. CASE CheckStop
  BY <1>7 DEF CheckStop, RepOnly, DropAttempt
<1>8. CASE SpawnReceiver
  BY <1>8 DEF SpawnReceiver, RepOnly, Note, Fault, DropAttempt
<1>9. CASE NoteSuccess
  BY <1>9 DEF NoteSuccess, RepOnly, Note
<1>10. CASE AttemptFailed
  BY <1>10 DEF AttemptFailed, RepOnly
<1>11. CASE SendBasicInfo
  BY <1>11 DEF SendBasicInfo, RepOnly, Note, Fault, SendText
<1>12. CASE PrepareReport
  BY <1>12 DEF PrepareReport, RepOnly, UseV2
<1>13. CASE CheckConnected
  BY <1>13 DEF CheckConnected, RepOnly
<1>14. CASE SendReport
  BY <1>14 DEF SendReport, RepOnly, Note, Fault, SendText
<1>15. CASE HangUp
  BY <1>15 DEF HangUp, BeginDisconnect
<1>16. CASE Sleep
  BY <1>16 DEF Sleep, RepOnly
<1>17. CASE JoinReceiver
  BY <1>17 DEF JoinReceiver
<1>18. CASE FreeConnection
  BY <1>18 DEF FreeConnection
<1>19. CASE RecvTop
  BY <1>19 DEF RecvTop, RecvOnly
<1>20. CASE FrameArrives
  BY <1>20 DEF FrameArrives, RecvOnly
<1>21. CASE Handled
  BY <1>21 DEF Handled, RecvOnly
<1>22. CASE ClosedByFrame
  BY <1>22 DEF ClosedByFrame, RecvOnly, Fault
<1>23. CASE ReceiveFails
  BY <1>23 DEF ReceiveFails, RecvOnly, Note, Fault
<1>24. CASE MarkClosed
  BY <1>24 DEF MarkClosed, RecvOnly
<1>25. CASE LinkLost
  BY <1>25 DEF LinkLost, Fault
<1>26. CASE HeartbeatCheck
  BY <1>26 DEF HeartbeatCheck, HbOnly
<1>27. CASE HeartbeatWrite
  BY <1>27 DEF HeartbeatWrite, HbOnly
<1>28. CASE HeartbeatSleep
  BY <1>28 DEF HeartbeatSleep, HbOnly
<1>29. CASE SignalArrives
  BY <1>29 DEF SignalArrives
<1>30. CASE StopClient
  BY <1>30 DEF StopClient
<1>31. CASE DisconnectAtEnd
  BY <1>31 DEF DisconnectAtEnd, BeginDisconnect
<1>32. CASE Destroy
  BY <1>32 DEF Destroy
<1>33. CASE UNCHANGED vars
  BY <1>33 DEF vars
<1> QED
  BY <1>1, <1>2, <1>3, <1>4, <1>5, <1>6, <1>7, <1>8, <1>9, <1>10, <1>11, <1>12, <1>13,
      <1>14, <1>15, <1>16, <1>17, <1>18, <1>19, <1>20, <1>21, <1>22, <1>23, <1>24,
      <1>25, <1>26, <1>27, <1>28, <1>29, <1>30, <1>31, <1>32, <1>33
  DEF Next, Report, Heartbeat, Main, vars

(* The other variables keep their ranges: an attempt to connect is only made
   while retries are left, so counting it stays within MaxRetries. *)
LEMMA NextValueTypes == TypeOK /\ Construction /\ [Next]_vars => ValueTypes'
<1> SUFFICES ASSUME TypeOK, Construction, [Next]_vars PROVE ValueTypes'
  OBVIOUS
<1> USE ParameterAssumption DEF ParameterAssumption, TypeOK, ValueTypes, Construction,
      Attempting, connVars, flagVars, repVars, mainVars
<1>1. CASE Top
  BY <1>1 DEF Top, RepOnly
<1>2. CASE Retry
  BY <1>2 DEF Retry, RepOnly
<1>3. CASE ResetStop
  BY <1>3 DEF ResetStop, RepOnly
<1>4. CASE CloseOld
  BY <1>4 DEF CloseOld, BeginDisconnect
<1>5. CASE Dial
  BY <1>5 DEF Dial, RepOnly, Note, Fault, UseV2
<1>6. CASE Handshake
  <2>1. (failCount' = failCount \/ Note(FALSE)) /\ (faults' = faults \/ Fault)
    BY <1>6 DEF Handshake, RepOnly
  <2>2. failCount' \in Nat /\ faults' \in 0..FaultMax
    BY <2>1 DEF Note, Fault
  <2>3. link' \in {"up", "down"} /\ path' \in {"v1", "v2"}
    BY <1>6 DEF Handshake, DropAttempt
  <2>4. UNCHANGED <<recv, retries, disc, hb, main, accept>> /\ rep' \in {"check", "failed"}
    BY <1>6 DEF Handshake, RepOnly
  <2> QED
    BY <2>2, <2>3, <2>4
<1>7. CASE CheckStop
  <2>1. UNCHANGED <<path, failCount, recv, retries, disc, hb, main, accept, faults>>
    BY <1>7 DEF CheckStop, RepOnly, DropAttempt
  <2>2. link' \in {link, "down"} /\ rep' \in {"aborted", "spawn"}
    BY <1>7 DEF CheckStop, DropAttempt
  <2> QED
    BY <2>1, <2>2
<1>8. CASE SpawnReceiver
  <2>1. (failCount' = failCount \/ Note(FALSE)) /\ (faults' = faults \/ Fault)
    BY <1>8 DEF SpawnReceiver, RepOnly
  <2>2. failCount' \in Nat /\ faults' \in 0..FaultMax
    BY <2>1 DEF Note, Fault
  <2>3. link' \in {"up", "down"} /\ path' \in {"v1", "v2"}
    BY <1>8 DEF SpawnReceiver, DropAttempt
  <2>4. UNCHANGED <<retries, disc, hb, main, accept>> /\ recv' \in {recv, "top"} /\ rep' \in {"connected", "failed"}
    BY <1>8 DEF SpawnReceiver, RepOnly
  <2> QED
    BY <2>2, <2>3, <2>4
<1>9. CASE NoteSuccess
  BY <1>9 DEF NoteSuccess, RepOnly, Note
<1>10. CASE AttemptFailed
  BY <1>10 DEF AttemptFailed, RepOnly
<1>11. CASE SendBasicInfo
  BY <1>11 DEF SendBasicInfo, RepOnly, Note, Fault, SendText
<1>12. CASE PrepareReport
  BY <1>12 DEF PrepareReport, RepOnly, UseV2
<1>13. CASE CheckConnected
  BY <1>13 DEF CheckConnected, RepOnly
<1>14. CASE SendReport
  BY <1>14 DEF SendReport, RepOnly, Note, Fault, SendText
<1>15. CASE HangUp
  BY <1>15 DEF HangUp, BeginDisconnect
<1>16. CASE Sleep
  BY <1>16 DEF Sleep, RepOnly
<1>17. CASE JoinReceiver
  BY <1>17 DEF JoinReceiver
<1>18. CASE FreeConnection
  BY <1>18 DEF FreeConnection
<1>19. CASE RecvTop
  BY <1>19 DEF RecvTop, RecvOnly
<1>20. CASE FrameArrives
  BY <1>20 DEF FrameArrives, RecvOnly
<1>21. CASE Handled
  BY <1>21 DEF Handled, RecvOnly
<1>22. CASE ClosedByFrame
  BY <1>22 DEF ClosedByFrame, RecvOnly, Fault
<1>23. CASE ReceiveFails
  BY <1>23 DEF ReceiveFails, RecvOnly, Note, Fault
<1>24. CASE MarkClosed
  BY <1>24 DEF MarkClosed, RecvOnly
<1>25. CASE LinkLost
  BY <1>25 DEF LinkLost, Fault
<1>26. CASE HeartbeatCheck
  BY <1>26 DEF HeartbeatCheck, HbOnly
<1>27. CASE HeartbeatWrite
  BY <1>27 DEF HeartbeatWrite, HbOnly
<1>28. CASE HeartbeatSleep
  BY <1>28 DEF HeartbeatSleep, HbOnly
<1>29. CASE SignalArrives
  BY <1>29 DEF SignalArrives
<1>30. CASE StopClient
  BY <1>30 DEF StopClient
<1>31. CASE DisconnectAtEnd
  BY <1>31 DEF DisconnectAtEnd, BeginDisconnect
<1>32. CASE Destroy
  BY <1>32 DEF Destroy
<1>33. CASE UNCHANGED vars
  BY <1>33 DEF vars
<1> QED
  BY <1>1, <1>2, <1>3, <1>4, <1>5, <1>6, <1>7, <1>8, <1>9, <1>10, <1>11, <1>12, <1>13,
      <1>14, <1>15, <1>16, <1>17, <1>18, <1>19, <1>20, <1>21, <1>22, <1>23, <1>24,
      <1>25, <1>26, <1>27, <1>28, <1>29, <1>30, <1>31, <1>32, <1>33
  DEF Next, Report, Heartbeat, Main, vars

(* Who owns the connection: the receive thread is joined before the socket and
   the TLS object go, and before another attempt begins. *)
LEMMA NextOwnership ==
  IInv /\ [Next]_vars =>
    (Construction /\ DisconnectOwner /\ ReceiverHasConnection /\ DestroyedAlone)'
<1> SUFFICES ASSUME IInv, [Next]_vars PROVE (Construction /\ DisconnectOwner /\ ReceiverHasConnection /\ DestroyedAlone)'
  OBVIOUS
<1> USE ParameterAssumption DEF ParameterAssumption, IInv, TypeOK, Construction,
      DisconnectOwner, Attempting,
        ReceiverHasConnection, DestroyedAlone, Alive, connVars, flagVars, repVars, mainVars
<1>1. CASE Top
  BY <1>1 DEF Top, RepOnly
<1>2. CASE Retry
  BY <1>2 DEF Retry, RepOnly
<1>3. CASE ResetStop
  BY <1>3 DEF ResetStop, RepOnly
<1>4. CASE CloseOld
  BY <1>4 DEF CloseOld, BeginDisconnect
<1>5. CASE Dial
  BY <1>5 DEF Dial, RepOnly, Note, Fault, UseV2
<1>6. CASE Handshake
  BY <1>6 DEF Handshake, RepOnly, Note, Fault, DropAttempt
<1>7. CASE CheckStop
  BY <1>7 DEF CheckStop, RepOnly, DropAttempt
<1>8. CASE SpawnReceiver
  BY <1>8 DEF SpawnReceiver, RepOnly, Note, Fault, DropAttempt
<1>9. CASE NoteSuccess
  BY <1>9 DEF NoteSuccess, RepOnly, Note
<1>10. CASE AttemptFailed
  BY <1>10 DEF AttemptFailed, RepOnly
<1>11. CASE SendBasicInfo
  BY <1>11 DEF SendBasicInfo, RepOnly, Note, Fault, SendText
<1>12. CASE PrepareReport
  BY <1>12 DEF PrepareReport, RepOnly, UseV2
<1>13. CASE CheckConnected
  BY <1>13 DEF CheckConnected, RepOnly
<1>14. CASE SendReport
  BY <1>14 DEF SendReport, RepOnly, Note, Fault, SendText
<1>15. CASE HangUp
  BY <1>15 DEF HangUp, BeginDisconnect
<1>16. CASE Sleep
  BY <1>16 DEF Sleep, RepOnly
<1>17. CASE JoinReceiver
  BY <1>17 DEF JoinReceiver
<1>18. CASE FreeConnection
  BY <1>18 DEF FreeConnection
<1>19. CASE RecvTop
  BY <1>19 DEF RecvTop, RecvOnly
<1>20. CASE FrameArrives
  BY <1>20 DEF FrameArrives, RecvOnly
<1>21. CASE Handled
  BY <1>21 DEF Handled, RecvOnly
<1>22. CASE ClosedByFrame
  BY <1>22 DEF ClosedByFrame, RecvOnly, Fault
<1>23. CASE ReceiveFails
  BY <1>23 DEF ReceiveFails, RecvOnly, Note, Fault
<1>24. CASE MarkClosed
  BY <1>24 DEF MarkClosed, RecvOnly
<1>25. CASE LinkLost
  BY <1>25 DEF LinkLost, Fault
<1>26. CASE HeartbeatCheck
  BY <1>26 DEF HeartbeatCheck, HbOnly
<1>27. CASE HeartbeatWrite
  BY <1>27 DEF HeartbeatWrite, HbOnly
<1>28. CASE HeartbeatSleep
  BY <1>28 DEF HeartbeatSleep, HbOnly
<1>29. CASE SignalArrives
  BY <1>29 DEF SignalArrives
<1>30. CASE StopClient
  BY <1>30 DEF StopClient
<1>31. CASE DisconnectAtEnd
  BY <1>31 DEF DisconnectAtEnd, BeginDisconnect
<1>32. CASE Destroy
  BY <1>32 DEF Destroy
<1>33. CASE UNCHANGED vars
  BY <1>33 DEF vars
<1> QED
  BY <1>1, <1>2, <1>3, <1>4, <1>5, <1>6, <1>7, <1>8, <1>9, <1>10, <1>11, <1>12, <1>13,
      <1>14, <1>15, <1>16, <1>17, <1>18, <1>19, <1>20, <1>21, <1>22, <1>23, <1>24,
      <1>25, <1>26, <1>27, <1>28, <1>29, <1>30, <1>31, <1>32, <1>33
  DEF Next, Report, Heartbeat, Main, vars

(* The flags tell the truth: only main sets should_stop beside a live connection,
   and the receive thread leaves the flag down when it ends for another reason. *)
LEMMA NextFlags == IInv /\ [Next]_vars => (StopFlags /\ ConnectedIsServed)'
<1> SUFFICES ASSUME IInv, [Next]_vars PROVE (StopFlags /\ ConnectedIsServed)'
  OBVIOUS
<1> USE DEF IInv, TypeOK, StopFlags, ConnectedIsServed, ReceiverHasConnection,
      DisconnectOwner, DestroyedAlone, Alive, connVars, flagVars, repVars, mainVars
<1>1. CASE Top
  BY <1>1 DEF Top, RepOnly
<1>2. CASE Retry
  BY <1>2 DEF Retry, RepOnly
<1>3. CASE ResetStop
  BY <1>3 DEF ResetStop, RepOnly
<1>4. CASE CloseOld
  BY <1>4 DEF CloseOld, BeginDisconnect
<1>5. CASE Dial
  BY <1>5 DEF Dial, RepOnly, Note, Fault, UseV2
<1>6. CASE Handshake
  BY <1>6 DEF Handshake, RepOnly, Note, Fault, DropAttempt
<1>7. CASE CheckStop
  BY <1>7 DEF CheckStop, RepOnly, DropAttempt
<1>8. CASE SpawnReceiver
  BY <1>8 DEF SpawnReceiver, RepOnly, Note, Fault, DropAttempt
<1>9. CASE NoteSuccess
  BY <1>9 DEF NoteSuccess, RepOnly, Note
<1>10. CASE AttemptFailed
  BY <1>10 DEF AttemptFailed, RepOnly
<1>11. CASE SendBasicInfo
  BY <1>11 DEF SendBasicInfo, RepOnly, Note, Fault, SendText
<1>12. CASE PrepareReport
  BY <1>12 DEF PrepareReport, RepOnly, UseV2
<1>13. CASE CheckConnected
  BY <1>13 DEF CheckConnected, RepOnly
<1>14. CASE SendReport
  BY <1>14 DEF SendReport, RepOnly, Note, Fault, SendText
<1>15. CASE HangUp
  BY <1>15 DEF HangUp, BeginDisconnect
<1>16. CASE Sleep
  BY <1>16 DEF Sleep, RepOnly
<1>17. CASE JoinReceiver
  BY <1>17 DEF JoinReceiver
<1>18. CASE FreeConnection
  BY <1>18 DEF FreeConnection
<1>19. CASE RecvTop
  BY <1>19 DEF RecvTop, RecvOnly
<1>20. CASE FrameArrives
  BY <1>20 DEF FrameArrives, RecvOnly
<1>21. CASE Handled
  BY <1>21 DEF Handled, RecvOnly
<1>22. CASE ClosedByFrame
  BY <1>22 DEF ClosedByFrame, RecvOnly, Fault
<1>23. CASE ReceiveFails
  BY <1>23 DEF ReceiveFails, RecvOnly, Note, Fault
<1>24. CASE MarkClosed
  BY <1>24 DEF MarkClosed, RecvOnly
<1>25. CASE LinkLost
  BY <1>25 DEF LinkLost, Fault
<1>26. CASE HeartbeatCheck
  BY <1>26 DEF HeartbeatCheck, HbOnly
<1>27. CASE HeartbeatWrite
  BY <1>27 DEF HeartbeatWrite, HbOnly
<1>28. CASE HeartbeatSleep
  BY <1>28 DEF HeartbeatSleep, HbOnly
<1>29. CASE SignalArrives
  BY <1>29 DEF SignalArrives
<1>30. CASE StopClient
  BY <1>30 DEF StopClient
<1>31. CASE DisconnectAtEnd
  BY <1>31 DEF DisconnectAtEnd, BeginDisconnect
<1>32. CASE Destroy
  BY <1>32 DEF Destroy
<1>33. CASE UNCHANGED vars
  BY <1>33 DEF vars
<1> QED
  BY <1>1, <1>2, <1>3, <1>4, <1>5, <1>6, <1>7, <1>8, <1>9, <1>10, <1>11, <1>12, <1>13,
      <1>14, <1>15, <1>16, <1>17, <1>18, <1>19, <1>20, <1>21, <1>22, <1>23, <1>24,
      <1>25, <1>26, <1>27, <1>28, <1>29, <1>30, <1>31, <1>32, <1>33
  DEF Next, Report, Heartbeat, Main, vars

(* Only the report thread raises the flag, and who takes the connection apart
   has lowered it first. *)
LEMMA NextAnnouncement == IInv /\ [Next]_vars => Announcement'
<1> SUFFICES ASSUME IInv, [Next]_vars PROVE Announcement'
  OBVIOUS
<1> USE DEF IInv, TypeOK, Announcement, ReceiverHasConnection, DestroyedAlone,
      DisconnectOwner, Construction, Attempting, Alive,
      connVars, flagVars, repVars, mainVars
<1>1. CASE Top
  BY <1>1 DEF Top, RepOnly
<1>2. CASE Retry \/ ResetStop
  BY <1>2 DEF Retry, ResetStop, RepOnly
<1>3. CASE CloseOld \/ HangUp
  BY <1>3 DEF CloseOld, HangUp, BeginDisconnect
<1>4. CASE Dial
  BY <1>4 DEF Dial, RepOnly
<1>5. CASE Handshake
  BY <1>5 DEF Handshake, RepOnly, DropAttempt
<1>6. CASE CheckStop
  BY <1>6 DEF CheckStop, RepOnly, DropAttempt
<1>7. CASE SpawnReceiver
  BY <1>7 DEF SpawnReceiver, RepOnly, DropAttempt
<1>8. CASE NoteSuccess \/ AttemptFailed
  <2>1. /\ UNCHANGED <<open, connected, disc, main>>
        /\ rep' = "basic" \/ (rep \in {"failed", "aborted"} /\ rep' = "retry")
    BY <1>8 DEF NoteSuccess, AttemptFailed, RepOnly
  <2> QED
    BY <2>1
<1>9. CASE SendBasicInfo \/ SendReport
  BY <1>9 DEF SendBasicInfo, SendReport, SendText, RepOnly
<1>10. CASE PrepareReport \/ CheckConnected \/ Sleep
  BY <1>10 DEF PrepareReport, CheckConnected, Sleep, RepOnly
<1>11. CASE JoinReceiver
  BY <1>11 DEF JoinReceiver
<1>12. CASE FreeConnection
  BY <1>12 DEF FreeConnection
<1>13. CASE RecvTop \/ FrameArrives \/ Handled \/ ClosedByFrame \/ ReceiveFails \/ MarkClosed
  <2>1. /\ recv # "none" /\ UNCHANGED <<open, rep, disc, main>>
        /\ connected' = connected \/ connected' = FALSE
    BY <1>13 DEF RecvTop, FrameArrives, Handled, ClosedByFrame, ReceiveFails, MarkClosed,
       RecvOnly
  <2> QED
    BY <2>1
<1>14. CASE UNCHANGED <<open, connected, rep, disc, main>>
  BY <1>14
<1>15. CASE LinkLost \/ HeartbeatCheck \/ HeartbeatWrite \/ HeartbeatSleep
  BY <1>14, <1>15 DEF LinkLost, HeartbeatCheck, HeartbeatWrite, HeartbeatSleep, HbOnly
<1>16. CASE SignalArrives \/ StopClient
  BY <1>16 DEF SignalArrives, StopClient
<1>17. CASE DisconnectAtEnd
  BY <1>17 DEF DisconnectAtEnd, BeginDisconnect
<1>18. CASE Destroy
  BY <1>18 DEF Destroy
<1>19. CASE UNCHANGED vars
  BY <1>14, <1>19 DEF vars
<1> QED
  BY <1>1, <1>2, <1>3, <1>4, <1>5, <1>6, <1>7, <1>8, <1>9, <1>10, <1>11, <1>12, <1>13,
      <1>15, <1>16, <1>17, <1>18, <1>19
  DEF Next, Report, Heartbeat, Main, vars

-----------------------------------------------------------------------------
LEMMA Inductive == IInv /\ [Next]_vars => IInv'
<1> SUFFICES ASSUME IInv, [Next]_vars PROVE IInv'
  OBVIOUS
<1>1. TypeOK /\ Construction
  BY DEF IInv
<1>2. FlagTypes' /\ ValueTypes'
  BY <1>1, NextFlagTypes, NextValueTypes
<1>3. TypeOK'
  BY <1>2 DEF TypeOK, FlagTypes, ValueTypes
<1> QED
  BY <1>3, NextOwnership, NextFlags, NextAnnouncement DEF IInv

LEMMA Invariance == Spec => []IInv
  BY InitIInv, Inductive, PTL DEF Spec

(* Every variable keeps its type, and the retries their limit. *)
THEOREM TypeCorrect == Spec => []TypeOK
<1>1. IInv => TypeOK
  BY DEF IInv
<1> QED
  BY <1>1, Invariance, PTL

(* No receive thread runs without its socket and TLS object, and no second one
   beside it: ws_client_disconnect joins before it frees. *)
THEOREM ConnectionOwned == Spec => []ReceiverHasConnection
<1>1. IInv => ReceiverHasConnection
  BY DEF IInv
<1> QED
  BY <1>1, Invariance, PTL

(* While the agent runs, a connection flagged as connected is being read. *)
THEOREM ConnectedServed == Spec => []ConnectedIsServed
<1>1. IInv => ConnectedIsServed
  BY DEF IInv
<1> QED
  BY <1>1, Invariance, PTL

(* main takes the client apart when the threads that use it have ended. *)
THEOREM TakenApartAlone == Spec => []DestroyedAlone
<1>1. IInv => DestroyedAlone
  BY DEF IInv
<1> QED
  BY <1>1, Invariance, PTL

-----------------------------------------------------------------------------
(* A step of the abstract connection, or none. *)
ConnectionStep == [Connection!Next]_Connection!connectionVars

(* Two ways to show a stutter: nothing of the connection changes, or only the
   receive thread moves on within its loop. *)
LEMMA NothingMoves ==
  ASSUME UNCHANGED <<open, connected, running>>, UNCHANGED recv \/ (Alive /\ Alive'),
         (main' = "destroyed") = (main = "destroyed")
  PROVE  ConnectionStep
<1>1. ReaderState' = ReaderState
  BY DEF ReaderState, Alive
<1> QED
  BY <1>1 DEF ConnectionStep, Connection!connectionVars

(* The report thread builds the connection and closes what it built. *)
LEMMA ReportConnects ==
  ASSUME IInv, Report
  PROVE  ConnectionStep
<1> USE DEF IInv, TypeOK, connVars, flagVars, repVars, mainVars
<1>1. CASE UNCHANGED <<open, connected, recv, running, main>>
  BY <1>1, NothingMoves
<1>2. CASE Top \/ Retry \/ ResetStop \/ NoteSuccess \/ AttemptFailed
  BY <1>1, <1>2 DEF Top, Retry, ResetStop, NoteSuccess, AttemptFailed, RepOnly
<1>3. CASE SendBasicInfo \/ SendReport \/ PrepareReport \/ CheckConnected \/ Sleep
  BY <1>1, <1>3 DEF SendBasicInfo, SendReport, PrepareReport, CheckConnected, Sleep, RepOnly
<1>4. CASE CloseOld \/ HangUp
  <2>1. connected' = FALSE /\ UNCHANGED <<open, recv, running, main>>
    BY <1>4 DEF CloseOld, HangUp, BeginDisconnect
  <2>2. CASE connected
    <3>1. Connection!Withdraw
      BY <2>1, <2>2 DEF Connection!Withdraw, ReaderState, Alive
    <3> QED
      BY <3>1 DEF ConnectionStep, Connection!Next
  <2>3. CASE ~connected
    BY <1>1, <2>1, <2>3
  <2> QED
    BY <2>2, <2>3
<1>5. CASE Dial
  <2>1. UNCHANGED <<connected, recv, running, main>> /\ ~open /\ ~connected /\ recv = "none"
    BY <1>5 DEF Dial, RepOnly, Announcement, Attempting, ReceiverHasConnection
  <2>2. main # "destroyed"
    BY <1>5 DEF Dial, DestroyedAlone
  <2>3. CASE open'
    <3>1. Connection!Open
      BY <2>1, <2>2, <2>3, <1>5 DEF Dial, Connection!Open, Connection!Nothing, ReaderState, Alive
    <3> QED
      BY <3>1 DEF ConnectionStep, Connection!Next
  <2>4. CASE ~open'
    <3>1. open' = open
      BY <1>5, <2>4 DEF Dial
    <3> QED
      BY <1>1, <2>1, <3>1
  <2> QED
    BY <2>3, <2>4
<1>6. ASSUME UNCHANGED <<recv, running, main>>, recv = "none", open,
             ~open', ~connected'
      PROVE  ConnectionStep
  <2>1. open' = FALSE /\ connected' = FALSE
    BY <1>6, NextFlagTypes DEF FlagTypes
  <2>2. Connection!Close
    BY <1>6, <2>1 DEF Connection!Close, ReaderState, Alive
  <2> QED
    BY <2>2 DEF ConnectionStep, Connection!Next
<1>7. CASE Handshake
  <2>1. /\ UNCHANGED <<connected, recv, running, main>> /\ open /\ ~connected /\ recv = "none"
        /\ open' = open \/ ~open'
    BY <1>7 DEF Handshake, DropAttempt, RepOnly, Announcement, Attempting,
       ReceiverHasConnection, Construction
  <2> QED
    BY <1>1, <1>6, <2>1
<1>8. CASE CheckStop
  <2>1. /\ UNCHANGED <<recv, running, main>> /\ open /\ ~connected /\ recv = "none"
        /\ \/ ~connected' /\ ~open'
           \/ connected' = TRUE /\ UNCHANGED open
    BY <1>8 DEF CheckStop, DropAttempt, RepOnly, Announcement, Attempting,
       ReceiverHasConnection, Construction
  <2>2. CASE connected' = TRUE /\ UNCHANGED open
    <3>1. Connection!Announce
      BY <2>1, <2>2 DEF Connection!Announce, ReaderState, Alive
    <3> QED
      BY <3>1 DEF ConnectionStep, Connection!Next
  <2> QED
    BY <1>6, <2>1, <2>2
<1>9. CASE SpawnReceiver
  <2>1. /\ UNCHANGED <<running, main>> /\ open /\ connected /\ recv = "none"
        /\ \/ UNCHANGED recv /\ ~open' /\ ~connected'
           \/ recv' = "top" /\ UNCHANGED <<open, connected>>
    BY <1>9 DEF SpawnReceiver, DropAttempt, RepOnly, Announcement,
       ReceiverHasConnection, Construction
  <2>2. CASE recv' = "top" /\ UNCHANGED <<open, connected>>
    <3>1. Connection!Serve
      BY <2>1, <2>2 DEF Connection!Serve, ReaderState, Alive
    <3> QED
      BY <3>1 DEF ConnectionStep, Connection!Next
  <2> QED
    BY <1>6, <2>1, <2>2
<1> QED
  BY <1>2, <1>3, <1>4, <1>5, <1>7, <1>8, <1>9 DEF Report

(* The receive thread ends, and takes the flag down unless the agent stops. *)
LEMMA ReceiverLeaves ==
  ASSUME IInv, RecvTop \/ FrameArrives \/ Handled \/ ClosedByFrame \/ ReceiveFails \/ MarkClosed
  PROVE  ConnectionStep
<1>1. UNCHANGED <<open, running, main>> /\ Alive
  BY DEF RecvTop, FrameArrives, Handled, ClosedByFrame, ReceiveFails, MarkClosed, RecvOnly,
     connVars, mainVars, Alive
<1>2. \/ Alive' /\ UNCHANGED connected
      \/ recv' = "ended" /\ connected' = FALSE
      \/ recv' = "ended" /\ ~running /\ UNCHANGED connected
  <2>1. shouldStop /\ connected => ~running
    BY DEF IInv, StopFlags
  <2>2. connected \in BOOLEAN
    BY DEF IInv, TypeOK
  <2> QED
    BY <2>1, <2>2
    DEF RecvTop, FrameArrives, Handled, ClosedByFrame, ReceiveFails, MarkClosed, Alive
<1>3. CASE Alive' /\ UNCHANGED connected
  BY <1>1, <1>3, NothingMoves
<1>4. CASE recv' = "ended" /\ (connected' = FALSE \/ (~running /\ UNCHANGED connected))
  <2>1. ReaderState = "running" /\ ReaderState' = "ended"
    BY <1>1, <1>4 DEF ReaderState, Alive
  <2>2. Connection!ReaderEnds
    BY <1>1, <1>4, <2>1 DEF Connection!ReaderEnds
  <2> QED
    BY <2>2 DEF ConnectionStep, Connection!Next
<1> QED
  BY <1>2, <1>3, <1>4

(* ws_client_disconnect joins the receive thread, then closes. *)
LEMMA DisconnectCloses ==
  ASSUME IInv, JoinReceiver \/ FreeConnection
  PROVE  ConnectionStep
<1> USE DEF IInv, TypeOK, connVars, flagVars, repVars, mainVars
<1>1. CASE JoinReceiver
  <2>1. UNCHANGED <<open, connected, running, main>> /\ ~connected /\ recv' = "none"
    BY <1>1 DEF JoinReceiver, Announcement
  <2>2. CASE recv = "none"
    BY <2>1, <2>2, NothingMoves
  <2>3. CASE recv = "ended"
    <3>1. Connection!Join
      BY <2>1, <2>3 DEF Connection!Join, ReaderState, Alive
    <3> QED
      BY <3>1 DEF ConnectionStep, Connection!Next
  <2> QED
    BY <1>1, <2>2, <2>3 DEF JoinReceiver
<1>2. CASE FreeConnection
  <2>1. /\ UNCHANGED <<connected, recv, running>> /\ connected = FALSE /\ recv = "none"
        /\ open' = FALSE /\ (main' = "destroyed") = (main = "destroyed")
    BY <1>2 DEF FreeConnection, Announcement, DisconnectOwner
  <2>2. CASE open
    <3>1. Connection!Close
      BY <2>1, <2>2 DEF Connection!Close, ReaderState, Alive
    <3> QED
      BY <3>1 DEF ConnectionStep, Connection!Next
  <2>3. CASE ~open
    BY <2>1, <2>3, NothingMoves
  <2> QED
    BY <2>2, <2>3
<1> QED
  BY <1>1, <1>2

(* main stops the agent, disconnects and destroys what is left: nothing. *)
LEMMA MainDestroys ==
  ASSUME IInv, SignalArrives \/ Main
  PROVE  ConnectionStep
<1> USE DEF IInv, TypeOK, connVars, flagVars, repVars, mainVars
<1>1. CASE SignalArrives
  <2>1. Connection!Stop
    BY <1>1 DEF SignalArrives, Connection!Stop, ReaderState, Alive
  <2> QED
    BY <2>1 DEF ConnectionStep, Connection!Next
<1>2. CASE StopClient
  <2>1. UNCHANGED <<open, connected, recv, running>> /\ main = "stop" /\ main' = "join"
    BY <1>2 DEF StopClient
  <2> QED
    BY <2>1, NothingMoves
<1>3. CASE DisconnectAtEnd
  <2>1. /\ connected' = FALSE /\ UNCHANGED <<open, recv, running>>
        /\ main = "join" /\ main' = "disconnect"
    BY <1>3 DEF DisconnectAtEnd, BeginDisconnect
  <2>2. CASE connected
    <3>1. Connection!Withdraw
      BY <2>1, <2>2 DEF Connection!Withdraw, ReaderState, Alive
    <3> QED
      BY <3>1 DEF ConnectionStep, Connection!Next
  <2>3. CASE ~connected
    BY <2>1, <2>3, NothingMoves
  <2> QED
    BY <2>2, <2>3
<1>4. CASE Destroy
  <2>1. /\ UNCHANGED <<open, connected, recv, running>>
        /\ ~open /\ ~connected /\ recv = "none" /\ ~running
        /\ main = "destroy" /\ main' = "destroyed"
    BY <1>4 DEF Destroy, DestroyedAlone, Announcement, StopFlags
  <2>2. Connection!Destroy
    BY <2>1 DEF Connection!Destroy, Connection!Nothing, ReaderState, Alive
  <2> QED
    BY <2>2 DEF ConnectionStep, Connection!Next
<1> QED
  BY <1>1, <1>2, <1>3, <1>4 DEF Main

LEMMA NextConnects == IInv /\ [Next]_vars => ConnectionStep
<1> SUFFICES ASSUME IInv, [Next]_vars PROVE ConnectionStep
  OBVIOUS
<1>1. CASE UNCHANGED <<open, connected, recv, running, main>>
  BY <1>1, NothingMoves
<1>2. CASE LinkLost \/ Heartbeat \/ UNCHANGED vars
  BY <1>1, <1>2 DEF LinkLost, Heartbeat, HeartbeatCheck, HeartbeatWrite, HeartbeatSleep,
     HbOnly, vars, connVars, flagVars, mainVars
<1> QED
  BY <1>2, ReportConnects, ReceiverLeaves, DisconnectCloses, MainDestroys DEF Next, vars

LEMMA InitConnects == Init => Connection!Init
  BY DEF Init, Connection!Init, Connection!Nothing, ReaderState, Alive

(* The client implements the life of a connection that ClientConnection
   states, for every threshold, retry limit and number of faults. *)
THEOREM ConnectionsInOrder == Spec => ImplementsConnection
  BY InitConnects, NextConnects, InitIInv, Inductive, PTL
  DEF Spec, ImplementsConnection, Connection!Spec, ConnectionStep


(* What ClientConnection keeps, the client keeps: users and reader of a
   connection have a socket, and a client that is destroyed has nothing left. *)
THEOREM ConnectionKept == Spec => []Connection!InOrder
<1> USE DEF Connection!InOrder, Connection!Nothing
<1>1. Connection!Init => Connection!InOrder
  BY DEF Connection!Init
<1>2. Connection!InOrder /\ [Connection!Next]_(Connection!connectionVars) => Connection!InOrder'
  BY DEF Connection!Next, Connection!connectionVars, Connection!Open, Connection!Announce,
         Connection!Serve, Connection!Withdraw, Connection!ReaderEnds, Connection!Join,
         Connection!Close, Connection!Stop, Connection!Destroy
<1>3. Connection!Spec => []Connection!InOrder
  BY <1>1, <1>2, PTL DEF Connection!Spec
<1> QED
  BY <1>3, ConnectionsInOrder, PTL DEF ImplementsConnection

(* What the second colon costs: with a panel that writes the accept header as
   RFC 6455 has it no handshake passes and no connection is announced. *)
Refused ==
  /\ accept \in {"compliant", "doubled"}
  /\ accept = "compliant" => rep # "check" /\ ~connected

LEMMA NextRefused == Refused /\ [Next]_vars => Refused'
<1> SUFFICES ASSUME Refused, [Next]_vars PROVE Refused'
  OBVIOUS
<1> USE DEF Refused
<1>1. accept' = accept
  BY DEF Next, Report, Top, Retry, ResetStop, CloseOld, Dial, Handshake, CheckStop,
     SpawnReceiver, NoteSuccess, AttemptFailed, SendBasicInfo, PrepareReport,
     CheckConnected, SendReport, HangUp, Sleep, RepOnly, BeginDisconnect, JoinReceiver,
     FreeConnection, RecvTop, FrameArrives, Handled, ClosedByFrame, ReceiveFails,
     MarkClosed, RecvOnly, LinkLost, Heartbeat, HeartbeatCheck, HeartbeatWrite,
     HeartbeatSleep, HbOnly, SignalArrives, Main, StopClient, DisconnectAtEnd, Destroy, vars
<1>2. rep' = "check" => rep = "check" \/ accept = "doubled"
  BY DEF Next, Report, Top, Retry, ResetStop, CloseOld, Dial, Handshake, ReplyAccepted,
     CheckStop, SpawnReceiver, NoteSuccess, AttemptFailed, SendBasicInfo, SendText,
     PrepareReport, CheckConnected, SendReport, HangUp, Sleep, JoinReceiver, FreeConnection,
     RecvTop, FrameArrives, Handled, ClosedByFrame, ReceiveFails, MarkClosed, RecvOnly,
     LinkLost, Heartbeat, HeartbeatCheck, HeartbeatWrite, HeartbeatSleep, HbOnly,
     SignalArrives, Main, StopClient, DisconnectAtEnd, Destroy, vars, repVars
<1>3. connected' => connected \/ rep = "check"
  BY DEF Next, Report, Top, Retry, ResetStop, CloseOld, Dial, Handshake, CheckStop,
     SpawnReceiver, NoteSuccess, AttemptFailed, SendBasicInfo, PrepareReport,
     CheckConnected, SendReport, HangUp, Sleep, BeginDisconnect, JoinReceiver,
     FreeConnection, RecvTop, FrameArrives, Handled, ClosedByFrame, ReceiveFails,
     MarkClosed, LinkLost, Heartbeat, HeartbeatCheck, HeartbeatWrite, HeartbeatSleep,
     HbOnly, SignalArrives, Main, StopClient, DisconnectAtEnd, Destroy, vars, flagVars
<1> QED
  BY <1>1, <1>2, <1>3

(* Never, however often it tries, does the agent get a connection to a panel
   that keeps to the RFC. *)
THEOREM CompliantPanelRefused == Spec => [](accept = "compliant" => ~connected)
<1>1. Init => Refused
  BY DEF Init, Refused
<1>2. Refused => (accept = "compliant" => ~connected)
  BY DEF Refused
<1> QED
  BY <1>1, <1>2, NextRefused, PTL DEF Spec
=============================================================================
