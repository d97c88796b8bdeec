-------------------------- MODULE TerminalSessions --------------------------
(***************************************************************************)
(* Remote terminal sessions of the agent (main.c, terminal.c).  Five kinds *)
(* of threads meet here: the receive thread of the main connection, which  *)
(* establishes sessions one at a time; per session a monitor thread, a     *)
(* terminal read thread and the receive thread of the session's own        *)
(* WebSocket; and the main thread, which shuts everything down.            *)
(*                                                                         *)
(* An access to freed memory sets "ub" and ends the behaviour: what the    *)
(* program does then is undefined.                                         *)
(***************************************************************************)
EXTENDS Integers, FiniteSets

CONSTANTS
  Session,        \* bound: the session structs ever allocated
  NoSession,      \* NULL
  MaxSessions,    \* MAX_TERMINAL_SESSIONS: limit of the counter, size of the registry
  QuietShutdown   \* assume no terminal request is served during the shutdown

ASSUME SessionAssumption == IsFiniteSet(Session) /\ NoSession \notin Session
ASSUME LimitAssumption   == MaxSessions \in Nat \ {0} /\ QuietShutdown \in BOOLEAN

Slot == 1..MaxSessions

VARIABLES
  activeSessions,  \* active_sessions in terminal.c
  gSessions,       \* g_sessions[]
  mem,             \* the session struct: "none", "live" or "freed"
  active, cleanupDone, monitorStarted,   \* its flags
  ws,              \* its WebSocket: "none", "connected", "closed", "freed"
  term,            \* its terminal: "none", "running", "exited" (the shell is gone,
                   \* term->running still set), "terminated", "freed"
  reader,          \* the terminal read thread is alive
  recvPc,          \* the receive thread of ws: "none", "idle", "writing"
  monPc,           \* the monitor thread
  reqPc, reqS, zombie,   \* the establishing thread and its locals
  mainPc, slot, mainS,   \* the main thread and its locals
  stopped,         \* g_ws_client->should_stop
  ub

sessVars == <<mem, active, cleanupDone, monitorStarted, ws, term, reader, recvPc>>
reqVars  == <<reqPc, reqS, zombie>>
mainVars == <<mainPc, slot, mainS, stopped>>
vars == <<activeSessions, gSessions, sessVars, monPc, reqVars, mainVars, ub>>

Init ==
  /\ activeSessions = 0 /\ gSessions = [i \in Slot |-> NoSession]
  /\ mem = [s \in Session |-> "none"] /\ active = [s \in Session |-> FALSE]
  /\ cleanupDone = [s \in Session |-> FALSE]
  /\ monitorStarted = [s \in Session |-> FALSE]
  /\ ws = [s \in Session |-> "none"] /\ term = [s \in Session |-> "none"]
  /\ reader = [s \in Session |-> FALSE] /\ recvPc = [s \in Session |-> "none"]
  /\ monPc = [s \in Session |-> "none"]
  /\ reqPc = "idle" /\ reqS = NoSession /\ zombie = NoSession
  /\ mainPc = "running" /\ slot = 1 /\ mainS = NoSession /\ stopped = FALSE
  /\ ub = FALSE

(* Reading or writing the struct of s. *)
Touch(s) == ub' = (ub \/ mem[s] = "freed")

(* The session limit of terminal.c. *)
AcquireOffByOne == activeSessions <= MaxSessions /\ activeSessions' = activeSessions + 1
Acquire == activeSessions < MaxSessions /\ activeSessions' = activeSessions + 1
ReleaseOne == activeSessions' = IF activeSessions > 0 THEN activeSessions - 1 ELSE activeSessions

(* The monitor thread of a registered session needs its slot no more. *)
FinishedWhenInactive(s) == ~active[s]
Finished(s) == cleanupDone[s]

-----------------------------------------------------------------------------
(* Establishing a session, on the receive thread of the main connection.   *)

(* The handler returns: back at its loop top the thread ends if stopped. *)
Return ==
  /\ reqPc' = IF stopped THEN "exited" ELSE "idle"
  /\ reqS' = NoSession /\ zombie' = NoSession

(* A terminal request; terminal_acquire_session, which may refuse it. *)
Request(s) ==
  /\ reqPc = "idle" /\ mem[s] = "none"
  /\ QuietShutdown => mainPc = "running"
  /\ Acquire
  /\ reqPc' = "setup" /\ reqS' = s /\ mem' = [mem EXCEPT ![s] = "live"]
  /\ UNCHANGED <<gSessions, active, cleanupDone, monitorStarted, ws, term, reader,
                 recvPc, monPc, zombie, mainVars, ub>>

(* Any failure up to ws_client_connect. *)
SetupFailsLeaking ==
  /\ reqPc = "setup" /\ UNCHANGED activeSessions
  /\ mem' = [mem EXCEPT ![reqS] = "freed"] /\ Return
  /\ UNCHANGED <<gSessions, active, cleanupDone, monitorStarted, ws, term, reader,
                 recvPc, monPc, mainVars, ub>>
SetupFails ==
  /\ reqPc = "setup" /\ ReleaseOne
  /\ mem' = [mem EXCEPT ![reqS] = "freed"] /\ Return
  /\ UNCHANGED <<gSessions, active, cleanupDone, monitorStarted, ws, term, reader,
                 recvPc, monPc, mainVars, ub>>

Connect ==
  /\ reqPc = "setup" /\ reqPc' = "terminal"
  /\ ws' = [ws EXCEPT ![reqS] = "connected"]
  /\ recvPc' = [recvPc EXCEPT ![reqS] = "idle"]
  /\ UNCHANGED <<activeSessions, gSessions, mem, active, cleanupDone, monitorStarted,
                 term, reader, monPc, reqS, zombie, mainVars, ub>>

(* terminal_create and terminal_start. *)
StartTerminal ==
  /\ reqPc = "terminal" /\ reqPc' = "activate"
  /\ term' = [term EXCEPT ![reqS] = "running"]
  /\ reader' = [reader EXCEPT ![reqS] = TRUE]
  /\ UNCHANGED <<activeSessions, gSessions, mem, active, cleanupDone, monitorStarted,
                 ws, recvPc, monPc, reqS, zombie, mainVars, ub>>

Activate ==
  /\ reqPc = "activate" /\ reqPc' = "register"
  /\ active' = [active EXCEPT ![reqS] = TRUE]
  /\ cleanupDone' = [cleanupDone EXCEPT ![reqS] = FALSE]
  /\ monitorStarted' = [monitorStarted EXCEPT ![reqS] = FALSE]
  /\ UNCHANGED <<activeSessions, gSessions, mem, ws, term, reader, recvPc, monPc,
                 reqS, zombie, mainVars, ub>>

(* sessions_register under its lock: the scan stops at the first NULL slot
   and remembers the first finished session met on the way. *)
Register ==
  LET Null    == {i \in Slot : gSessions[i] = NoSession}
      Scanned == {i \in Slot : \A j \in Null : i < j}
      Done    == {i \in Scanned : Finished(gSessions[i])}
      First(S) == CHOOSE i \in S : \A j \in S : i <= j
  IN
  /\ reqPc = "register"
  /\ ub' = (ub \/ \E i \in Scanned : mem[gSessions[i]] = "freed")
  /\ gSessions' = IF Null # {} THEN [gSessions EXCEPT ![First(Null)] = reqS]
                  ELSE IF Done # {} THEN [gSessions EXCEPT ![First(Done)] = reqS]
                  ELSE gSessions
  /\ zombie' = IF Done # {} THEN gSessions[First(Done)] ELSE NoSession
  /\ reqPc' = IF Done # {} THEN "joinZombie" ELSE IF Null # {} THEN "spawn" ELSE "full"
  /\ UNCHANGED <<activeSessions, sessVars, monPc, reqS, mainVars>>

(* After the unlock: join the monitor thread of the zombie, free the zombie. *)
JoinZombie ==
  /\ reqPc = "joinZombie" /\ monPc[zombie] = "done"
  /\ Touch(zombie) /\ mem' = [mem EXCEPT ![zombie] = "freed"]
  /\ reqPc' = "spawn" /\ zombie' = NoSession
  /\ UNCHANGED <<activeSessions, gSessions, active, cleanupDone, monitorStarted, ws,
                 term, reader, recvPc, monPc, reqS, mainVars>>

(* pthread_create of the monitor thread, and its failure. *)
Spawn ==
  /\ reqPc = "spawn" /\ Touch(reqS)
  /\ \/ monPc' = [monPc EXCEPT ![reqS] = "loop"] /\ reqPc' = "started"
     \/ UNCHANGED monPc /\ reqPc' = "unwind"
  /\ UNCHANGED <<activeSessions, gSessions, sessVars, reqS, zombie, mainVars>>

MarkStarted ==
  /\ reqPc = "started" /\ Touch(reqS)
  /\ monitorStarted' = [monitorStarted EXCEPT ![reqS] = TRUE] /\ Return
  /\ UNCHANGED <<activeSessions, gSessions, mem, active, cleanupDone, ws, term, reader,
                 recvPc, monPc, mainVars>>

(* The error paths after ws_client_connect, step by step as in the monitor
   thread.  A terminal that does not start has no read thread to be joined, so
   its path begins with the WebSocket. *)
UnwindStep(from, to) ==
  /\ reqPc \in from /\ reqPc' = to /\ Touch(reqS)
  /\ UNCHANGED <<gSessions, mem, cleanupDone, monitorStarted, monPc, reqS, zombie,
                 mainVars>>

(* The registry is full, or there is no monitor thread. *)
UnwindFlag ==
  /\ UnwindStep({"full", "unwind"}, "terminate")
  /\ active' = [active EXCEPT ![reqS] = FALSE]
  /\ UNCHANGED <<activeSessions, ws, term, reader, recvPc>>

UnwindTerminal ==
  /\ UnwindStep({"terminate"}, "disconnect")
  /\ term' = [term EXCEPT ![reqS] = "terminated"]
  /\ reader' = [reader EXCEPT ![reqS] = FALSE]
  /\ UNCHANGED <<activeSessions, active, ws, recvPc>>

UnwindWs ==
  /\ UnwindStep({"terminal", "disconnect"}, "destroy") /\ recvPc[reqS] # "writing"
  /\ ws' = [ws EXCEPT ![reqS] = "closed"] /\ recvPc' = [recvPc EXCEPT ![reqS] = "none"]
  /\ UNCHANGED <<activeSessions, active, term, reader>>

UnwindDestroy ==
  /\ UnwindStep({"destroy"}, "release")
  /\ term' = [term EXCEPT ![reqS] = "freed"] /\ ws' = [ws EXCEPT ![reqS] = "freed"]
  /\ UNCHANGED <<activeSessions, active, reader, recvPc>>

UnwindRelease ==
  /\ UnwindStep({"release"}, "unregister") /\ ReleaseOne
  /\ UNCHANGED <<active, ws, term, reader, recvPc>>

(* The slot, if the session got one, is given back and the struct freed. *)
Unregister ==
  /\ reqPc = "unregister" /\ Touch(reqS)
  /\ gSessions' = [i \in Slot |-> IF gSessions[i] = reqS THEN NoSession ELSE gSessions[i]]
  /\ mem' = [mem EXCEPT ![reqS] = "freed"] /\ Return
  /\ UNCHANGED <<activeSessions, active, cleanupDone, monitorStarted, ws, term, reader,
                 recvPc, monPc, mainVars>>

-----------------------------------------------------------------------------
(* The threads of one session.                                             *)

(* The shell ends; the read thread sees EOF and returns, term->running stays. *)
ShellExits(s) ==
  /\ term[s] = "running" /\ reader[s]
  /\ term' = [term EXCEPT ![s] = "exited"] /\ reader' = [reader EXCEPT ![s] = FALSE]
  /\ UNCHANGED <<activeSessions, gSessions, mem, active, cleanupDone, monitorStarted,
                 ws, recvPc, monPc, reqVars, mainVars, ub>>

(* on_terminal_output cannot send: the session is to end. *)
OutputFails(s) ==
  /\ reader[s] /\ active[s] /\ Touch(s)
  /\ active' = [active EXCEPT ![s] = FALSE]
  /\ UNCHANGED <<activeSessions, gSessions, mem, cleanupDone, monitorStarted, ws, term,
                 reader, recvPc, monPc, reqVars, mainVars>>

(* on_terminal_ws_data: with the session active and a terminal there, the
   data goes to the terminal without any lock. *)
InputArrives(s) ==
  /\ recvPc[s] = "idle" /\ ws[s] = "connected" /\ Touch(s)
  /\ active[s] /\ term[s] \notin {"none", "freed"}
  /\ recvPc' = [recvPc EXCEPT ![s] = "writing"]
  /\ UNCHANGED <<activeSessions, gSessions, mem, active, cleanupDone, monitorStarted, ws,
                 term, reader, monPc, reqVars, mainVars>>

InputWritten(s) ==
  /\ recvPc[s] = "writing"
  /\ ub' = (ub \/ mem[s] = "freed" \/ term[s] = "freed")
  /\ recvPc' = [recvPc EXCEPT ![s] = "idle"]
  /\ UNCHANGED <<activeSessions, gSessions, mem, active, cleanupDone, monitorStarted, ws,
                 term, reader, monPc, reqVars, mainVars>>

(* The panel closes the terminal, or the connection breaks. *)
PanelCloses(s) ==
  /\ ws[s] = "connected" /\ recvPc[s] = "idle"
  /\ ws' = [ws EXCEPT ![s] = "closed"] /\ recvPc' = [recvPc EXCEPT ![s] = "none"]
  /\ UNCHANGED <<activeSessions, gSessions, mem, active, cleanupDone, monitorStarted,
                 term, reader, monPc, reqVars, mainVars, ub>>

(* What terminal_monitor_thread polls: active, term->running, the connection. *)
SessionOverNoFlag(s) == term[s] \notin {"running", "exited"} \/ ws[s] # "connected"
SessionOverNoWs(s)   == term[s] \notin {"running", "exited"} \/ ~active[s]
SessionOver(s) ==
  \/ ~active[s]
  \/ term[s] \notin {"running", "exited"}
  \/ ws[s] # "connected"

MonitorStep(s, from, to) ==
  /\ monPc[s] = from /\ Touch(s) /\ monPc' = [monPc EXCEPT ![s] = to]
  /\ UNCHANGED <<reqVars, mainVars, gSessions, mem, monitorStarted>>

MonitorWakes(s) ==
  /\ MonitorStep(s, "loop", "terminate") /\ SessionOver(s)
  /\ active' = [active EXCEPT ![s] = FALSE]
  /\ UNCHANGED <<activeSessions, cleanupDone, ws, term, reader, recvPc>>

(* terminal_terminate: end the shell, join the read thread, close the pty. *)
Terminate(s) ==
  /\ MonitorStep(s, "terminate", "disconnect")
  /\ term' = [term EXCEPT ![s] = "terminated"] /\ reader' = [reader EXCEPT ![s] = FALSE]
  /\ UNCHANGED <<activeSessions, active, cleanupDone, ws, recvPc>>

(* ws_client_stop and ws_client_disconnect, which joins the receive thread. *)
DisconnectWsUnjoined(s) ==
  /\ MonitorStep(s, "disconnect", "destroy") /\ ws' = [ws EXCEPT ![s] = "closed"]
  /\ UNCHANGED <<activeSessions, active, cleanupDone, term, reader, recvPc>>
DisconnectWs(s) ==
  /\ MonitorStep(s, "disconnect", "destroy") /\ recvPc[s] # "writing"
  /\ ws' = [ws EXCEPT ![s] = "closed"] /\ recvPc' = [recvPc EXCEPT ![s] = "none"]
  /\ UNCHANGED <<activeSessions, active, cleanupDone, term, reader>>

Destroy(s) ==
  /\ MonitorStep(s, "destroy", "release")
  /\ term' = [term EXCEPT ![s] = "freed"] /\ ws' = [ws EXCEPT ![s] = "freed"]
  /\ UNCHANGED <<activeSessions, active, cleanupDone, reader, recvPc>>

Release(s) ==
  /\ MonitorStep(s, "release", "mark") /\ ReleaseOne
  /\ UNCHANGED <<active, cleanupDone, ws, term, reader, recvPc>>

MarkDone(s) ==
  /\ MonitorStep(s, "mark", "done")
  /\ cleanupDone' = [cleanupDone EXCEPT ![s] = TRUE]
  /\ UNCHANGED <<activeSessions, active, ws, term, reader, recvPc>>

-----------------------------------------------------------------------------
(* The shutdown, on the main thread.                                       *)

(* sessions_signal_stop, after the signal handler cleared g_running. *)
SignalStop ==
  /\ mainPc = "running" /\ mainPc' = "signalled"
  /\ QuietShutdown => reqPc = "idle"
  /\ LET Registered == {gSessions[i] : i \in Slot} \ {NoSession} IN
     /\ active' = [s \in Session |-> active[s] /\ s \notin Registered]
     /\ ub' = (ub \/ \E s \in Registered : mem[s] = "freed")
  /\ UNCHANGED <<activeSessions, gSessions, mem, cleanupDone, monitorStarted, ws, term,
                 reader, recvPc, monPc, reqVars, slot, mainS, stopped>>

(* ws_client_stop(g_ws_client), then the worker threads are joined. *)
StopWs ==
  /\ mainPc = "signalled" /\ mainPc' = "cleanup" /\ stopped' = TRUE
  /\ UNCHANGED <<activeSessions, gSessions, sessVars, monPc, reqVars, slot, mainS, ub>>

(* sessions_join_and_cleanup, one slot at a time: the slot is emptied under
   the lock, the monitor joined and the session freed without it. *)
TakeSlotUnjoined ==
  /\ mainPc = "cleanup" /\ slot <= MaxSessions
  /\ IF gSessions[slot] = NoSession
     THEN slot' = slot + 1 /\ UNCHANGED <<mainPc, mainS, gSessions, ub>>
     ELSE /\ mainS' = gSessions[slot] /\ Touch(gSessions[slot])
          /\ gSessions' = [gSessions EXCEPT ![slot] = NoSession]
          /\ mainPc' = "free" /\ UNCHANGED slot
  /\ UNCHANGED <<activeSessions, sessVars, monPc, reqVars, stopped>>
TakeSlot ==
  /\ mainPc = "cleanup" /\ slot <= MaxSessions
  /\ IF gSessions[slot] = NoSession
     THEN slot' = slot + 1 /\ UNCHANGED <<mainPc, mainS, gSessions, ub>>
     ELSE /\ mainS' = gSessions[slot] /\ Touch(gSessions[slot])
          /\ gSessions' = [gSessions EXCEPT ![slot] = NoSession]
          /\ mainPc' = IF monitorStarted[gSessions[slot]] THEN "join" ELSE "free"
          /\ UNCHANGED slot
  /\ UNCHANGED <<activeSessions, sessVars, monPc, reqVars, stopped>>

JoinMonitor ==
  /\ mainPc = "join" /\ monPc[mainS] = "done" /\ mainPc' = "free" /\ Touch(mainS)
  /\ UNCHANGED <<activeSessions, gSessions, sessVars, monPc, reqVars, slot, mainS, stopped>>

FreeSession ==
  /\ mainPc = "free" /\ mainPc' = "cleanup" /\ slot' = slot + 1
  /\ Touch(mainS) /\ mem' = [mem EXCEPT ![mainS] = "freed"] /\ mainS' = NoSession
  /\ UNCHANGED <<activeSessions, gSessions, active, cleanupDone, monitorStarted, ws, term,
                 reader, recvPc, monPc, reqVars, stopped>>

(* The receive thread of the main connection notices the stop or the close. *)
ReceiverExits ==
  /\ reqPc = "idle" /\ stopped /\ reqPc' = "exited"
  /\ UNCHANGED <<activeSessions, gSessions, sessVars, monPc, reqS, zombie, mainVars, ub>>

(* ws_client_disconnect joins that thread; then the shared resources go. *)
Exit ==
  /\ mainPc = "cleanup" /\ slot > MaxSessions /\ reqPc = "exited" /\ mainPc' = "exited"
  /\ UNCHANGED <<activeSessions, gSessions, sessVars, monPc, reqVars, slot, mainS, stopped, ub>>

-----------------------------------------------------------------------------
Establish ==
  \/ SetupFails \/ Connect \/ StartTerminal \/ Activate \/ Register
  \/ JoinZombie \/ Spawn \/ MarkStarted
  \/ UnwindFlag \/ UnwindTerminal \/ UnwindWs \/ UnwindDestroy \/ UnwindRelease
  \/ Unregister
Monitor(s) ==
  \/ MonitorWakes(s) \/ Terminate(s) \/ DisconnectWs(s) \/ Destroy(s) \/ Release(s)
  \/ MarkDone(s)
Main == StopWs \/ TakeSlot \/ JoinMonitor \/ FreeSession \/ Exit

Over == ub \/ mainPc = "exited"

Next ==
  \/ /\ ~Over
     /\ \/ \E s \in Session : \/ Request(s) \/ Monitor(s)
                              \/ ShellExits(s) \/ OutputFails(s)
                              \/ InputArrives(s) \/ InputWritten(s) \/ PanelCloses(s)
        \/ Establish \/ SignalStop \/ Main \/ ReceiverExits
  \/ Over /\ UNCHANGED vars

Spec == Init /\ [][Next]_vars

(* Every thread of the agent keeps running.  The panel, the shell and the
   user, who may do nothing for ever, get no fairness. *)
Fairness ==
  /\ WF_vars(Establish) /\ WF_vars(Main) /\ WF_vars(ReceiverExits)
  /\ \A s \in Session : WF_vars(Monitor(s)) /\ WF_vars(InputWritten(s))

FairSpec == Spec /\ Fairness

-----------------------------------------------------------------------------
TypeOK ==
  /\ activeSessions \in 0..MaxSessions
  /\ gSessions \in [Slot -> Session \cup {NoSession}]
  /\ mem \in [Session -> {"none", "live", "freed"}]
  /\ active \in [Session -> BOOLEAN] /\ cleanupDone \in [Session -> BOOLEAN]
  /\ monitorStarted \in [Session -> BOOLEAN]
  /\ ws \in [Session -> {"none", "connected", "closed", "freed"}]
  /\ term \in [Session -> {"none", "running", "exited", "terminated", "freed"}]
  /\ reader \in [Session -> BOOLEAN]
  /\ recvPc \in [Session -> {"none", "idle", "writing"}]
  /\ monPc \in [Session -> {"none", "loop", "terminate", "disconnect", "destroy",
                            "release", "mark", "done"}]
  /\ reqPc \in {"idle", "setup", "terminal", "activate", "register", "joinZombie",
                "spawn", "started", "full", "unwind", "terminate", "disconnect",
                "destroy", "release", "unregister", "exited"}
  /\ reqS \in Session \cup {NoSession} /\ zombie \in Session \cup {NoSession}
  /\ mainPc \in {"running", "signalled", "cleanup", "join", "free", "exited"}
  /\ slot \in 1..(MaxSessions + 1) /\ mainS \in Session \cup {NoSession}
  /\ stopped \in BOOLEAN /\ ub \in BOOLEAN

(* The establishing thread between acquire and release, or hand-over. *)
Acquired == {"setup", "terminal", "activate", "register", "joinZombie", "spawn", "full",
             "unwind", "terminate", "disconnect", "destroy", "release"}

(* The sessions for which terminal_acquire_session is not yet undone. *)
Held(s) ==
  \/ reqS = s /\ reqPc \in Acquired
  \/ monPc[s] \in {"loop", "terminate", "disconnect", "destroy", "release"}

(* The counter of terminal.c neither leaks nor goes short: on every error path
   of establish_terminal_connection and in the monitor thread each acquired
   session is released exactly once, so the limit keeps its meaning. *)
CounterExact == activeSessions = Cardinality({s \in Session : Held(s)})

(* What a thread may be using is not freed: the read thread is joined before
   the WebSocket goes, the receive thread before the terminal goes (the order
   the comment in terminal_monitor_thread argues for). *)
JoinedBeforeFreed ==
  \A s \in Session :
    /\ ws[s] = "freed" => ~reader[s] /\ recvPc[s] = "none"
    /\ term[s] = "freed" => ~reader[s] /\ recvPc[s] # "writing"

(* Until the shutdown takes it out, a session with a monitor thread is in the
   registry, once: sessions_signal_stop reaches every running session. *)
MonitorRegistered ==
  mainPc \in {"running", "signalled"} =>
    \A s \in Session : monPc[s] \notin {"none", "done"} =>
      \E i \in Slot : gSessions[i] = s /\ \A j \in Slot \ {i} : gSessions[j] # s

(* A session that passed the limit finds a slot sessions_register accepts, an
   empty one or one whose session is cleanup_done, unless a monitor thread is
   between terminal_release_session and cleanup_done (main.c:348-349), whatever
   the error paths and the scan did to the slots before. *)
RoomForNewSession ==
  reqPc = "register" /\ (\A s \in Session : monPc[s] # "mark") =>
    \E i \in Slot : gSessions[i] = NoSession \/ cleanupDone[gSessions[i]]

(* Counter, registry and threads agree whatever the interleaving: sessions are
   counted exactly, every running one is in the registry once, and whoever is
   within the limit finds a slot outside the window of main.c:348-349. *)
RegistrySound == CounterExact /\ MonitorRegistered /\ RoomForNewSession

(* sessions_register turns a session down only while some monitor thread is in
   that window: it has released its place but its slot cannot be reused yet. *)
FullOnlyInWindow ==
  [][reqPc = "register" /\ reqPc' = "full" => \E s \in Session : monPc[s] = "mark"]_vars

(* main.c:496-497 says of a full registry "should not happen because
   terminal_acquire_session enforces the same limit".  It does in that window. *)
RegistryNeverFull == reqPc # "full"

(* main.c:512-513 says the shutdown joins the monitor thread "so it is never
   forcibly killed mid-cleanup": none is left when main destroys the shared
   resources (main.c:147).  It may be, if a request is served meanwhile. *)
NoMonitorAfterExit == mainPc = "exited" => \A s \in Session : monPc[s] \in {"none", "done"}

(* What holds of that with requests at any moment: a session whose
   monitor_started was set before main began to take the slots has no monitor
   thread left when main exits. *)
StartedIsJoined(s) ==
  [](mainPc \in {"running", "signalled"} /\ monitorStarted[s]
       => [](mainPc = "exited" => monPc[s] = "done"))

(* Where a session is for the pool. *)
PhaseOf(s) ==
  IF reqS = s /\ reqPc \in Acquired THEN "opening"
  ELSE IF monPc[s] \in {"loop", "terminate", "disconnect", "destroy", "release"} THEN "served"
  ELSE IF monPc[s] = "mark" THEN "leaving"
  ELSE IF mem[s] = "none" THEN "new" ELSE "over"

Pool == INSTANCE SessionPool WITH
  Places <- MaxSessions, Drained <- QuietShutdown,
  phase <- [s \in Session |-> PhaseOf(s)], exited <- mainPc = "exited"

(* Error paths, monitor threads, registry and shutdown together are a pool:
   no session passes the limit, holds its place twice or gives it back twice,
   and the agent exits with none half made, and after a quiet shutdown with
   no monitor thread that would use what main has destroyed (main.c:147). *)
ImplementsPool == Pool!Spec

(* When no request is served during the shutdown, the agent exits: every
   monitor thread sees its flag, ends and is joined. *)
ShutdownCompletes == mainPc = "signalled" ~> Over

(* A session whose connection is gone gives its place back. *)
ClosedIsReleased ==
  \A s \in Session : (monPc[s] = "loop" /\ ws[s] = "closed") ~> (monPc[s] = "done" \/ Over)

(* main.c:278 says the monitor thread is there to "detect exit and cleanup
   resources", but term->running stays set when the shell ends: the session
   keeps its place while the panel keeps the connection. *)
ExitedIsReleased ==
  \A s \in Session : (monPc[s] = "loop" /\ term[s] = "exited") ~> (monPc[s] = "done" \/ Over)

(* main.c:158 says a finished session "is joined and freed outside the lock so
   the slot can be reused by the new session".  When the scan finds a NULL slot
   after a finished session, the new session takes the NULL slot, the finished
   one is freed and its slot keeps pointing to it. *)
NoUseAfterFree == ~ub

(* main.c:284: the monitor sleeps in slices "so the main shutdown path's
   sessions_signal_stop() is observed within ~1 second": a stop is followed by
   the end of the process even if a request is served meanwhile. *)
StopIsObserved == mainPc = "signalled" ~> Over
=============================================================================
