----------------------- MODULE TerminalSessionsProofs -----------------------
(***************************************************************************)
(* Theorems about TerminalSessions, for any number of sessions and slots.  *)
(***************************************************************************)
EXTENDS TerminalSessions, FiniteSetTheorems, WellFoundedInduction, TLAPS

(* TypeOK in parts. *)
CounterTypes == activeSessions \in 0..MaxSessions /\ slot \in 1..(MaxSessions + 1)

PlaceTypes ==
  /\ mem \in [Session -> {"none", "live", "freed"}]
  /\ ws \in [Session -> {"none", "connected", "closed", "freed"}]
  /\ term \in [Session -> {"none", "running", "exited", "terminated", "freed"}]
  /\ recvPc \in [Session -> {"none", "idle", "writing"}]
  /\ monPc \in [Session -> {"none", "loop", "terminate", "disconnect", "destroy",
                            "release", "mark", "done"}]
  /\ reqPc \in {"idle", "setup", "terminal", "activate", "register", "joinZombie",
                "spawn", "started", "full", "unwind", "terminate", "disconnect",
                "destroy", "release", "unregister", "exited"}
  /\ mainPc \in {"running", "signalled", "cleanup", "join", "free", "exited"}

ReferenceTypes ==
  /\ gSessions \in [Slot -> Session \cup {NoSession}]
  /\ reqS \in Session \cup {NoSession} /\ zombie \in Session \cup {NoSession}
  /\ mainS \in Session \cup {NoSession}

FlagTypes ==
  /\ active \in [Session -> BOOLEAN] /\ cleanupDone \in [Session -> BOOLEAN]
  /\ monitorStarted \in [Session -> BOOLEAN] /\ reader \in [Session -> BOOLEAN]
  /\ stopped \in BOOLEAN /\ ub \in BOOLEAN

(* What the establishing thread has made of its session. *)
Unregistered == {"setup", "terminal", "activate", "register", "full"}
Registered   == {"joinZombie", "spawn", "unwind"}
TornDown     == {"terminate", "disconnect", "destroy", "release", "unregister"}
Built        == {"activate", "register", "full", "joinZombie", "spawn", "unwind", "terminate"}

Fresh(s) == ws[s] = "none" /\ term[s] = "none" /\ ~reader[s] /\ recvPc[s] = "none"
Gone(s)  == ws[s] = "freed" /\ term[s] = "freed" /\ ~reader[s] /\ recvPc[s] = "none"

(* The locals of the threads. *)
Locals ==
  /\ reqPc \in {"idle", "exited"} => reqS = NoSession
  /\ reqPc \notin {"idle", "exited"} => reqS \in Session
  /\ reqPc = "started" => monPc[reqS] # "none"
  /\ reqPc = "joinZombie" => zombie \in Session
  /\ mainPc \in {"join", "free"} => slot <= MaxSessions /\ mainS \in Session

(* One session, from its request to the end of its monitor thread: what exists
   of it at each stage. *)
Stage(s) ==
  /\ mem[s] = "none" => Fresh(s) /\ monPc[s] = "none" /\ reqS # s
  /\ reqS = s /\ reqPc # "started" => monPc[s] = "none"
  /\ reqS = s /\ reqPc = "setup" => Fresh(s)
  /\ reqS = s /\ reqPc = "terminal" =>
       ws[s] \in {"connected", "closed"} /\ term[s] = "none" /\ ~reader[s]
  /\ (reqS = s /\ reqPc \in Built) \/ monPc[s] \in {"loop", "terminate"} =>
       ws[s] \in {"connected", "closed"} /\ term[s] \in {"running", "exited"}
  /\ (reqS = s /\ reqPc = "disconnect") \/ monPc[s] = "disconnect" =>
       ws[s] \in {"connected", "closed"} /\ term[s] = "terminated" /\ ~reader[s]
  /\ (reqS = s /\ reqPc = "destroy") \/ monPc[s] = "destroy" =>
       /\ ws[s] = "closed" /\ term[s] \in {"none", "terminated"}
       /\ ~reader[s] /\ recvPc[s] = "none"
  /\ (reqS = s /\ reqPc \in {"release", "unregister"})
       \/ monPc[s] \in {"release", "mark", "done"} => Gone(s)
  /\ monPc[s] = "none" /\ reqS # s =>
       /\ ws[s] \in {"none", "freed"} /\ term[s] \in {"none", "freed"}
       /\ ~reader[s] /\ recvPc[s] = "none"

Stages == \A s \in Session : Stage(s)

(* The registry: a session has one slot at most, a monitored or registered one
   has one until the shutdown takes it, and cleanup_done is set when the monitor ends. *)
Registry ==
  /\ \A i, j \in Slot : i # j /\ gSessions[i] = gSessions[j] => gSessions[i] = NoSession
  /\ \A s \in Session : cleanupDone[s] <=> monPc[s] = "done"
  /\ reqPc \in Unregistered => \A i \in Slot : gSessions[i] # reqS
  /\ \A i \in Slot : gSessions[i] # NoSession =>
       /\ mem[gSessions[i]] # "none"
       /\ \/ monPc[gSessions[i]] # "none"
          \/ gSessions[i] = reqS /\ reqPc \in Registered \cup TornDown
  /\ mainPc \in {"running", "signalled"} /\ reqPc \in Registered =>
       \E i \in Slot : gSessions[i] = reqS
  /\ mainPc \in {"running", "signalled"} =>
       \A s \in Session : monPc[s] \notin {"none", "done"} => \E i \in Slot : gSessions[i] = s

(* The shutdown, when no request interferes: the monitors that run are in the
   slots to come or being joined. *)
Sweep ==
  QuietShutdown =>
    /\ mainPc # "running" => reqPc \in {"idle", "exited"}
    /\ \A s \in Session : monPc[s] # "none" =>
         monitorStarted[s] \/ (reqS = s /\ reqPc = "started")
    /\ mainPc \in {"running", "signalled"} => slot = 1
    /\ mainPc # "running" => \A s \in Session : monPc[s] \notin {"none", "done"} =>
         \/ mainPc = "join" /\ mainS = s
         \/ \E i \in Slot : i >= slot /\ gSessions[i] = s
    /\ mainPc \in {"join", "free"} => gSessions[slot] = NoSession
    /\ mainPc = "exited" => slot > MaxSessions

IInv == TypeOK /\ Locals /\ Stages /\ Registry

-----------------------------------------------------------------------------
(* The registration.                                                         *)

LEMMA SmallestOf ==
  ASSUME NEW S \in SUBSET Nat, S # {}
  PROVE  LET m == CHOOSE i \in S : \A j \in S : i <= j IN m \in S /\ \A j \in S : m <= j
<1>1. PICK x \in S : \A y \in S : <<y, x>> \notin OpToRel(<, Nat)
  BY NatLessThanWellFounded, WFMin
<1>2. \A y \in S : x <= y
  <2> SUFFICES ASSUME NEW y \in S PROVE x <= y
    OBVIOUS
  <2>1. ~(y < x)
    BY <1>1 DEF OpToRel
  <2> QED
    BY <2>1
<1> QED
  BY <1>2

(* What sessions_register does, whichever slots it finds. *)
LEMMA RegisterEffect ==
  ASSUME IInv, Register
  PROVE  /\ zombie' \in Session \cup {NoSession} /\ UNCHANGED reqS
         /\ \/ /\ reqPc' = "joinZombie" \/ reqPc' = "spawn"
               /\ reqPc' = "joinZombie" => zombie' \in Session
               /\ \E i \in Slot :
                    /\ gSessions' = [gSessions EXCEPT ![i] = reqS]
                    /\ \/ gSessions[i] = NoSession
                       \/ gSessions[i] \in Session /\ cleanupDone[gSessions[i]]
            \/ /\ reqPc' = "full" /\ UNCHANGED gSessions
               /\ \A i \in Slot : gSessions[i] \in Session /\ ~cleanupDone[gSessions[i]]
<1> DEFINE Null    == {i \in Slot : gSessions[i] = NoSession}
           Scanned == {i \in Slot : \A j \in Null : i < j}
           Done    == {i \in Scanned : Finished(gSessions[i])}
           First(S) == CHOOSE i \in S : \A j \in S : i <= j
<1>1. /\ gSessions' = IF Null # {} THEN [gSessions EXCEPT ![First(Null)] = reqS]
                      ELSE IF Done # {} THEN [gSessions EXCEPT ![First(Done)] = reqS]
                      ELSE gSessions
      /\ zombie' = IF Done # {} THEN gSessions[First(Done)] ELSE NoSession
      /\ reqPc' = IF Done # {} THEN "joinZombie" ELSE IF Null # {} THEN "spawn" ELSE "full"
      /\ UNCHANGED reqS
  BY DEF Register
<1>2. Null \in SUBSET Nat /\ Done \in SUBSET Nat /\ Null \subseteq Slot /\ Done \subseteq Slot
  BY DEF Slot
<1>3. Null # {} => First(Null) \in Null
  BY <1>2, SmallestOf
<1>4. Done # {} => First(Done) \in Done
  BY <1>2, SmallestOf
<1>5. \A i \in Scanned : gSessions[i] \in Session
  <2> SUFFICES ASSUME NEW i \in Scanned PROVE gSessions[i] \in Session
    OBVIOUS
  <2>1. i \notin Null
    BY <1>2 DEF Slot
  <2> QED
    BY <2>1 DEF IInv, TypeOK
<1>6. \A i \in Done : gSessions[i] \in Session /\ cleanupDone[gSessions[i]]
  BY <1>5 DEF Finished
<1>7. \A i \in Null : gSessions[i] = NoSession
  OBVIOUS
<1> HIDE DEF Null, Done, Scanned, First
<1>8. zombie' \in Session \cup {NoSession} /\ (Done # {} => zombie' \in Session)
  BY <1>1, <1>4, <1>6
<1>9. CASE Null # {}
  BY <1>1, <1>2, <1>3, <1>7, <1>8, <1>9
<1>10. CASE Null = {} /\ Done # {}
  BY <1>1, <1>2, <1>4, <1>6, <1>8, <1>10
<1>11. CASE Null = {} /\ Done = {}
  <2>1. Scanned = Slot
    BY <1>11 DEF Scanned
  <2>2. \A i \in Slot : gSessions[i] \in Session /\ ~cleanupDone[gSessions[i]]
    BY <1>5, <1>11, <2>1 DEF Done, Finished
  <2> QED
    BY <1>1, <1>8, <1>11, <2>2
<1> QED
  BY <1>9, <1>10, <1>11

LEMMA RegisterSlot ==
  ASSUME IInv, Register, reqPc' # "full"
  PROVE  \E i \in Slot :
           /\ gSessions' = [gSessions EXCEPT ![i] = reqS]
           /\ \/ gSessions[i] = NoSession
              \/ gSessions[i] \in Session /\ cleanupDone[gSessions[i]]
  BY RegisterEffect

-----------------------------------------------------------------------------
(* The locals name sessions where they are used. *)
LEMMA NextLocals ==
  ASSUME IInv, [Next]_vars PROVE Locals'
<1> USE DEF IInv, Locals, TypeOK, sessVars, reqVars, mainVars
<1>1. ASSUME NEW s \in Session, Request(s) PROVE Locals'
  BY <1>1 DEF Request, Acquire
<1>2. ASSUME NEW s \in Session, MonitorWakes(s) PROVE Locals'
  BY <1>2 DEF MonitorWakes, MonitorStep, Touch
<1>3. ASSUME NEW s \in Session, Terminate(s) PROVE Locals'
  BY <1>3 DEF Terminate, MonitorStep, Touch
<1>4. ASSUME NEW s \in Session, DisconnectWs(s) PROVE Locals'
  BY <1>4 DEF DisconnectWs, MonitorStep, Touch
<1>5. ASSUME NEW s \in Session, Destroy(s) PROVE Locals'
  BY <1>5 DEF Destroy, MonitorStep, Touch
<1>6. ASSUME NEW s \in Session, Release(s) PROVE Locals'
  BY <1>6 DEF Release, MonitorStep, ReleaseOne, Touch
<1>7. ASSUME NEW s \in Session, MarkDone(s) PROVE Locals'
  BY <1>7 DEF MarkDone, MonitorStep, Touch
<1>8. ASSUME NEW s \in Session, ShellExits(s) PROVE Locals'
  BY <1>8 DEF ShellExits
<1>9. ASSUME NEW s \in Session, OutputFails(s) PROVE Locals'
  BY <1>9 DEF OutputFails, Touch
<1>10. ASSUME NEW s \in Session, InputArrives(s) PROVE Locals'
  BY <1>10 DEF InputArrives, Touch
<1>11. ASSUME NEW s \in Session, InputWritten(s) PROVE Locals'
  BY <1>11 DEF InputWritten, Touch
<1>12. ASSUME NEW s \in Session, PanelCloses(s) PROVE Locals'
  BY <1>12 DEF PanelCloses
<1>13. CASE SetupFails
  BY <1>13 DEF SetupFails, Return, ReleaseOne
<1>14. CASE Connect
  BY <1>14 DEF Connect
<1>15. CASE StartTerminal
  BY <1>15 DEF StartTerminal
<1>16. CASE Activate
  BY <1>16 DEF Activate
<1>17. CASE Register
  BY <1>17, RegisterEffect DEF Register
<1>18. CASE JoinZombie
  BY <1>18 DEF JoinZombie, Touch
<1>19. CASE Spawn
  BY <1>19 DEF Spawn, Touch
<1>20. CASE MarkStarted
  BY <1>20 DEF MarkStarted, Return, Touch
<1>21. CASE UnwindFlag
  BY <1>21 DEF UnwindFlag, UnwindStep, Touch
<1>22. CASE UnwindTerminal
  BY <1>22 DEF UnwindTerminal, UnwindStep, Touch
<1>23. CASE UnwindWs
  BY <1>23 DEF UnwindWs, UnwindStep, Touch
<1>24. CASE UnwindDestroy
  BY <1>24 DEF UnwindDestroy, UnwindStep, Touch
<1>25. CASE UnwindRelease
  BY <1>25 DEF UnwindRelease, UnwindStep, ReleaseOne, Touch
<1>26. CASE Unregister
  BY <1>26 DEF Unregister, Return, Touch
<1>27. CASE SignalStop
  BY <1>27 DEF SignalStop
<1>28. CASE StopWs
  BY <1>28 DEF StopWs
<1>29. CASE TakeSlot
  <2>1. CASE gSessions[slot] = NoSession
    BY <1>29, <2>1 DEF TakeSlot
  <2>2. CASE gSessions[slot] # NoSession
    <3>1. slot \in Slot
      BY <1>29 DEF TakeSlot, Slot
    <3>2. gSessions[slot] \in Session /\ slot <= MaxSessions
      BY <1>29, <2>2, <3>1 DEF TakeSlot
    <3> QED
      BY <1>29, <2>2, <3>2 DEF TakeSlot
  <2> QED
    BY <2>1, <2>2
<1>30. CASE JoinMonitor
  BY <1>30 DEF JoinMonitor, Touch
<1>31. CASE FreeSession
  BY <1>31 DEF FreeSession, Touch
<1>32. CASE Exit
  BY <1>32 DEF Exit
<1>33. CASE ReceiverExits
  BY <1>33 DEF ReceiverExits
<1>34. CASE UNCHANGED vars
  BY <1>34 DEF vars
<1> QED
  BY <1>1, <1>2, <1>3, <1>4, <1>5, <1>6, <1>7, <1>8, <1>9, <1>10, <1>11, <1>12, <1>13,
        <1>14, <1>15, <1>16, <1>17, <1>18, <1>19, <1>20, <1>21, <1>22, <1>23, <1>24,
        <1>25, <1>26, <1>27, <1>28, <1>29, <1>30, <1>31, <1>32, <1>33, <1>34
  DEF Next, Establish, Monitor, Main

(* What exists of a session at each stage: both error paths and the monitor
   thread join the readers before they free what those use. *)
LEMMA NextStages ==
  ASSUME IInv, [Next]_vars PROVE Stages'
<1> USE SessionAssumption DEF SessionAssumption, IInv, Locals, Stages, Stage, Fresh,
      Gone, Built, TypeOK, sessVars, reqVars, mainVars
<1>1. ASSUME NEW s \in Session, Request(s) PROVE Stages'
  <2> SUFFICES ASSUME NEW t \in Session PROVE Stage(t)'
    BY DEF Stages
  <2>1. CASE t = s
    BY <1>1, <2>1 DEF Request, Acquire
  <2>2. CASE t # s
    BY <1>1, <2>2 DEF Request, Acquire
  <2> QED
    BY <2>1, <2>2
<1>2. ASSUME NEW s \in Session, MonitorWakes(s) PROVE Stages'
  BY <1>2 DEF MonitorWakes, MonitorStep, Touch
<1>3. ASSUME NEW s \in Session, Terminate(s) PROVE Stages'
  BY <1>3 DEF Terminate, MonitorStep, Touch
<1>4. ASSUME NEW s \in Session, DisconnectWs(s) PROVE Stages'
  BY <1>4 DEF DisconnectWs, MonitorStep, Touch
<1>5. ASSUME NEW s \in Session, Destroy(s) PROVE Stages'
  BY <1>5 DEF Destroy, MonitorStep, Touch
<1>6. ASSUME NEW s \in Session, Release(s) PROVE Stages'
  BY <1>6 DEF Release, MonitorStep, ReleaseOne, Touch
<1>7. ASSUME NEW s \in Session, MarkDone(s) PROVE Stages'
  BY <1>7 DEF MarkDone, MonitorStep, Touch
<1>8. ASSUME NEW s \in Session, ShellExits(s) PROVE Stages'
  BY <1>8 DEF ShellExits
<1>9. ASSUME NEW s \in Session, OutputFails(s) PROVE Stages'
  BY <1>9 DEF OutputFails, Touch
<1>10. ASSUME NEW s \in Session, InputArrives(s) PROVE Stages'
  BY <1>10 DEF InputArrives, Touch
<1>11. ASSUME NEW s \in Session, InputWritten(s) PROVE Stages'
  BY <1>11 DEF InputWritten, Touch
<1>12. ASSUME NEW s \in Session, PanelCloses(s) PROVE Stages'
  BY <1>12 DEF PanelCloses
<1>13. CASE SetupFails
  <2> SUFFICES ASSUME NEW t \in Session PROVE Stage(t)'
    BY DEF Stages
  <2>1. CASE t = reqS
    BY <1>13, <2>1 DEF SetupFails, Return, ReleaseOne
  <2>2. CASE t # reqS
    BY <1>13, <2>2 DEF SetupFails, Return, ReleaseOne
  <2> QED
    BY <2>1, <2>2
<1>14. CASE Connect
  BY <1>14 DEF Connect
<1>15. CASE StartTerminal
  BY <1>15 DEF StartTerminal
<1>16. CASE Activate
  BY <1>16 DEF Activate
<1>17. CASE Register
  BY <1>17 DEF Register, Finished
<1>18. CASE JoinZombie
  BY <1>18 DEF JoinZombie, Touch
<1>19. CASE Spawn
  BY <1>19 DEF Spawn, Touch
<1>20. CASE MarkStarted
  <2> SUFFICES ASSUME NEW t \in Session PROVE Stage(t)'
    BY DEF Stages
  <2>1. CASE t = reqS
    BY <1>20, <2>1 DEF MarkStarted, Return, Touch
  <2>2. CASE t # reqS
    BY <1>20, <2>2 DEF MarkStarted, Return, Touch
  <2> QED
    BY <2>1, <2>2
<1>21. CASE UnwindFlag
  BY <1>21 DEF UnwindFlag, UnwindStep, Touch
<1>22. CASE UnwindTerminal
  BY <1>22 DEF UnwindTerminal, UnwindStep, Touch
<1>23. CASE UnwindWs
  BY <1>23 DEF UnwindWs, UnwindStep, Touch
<1>24. CASE UnwindDestroy
  BY <1>24 DEF UnwindDestroy, UnwindStep, Touch
<1>25. CASE UnwindRelease
  BY <1>25 DEF UnwindRelease, UnwindStep, ReleaseOne, Touch
<1>26. CASE Unregister
  <2> SUFFICES ASSUME NEW t \in Session PROVE Stage(t)'
    BY DEF Stages
  <2>1. CASE t = reqS
    BY <1>26, <2>1 DEF Unregister, Return, Touch
  <2>2. CASE t # reqS
    BY <1>26, <2>2 DEF Unregister, Return, Touch
  <2> QED
    BY <2>1, <2>2
<1>27. CASE SignalStop
  BY <1>27 DEF SignalStop
<1>28. CASE StopWs
  BY <1>28 DEF StopWs
<1>29. CASE TakeSlot
  BY <1>29 DEF TakeSlot, Touch
<1>30. CASE JoinMonitor
  BY <1>30 DEF JoinMonitor, Touch
<1>31. CASE FreeSession
  BY <1>31 DEF FreeSession, Touch
<1>32. CASE Exit
  BY <1>32 DEF Exit
<1>33. CASE ReceiverExits
  BY <1>33 DEF ReceiverExits
<1>34. CASE UNCHANGED vars
  BY <1>34 DEF vars
<1> QED
  BY <1>1, <1>2, <1>3, <1>4, <1>5, <1>6, <1>7, <1>8, <1>9, <1>10, <1>11, <1>12, <1>13,
        <1>14, <1>15, <1>16, <1>17, <1>18, <1>19, <1>20, <1>21, <1>22, <1>23, <1>24,
        <1>25, <1>26, <1>27, <1>28, <1>29, <1>30, <1>31, <1>32, <1>33, <1>34
  DEF Next, Establish, Monitor, Main

(* The counter and the loop variable keep their ranges. *)
LEMMA NextCounters ==
  ASSUME IInv, [Next]_vars PROVE CounterTypes'
<1> USE LimitAssumption DEF LimitAssumption, CounterTypes, IInv, Locals, TypeOK, sessVars, reqVars,
      mainVars
<1>1. ASSUME NEW s \in Session, Request(s) PROVE CounterTypes'
  BY <1>1 DEF Request, Acquire
<1>2. ASSUME NEW s \in Session, MonitorWakes(s) PROVE CounterTypes'
  BY <1>2 DEF MonitorWakes, MonitorStep, Touch
<1>3. ASSUME NEW s \in Session, Terminate(s) PROVE CounterTypes'
  BY <1>3 DEF Terminate, MonitorStep, Touch
<1>4. ASSUME NEW s \in Session, DisconnectWs(s) PROVE CounterTypes'
  BY <1>4 DEF DisconnectWs, MonitorStep, Touch
<1>5. ASSUME NEW s \in Session, Destroy(s) PROVE CounterTypes'
  BY <1>5 DEF Destroy, MonitorStep, Touch
<1>6. ASSUME NEW s \in Session, Release(s) PROVE CounterTypes'
  BY <1>6 DEF Release, MonitorStep, ReleaseOne, Touch
<1>7. ASSUME NEW s \in Session, MarkDone(s) PROVE CounterTypes'
  BY <1>7 DEF MarkDone, MonitorStep, Touch
<1>8. ASSUME NEW s \in Session, ShellExits(s) PROVE CounterTypes'
  BY <1>8 DEF ShellExits
<1>9. ASSUME NEW s \in Session, OutputFails(s) PROVE CounterTypes'
  BY <1>9 DEF OutputFails, Touch
<1>10. ASSUME NEW s \in Session, InputArrives(s) PROVE CounterTypes'
  BY <1>10 DEF InputArrives, Touch
<1>11. ASSUME NEW s \in Session, InputWritten(s) PROVE CounterTypes'
  BY <1>11 DEF InputWritten, Touch
<1>12. ASSUME NEW s \in Session, PanelCloses(s) PROVE CounterTypes'
  BY <1>12 DEF PanelCloses
<1>13. CASE SetupFails
  BY <1>13 DEF SetupFails, Return, ReleaseOne
<1>14. CASE Connect
  BY <1>14 DEF Connect
<1>15. CASE StartTerminal
  BY <1>15 DEF StartTerminal
<1>16. CASE Activate
  BY <1>16 DEF Activate
<1>17. CASE Register
  BY <1>17 DEF Register, Finished
<1>18. CASE JoinZombie
  BY <1>18 DEF JoinZombie, Touch
<1>19. CASE Spawn
  BY <1>19 DEF Spawn, Touch
<1>20. CASE MarkStarted
  BY <1>20 DEF MarkStarted, Return, Touch
<1>21. CASE UnwindFlag
  BY <1>21 DEF UnwindFlag, UnwindStep, Touch
<1>22. CASE UnwindTerminal
  BY <1>22 DEF UnwindTerminal, UnwindStep, Touch
<1>23. CASE UnwindWs
  BY <1>23 DEF UnwindWs, UnwindStep, Touch
<1>24. CASE UnwindDestroy
  BY <1>24 DEF UnwindDestroy, UnwindStep, Touch
<1>25. CASE UnwindRelease
  BY <1>25 DEF UnwindRelease, UnwindStep, ReleaseOne, Touch
<1>26. CASE Unregister
  BY <1>26 DEF Unregister, Return, Touch
<1>27. CASE SignalStop
  BY <1>27 DEF SignalStop
<1>28. CASE StopWs
  BY <1>28 DEF StopWs
<1>29. CASE TakeSlot
  BY <1>29 DEF TakeSlot, Touch
<1>30. CASE JoinMonitor
  BY <1>30 DEF JoinMonitor, Touch
<1>31. CASE FreeSession
  BY <1>31 DEF FreeSession, Touch
<1>32. CASE Exit
  BY <1>32 DEF Exit
<1>33. CASE ReceiverExits
  BY <1>33 DEF ReceiverExits
<1>34. CASE UNCHANGED vars
  BY <1>34 DEF vars
<1> QED
  BY <1>1, <1>2, <1>3, <1>4, <1>5, <1>6, <1>7, <1>8, <1>9, <1>10, <1>11, <1>12, <1>13,
        <1>14, <1>15, <1>16, <1>17, <1>18, <1>19, <1>20, <1>21, <1>22, <1>23, <1>24,
        <1>25, <1>26, <1>27, <1>28, <1>29, <1>30, <1>31, <1>32, <1>33, <1>34
  DEF Next, Establish, Monitor, Main

(* Program counters and parts of a session. *)
LEMMA NextPlaces ==
  ASSUME IInv, [Next]_vars PROVE PlaceTypes'
<1> USE DEF IInv, Locals, TypeOK, PlaceTypes, sessVars, reqVars, mainVars
<1>1. ASSUME NEW s \in Session, Request(s) PROVE PlaceTypes'
  BY <1>1 DEF Request, Acquire
<1>2. ASSUME NEW s \in Session, MonitorWakes(s) PROVE PlaceTypes'
  BY <1>2 DEF MonitorWakes, MonitorStep, Touch
<1>3. ASSUME NEW s \in Session, Terminate(s) PROVE PlaceTypes'
  BY <1>3 DEF Terminate, MonitorStep, Touch
<1>4. ASSUME NEW s \in Session, DisconnectWs(s) PROVE PlaceTypes'
  BY <1>4 DEF DisconnectWs, MonitorStep, Touch
<1>5. ASSUME NEW s \in Session, Destroy(s) PROVE PlaceTypes'
  BY <1>5 DEF Destroy, MonitorStep, Touch
<1>6. ASSUME NEW s \in Session, Release(s) PROVE PlaceTypes'
  BY <1>6 DEF Release, MonitorStep, ReleaseOne, Touch
<1>7. ASSUME NEW s \in Session, MarkDone(s) PROVE PlaceTypes'
  BY <1>7 DEF MarkDone, MonitorStep, Touch
<1>8. ASSUME NEW s \in Session, ShellExits(s) PROVE PlaceTypes'
  BY <1>8 DEF ShellExits
<1>9. ASSUME NEW s \in Session, OutputFails(s) PROVE PlaceTypes'
  BY <1>9 DEF OutputFails, Touch
<1>10. ASSUME NEW s \in Session, InputArrives(s) PROVE PlaceTypes'
  BY <1>10 DEF InputArrives, Touch
<1>11. ASSUME NEW s \in Session, InputWritten(s) PROVE PlaceTypes'
  BY <1>11 DEF InputWritten, Touch
<1>12. ASSUME NEW s \in Session, PanelCloses(s) PROVE PlaceTypes'
  BY <1>12 DEF PanelCloses
<1>13. CASE SetupFails
  BY <1>13 DEF SetupFails, Return, ReleaseOne
<1>14. CASE Connect
  BY <1>14 DEF Connect
<1>15. CASE StartTerminal
  BY <1>15 DEF StartTerminal
<1>16. CASE Activate
  BY <1>16 DEF Activate
<1>17. CASE Register
  BY <1>17 DEF Register, Finished
<1>18. CASE JoinZombie
  BY <1>18 DEF JoinZombie, Touch
<1>19. CASE Spawn
  BY <1>19 DEF Spawn, Touch
<1>20. CASE MarkStarted
  BY <1>20 DEF MarkStarted, Return, Touch
<1>21. CASE UnwindFlag
  BY <1>21 DEF UnwindFlag, UnwindStep, Touch
<1>22. CASE UnwindTerminal
  BY <1>22 DEF UnwindTerminal, UnwindStep, Touch
<1>23. CASE UnwindWs
  BY <1>23 DEF UnwindWs, UnwindStep, Touch
<1>24. CASE UnwindDestroy
  BY <1>24 DEF UnwindDestroy, UnwindStep, Touch
<1>25. CASE UnwindRelease
  BY <1>25 DEF UnwindRelease, UnwindStep, ReleaseOne, Touch
<1>26. CASE Unregister
  BY <1>26 DEF Unregister, Return, Touch
<1>27. CASE SignalStop
  BY <1>27 DEF SignalStop
<1>28. CASE StopWs
  BY <1>28 DEF StopWs
<1>29. CASE TakeSlot
  BY <1>29 DEF TakeSlot, Touch
<1>30. CASE JoinMonitor
  BY <1>30 DEF JoinMonitor, Touch
<1>31. CASE FreeSession
  BY <1>31 DEF FreeSession, Touch
<1>32. CASE Exit
  BY <1>32 DEF Exit
<1>33. CASE ReceiverExits
  BY <1>33 DEF ReceiverExits
<1>34. CASE UNCHANGED vars
  BY <1>34 DEF vars
<1> QED
  BY <1>1, <1>2, <1>3, <1>4, <1>5, <1>6, <1>7, <1>8, <1>9, <1>10, <1>11, <1>12, <1>13,
        <1>14, <1>15, <1>16, <1>17, <1>18, <1>19, <1>20, <1>21, <1>22, <1>23, <1>24,
        <1>25, <1>26, <1>27, <1>28, <1>29, <1>30, <1>31, <1>32, <1>33, <1>34
  DEF Next, Establish, Monitor, Main

(* Slots and locals point to sessions. *)
LEMMA NextReferences ==
  ASSUME IInv, [Next]_vars PROVE ReferenceTypes'
<1> USE DEF IInv, Locals, TypeOK, ReferenceTypes, sessVars, reqVars, mainVars
<1>1. ASSUME NEW s \in Session, Request(s) PROVE ReferenceTypes'
  BY <1>1 DEF Request, Acquire
<1>2. ASSUME NEW s \in Session, MonitorWakes(s) PROVE ReferenceTypes'
  BY <1>2 DEF MonitorWakes, MonitorStep, Touch
<1>3. ASSUME NEW s \in Session, Terminate(s) PROVE ReferenceTypes'
  BY <1>3 DEF Terminate, MonitorStep, Touch
<1>4. ASSUME NEW s \in Session, DisconnectWs(s) PROVE ReferenceTypes'
  BY <1>4 DEF DisconnectWs, MonitorStep, Touch
<1>5. ASSUME NEW s \in Session, Destroy(s) PROVE ReferenceTypes'
  BY <1>5 DEF Destroy, MonitorStep, Touch
<1>6. ASSUME NEW s \in Session, Release(s) PROVE ReferenceTypes'
  BY <1>6 DEF Release, MonitorStep, ReleaseOne, Touch
<1>7. ASSUME NEW s \in Session, MarkDone(s) PROVE ReferenceTypes'
  BY <1>7 DEF MarkDone, MonitorStep, Touch
<1>8. ASSUME NEW s \in Session, ShellExits(s) PROVE ReferenceTypes'
  BY <1>8 DEF ShellExits
<1>9. ASSUME NEW s \in Session, OutputFails(s) PROVE ReferenceTypes'
  BY <1>9 DEF OutputFails, Touch
<1>10. ASSUME NEW s \in Session, InputArrives(s) PROVE ReferenceTypes'
  BY <1>10 DEF InputArrives, Touch
<1>11. ASSUME NEW s \in Session, InputWritten(s) PROVE ReferenceTypes'
  BY <1>11 DEF InputWritten, Touch
<1>12. ASSUME NEW s \in Session, PanelCloses(s) PROVE ReferenceTypes'
  BY <1>12 DEF PanelCloses
<1>13. CASE SetupFails
  BY <1>13 DEF SetupFails, Return, ReleaseOne
<1>14. CASE Connect
  BY <1>14 DEF Connect
<1>15. CASE StartTerminal
  BY <1>15 DEF StartTerminal
<1>16. CASE Activate
  BY <1>16 DEF Activate
<1>17. CASE Register
  BY <1>17, RegisterEffect DEF Register
<1>18. CASE JoinZombie
  BY <1>18 DEF JoinZombie, Touch
<1>19. CASE Spawn
  BY <1>19 DEF Spawn, Touch
<1>20. CASE MarkStarted
  BY <1>20 DEF MarkStarted, Return, Touch
<1>21. CASE UnwindFlag
  BY <1>21 DEF UnwindFlag, UnwindStep, Touch
<1>22. CASE UnwindTerminal
  BY <1>22 DEF UnwindTerminal, UnwindStep, Touch
<1>23. CASE UnwindWs
  BY <1>23 DEF UnwindWs, UnwindStep, Touch
<1>24. CASE UnwindDestroy
  BY <1>24 DEF UnwindDestroy, UnwindStep, Touch
<1>25. CASE UnwindRelease
  BY <1>25 DEF UnwindRelease, UnwindStep, ReleaseOne, Touch
<1>26. CASE Unregister
  BY <1>26 DEF Unregister, Return, Touch
<1>27. CASE SignalStop
  BY <1>27 DEF SignalStop
<1>28. CASE StopWs
  BY <1>28 DEF StopWs
<1>29. CASE TakeSlot
  <2>1. CASE gSessions[slot] = NoSession
    BY <1>29, <2>1 DEF TakeSlot
  <2>2. CASE gSessions[slot] # NoSession
    <3>1. slot \in Slot
      BY <1>29 DEF TakeSlot, Slot
    <3>2. mainS' = gSessions[slot] /\ gSessions' = [gSessions EXCEPT ![slot] = NoSession]
      BY <1>29, <2>2 DEF TakeSlot
    <3>3. UNCHANGED <<reqS, zombie>>
      BY <1>29 DEF TakeSlot
    <3> QED
      BY <3>1, <3>2, <3>3
  <2> QED
    BY <2>1, <2>2
<1>30. CASE JoinMonitor
  BY <1>30 DEF JoinMonitor, Touch
<1>31. CASE FreeSession
  BY <1>31 DEF FreeSession, Touch
<1>32. CASE Exit
  BY <1>32 DEF Exit
<1>33. CASE ReceiverExits
  BY <1>33 DEF ReceiverExits
<1>34. CASE UNCHANGED vars
  BY <1>34 DEF vars
<1> QED
  BY <1>1, <1>2, <1>3, <1>4, <1>5, <1>6, <1>7, <1>8, <1>9, <1>10, <1>11, <1>12, <1>13,
        <1>14, <1>15, <1>16, <1>17, <1>18, <1>19, <1>20, <1>21, <1>22, <1>23, <1>24,
        <1>25, <1>26, <1>27, <1>28, <1>29, <1>30, <1>31, <1>32, <1>33, <1>34
  DEF Next, Establish, Monitor, Main

(* The flags stay Boolean. *)
LEMMA NextFlagTypes ==
  ASSUME IInv, [Next]_vars PROVE FlagTypes'
<1> USE DEF IInv, Locals, TypeOK, FlagTypes, sessVars, reqVars, mainVars
<1>1. ASSUME NEW s \in Session, Request(s) PROVE FlagTypes'
  BY <1>1 DEF Request, Acquire
<1>2. ASSUME NEW s \in Session, MonitorWakes(s) PROVE FlagTypes'
  BY <1>2 DEF MonitorWakes, MonitorStep, Touch
<1>3. ASSUME NEW s \in Session, Terminate(s) PROVE FlagTypes'
  BY <1>3 DEF Terminate, MonitorStep, Touch
<1>4. ASSUME NEW s \in Session, DisconnectWs(s) PROVE FlagTypes'
  BY <1>4 DEF DisconnectWs, MonitorStep, Touch
<1>5. ASSUME NEW s \in Session, Destroy(s) PROVE FlagTypes'
  BY <1>5 DEF Destroy, MonitorStep, Touch
<1>6. ASSUME NEW s \in Session, Release(s) PROVE FlagTypes'
  BY <1>6 DEF Release, MonitorStep, ReleaseOne, Touch
<1>7. ASSUME NEW s \in Session, MarkDone(s) PROVE FlagTypes'
  BY <1>7 DEF MarkDone, MonitorStep, Touch
<1>8. ASSUME NEW s \in Session, ShellExits(s) PROVE FlagTypes'
  BY <1>8 DEF ShellExits
<1>9. ASSUME NEW s \in Session, OutputFails(s) PROVE FlagTypes'
  BY <1>9 DEF OutputFails, Touch
<1>10. ASSUME NEW s \in Session, InputArrives(s) PROVE FlagTypes'
  BY <1>10 DEF InputArrives, Touch
<1>11. ASSUME NEW s \in Session, InputWritten(s) PROVE FlagTypes'
  BY <1>11 DEF InputWritten, Touch
<1>12. ASSUME NEW s \in Session, PanelCloses(s) PROVE FlagTypes'
  BY <1>12 DEF PanelCloses
<1>13. CASE SetupFails
  BY <1>13 DEF SetupFails, Return, ReleaseOne
<1>14. CASE Connect
  BY <1>14 DEF Connect
<1>15. CASE StartTerminal
  BY <1>15 DEF StartTerminal
<1>16. CASE Activate
  BY <1>16 DEF Activate
<1>17. CASE Register
  BY <1>17 DEF Register, Finished
<1>18. CASE JoinZombie
  BY <1>18 DEF JoinZombie, Touch
<1>19. CASE Spawn
  BY <1>19 DEF Spawn, Touch
<1>20. CASE MarkStarted
  BY <1>20 DEF MarkStarted, Return, Touch
<1>21. CASE UnwindFlag
  BY <1>21 DEF UnwindFlag, UnwindStep, Touch
<1>22. CASE UnwindTerminal
  BY <1>22 DEF UnwindTerminal, UnwindStep, Touch
<1>23. CASE UnwindWs
  BY <1>23 DEF UnwindWs, UnwindStep, Touch
<1>24. CASE UnwindDestroy
  BY <1>24 DEF UnwindDestroy, UnwindStep, Touch
<1>25. CASE UnwindRelease
  BY <1>25 DEF UnwindRelease, UnwindStep, ReleaseOne, Touch
<1>26. CASE Unregister
  BY <1>26 DEF Unregister, Return, Touch
<1>27. CASE SignalStop
  BY <1>27 DEF SignalStop
<1>28. CASE StopWs
  BY <1>28 DEF StopWs
<1>29. CASE TakeSlot
  BY <1>29 DEF TakeSlot, Touch
<1>30. CASE JoinMonitor
  BY <1>30 DEF JoinMonitor, Touch
<1>31. CASE FreeSession
  BY <1>31 DEF FreeSession, Touch
<1>32. CASE Exit
  BY <1>32 DEF Exit
<1>33. CASE ReceiverExits
  BY <1>33 DEF ReceiverExits
<1>34. CASE UNCHANGED vars
  BY <1>34 DEF vars
<1> QED
  BY <1>1, <1>2, <1>3, <1>4, <1>5, <1>6, <1>7, <1>8, <1>9, <1>10, <1>11, <1>12, <1>13,
        <1>14, <1>15, <1>16, <1>17, <1>18, <1>19, <1>20, <1>21, <1>22, <1>23, <1>24,
        <1>25, <1>26, <1>27, <1>28, <1>29, <1>30, <1>31, <1>32, <1>33, <1>34
  DEF Next, Establish, Monitor, Main

(* The shutdown passes no slot with a running monitor: without requests no slot
   is filled behind it. *)
LEMMA NextSweep ==
  ASSUME IInv, Sweep, [Next]_vars PROVE Sweep'
<1> USE SessionAssumption DEF SessionAssumption, IInv, Locals, TypeOK, Stages, Stage,
      Registry, Unregistered, Registered, TornDown, Sweep, Slot, sessVars, reqVars, mainVars
<1>1. ASSUME NEW s \in Session, Request(s) PROVE Sweep'
  BY <1>1 DEF Request, Acquire
<1>2. ASSUME NEW s \in Session, MonitorWakes(s) PROVE Sweep'
  BY <1>2 DEF MonitorWakes, MonitorStep, Touch
<1>3. ASSUME NEW s \in Session, Terminate(s) PROVE Sweep'
  BY <1>3 DEF Terminate, MonitorStep, Touch
<1>4. ASSUME NEW s \in Session, DisconnectWs(s) PROVE Sweep'
  BY <1>4 DEF DisconnectWs, MonitorStep, Touch
<1>5. ASSUME NEW s \in Session, Destroy(s) PROVE Sweep'
  BY <1>5 DEF Destroy, MonitorStep, Touch
<1>6. ASSUME NEW s \in Session, Release(s) PROVE Sweep'
  BY <1>6 DEF Release, MonitorStep, ReleaseOne, Touch
<1>7. ASSUME NEW s \in Session, MarkDone(s) PROVE Sweep'
  BY <1>7 DEF MarkDone, MonitorStep, Touch
<1>8. ASSUME NEW s \in Session, ShellExits(s) PROVE Sweep'
  BY <1>8 DEF ShellExits
<1>9. ASSUME NEW s \in Session, OutputFails(s) PROVE Sweep'
  BY <1>9 DEF OutputFails, Touch
<1>10. ASSUME NEW s \in Session, InputArrives(s) PROVE Sweep'
  BY <1>10 DEF InputArrives, Touch
<1>11. ASSUME NEW s \in Session, InputWritten(s) PROVE Sweep'
  BY <1>11 DEF InputWritten, Touch
<1>12. ASSUME NEW s \in Session, PanelCloses(s) PROVE Sweep'
  BY <1>12 DEF PanelCloses
<1>13. CASE SetupFails
  BY <1>13 DEF SetupFails, Return, ReleaseOne
<1>14. CASE Connect
  BY <1>14 DEF Connect
<1>15. CASE StartTerminal
  BY <1>15 DEF StartTerminal
<1>16. CASE Activate
  BY <1>16 DEF Activate
<1>17. CASE Register
  BY <1>17 DEF Register, Finished
<1>18. CASE JoinZombie
  BY <1>18 DEF JoinZombie, Touch
<1>19. CASE Spawn
  BY <1>19 DEF Spawn, Touch
<1>20. CASE MarkStarted
  BY <1>20 DEF MarkStarted, Return, Touch
<1>21. CASE UnwindFlag
  BY <1>21 DEF UnwindFlag, UnwindStep, Touch
<1>22. CASE UnwindTerminal
  BY <1>22 DEF UnwindTerminal, UnwindStep, Touch
<1>23. CASE UnwindWs
  BY <1>23 DEF UnwindWs, UnwindStep, Touch
<1>24. CASE UnwindDestroy
  BY <1>24 DEF UnwindDestroy, UnwindStep, Touch
<1>25. CASE UnwindRelease
  BY <1>25 DEF UnwindRelease, UnwindStep, ReleaseOne, Touch
<1>26. CASE Unregister
  BY <1>26 DEF Unregister, Return, Touch
<1>27. CASE SignalStop
  BY <1>27 DEF SignalStop
<1>28. CASE StopWs
  BY <1>28 DEF StopWs
<1>29. CASE TakeSlot
  <2>1. CASE gSessions[slot] = NoSession
    BY <1>29, <2>1 DEF TakeSlot
  <2>2. CASE gSessions[slot] # NoSession
    <3>1. slot \in Slot /\ gSessions[slot] \in Session
      BY <1>29, <2>2 DEF TakeSlot, Slot
    <3>2. /\ gSessions' = [gSessions EXCEPT ![slot] = NoSession] /\ UNCHANGED slot
          /\ mainS' = gSessions[slot] /\ mainPc = "cleanup"
          /\ mainPc' = IF monitorStarted[gSessions[slot]] THEN "join" ELSE "free"
          /\ UNCHANGED <<reqPc, reqS, monPc, monitorStarted>>
      BY <1>29, <2>2 DEF TakeSlot
    <3>3. QuietShutdown /\ monPc[gSessions[slot]] \notin {"none", "done"} => mainPc' = "join"
      BY <3>1, <3>2
    <3> QED
      BY <3>1, <3>2, <3>3
  <2> QED
    BY <2>1, <2>2
<1>30. CASE JoinMonitor
  BY <1>30 DEF JoinMonitor, Touch
<1>31. CASE FreeSession
  BY <1>31 DEF FreeSession, Touch
<1>32. CASE Exit
  BY <1>32 DEF Exit
<1>33. CASE ReceiverExits
  BY <1>33 DEF ReceiverExits
<1>34. CASE UNCHANGED vars
  BY <1>34 DEF vars
<1> QED
  BY <1>1, <1>2, <1>3, <1>4, <1>5, <1>6, <1>7, <1>8, <1>9, <1>10, <1>11, <1>12, <1>13,
        <1>14, <1>15, <1>16, <1>17, <1>18, <1>19, <1>20, <1>21, <1>22, <1>23, <1>24,
        <1>25, <1>26, <1>27, <1>28, <1>29, <1>30, <1>31, <1>32, <1>33, <1>34
  DEF Next, Establish, Monitor, Main

(* The registry: a slot is reused only when its session has ended, given back
   only by the thread that registered it, and emptied by main in the shutdown. *)
LEMMA NextRegistry ==
  ASSUME IInv, [Next]_vars PROVE Registry'
<1>slot. ASSUME Register, reqPc' # "full"
       PROVE  \E i \in Slot :
                /\ gSessions' = [gSessions EXCEPT ![i] = reqS]
                /\ \/ gSessions[i] = NoSession
                   \/ gSessions[i] \in Session /\ cleanupDone[gSessions[i]]
  BY <1>slot, RegisterSlot
<1> USE SessionAssumption DEF SessionAssumption, IInv, Locals, TypeOK, Stages, Stage,
      Registry, Unregistered, Registered, TornDown, sessVars, reqVars, mainVars
<1>1. ASSUME NEW s \in Session, Request(s) PROVE Registry'
  BY <1>1 DEF Request, Acquire
<1>2. ASSUME NEW s \in Session, MonitorWakes(s) PROVE Registry'
  BY <1>2 DEF MonitorWakes, MonitorStep, Touch
<1>3. ASSUME NEW s \in Session, Terminate(s) PROVE Registry'
  BY <1>3 DEF Terminate, MonitorStep, Touch
<1>4. ASSUME NEW s \in Session, DisconnectWs(s) PROVE Registry'
  BY <1>4 DEF DisconnectWs, MonitorStep, Touch
<1>5. ASSUME NEW s \in Session, Destroy(s) PROVE Registry'
  BY <1>5 DEF Destroy, MonitorStep, Touch
<1>6. ASSUME NEW s \in Session, Release(s) PROVE Registry'
  BY <1>6 DEF Release, MonitorStep, ReleaseOne, Touch
<1>7. ASSUME NEW s \in Session, MarkDone(s) PROVE Registry'
  BY <1>7 DEF MarkDone, MonitorStep, Touch
<1>8. ASSUME NEW s \in Session, ShellExits(s) PROVE Registry'
  BY <1>8 DEF ShellExits
<1>9. ASSUME NEW s \in Session, OutputFails(s) PROVE Registry'
  BY <1>9 DEF OutputFails, Touch
<1>10. ASSUME NEW s \in Session, InputArrives(s) PROVE Registry'
  BY <1>10 DEF InputArrives, Touch
<1>11. ASSUME NEW s \in Session, InputWritten(s) PROVE Registry'
  BY <1>11 DEF InputWritten, Touch
<1>12. ASSUME NEW s \in Session, PanelCloses(s) PROVE Registry'
  BY <1>12 DEF PanelCloses
<1>13. CASE SetupFails
  BY <1>13 DEF SetupFails, Return, ReleaseOne
<1>14. CASE Connect
  BY <1>14 DEF Connect
<1>15. CASE StartTerminal
  BY <1>15 DEF StartTerminal
<1>16. CASE Activate
  BY <1>16 DEF Activate
<1>17. CASE Register
  <2>1. CASE reqPc' = "full"
    <3>1. UNCHANGED <<gSessions, reqS>>
      BY <1>17, <2>1, RegisterEffect
    <3>2. UNCHANGED <<sessVars, monPc, mainVars>> /\ reqPc = "register"
      BY <1>17 DEF Register
    <3> QED
      BY <2>1, <3>1, <3>2
  <2>2. CASE reqPc' # "full"
    <3>1. /\ reqPc' \in {"joinZombie", "spawn"} /\ UNCHANGED reqS
      BY <1>17, <2>2, RegisterEffect
    <3>2. PICK i \in Slot :
            /\ gSessions' = [gSessions EXCEPT ![i] = reqS]
            /\ \/ gSessions[i] = NoSession
               \/ gSessions[i] \in Session /\ cleanupDone[gSessions[i]]
      BY <1>17, <2>2, <1>slot
    <3>3. reqPc = "register" /\ UNCHANGED <<mem, cleanupDone, monPc, mainPc>>
      BY <1>17 DEF Register
    <3>4. mem[reqS] # "none"
      BY <3>3
    <3> QED
      BY <3>1, <3>2, <3>3, <3>4
  <2> QED
    BY <2>1, <2>2
<1>18. CASE JoinZombie
  BY <1>18 DEF JoinZombie, Touch
<1>19. CASE Spawn
  BY <1>19 DEF Spawn, Touch
<1>20. CASE MarkStarted
  BY <1>20 DEF MarkStarted, Return, Touch
<1>21. CASE UnwindFlag
  BY <1>21 DEF UnwindFlag, UnwindStep, Touch
<1>22. CASE UnwindTerminal
  BY <1>22 DEF UnwindTerminal, UnwindStep, Touch
<1>23. CASE UnwindWs
  BY <1>23 DEF UnwindWs, UnwindStep, Touch
<1>24. CASE UnwindDestroy
  BY <1>24 DEF UnwindDestroy, UnwindStep, Touch
<1>25. CASE UnwindRelease
  BY <1>25 DEF UnwindRelease, UnwindStep, ReleaseOne, Touch
<1>26. CASE Unregister
  BY <1>26 DEF Unregister, Return, Touch
<1>27. CASE SignalStop
  BY <1>27 DEF SignalStop
<1>28. CASE StopWs
  BY <1>28 DEF StopWs
<1>29. CASE TakeSlot
  BY <1>29 DEF TakeSlot, Touch
<1>30. CASE JoinMonitor
  BY <1>30 DEF JoinMonitor, Touch
<1>31. CASE FreeSession
  BY <1>31 DEF FreeSession, Touch
<1>32. CASE Exit
  BY <1>32 DEF Exit
<1>33. CASE ReceiverExits
  BY <1>33 DEF ReceiverExits
<1>34. CASE UNCHANGED vars
  BY <1>34 DEF vars
<1> QED
  BY <1>1, <1>2, <1>3, <1>4, <1>5, <1>6, <1>7, <1>8, <1>9, <1>10, <1>11, <1>12, <1>13,
        <1>14, <1>15, <1>16, <1>17, <1>18, <1>19, <1>20, <1>21, <1>22, <1>23, <1>24,
        <1>25, <1>26, <1>27, <1>28, <1>29, <1>30, <1>31, <1>32, <1>33, <1>34
  DEF Next, Establish, Monitor, Main

-----------------------------------------------------------------------------
(* The counter.                                                              *)

LEMMA HeldFinite ==
  ASSUME NEW H \in SUBSET Session
  PROVE  IsFiniteSet(H) /\ Cardinality(H) \in Nat
  BY SessionAssumption, FS_Subset, FS_CardinalityType DEF SessionAssumption

LEMMA SameHeld ==
  ASSUME CounterExact, UNCHANGED activeSessions, \A t \in Session : Held(t)' <=> Held(t)
  PROVE  CounterExact'
<1>1. {t \in Session : Held(t)}' = {t \in Session : Held(t)}
  OBVIOUS
<1> QED
  BY <1>1 DEF CounterExact

LEMMA OneMore ==
  ASSUME CounterExact, NEW s \in Session, ~Held(s), activeSessions' = activeSessions + 1,
         \A t \in Session : Held(t)' <=> Held(t) \/ t = s
  PROVE  CounterExact'
<1> DEFINE H == {t \in Session : Held(t)}
<1>1. {t \in Session : Held(t)}' = H \cup {s} /\ s \notin H
  OBVIOUS
<1>2. IsFiniteSet(H)
  BY HeldFinite
<1>3. Cardinality(H \cup {s}) = Cardinality(H) + 1
  BY <1>1, <1>2, FS_AddElement
<1> QED
  BY <1>1, <1>3 DEF CounterExact

LEMMA OneLess ==
  ASSUME CounterExact, NEW s \in Session, Held(s), ReleaseOne,
         \A t \in Session : Held(t)' <=> Held(t) /\ t # s
  PROVE  CounterExact'
<1> DEFINE H == {t \in Session : Held(t)}
<1>1. {t \in Session : Held(t)}' = H \ {s} /\ s \in H
  OBVIOUS
<1>2. IsFiniteSet(H) /\ Cardinality(H) \in Nat /\ Cardinality(H \ {s}) \in Nat
  BY HeldFinite
<1>3. Cardinality(H \ {s}) = Cardinality(H) - 1
  BY <1>1, <1>2, FS_RemoveElement
<1>4. activeSessions = Cardinality(H)
  BY DEF CounterExact
<1> HIDE DEF H
<1>5. activeSessions' = Cardinality(H \ {s})
  BY <1>2, <1>3, <1>4 DEF ReleaseOne
<1>6. CounterExact' <=> activeSessions' = Cardinality({t \in Session : Held(t)}')
  BY DEF CounterExact
<1> QED
  BY <1>1, <1>5, <1>6

(* Each acquired session is released once, by the error path it takes or by its
   monitor thread. *)
LEMMA NextCounter ==
  ASSUME IInv, CounterExact, [Next]_vars PROVE CounterExact'
<1>same. ASSUME UNCHANGED activeSessions, \A t \in Session : Held(t)' <=> Held(t)
       PROVE  CounterExact'
  BY <1>same, SameHeld
<1>more. ASSUME NEW s \in Session, ~Held(s), activeSessions' = activeSessions + 1,
              \A t \in Session : Held(t)' <=> Held(t) \/ t = s
       PROVE  CounterExact'
  BY <1>more, OneMore
<1>less. ASSUME NEW s \in Session, Held(s), ReleaseOne,
              \A t \in Session : Held(t)' <=> Held(t) /\ t # s
       PROVE  CounterExact'
  BY <1>less, OneLess
<1> USE SessionAssumption DEF SessionAssumption, IInv, Locals, TypeOK, Stages, Stage,
      Built, Held, Acquired, sessVars, reqVars, mainVars
<1>1. ASSUME NEW s \in Session, Request(s) PROVE CounterExact'
  <2>1. ~Held(s) /\ activeSessions' = activeSessions + 1
    BY <1>1 DEF Request, Acquire
  <2>2. \A t \in Session : Held(t)' <=> Held(t) \/ t = s
    BY <1>1 DEF Request
  <2> QED
    BY <2>1, <2>2, <1>more
<1>2. ASSUME NEW s \in Session, MonitorWakes(s) PROVE CounterExact'
  <2>1. activeSessions' = activeSessions /\ \A t \in Session : Held(t)' <=> Held(t)
    BY <1>2 DEF MonitorWakes, MonitorStep, Touch
  <2> QED
    BY <2>1, <1>same
<1>3. ASSUME NEW s \in Session, Terminate(s) PROVE CounterExact'
  <2>1. activeSessions' = activeSessions /\ \A t \in Session : Held(t)' <=> Held(t)
    BY <1>3 DEF Terminate, MonitorStep, Touch
  <2> QED
    BY <2>1, <1>same
<1>4. ASSUME NEW s \in Session, DisconnectWs(s) PROVE CounterExact'
  <2>1. activeSessions' = activeSessions /\ \A t \in Session : Held(t)' <=> Held(t)
    BY <1>4 DEF DisconnectWs, MonitorStep, Touch
  <2> QED
    BY <2>1, <1>same
<1>5. ASSUME NEW s \in Session, Destroy(s) PROVE CounterExact'
  <2>1. activeSessions' = activeSessions /\ \A t \in Session : Held(t)' <=> Held(t)
    BY <1>5 DEF Destroy, MonitorStep, Touch
  <2> QED
    BY <2>1, <1>same
<1>6. ASSUME NEW s \in Session, Release(s) PROVE CounterExact'
  <2>1. Held(s) /\ ReleaseOne /\ s \in Session
    BY <1>6 DEF Release, MonitorStep
  <2>2. \A t \in Session : Held(t)' <=> Held(t) /\ t # s
    BY <1>6 DEF Release, MonitorStep
  <2> QED
    BY <2>1, <2>2, <1>less
<1>7. ASSUME NEW s \in Session, MarkDone(s) PROVE CounterExact'
  <2>1. activeSessions' = activeSessions /\ \A t \in Session : Held(t)' <=> Held(t)
    BY <1>7 DEF MarkDone, MonitorStep, Touch
  <2> QED
    BY <2>1, <1>same
<1>8. ASSUME NEW s \in Session, ShellExits(s) PROVE CounterExact'
  <2>1. activeSessions' = activeSessions /\ \A t \in Session : Held(t)' <=> Held(t)
    BY <1>8 DEF ShellExits
  <2> QED
    BY <2>1, <1>same
<1>9. ASSUME NEW s \in Session, OutputFails(s) PROVE CounterExact'
  <2>1. activeSessions' = activeSessions /\ \A t \in Session : Held(t)' <=> Held(t)
    BY <1>9 DEF OutputFails, Touch
  <2> QED
    BY <2>1, <1>same
<1>10. ASSUME NEW s \in Session, InputArrives(s) PROVE CounterExact'
  <2>1. activeSessions' = activeSessions /\ \A t \in Session : Held(t)' <=> Held(t)
    BY <1>10 DEF InputArrives, Touch
  <2> QED
    BY <2>1, <1>same
<1>11. ASSUME NEW s \in Session, InputWritten(s) PROVE CounterExact'
  <2>1. activeSessions' = activeSessions /\ \A t \in Session : Held(t)' <=> Held(t)
    BY <1>11 DEF InputWritten, Touch
  <2> QED
    BY <2>1, <1>same
<1>12. ASSUME NEW s \in Session, PanelCloses(s) PROVE CounterExact'
  <2>1. activeSessions' = activeSessions /\ \A t \in Session : Held(t)' <=> Held(t)
    BY <1>12 DEF PanelCloses
  <2> QED
    BY <2>1, <1>same
<1>13. CASE SetupFails
  <2>1. Held(reqS) /\ ReleaseOne /\ reqS \in Session
    BY <1>13 DEF SetupFails, Return
  <2>2. \A t \in Session : Held(t)' <=> Held(t) /\ t # reqS
    BY <1>13 DEF SetupFails, Return
  <2> QED
    BY <2>1, <2>2, <1>less
<1>14. CASE Connect
  <2>1. activeSessions' = activeSessions /\ \A t \in Session : Held(t)' <=> Held(t)
    BY <1>14 DEF Connect
  <2> QED
    BY <2>1, <1>same
<1>15. CASE StartTerminal
  <2>1. activeSessions' = activeSessions /\ \A t \in Session : Held(t)' <=> Held(t)
    BY <1>15 DEF StartTerminal
  <2> QED
    BY <2>1, <1>same
<1>16. CASE Activate
  <2>1. activeSessions' = activeSessions /\ \A t \in Session : Held(t)' <=> Held(t)
    BY <1>16 DEF Activate
  <2> QED
    BY <2>1, <1>same
<1>17. CASE Register
  <2>1. activeSessions' = activeSessions /\ \A t \in Session : Held(t)' <=> Held(t)
    BY <1>17 DEF Register, Finished
  <2> QED
    BY <2>1, <1>same
<1>18. CASE JoinZombie
  <2>1. activeSessions' = activeSessions /\ \A t \in Session : Held(t)' <=> Held(t)
    BY <1>18 DEF JoinZombie, Touch
  <2> QED
    BY <2>1, <1>same
<1>19. CASE Spawn
  <2>1. activeSessions' = activeSessions /\ \A t \in Session : Held(t)' <=> Held(t)
    BY <1>19 DEF Spawn, Touch
  <2> QED
    BY <2>1, <1>same
<1>20. CASE MarkStarted
  <2>1. activeSessions' = activeSessions /\ \A t \in Session : Held(t)' <=> Held(t)
    BY <1>20 DEF MarkStarted, Return, Touch
  <2> QED
    BY <2>1, <1>same
<1>21. CASE UnwindFlag
  <2>1. activeSessions' = activeSessions /\ \A t \in Session : Held(t)' <=> Held(t)
    BY <1>21 DEF UnwindFlag, UnwindStep
  <2> QED
    BY <2>1, <1>same
<1>22. CASE UnwindTerminal
  <2>1. activeSessions' = activeSessions /\ \A t \in Session : Held(t)' <=> Held(t)
    BY <1>22 DEF UnwindTerminal, UnwindStep
  <2> QED
    BY <2>1, <1>same
<1>23. CASE UnwindWs
  <2>1. activeSessions' = activeSessions /\ \A t \in Session : Held(t)' <=> Held(t)
    BY <1>23 DEF UnwindWs, UnwindStep
  <2> QED
    BY <2>1, <1>same
<1>24. CASE UnwindDestroy
  <2>1. activeSessions' = activeSessions /\ \A t \in Session : Held(t)' <=> Held(t)
    BY <1>24 DEF UnwindDestroy, UnwindStep
  <2> QED
    BY <2>1, <1>same
<1>25. CASE UnwindRelease
  <2>1. Held(reqS) /\ ReleaseOne /\ reqS \in Session
    BY <1>25 DEF UnwindRelease, UnwindStep
  <2>2. \A t \in Session : Held(t)' <=> Held(t) /\ t # reqS
    BY <1>25 DEF UnwindRelease, UnwindStep
  <2> QED
    BY <2>1, <2>2, <1>less
<1>26. CASE Unregister
  <2>1. activeSessions' = activeSessions /\ \A t \in Session : Held(t)' <=> Held(t)
    BY <1>26 DEF Unregister, Return, Touch
  <2> QED
    BY <2>1, <1>same
<1>27. CASE SignalStop
  <2>1. activeSessions' = activeSessions /\ \A t \in Session : Held(t)' <=> Held(t)
    BY <1>27 DEF SignalStop
  <2> QED
    BY <2>1, <1>same
<1>28. CASE StopWs
  <2>1. activeSessions' = activeSessions /\ \A t \in Session : Held(t)' <=> Held(t)
    BY <1>28 DEF StopWs
  <2> QED
    BY <2>1, <1>same
<1>29. CASE TakeSlot
  <2>1. activeSessions' = activeSessions /\ \A t \in Session : Held(t)' <=> Held(t)
    BY <1>29 DEF TakeSlot, Touch
  <2> QED
    BY <2>1, <1>same
<1>30. CASE JoinMonitor
  <2>1. activeSessions' = activeSessions /\ \A t \in Session : Held(t)' <=> Held(t)
    BY <1>30 DEF JoinMonitor, Touch
  <2> QED
    BY <2>1, <1>same
<1>31. CASE FreeSession
  <2>1. activeSessions' = activeSessions /\ \A t \in Session : Held(t)' <=> Held(t)
    BY <1>31 DEF FreeSession, Touch
  <2> QED
    BY <2>1, <1>same
<1>32. CASE Exit
  <2>1. activeSessions' = activeSessions /\ \A t \in Session : Held(t)' <=> Held(t)
    BY <1>32 DEF Exit
  <2> QED
    BY <2>1, <1>same
<1>33. CASE ReceiverExits
  <2>1. activeSessions' = activeSessions /\ \A t \in Session : Held(t)' <=> Held(t)
    BY <1>33 DEF ReceiverExits
  <2> QED
    BY <2>1, <1>same
<1>34. CASE UNCHANGED vars
  <2>1. activeSessions' = activeSessions /\ \A t \in Session : Held(t)' <=> Held(t)
    BY <1>34 DEF vars
  <2> QED
    BY <2>1, <1>same
<1> QED
  BY <1>1, <1>2, <1>3, <1>4, <1>5, <1>6, <1>7, <1>8, <1>9, <1>10, <1>11, <1>12, <1>13,
        <1>14, <1>15, <1>16, <1>17, <1>18, <1>19, <1>20, <1>21, <1>22, <1>23, <1>24,
        <1>25, <1>26, <1>27, <1>28, <1>29, <1>30, <1>31, <1>32, <1>33, <1>34
  DEF Next, Establish, Monitor, Main

-----------------------------------------------------------------------------
(* The theorems.                                                             *)

LEMMA InitIInv == Init => IInv /\ Sweep /\ CounterExact
<1> SUFFICES ASSUME Init PROVE IInv /\ Sweep /\ CounterExact
  OBVIOUS
<1>1. 0 \in 0..MaxSessions /\ 1 \in 1..(MaxSessions + 1)
  BY LimitAssumption DEF LimitAssumption
<1>2. PlaceTypes /\ ReferenceTypes /\ FlagTypes
  BY DEF Init, PlaceTypes, ReferenceTypes, FlagTypes
<1>3. TypeOK
  BY <1>1, <1>2 DEF Init, TypeOK, PlaceTypes, ReferenceTypes, FlagTypes
<1>4. Locals /\ Stages
  BY SessionAssumption DEF SessionAssumption, Init, Locals, Stages, Stage, Fresh, Built
<1>5. Registry
  BY SessionAssumption DEF SessionAssumption, Init, Registry, Unregistered, Registered, TornDown
<1>6. Sweep
  BY DEF Init, Sweep
<1>7. CounterExact
  <2>1. {s \in Session : Held(s)} = {}
    BY SessionAssumption DEF SessionAssumption, Init, Held, Acquired
  <2> QED
    BY <2>1, FS_EmptySet DEF Init, CounterExact
<1> QED
  BY <1>3, <1>4, <1>5, <1>6, <1>7 DEF IInv

LEMMA NextIInv == IInv /\ [Next]_vars => IInv'
<1> SUFFICES ASSUME IInv, [Next]_vars PROVE IInv'
  OBVIOUS
<1>1. TypeOK'
  BY NextCounters, NextPlaces, NextReferences, NextFlagTypes
  DEF TypeOK, CounterTypes, PlaceTypes, ReferenceTypes, FlagTypes
<1> QED
  BY <1>1, NextLocals, NextStages, NextRegistry DEF IInv

LEMMA Invariance == Spec => []IInv
<1>1. Init => IInv
  BY InitIInv
<1>2. IInv /\ [Next]_vars => IInv'
  BY NextIInv
<1> QED
  BY <1>1, <1>2, PTL DEF Spec

(* The variables have their types, the counter and the slots their ranges. *)
THEOREM TypeCorrect == Spec => []TypeOK
<1>1. IInv => TypeOK
  BY DEF IInv
<1> QED
  BY <1>1, Invariance, PTL

(* A terminal and a WebSocket are freed when their readers have been joined, on
   every error path and in the monitor thread, for any number of sessions. *)
THEOREM ReleaseOrder == Spec => []JoinedBeforeFreed
<1>1. IInv => JoinedBeforeFreed
  <2> SUFFICES ASSUME IInv, NEW s \in Session
               PROVE  /\ ws[s] = "freed" => ~reader[s] /\ recvPc[s] = "none"
                      /\ term[s] = "freed" => ~reader[s] /\ recvPc[s] # "writing"
    BY DEF JoinedBeforeFreed
  <2>1. Stage(s) /\ monPc[s] \in {"none", "loop", "terminate", "disconnect", "destroy",
                                  "release", "mark", "done"}
    BY DEF IInv, Stages, TypeOK
  <2>2. CASE monPc[s] \notin {"none"}
    BY <2>1, <2>2 DEF Stage, Gone
  <2>3. CASE monPc[s] = "none" /\ reqS # s
    BY <2>1, <2>3 DEF Stage
  <2>4. CASE monPc[s] = "none" /\ reqS = s
    <3>1. reqPc \in {"setup", "terminal", "disconnect", "destroy", "release", "unregister"}
                     \cup Built
      BY <2>4, SessionAssumption DEF SessionAssumption, IInv, Locals, TypeOK, Built
    <3> QED
      BY <2>1, <2>4, <3>1 DEF Stage, Fresh, Gone
  <2> QED
    BY <2>2, <2>3, <2>4
<1> QED
  BY <1>1, Invariance, PTL

(* Until the shutdown takes it, a running monitor thread's session is in exactly
   one slot of the registry. *)
THEOREM ReachableByStop == Spec => []MonitorRegistered
<1>1. IInv => MonitorRegistered
  <2> SUFFICES ASSUME IInv, mainPc \in {"running", "signalled"},
                      NEW s \in Session, monPc[s] \notin {"none", "done"}
               PROVE  \E i \in Slot : gSessions[i] = s /\ \A j \in Slot \ {i} : gSessions[j] # s
    BY DEF MonitorRegistered
  <2>1. PICK i \in Slot : gSessions[i] = s
    BY DEF IInv, Registry
  <2>2. s # NoSession
    BY SessionAssumption DEF SessionAssumption
  <2> QED
    BY <2>1, <2>2 DEF IInv, Registry
<1> QED
  BY <1>1, Invariance, PTL

(* The session limit counts the sessions there are. *)
THEOREM CounterCorrect == Spec => []CounterExact
<1>1. Init => CounterExact
  BY InitIInv
<1>2. IInv /\ CounterExact /\ [Next]_vars => CounterExact'
  BY NextCounter
<1> QED
  BY <1>1, <1>2, Invariance, PTL DEF Spec

(* Slots that are all taken by sessions not yet cleanup_done: were no monitor
   between the release and that flag, all of them would still count, and with the
   session being registered they would be more than the limit allows. *)
LEMMA TakenOnlyInWindow ==
  ASSUME IInv, CounterExact, reqPc = "register",
         \A i \in Slot : gSessions[i] # NoSession /\ ~cleanupDone[gSessions[i]]
  PROVE  \E s \in Session : monPc[s] = "mark"
<1> SUFFICES ASSUME \A s \in Session : monPc[s] # "mark" PROVE FALSE
  OBVIOUS
<1> DEFINE H == {t \in Session : Held(t)}
           O == H \ {reqS}
<1>1. reqS \in H
  BY DEF IInv, Locals, Held, Acquired
<1>2. \A i \in Slot : gSessions[i] \in O
  <2> SUFFICES ASSUME NEW i \in Slot PROVE gSessions[i] \in O
    OBVIOUS
  <2>1. gSessions[i] \in Session /\ gSessions[i] # reqS
    BY DEF IInv, TypeOK, Registry, Unregistered
  <2>2. monPc[gSessions[i]] \in {"loop", "terminate", "disconnect", "destroy", "release"}
    BY <2>1 DEF IInv, TypeOK, Registry, Registered
  <2> QED
    BY <2>1, <2>2 DEF Held
<1>3. gSessions \in Injection(Slot, O)
  <2>1. gSessions \in [Slot -> O]
    BY <1>2 DEF IInv, TypeOK
  <2>2. \A i, j \in Slot : gSessions[i] = gSessions[j] => i = j
    BY DEF IInv, Registry
  <2> QED
    BY <2>1, <2>2 DEF Injection, IsInjective
<1>4. IsFiniteSet(H) /\ Cardinality(H) \in Nat /\ IsFiniteSet(O) /\ Cardinality(O) \in Nat
  BY HeldFinite
<1>5. Cardinality(O) = Cardinality(H) - 1
  BY <1>1, <1>4, FS_RemoveElement
<1>6. Cardinality(Slot) <= Cardinality(O)
  BY <1>3, <1>4, FS_Injection
<1>7. Cardinality(Slot) = MaxSessions /\ MaxSessions \in Nat \ {0}
  BY LimitAssumption, FS_Interval DEF LimitAssumption, Slot
<1>8. Cardinality(H) = activeSessions /\ activeSessions \in 0..MaxSessions
  BY DEF CounterExact, IInv, TypeOK
<1> HIDE DEF H, O
<1> QED
  BY <1>4, <1>5, <1>6, <1>7, <1>8

(* sessions_register turns a session down only while a monitor thread has given
   back its place and not yet set cleanup_done (main.c:348-349), for any number of
   sessions and slots and with requests at any moment. *)
THEOREM FullRegistryExplained == Spec => FullOnlyInWindow
<1>1. IInv /\ CounterExact /\ [Next]_vars =>
        [reqPc = "register" /\ reqPc' = "full" => \E s \in Session : monPc[s] = "mark"]_vars
  <2> SUFFICES ASSUME IInv, CounterExact, [Next]_vars, reqPc = "register", reqPc' = "full"
               PROVE  \E s \in Session : monPc[s] = "mark"
    OBVIOUS
  <2>1. Register
    <3>1. ASSUME NEW s \in Session PROVE ~Request(s) /\ ~Monitor(s)
      BY DEF Request, Monitor, MonitorWakes, Terminate, DisconnectWs, Destroy, Release, MarkDone,
             MonitorStep, reqVars
    <3>2. ASSUME NEW s \in Session
          PROVE  ~(ShellExits(s) \/ OutputFails(s) \/ InputArrives(s) \/ InputWritten(s) \/ PanelCloses(s))
      BY DEF ShellExits, OutputFails, InputArrives, InputWritten, PanelCloses, reqVars
    <3>3. ~(SetupFails \/ Connect \/ StartTerminal \/ Activate \/ JoinZombie \/ Spawn \/ MarkStarted
             \/ UnwindFlag \/ UnwindTerminal \/ UnwindWs \/ UnwindDestroy \/ UnwindRelease \/ Unregister)
      BY DEF SetupFails, Connect, StartTerminal, Activate, JoinZombie, Spawn, MarkStarted, UnwindFlag,
             UnwindTerminal, UnwindWs, UnwindDestroy, UnwindRelease, UnwindStep, Unregister
    <3>4. ~(SignalStop \/ Main \/ ReceiverExits \/ UNCHANGED vars)
      BY DEF SignalStop, Main, StopWs, TakeSlot, JoinMonitor, FreeSession, Exit, ReceiverExits, reqVars, vars
    <3> QED
      BY <3>1, <3>2, <3>3, <3>4 DEF Next, Establish
  <2>2. \A i \in Slot : gSessions[i] \in Session /\ ~cleanupDone[gSessions[i]]
    BY <2>1, RegisterEffect
  <2>3. NoSession \notin Session
    BY SessionAssumption DEF SessionAssumption
  <2> QED
    BY <2>2, <2>3, TakenOnlyInWindow
<1> QED
  BY <1>1, Invariance, CounterCorrect, PTL DEF Spec, FullOnlyInWindow

(* Counter, registry and slots agree, also when requests are served during the
   shutdown. *)
THEOREM RegistryAgrees == Spec => []RegistrySound
<1>1. IInv /\ CounterExact => RoomForNewSession
  BY TakenOnlyInWindow DEF RoomForNewSession
<1>2. CounterExact /\ MonitorRegistered /\ RoomForNewSession => RegistrySound
  BY DEF RegistrySound
<1> QED
  BY <1>1, <1>2, Invariance, CounterCorrect, ReachableByStop, PTL

(* The shutdown takes the slots in order, and monitor_started is set for monitor
   threads only. *)
Taking ==
  /\ mainPc \in {"running", "signalled"} => slot = 1
  /\ mainPc = "exited" => slot > MaxSessions
  /\ \A s \in Session : monitorStarted[s] => monPc[s] # "none"

(* A session whose monitor_started was set before main took any slot: its monitor
   has ended, or main still meets it in a slot to come, or is joining it.  A request
   served meanwhile fills slots of sessions that are cleanup_done, never its own. *)
ToBeJoined(s) ==
  \/ monPc[s] = "done"
  \/ /\ monitorStarted[s]
     /\ \/ mainPc \in {"running", "signalled"}
        \/ mainPc = "cleanup" /\ \E i \in Slot : i >= slot /\ gSessions[i] = s
        \/ mainPc \in {"join", "free"} /\ \E i \in Slot : i > slot /\ gSessions[i] = s
        \/ mainPc = "join" /\ mainS = s

LEMMA NextTaking ==
  ASSUME IInv, Taking, [Next]_vars PROVE Taking'
<1> USE DEF IInv, TypeOK, Locals, Taking, sessVars, reqVars, mainVars
<1>1. CASE UNCHANGED <<mainPc, slot, monitorStarted, monPc>>
  BY <1>1
<1>2. ASSUME NEW s \in Session, Request(s) \/ Monitor(s) PROVE Taking'
  BY <1>2 DEF Request, Monitor, MonitorWakes, Terminate, DisconnectWs, Destroy, Release,
              MarkDone, MonitorStep
<1>3. ASSUME NEW s \in Session,
             ShellExits(s) \/ OutputFails(s) \/ InputArrives(s) \/ InputWritten(s) \/ PanelCloses(s)
      PROVE  Taking'
  BY <1>1, <1>3 DEF ShellExits, OutputFails, InputArrives, InputWritten, PanelCloses
<1>4. CASE Activate \/ Spawn \/ MarkStarted
  BY <1>4 DEF Activate, Spawn, MarkStarted
<1>5. CASE SetupFails \/ Connect \/ StartTerminal \/ Register \/ JoinZombie \/ Unregister
  BY <1>1, <1>5 DEF SetupFails, Connect, StartTerminal, Register, JoinZombie, Unregister
<1>6. CASE UnwindFlag \/ UnwindTerminal \/ UnwindWs \/ UnwindDestroy \/ UnwindRelease
  BY <1>1, <1>6 DEF UnwindFlag, UnwindTerminal, UnwindWs, UnwindDestroy, UnwindRelease, UnwindStep
<1>7. CASE SignalStop \/ Main \/ ReceiverExits
  BY <1>7 DEF SignalStop, Main, StopWs, TakeSlot, JoinMonitor, FreeSession, Exit, ReceiverExits
<1>8. CASE UNCHANGED vars
  BY <1>1, <1>8 DEF vars
<1> QED
  BY <1>2, <1>3, <1>4, <1>5, <1>6, <1>7, <1>8 DEF Next, Establish

(* The other threads leave a running session with monitor_started in its slots. *)
LEMMA OthersKeepSlots ==
  ASSUME IInv, Taking, NEW s \in Session, monitorStarted[s], monPc[s] # "done",
         \/ Establish \/ ReceiverExits \/ UNCHANGED vars
         \/ \E t \in Session : \/ Request(t) \/ Monitor(t)
                               \/ ShellExits(t) \/ OutputFails(t)
                               \/ InputArrives(t) \/ InputWritten(t) \/ PanelCloses(t)
  PROVE  /\ monitorStarted'[s] /\ UNCHANGED <<mainPc, slot, mainS>>
         /\ \A i \in Slot : gSessions[i] = s => gSessions'[i] = s
<1> USE SessionAssumption DEF SessionAssumption, IInv, TypeOK, Locals, Stages, Stage, Registry,
        Unregistered, Taking, sessVars, reqVars, mainVars
<1>1. monPc[s] # "none" /\ ~cleanupDone[s] /\ (reqS = s => reqPc = "started")
  OBVIOUS
<1>2. CASE UNCHANGED <<monitorStarted, gSessions, mainPc, slot, mainS>>
  BY <1>2
<1>3. ASSUME NEW t \in Session, Request(t) \/ Monitor(t)
      PROVE  UNCHANGED <<monitorStarted, gSessions, mainPc, slot, mainS>>
  BY <1>3 DEF Request, Monitor, MonitorWakes, Terminate, DisconnectWs, Destroy, Release,
              MarkDone, MonitorStep
<1>4. ASSUME NEW t \in Session,
             ShellExits(t) \/ OutputFails(t) \/ InputArrives(t) \/ InputWritten(t) \/ PanelCloses(t)
      PROVE  UNCHANGED <<monitorStarted, gSessions, mainPc, slot, mainS>>
  BY <1>4 DEF ShellExits, OutputFails, InputArrives, InputWritten, PanelCloses
<1>5. SetupFails \/ Connect \/ StartTerminal \/ JoinZombie \/ Spawn
        => UNCHANGED <<monitorStarted, gSessions, mainPc, slot, mainS>>
  BY DEF SetupFails, Connect, StartTerminal, JoinZombie, Spawn
<1>6. UnwindFlag \/ UnwindTerminal \/ UnwindWs \/ UnwindDestroy \/ UnwindRelease
        => UNCHANGED <<monitorStarted, gSessions, mainPc, slot, mainS>>
  BY DEF UnwindFlag, UnwindTerminal, UnwindWs, UnwindDestroy, UnwindRelease, UnwindStep
<1>7. ReceiverExits \/ UNCHANGED vars => UNCHANGED <<monitorStarted, gSessions, mainPc, slot, mainS>>
  BY DEF ReceiverExits, vars
<1>8. ASSUME Activate \/ MarkStarted
      PROVE  UNCHANGED <<gSessions, mainPc, slot, mainS>> /\ monitorStarted'[s]
  BY <1>1, <1>8 DEF Activate, MarkStarted
<1>9. ASSUME Register
      PROVE  /\ UNCHANGED <<monitorStarted, mainPc, slot, mainS>>
             /\ \A i \in Slot : gSessions[i] = s => gSessions'[i] = s
  <2>1. UNCHANGED <<monitorStarted, mainPc, slot, mainS>>
    BY <1>9 DEF Register
  <2>2. \/ UNCHANGED gSessions
        \/ \E i \in Slot : /\ gSessions' = [gSessions EXCEPT ![i] = reqS]
                           /\ \/ gSessions[i] = NoSession
                              \/ gSessions[i] \in Session /\ cleanupDone[gSessions[i]]
    BY <1>9, RegisterEffect
  <2> QED
    BY <1>1, <2>1, <2>2
<1>10. ASSUME Unregister
       PROVE  /\ UNCHANGED <<monitorStarted, mainPc, slot, mainS>>
              /\ \A i \in Slot : gSessions[i] = s => gSessions'[i] = s
  BY <1>1, <1>10 DEF Unregister
<1> QED
  BY <1>2, <1>3, <1>4, <1>5, <1>6, <1>7, <1>8, <1>9, <1>10 DEF Establish

LEMMA NextToBeJoined ==
  ASSUME IInv, Taking, NEW s \in Session, ToBeJoined(s), [Next]_vars
  PROVE  ToBeJoined(s)'
<1>1. monPc[s] = "done" => monPc'[s] = "done"
  <2> USE SessionAssumption DEF SessionAssumption, IInv, TypeOK, Locals, Stages, Stage,
          sessVars, reqVars, mainVars
  <2>1. ASSUME NEW t \in Session, Monitor(t), monPc[s] = "done" PROVE monPc'[s] = "done"
    BY <2>1 DEF Monitor, MonitorWakes, Terminate, DisconnectWs, Destroy, Release, MarkDone, MonitorStep
  <2>2. ASSUME Spawn, monPc[s] = "done" PROVE monPc'[s] = "done"
    BY <2>2 DEF Spawn
  <2>3. ASSUME NEW t \in Session,
               \/ Request(t) \/ ShellExits(t) \/ OutputFails(t)
               \/ InputArrives(t) \/ InputWritten(t) \/ PanelCloses(t)
        PROVE  UNCHANGED monPc
    BY <2>3 DEF Request, ShellExits, OutputFails, InputArrives, InputWritten, PanelCloses
  <2>4. ASSUME Establish, ~Spawn PROVE UNCHANGED monPc
    BY <2>4 DEF Establish, SetupFails, Connect, StartTerminal, Activate, Register, JoinZombie,
                MarkStarted, Unregister, UnwindFlag, UnwindTerminal, UnwindWs, UnwindDestroy,
                UnwindRelease, UnwindStep
  <2>5. SignalStop \/ Main \/ ReceiverExits \/ UNCHANGED vars => UNCHANGED monPc
    BY DEF SignalStop, Main, StopWs, TakeSlot, JoinMonitor, FreeSession, Exit, ReceiverExits, vars
  <2> QED
    BY <2>1, <2>2, <2>3, <2>4, <2>5 DEF Next
<1>2. CASE monPc[s] = "done"
  BY <1>1, <1>2 DEF ToBeJoined
<1> SUFFICES ASSUME monPc[s] # "done" PROVE ToBeJoined(s)'
  BY <1>2
<1>3. monitorStarted[s]
  BY DEF ToBeJoined
<1>4. CASE /\ monitorStarted'[s] /\ UNCHANGED <<mainPc, slot, mainS>>
           /\ \A i \in Slot : gSessions[i] = s => gSessions'[i] = s
  BY <1>4 DEF ToBeJoined
<1>5. CASE SignalStop
  BY <1>3, <1>5 DEF SignalStop, ToBeJoined
<1>6. CASE StopWs
  <2>1. mainPc = "signalled" /\ mainPc' = "cleanup" /\ UNCHANGED <<slot, gSessions, monitorStarted, monPc>>
    BY <1>6 DEF StopWs, sessVars
  <2>2. slot = 1 /\ monPc[s] \notin {"none", "done"}
    BY <1>3, <2>1 DEF Taking
  <2>3. PICK i \in Slot : gSessions[i] = s
    BY <2>1, <2>2 DEF IInv, Registry
  <2>4. i >= slot
    BY <2>2 DEF Slot
  <2> QED
    BY <1>3, <2>1, <2>3, <2>4 DEF ToBeJoined
<1>7. CASE TakeSlot
  <2>1. /\ mainPc = "cleanup" /\ UNCHANGED monitorStarted
        /\ slot \in Slot /\ slot \in Int
    BY <1>7 DEF TakeSlot, sessVars, IInv, TypeOK, Slot
  <2>2. PICK i \in Slot : i >= slot /\ gSessions[i] = s
    BY <2>1 DEF ToBeJoined
  <2>3. CASE gSessions[slot] = NoSession
    <3>1. slot' = slot + 1 /\ UNCHANGED <<mainPc, gSessions>>
      BY <1>7, <2>3 DEF TakeSlot
    <3>2. i # slot
      BY <2>2, <2>3, SessionAssumption DEF SessionAssumption
    <3>3. i >= slot + 1
      BY <2>1, <2>2, <3>2 DEF Slot
    <3> QED
      BY <1>3, <2>1, <2>2, <3>1, <3>3 DEF ToBeJoined
  <2>4. CASE gSessions[slot] # NoSession
    <3>1. /\ mainS' = gSessions[slot] /\ UNCHANGED slot
          /\ gSessions' = [gSessions EXCEPT ![slot] = NoSession]
          /\ mainPc' = IF monitorStarted[gSessions[slot]] THEN "join" ELSE "free"
      BY <1>7, <2>4 DEF TakeSlot
    <3>2. CASE i = slot
      BY <1>3, <2>1, <2>2, <3>1, <3>2 DEF ToBeJoined
    <3>3. CASE i # slot
      <4>1. i > slot
        BY <2>1, <2>2, <3>3 DEF Slot
      <4>2. gSessions'[i] = s /\ mainPc' \in {"join", "free"}
        BY <2>2, <3>1, <3>3 DEF IInv, TypeOK
      <4> QED
        BY <1>3, <2>1, <3>1, <4>1, <4>2 DEF ToBeJoined
    <3> QED
      BY <3>2, <3>3
  <2> QED
    BY <2>3, <2>4
<1>8. CASE JoinMonitor
  <2>1. /\ mainPc = "join" /\ mainPc' = "free" /\ monPc[mainS] = "done"
        /\ UNCHANGED <<slot, gSessions, monitorStarted>>
    BY <1>8 DEF JoinMonitor, sessVars
  <2>2. mainS # s
    BY <2>1
  <2>3. \E i \in Slot : i > slot /\ gSessions[i] = s
    BY <2>1, <2>2 DEF ToBeJoined
  <2> QED
    BY <1>3, <2>1, <2>3 DEF ToBeJoined
<1>9. CASE FreeSession
  <2>1. /\ mainPc = "free" /\ mainPc' = "cleanup" /\ slot' = slot + 1
        /\ UNCHANGED <<gSessions, monitorStarted>>
    BY <1>9 DEF FreeSession
  <2>2. PICK i \in Slot : i > slot /\ gSessions[i] = s
    BY <2>1 DEF ToBeJoined
  <2>3. i >= slot + 1
    BY <2>2 DEF Slot, IInv, TypeOK
  <2> QED
    BY <1>3, <2>1, <2>2, <2>3 DEF ToBeJoined
<1>10. CASE Exit
  <2>1. mainPc = "cleanup" /\ slot > MaxSessions /\ slot \in 1..(MaxSessions + 1)
    BY <1>10 DEF Exit, IInv, TypeOK
  <2>2. PICK i \in Slot : i >= slot
    BY <2>1 DEF ToBeJoined
  <2> QED
    BY <2>1, <2>2, LimitAssumption DEF LimitAssumption, Slot
<1>11. ASSUME \/ Establish \/ ReceiverExits \/ UNCHANGED vars
              \/ \E t \in Session : \/ Request(t) \/ Monitor(t)
                                    \/ ShellExits(t) \/ OutputFails(t)
                                    \/ InputArrives(t) \/ InputWritten(t) \/ PanelCloses(t)
       PROVE  ToBeJoined(s)'
  BY <1>3, <1>4, <1>11, OthersKeepSlots
<1> QED
  BY <1>5, <1>6, <1>7, <1>8, <1>9, <1>10, <1>11 DEF Next, Main

(* Requests may be served at any moment of the shutdown: a session whose
   monitor_started was set before main began to take the slots has no monitor
   thread left when main exits. *)
THEOREM StartedMonitorsEnd ==
  ASSUME NEW CONSTANT s \in Session
  PROVE  Spec => StartedIsJoined(s)
<1>1. Init => Taking
  BY DEF Init, Taking
<1>2. IInv /\ Taking /\ [Next]_vars => Taking'
  BY NextTaking
<1>3. Spec => []Taking
  BY <1>1, <1>2, Invariance, PTL DEF Spec
<1>4. mainPc \in {"running", "signalled"} /\ monitorStarted[s] => ToBeJoined(s)
  BY DEF ToBeJoined
<1>5. IInv /\ Taking /\ ToBeJoined(s) /\ [Next]_vars => ToBeJoined(s)'
  BY NextToBeJoined
<1>6. ToBeJoined(s) => (mainPc = "exited" => monPc[s] = "done")
  BY DEF ToBeJoined
<1> QED
  BY <1>3, <1>4, <1>5, <1>6, Invariance, PTL DEF Spec, StartedIsJoined

-----------------------------------------------------------------------------
(* The sessions are a pool.                                                  *)

(* What the shutdown took from the registry has been a session before. *)
Taken == mainPc \in {"join", "free"} => mem[mainS] # "none"

LEMMA NextTaken ==
  ASSUME IInv, Taken, [Next]_vars PROVE Taken'
<1> USE SessionAssumption DEF SessionAssumption, IInv, TypeOK, Locals, Taken, sessVars, reqVars, mainVars
<1>1. \A s \in Session : mem'[s] = "none" => mem[s] = "none"
  <2>1. ASSUME NEW s \in Session, Request(s) PROVE <1>1!:
    BY <2>1 DEF Request
  <2>2. CASE SetupFails \/ Unregister
    BY <2>2 DEF SetupFails, Unregister
  <2>3. CASE JoinZombie \/ FreeSession
    BY <2>3 DEF JoinZombie, FreeSession
  <2>4. CASE UNCHANGED mem
    BY <2>4
  <2>5. ASSUME NEW s \in Session, Monitor(s) PROVE UNCHANGED mem
    BY <2>5 DEF Monitor, MonitorWakes, Terminate, DisconnectWs, Destroy, Release, MarkDone, MonitorStep
  <2>6. ASSUME NEW s \in Session,
               ShellExits(s) \/ OutputFails(s) \/ InputArrives(s) \/ InputWritten(s) \/ PanelCloses(s)
        PROVE  UNCHANGED mem
    BY <2>6 DEF ShellExits, OutputFails, InputArrives, InputWritten, PanelCloses
  <2>7. Connect \/ StartTerminal \/ Activate \/ Register \/ Spawn \/ MarkStarted => UNCHANGED mem
    BY DEF Connect, StartTerminal, Activate, Register, Spawn, MarkStarted
  <2>8. SignalStop \/ StopWs \/ TakeSlot \/ JoinMonitor \/ Exit \/ ReceiverExits => UNCHANGED mem
    BY DEF SignalStop, StopWs, TakeSlot, JoinMonitor, Exit, ReceiverExits
  <2>9. UNCHANGED vars => UNCHANGED mem
    BY DEF vars
  <2>10. UnwindFlag \/ UnwindTerminal \/ UnwindWs \/ UnwindDestroy \/ UnwindRelease => UNCHANGED mem
    BY DEF UnwindFlag, UnwindTerminal, UnwindWs, UnwindDestroy, UnwindRelease, UnwindStep
  <2> QED
    BY <2>1, <2>2, <2>3, <2>4, <2>5, <2>6, <2>7, <2>8, <2>9, <2>10 DEF Next, Establish, Main
<1>2. CASE TakeSlot
  <2>1. CASE gSessions[slot] = NoSession
    BY <1>2, <2>1 DEF TakeSlot
  <2>2. CASE gSessions[slot] # NoSession
    <3>1. slot \in Slot /\ mainS' = gSessions[slot] /\ UNCHANGED mem
      BY <1>2, <2>2 DEF TakeSlot, Slot
    <3> QED
      BY <2>2, <3>1 DEF Registry
  <2> QED
    BY <2>1, <2>2
<1>3. CASE mainPc' \in {"join", "free"} => mainPc \in {"join", "free"} /\ mainS' = mainS
  BY <1>1, <1>3
<1>4. ASSUME NEW s \in Session, Request(s) \/ Monitor(s)
      PROVE  UNCHANGED <<mainPc, mainS>>
  BY <1>4 DEF Request, Monitor, MonitorWakes, Terminate, DisconnectWs, Destroy, Release, MarkDone, MonitorStep
<1>5. ASSUME NEW s \in Session,
             ShellExits(s) \/ OutputFails(s) \/ InputArrives(s) \/ InputWritten(s) \/ PanelCloses(s)
      PROVE  UNCHANGED <<mainPc, mainS>>
  BY <1>5 DEF ShellExits, OutputFails, InputArrives, InputWritten, PanelCloses
<1>6. Establish => UNCHANGED <<mainPc, mainS>>
  BY DEF Establish, SetupFails, Unregister, JoinZombie, Connect, StartTerminal, Activate,
         Register, Spawn, MarkStarted, UnwindFlag, UnwindTerminal, UnwindWs, UnwindDestroy,
         UnwindRelease, UnwindStep
<1>7. SignalStop \/ StopWs \/ JoinMonitor \/ FreeSession \/ Exit \/ ReceiverExits =>
        (mainPc' \in {"join", "free"} => mainPc \in {"join", "free"} /\ mainS' = mainS)
  BY DEF SignalStop, StopWs, JoinMonitor, FreeSession, Exit, ReceiverExits
<1>8. UNCHANGED vars => UNCHANGED <<mainPc, mainS>>
  BY DEF vars
<1> QED
  BY <1>2, <1>3, <1>4, <1>5, <1>6, <1>7, <1>8 DEF Next, Main

(* A step moves one session in the pool, or none. *)
Moves(s, from, to) ==
  /\ PhaseOf(s) = from /\ PhaseOf(s)' = to
  /\ \A t \in Session \ {s} : PhaseOf(t)' = PhaseOf(t)
Still == \A t \in Session : PhaseOf(t)' = PhaseOf(t)

LEMMA PhaseSteps ==
  ASSUME IInv, Taken
  PROVE  /\ \A s \in Session : Request(s) => Moves(s, "new", "opening")
         /\ SetupFails \/ UnwindRelease =>
              \E s \in Session : Moves(s, "opening", "over")
         /\ UnwindFlag \/ UnwindTerminal \/ UnwindWs \/ UnwindDestroy => Still
         /\ Spawn => Still \/ \E s \in Session : Moves(s, "opening", "served")
         /\ \A s \in Session : Release(s) => Moves(s, "served", "leaving")
         /\ \A s \in Session : MarkDone(s) => Moves(s, "leaving", "over")
         /\ Connect \/ StartTerminal \/ Activate \/ Register \/ JoinZombie => Still
         /\ MarkStarted \/ Unregister => Still
         /\ SignalStop \/ StopWs \/ TakeSlot \/ JoinMonitor \/ FreeSession => Still
         /\ Exit \/ ReceiverExits => Still
         /\ \A s \in Session : MonitorWakes(s) \/ Terminate(s) \/ DisconnectWs(s) \/ Destroy(s) => Still
         /\ \A s \in Session :
              ShellExits(s) \/ OutputFails(s) \/ InputArrives(s) \/ InputWritten(s) \/ PanelCloses(s)
                => Still
<1> USE SessionAssumption DEF SessionAssumption, IInv, TypeOK, Locals, Stages, Stage, Built,
        Moves, Still, PhaseOf, Acquired, sessVars, reqVars, mainVars
<1>1. ASSUME NEW s \in Session, Request(s) PROVE Moves(s, "new", "opening")
  BY <1>1 DEF Request
<1>2. ASSUME SetupFails PROVE \E s \in Session : Moves(s, "opening", "over")
  <2>1. PICK s \in Session : s = reqS
    BY <1>2 DEF SetupFails
  <2>2. /\ reqPc = "setup" /\ reqPc' \in {"idle", "exited"}
        /\ reqS' = NoSession /\ mem' = [mem EXCEPT ![reqS] = "freed"] /\ UNCHANGED monPc
    BY <1>2, Zenon DEF SetupFails, Return
  <2>3. Moves(s, "opening", "over")
    BY <2>1, <2>2
  <2> QED
    BY <2>3, Zenon
<1>3. ASSUME UnwindRelease PROVE \E s \in Session : Moves(s, "opening", "over")
  <2>1. PICK s \in Session : s = reqS
    BY <1>3 DEF UnwindRelease, UnwindStep
  <2>2. Moves(s, "opening", "over")
    BY <1>3, <2>1 DEF UnwindRelease, UnwindStep
  <2> QED
    <3> HIDE DEF Moves, Still
    <3> QED
      BY <2>2, Zenon
<1>4. ASSUME Spawn PROVE Still \/ \E s \in Session : Moves(s, "opening", "served")
  <2>1. PICK s \in Session : s = reqS
    BY <1>4 DEF Spawn
  <2>2. Moves(s, "opening", "served") \/ Still
    BY <1>4, <2>1 DEF Spawn
  <2> QED
    <3> HIDE DEF Moves, Still
    <3> QED
      BY <2>2, Zenon
<1>5. ASSUME UnwindFlag \/ UnwindTerminal \/ UnwindWs \/ UnwindDestroy PROVE Still
  BY <1>5 DEF UnwindFlag, UnwindTerminal, UnwindWs, UnwindDestroy, UnwindStep
<1>6. ASSUME NEW s \in Session, Release(s) PROVE Moves(s, "served", "leaving")
  BY <1>6 DEF Release, MonitorStep
<1>7. ASSUME NEW s \in Session, MarkDone(s) PROVE Moves(s, "leaving", "over")
  BY <1>7 DEF MarkDone, MonitorStep
<1>8. ASSUME Connect \/ StartTerminal \/ Activate PROVE Still
  BY <1>8 DEF Connect, StartTerminal, Activate
<1>9. ASSUME Register PROVE Still
  BY <1>9 DEF Register
<1>10. ASSUME JoinZombie PROVE Still
  BY <1>10 DEF JoinZombie
<1>11. ASSUME MarkStarted \/ Unregister PROVE Still
  BY <1>11 DEF MarkStarted, Unregister, Return
<1>12. ASSUME SignalStop \/ StopWs \/ TakeSlot \/ JoinMonitor PROVE Still
  BY <1>12 DEF SignalStop, StopWs, TakeSlot, JoinMonitor
<1>13. ASSUME FreeSession PROVE Still
  BY <1>13 DEF FreeSession, Taken
<1>14. ASSUME Exit \/ ReceiverExits PROVE Still
  BY <1>14 DEF Exit, ReceiverExits
<1>15. ASSUME NEW s \in Session, MonitorWakes(s) \/ Terminate(s) \/ DisconnectWs(s) \/ Destroy(s)
       PROVE  Still
  BY <1>15 DEF MonitorWakes, Terminate, DisconnectWs, Destroy, MonitorStep
<1>16. ASSUME NEW s \in Session,
              ShellExits(s) \/ OutputFails(s) \/ InputArrives(s) \/ InputWritten(s) \/ PanelCloses(s)
       PROVE  Still
  BY <1>16 DEF ShellExits, OutputFails, InputArrives, InputWritten, PanelCloses
<1> QED
  <2> HIDE DEF Moves, Still, IInv, TypeOK, Locals, Stages, Stage, PhaseOf
  <2> QED
    BY <1>1, <1>2, <1>3, <1>4, <1>5, <1>6, <1>7, <1>8, <1>9, <1>10, <1>11, <1>12, <1>13,
       <1>14, <1>15, <1>16

LEMMA MoveInPool ==
  ASSUME NEW s \in Session, NEW from, NEW to, Moves(s, from, to),
         mainPc # "exited", mainPc' # "exited"
  PROVE  Pool!Move(s, from, to)
<1> DEFINE phase == [t \in Session |-> PhaseOf(t)]
<1>1. phase[s] = from
  BY DEF Moves
<1>2. phase' = [phase EXCEPT ![s] = to]
  BY DEF Moves
<1>3. (mainPc = "exited")' = (mainPc = "exited") /\ ~(mainPc = "exited")
  OBVIOUS
<1> QED
  BY <1>1, <1>2, <1>3 DEF Pool!Move

LEMMA StillInPool ==
  ASSUME Still, (mainPc = "exited")' = (mainPc = "exited")
  PROVE  UNCHANGED Pool!poolVars
<1>1. [t \in Session |-> PhaseOf(t)]' = [t \in Session |-> PhaseOf(t)]
  BY DEF Still
<1> QED
  BY <1>1 DEF Pool!poolVars

LEMMA SameCount ==
  ASSUME NEW S
  PROVE  Pool!Cardinality(S) = Cardinality(S)
  BY DEF Pool!Cardinality, Cardinality

LEMMA PlacedAreHeld == Pool!Placed = {s \in Session : Held(s)}
<1>1. Pool!Placed = {s \in Session : PhaseOf(s) \in {"opening", "served"}}
  BY DEF Pool!Placed, Pool!InPhase
<1>2. \A s \in Session : PhaseOf(s) \in {"opening", "served"} <=> Held(s)
  BY DEF PhaseOf, Held, Acquired
<1> QED
  BY <1>1, <1>2

LEMMA NoneOpening ==
  ASSUME IInv, reqPc \in {"idle", "exited"}
  PROVE  Pool!InPhase("opening") = {}
<1>1. \A s \in Session : PhaseOf(s) # "opening"
  BY DEF PhaseOf, Acquired
<1> QED
  BY <1>1 DEF Pool!InPhase

(* The limit of the pool is what terminal_acquire_session checks: the counter
   is the number of places taken. *)
LEMMA RequestOpens ==
  ASSUME IInv, Taken, CounterExact, mainPc # "exited", NEW s \in Session, Request(s)
  PROVE  Pool!Open(s)
<1>1. Pool!Move(s, "new", "opening")
  <2>1. mainPc' # "exited"
    BY DEF Request, mainVars
  <2>2. Moves(s, "new", "opening")
    BY PhaseSteps
  <2> QED
    BY <2>1, <2>2, MoveInPool
<1>2. Pool!InPhase("opening") = {}
  BY NoneOpening DEF Request
<1>3. Cardinality(Pool!Placed) < MaxSessions
  <2>1. activeSessions < MaxSessions
    BY DEF Request, Acquire
  <2>2. activeSessions = Cardinality(Pool!Placed)
    BY PlacedAreHeld DEF CounterExact
  <2> QED
    BY <2>1, <2>2
<1> QED
  BY <1>1, <1>2, <1>3, SameCount DEF Pool!Open

(* When main exits, the establishing thread has ended, and in a quiet shutdown
   every monitor thread was in a slot that has been swept. *)
LEMMA ExitCloses ==
  ASSUME IInv, Taken, Sweep, Exit
  PROVE  Pool!Exit
<1>1. /\ mainPc = "cleanup" /\ slot > MaxSessions /\ reqPc = "exited" /\ mainPc' = "exited"
      /\ Still
  BY PhaseSteps DEF Exit
<1>2. UNCHANGED [t \in Session |-> PhaseOf(t)]
  BY <1>1 DEF Still
<1>3. Pool!InPhase("opening") = {}
  BY <1>1, NoneOpening
<1>4. ASSUME QuietShutdown, NEW s \in Session
      PROVE  PhaseOf(s) \in {"new", "over"}
  <2>1. \A i \in Slot : ~(i >= slot)
    BY <1>1, LimitAssumption DEF IInv, TypeOK, Slot
  <2>2. monPc[s] \in {"none", "done"}
    BY <1>1, <1>4, <2>1 DEF Sweep
  <2> QED
    BY <1>1, <2>2 DEF PhaseOf, Acquired
<1>5. ~(mainPc = "exited") /\ (mainPc = "exited")' = TRUE
  BY <1>1
<1>6. QuietShutdown => \A s \in Session : [t \in Session |-> PhaseOf(t)][s] \in {"new", "over"}
  BY <1>4
<1> QED
  BY <1>2, <1>3, <1>5, <1>6 DEF Pool!Exit

LEMMA NextInPool ==
  ASSUME IInv, Taken, CounterExact, Sweep, [Next]_vars
  PROVE  [Pool!Next]_(Pool!poolVars)
<1>1. CASE UNCHANGED vars
  <2>1. Still /\ UNCHANGED mainPc
    BY <1>1 DEF vars, sessVars, reqVars, mainVars, Still, PhaseOf, Acquired
  <2> QED
    BY <2>1, StillInPool
<1>2. CASE ~Over /\ Exit
  BY <1>2, ExitCloses DEF Pool!Next
<1>3. ASSUME ~Over, NEW s \in Session, Request(s)
      PROVE  Pool!Next
  BY <1>3, RequestOpens DEF Over, Pool!Next
<1>4. ASSUME ~Over, mainPc' # "exited",
             \/ Still
             \/ \E s \in Session : \/ Moves(s, "opening", "over") \/ Moves(s, "opening", "served")
                                   \/ Moves(s, "served", "leaving") \/ Moves(s, "leaving", "over")
      PROVE  [Pool!Next]_(Pool!poolVars)
  <2>1. mainPc # "exited" /\ (mainPc = "exited")' = (mainPc = "exited")
    BY <1>4 DEF Over
  <2>2. CASE Still
    BY <2>1, <2>2, StillInPool
  <2>3. ASSUME NEW s \in Session,
               \/ Moves(s, "opening", "over") \/ Moves(s, "opening", "served")
               \/ Moves(s, "served", "leaving") \/ Moves(s, "leaving", "over")
        PROVE  Pool!Next
    <3>1. \/ Pool!Move(s, "opening", "over") \/ Pool!Move(s, "opening", "served")
          \/ Pool!Move(s, "served", "leaving") \/ Pool!Move(s, "leaving", "over")
      BY <1>4, <2>1, <2>3, MoveInPool
    <3> QED
      BY <3>1 DEF Pool!Next, Pool!Fail, Pool!Serve, Pool!Leave, Pool!End
  <2> QED
    BY <1>4, <2>2, <2>3
<1>5. CASE ~Over /\ Establish
  <2>1. mainPc' # "exited"
    BY <1>5 DEF Over, mainVars, Establish, SetupFails, Connect, StartTerminal, Activate,
                Register, JoinZombie, Spawn, MarkStarted, UnwindFlag, UnwindTerminal, UnwindWs,
                UnwindDestroy, UnwindRelease, UnwindStep, Unregister
  <2>2. Still \/ \E s \in Session : Moves(s, "opening", "over") \/ Moves(s, "opening", "served")
    BY <1>5, PhaseSteps DEF Establish
  <2> QED
    BY <1>4, <1>5, <2>1, <2>2
<1>6. ASSUME ~Over, NEW s \in Session, Monitor(s)
      PROVE  [Pool!Next]_(Pool!poolVars)
  <2>1. mainPc' # "exited"
    BY <1>6 DEF Over, mainVars, Monitor, MonitorWakes, Terminate, DisconnectWs, Destroy, Release,
                MarkDone, MonitorStep
  <2>2. Still \/ Moves(s, "served", "leaving") \/ Moves(s, "leaving", "over")
    BY <1>6, PhaseSteps DEF Monitor
  <2> QED
    BY <1>4, <1>6, <2>1, <2>2
<1>7. ASSUME ~Over, NEW s \in Session,
             ShellExits(s) \/ OutputFails(s) \/ InputArrives(s) \/ InputWritten(s) \/ PanelCloses(s)
      PROVE  [Pool!Next]_(Pool!poolVars)
  <2>1. mainPc' # "exited"
    BY <1>7 DEF Over, mainVars, ShellExits, OutputFails, InputArrives, InputWritten, PanelCloses
  <2>2. Still
    BY <1>7, PhaseSteps
  <2> QED
    BY <1>4, <1>7, <2>1, <2>2
<1>8. CASE ~Over /\ (SignalStop \/ StopWs \/ TakeSlot \/ JoinMonitor \/ FreeSession \/ ReceiverExits)
  <2>1. mainPc' # "exited"
    BY <1>8 DEF Over, mainVars, SignalStop, StopWs, TakeSlot, JoinMonitor, FreeSession, ReceiverExits
  <2>2. Still
    BY <1>8, PhaseSteps
  <2> QED
    BY <1>4, <1>8, <2>1, <2>2
<1> QED
  BY <1>1, <1>2, <1>3, <1>5, <1>6, <1>7, <1>8 DEF Next, Main

LEMMA InitInPool == Init => Pool!Init /\ Taken
<1> SUFFICES ASSUME Init PROVE Pool!Init /\ Taken
  OBVIOUS
<1>1. \A s \in Session : PhaseOf(s) = "new"
  BY SessionAssumption DEF Init, PhaseOf, Acquired
<1>2. [s \in Session |-> PhaseOf(s)] = [s \in Session |-> "new"]
  BY <1>1
<1>3. (mainPc = "exited") = FALSE /\ mainPc = "running"
  BY DEF Init
<1> QED
  BY <1>2, <1>3 DEF Pool!Init, Taken

(* For any number of sessions and slots, with and without requests during the
   shutdown, the threads together are a pool of sessions: each takes a place
   within the limit, gives it back once, and the agent exits with none half
   made, after a quiet shutdown with none at all. *)
THEOREM PoolOfSessions == Spec => ImplementsPool
<1>1. Init => Pool!Init /\ Taken /\ Sweep
  BY InitInPool, InitIInv
<1>2. IInv /\ Taken /\ [Next]_vars => Taken'
  BY NextTaken
<1>3. IInv /\ Sweep /\ [Next]_vars => Sweep'
  BY NextSweep
<1>4. IInv /\ Taken /\ CounterExact /\ Sweep /\ [Next]_vars => [Pool!Next]_(Pool!poolVars)
  BY NextInPool
<1>5. Spec => [](Taken /\ Sweep)
  BY <1>1, <1>2, <1>3, Invariance, PTL DEF Spec
<1> QED
  BY <1>1, <1>4, <1>5, CounterCorrect, Invariance, PTL DEF Spec, ImplementsPool, Pool!Spec

-----------------------------------------------------------------------------
(* What the pool keeps.                                                      *)

LEMMA PoolMoves ==
  ASSUME NEW s \in Session, NEW from, NEW to, Pool!Move(s, from, to)
  PROVE  /\ PhaseOf(s) = from
         /\ \A t \in Session : PhaseOf(t)' = IF t = s THEN to ELSE PhaseOf(t)
         /\ mainPc # "exited" /\ mainPc' # "exited"
<1> DEFINE phase == [t \in Session |-> PhaseOf(t)]
<1>1. phase[s] = from /\ phase' = [phase EXCEPT ![s] = to]
  BY DEF Pool!Move
<1>2. phase' = [t \in Session |-> PhaseOf(t)']
  OBVIOUS
<1>3. \A t \in Session : phase'[t] = IF t = s THEN to ELSE phase[t]
  BY <1>1
<1>4. mainPc # "exited" /\ mainPc' # "exited"
  BY DEF Pool!Move
<1> QED
  BY <1>1, <1>2, <1>3, <1>4

LEMMA PlacesFinite ==
  IsFiniteSet(Pool!Placed) /\ Cardinality(Pool!Placed) \in Nat
<1>1. Pool!Placed \in SUBSET Session
  BY DEF Pool!Placed, Pool!InPhase
<1> QED
  BY <1>1, HeldFinite

(* A session that is served or ends takes no place of another. *)
LEMMA FewerPlaced ==
  ASSUME Pool!PlacesKept, Pool!Placed' \subseteq Pool!Placed
  PROVE  Cardinality(Pool!Placed)' <= MaxSessions
<1>1. Cardinality(Pool!Placed') <= Cardinality(Pool!Placed) /\ Cardinality(Pool!Placed') \in Nat
  BY PlacesFinite, FS_Subset, FS_CardinalityType
<1>2. Cardinality(Pool!Placed) <= MaxSessions
  BY SameCount DEF Pool!PlacesKept
<1> QED
  BY <1>1, <1>2, PlacesFinite, LimitAssumption DEF LimitAssumption

LEMMA OpenKeepsPlaces ==
  ASSUME Pool!PlacesKept, NEW s \in Session, Pool!Open(s)
  PROVE  Pool!PlacesKept'
<1>1. /\ \A t \in Session : PhaseOf(t)' = IF t = s THEN "opening" ELSE PhaseOf(t)
      /\ mainPc' # "exited"
  BY PoolMoves DEF Pool!Open
<1>2. \A t \in Session : PhaseOf(t) # "opening"
  BY DEF Pool!Open, Pool!InPhase
<1>3. \A t, u \in Pool!InPhase("opening")' : t = u
  BY <1>1, <1>2 DEF Pool!InPhase
<1>4. Pool!Placed' = Pool!Placed \cup {s}
  BY <1>1 DEF Pool!Placed, Pool!InPhase
<1>5. Cardinality(Pool!Placed') <= Cardinality(Pool!Placed) + 1
  BY <1>4, PlacesFinite, FS_AddElement
<1>6. Cardinality(Pool!Placed) < MaxSessions
  BY SameCount DEF Pool!Open
<1>7. Pool!Cardinality(Pool!Placed)' <= MaxSessions
  <2>1. Cardinality(Pool!Placed') \in Nat
    <3>1. Pool!Placed' \in SUBSET Session
      BY DEF Pool!Placed, Pool!InPhase
    <3> QED
      BY <3>1, HeldFinite
  <2>2. Pool!Cardinality(Pool!Placed') = Cardinality(Pool!Placed')
    BY SameCount
  <2> QED
    BY <1>5, <1>6, <2>1, <2>2, PlacesFinite, LimitAssumption DEF LimitAssumption
<1> QED
  BY <1>1, <1>3, <1>7 DEF Pool!PlacesKept

LEMMA MoveKeepsPlaces ==
  ASSUME Pool!PlacesKept, NEW s \in Session, NEW from, NEW to, Pool!Move(s, from, to),
         to \in {"served", "leaving", "over"}, to = "served" => from = "opening"
  PROVE  Pool!PlacesKept'
<1>1. /\ PhaseOf(s) = from /\ mainPc' # "exited"
      /\ \A t \in Session : PhaseOf(t)' = IF t = s THEN to ELSE PhaseOf(t)
  BY PoolMoves
<1>2. Pool!InPhase("opening")' \subseteq Pool!InPhase("opening")
  BY <1>1 DEF Pool!InPhase
<1>3. Pool!Placed' \subseteq Pool!Placed
  BY <1>1 DEF Pool!Placed, Pool!InPhase
<1>4. Pool!Cardinality(Pool!Placed)' <= MaxSessions
  <2>1. Pool!Cardinality(Pool!Placed') = Cardinality(Pool!Placed')
    BY SameCount
  <2> QED
    BY <1>3, <2>1, FewerPlaced
<1>5. \A t, u \in Pool!InPhase("opening")' : t = u
  BY <1>2 DEF Pool!PlacesKept
<1> QED
  BY <1>1, <1>4, <1>5 DEF Pool!PlacesKept

LEMMA SameKeepsPlaces ==
  ASSUME Pool!PlacesKept, [t \in Session |-> PhaseOf(t)]' = [t \in Session |-> PhaseOf(t)],
         mainPc' = "exited" => mainPc = "exited" \/ Pool!Exit
  PROVE  Pool!PlacesKept'
<1>1. \A t \in Session : PhaseOf(t)' = PhaseOf(t)
  BY Zenon
<1>2. Pool!InPhase("opening")' = Pool!InPhase("opening") /\ Pool!Placed' = Pool!Placed
  BY <1>1 DEF Pool!Placed, Pool!InPhase
<1>3. Pool!Cardinality(Pool!Placed)' = Pool!Cardinality(Pool!Placed)
  <2>1. /\ Pool!Cardinality(Pool!Placed') = Cardinality(Pool!Placed')
        /\ Pool!Cardinality(Pool!Placed) = Cardinality(Pool!Placed)
    BY SameCount
  <2> QED
    BY <1>2, <2>1
<1> QED
  BY <1>1, <1>2, <1>3 DEF Pool!PlacesKept, Pool!Exit

(* However many sessions are requested and however they end, there are never
   more than the limit, one at most is being established, and the process does
   not exit over a session half made, or over any after a quiet shutdown. *)
THEOREM SessionsWithinLimit == Spec => []Pool!PlacesKept
<1>1. Pool!Init => Pool!PlacesKept
  <2> SUFFICES ASSUME Pool!Init PROVE Pool!PlacesKept
    OBVIOUS
  <2>1. \A t \in Session : PhaseOf(t) = "new"
    BY DEF Pool!Init
  <2>2. Pool!Placed = {} /\ Pool!InPhase("opening") = {} /\ mainPc # "exited"
    BY <2>1 DEF Pool!Placed, Pool!InPhase, Pool!Init
  <2>3. Pool!Cardinality(Pool!Placed) = 0
    BY <2>2, SameCount, FS_EmptySet
  <2> QED
    BY <2>2, <2>3, LimitAssumption DEF LimitAssumption, Pool!PlacesKept
<1>2. Pool!PlacesKept /\ [Pool!Next]_(Pool!poolVars) => Pool!PlacesKept'
  <2> SUFFICES ASSUME Pool!PlacesKept, [Pool!Next]_(Pool!poolVars) PROVE Pool!PlacesKept'
    OBVIOUS
  <2>1. CASE UNCHANGED Pool!poolVars
    BY <2>1, SameKeepsPlaces DEF Pool!poolVars
  <2>2. CASE Pool!Exit
    BY <2>2, SameKeepsPlaces DEF Pool!Exit
  <2>3. ASSUME NEW s \in Session, Pool!Open(s) PROVE Pool!PlacesKept'
    BY <2>3, OpenKeepsPlaces
  <2>4. ASSUME NEW s \in Session, Pool!Fail(s) \/ Pool!Serve(s) \/ Pool!Leave(s) \/ Pool!End(s)
        PROVE  Pool!PlacesKept'
    BY <2>4, MoveKeepsPlaces DEF Pool!Fail, Pool!Serve, Pool!Leave, Pool!End
  <2> QED
    BY <2>1, <2>2, <2>3, <2>4 DEF Pool!Next
<1>3. Pool!Spec => []Pool!PlacesKept
  BY <1>1, <1>2, PTL DEF Pool!Spec
<1> QED
  BY <1>3, PoolOfSessions, PTL DEF ImplementsPool
=============================================================================
