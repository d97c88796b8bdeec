------------------------------ MODULE V2Events ------------------------------
(***************************************************************************)
(* Delivery of v2 panel events to the agent: the receive thread removes    *)
(* duplicates, dispatches the event and queues its acknowledgement         *)
(* (ws_handle_v2_event over the v2_state_t lists); the report thread       *)
(* snapshots the queue, sends it inside a report and clears it.  The panel *)
(* retransmits an event until a report carrying its id arrives.            *)
(***************************************************************************)
EXTENDS Integers, Sequences, FiniteSets

CONSTANTS
  Event,      \* the events the panel issues, see EventType
  IntHalf,    \* 2^(w-1) for the w-bit int an ACK id is stored in
  SeenMax,    \* V2_SEEN_EVENTS_MAX
  AckMax,     \* V2_ACK_IDS_MAX, also the size of the snapshot buffer
  ReportMax,  \* how many ACK ids fit in the report buffer
  FrameMax,   \* bound: events received between two report cycles
  LogMax,     \* bound: how many of the latest acceptances "log" remembers
  FaultMax    \* bound: late copies, drops, lost reports, failed sends, failed
              \* allocations and restarts

Methods == {"agent.exec", "agent.ping", "agent.terminal.request",
            "agent.message", "agent.event"}

(***************************************************************************)
(* An id is a JSON string, a JSON number or absent.  A string id is read   *)
(* as the decimal number it starts with ("value", 0 when there is none)    *)
(* and the text that follows it ("suffix").                                *)
(***************************************************************************)
EventType == [kind : {"string", "number", "none"}, value : Int,
              suffix : STRING, method : STRING]

ASSUME EventAssumption ==
  /\ Event \subseteq EventType /\ Event # {}
  /\ \A e \in Event : e.kind # "string" => e.suffix = ""
ASSUME BoundAssumption ==
  /\ IntHalf \in Nat \ {0} /\ SeenMax \in Nat \ {0} /\ AckMax \in Nat \ {0}
  /\ ReportMax \in Nat /\ FrameMax \in Nat /\ FaultMax \in Nat
  /\ LogMax \in Nat /\ SeenMax < LogMax

VARIABLES
  seen,        \* v2_state.seen_events, oldest first
  acks,        \* v2_state.ack_ids, oldest first
  connected,   \* client->connected
  recvPc,      \* where the receive thread is in ws_handle_v2_event
  cur, dup,    \* the event it handles, and is_duplicate
  repPc,       \* where the report thread is in its cycle
  snap,        \* ack_buf of the cycle under way
  panelAcked,  \* ids the panel has read in reports
  processed,   \* events dispatched at least once, over all restarts
  log,         \* the latest keys accepted as new, in order, in this life
  oom,         \* an allocation of the seen list failed in this life
  frames, faults

recvVars  == <<recvPc, cur, dup, seen, processed, log, oom>>
repVars   == <<repPc, snap, panelAcked>>
vars == <<recvVars, repVars, acks, connected, frames, faults>>

-----------------------------------------------------------------------------
RangeOf(s) == {s[i] : i \in DOMAIN s}
Front(s)   == SubSeq(s, 1, Len(s) - 1)

(* (int)val: the low bits of a long, as two's complement. *)
ToInt(v) == ((v + IntHalf) % (2 * IntHalf)) - IntHalf

Suffix == {e.suffix : e \in Event} \cup {""}
Key    == Int \X Suffix
NoKey  == <<0, "">>

(* The value of the handler's locals outside the handler. *)
AnyEvent == CHOOSE e \in Event : TRUE

(* The text an event is deduplicated by; a number is printed in decimal. *)
KeyOf(e) == IF e.kind = "none" \/ (e.kind = "number" /\ e.value <= 0)
            THEN NoKey ELSE <<e.value, e.suffix>>

(* The id to acknowledge, 0 or less for none: strtol stops at the first
   character that is no digit and the result is narrowed to int. *)
AckOf(e) == IF e.kind # "none" /\ e.value > 0 THEN ToInt(e.value) ELSE 0

Known(e) == e.method \in Methods

(* Both lists drop their oldest entry when they are full. *)
MakeRoomOffByOne(s, max) == IF Len(s) > max THEN Tail(s) ELSE s
MakeRoom(s, max) == IF Len(s) >= max THEN Tail(s) ELSE s

AddSeenNewestOut(s, k) == Append(IF Len(s) >= SeenMax THEN Front(s) ELSE s, k)
AddSeen(s, k) == Append(MakeRoom(s, SeenMax), k)
AddAck(s, n)  == Append(MakeRoom(s, AckMax), n)

(* The panel matches an acknowledged number with the event of that id. *)
Retired(e) == e.kind # "none" /\ e.suffix = "" /\ e.value \in panelAcked

-----------------------------------------------------------------------------
Init ==
  /\ seen = <<>> /\ acks = <<>> /\ connected = TRUE
  /\ recvPc = "idle" /\ cur = AnyEvent /\ dup = FALSE
  /\ repPc = "idle" /\ snap = <<>>
  /\ panelAcked = {} /\ processed = {} /\ log = <<>> /\ oom = FALSE
  /\ frames = 0 /\ faults = 0

Fault == faults < FaultMax /\ faults' = faults + 1

(* A frame with event e arrives, for the first time, again, or late (a copy
   under way when the event was retired): the receive thread checks the seen
   list and records a new id.  The allocations for that may fail; the event
   then counts as new all the same. *)
Receive(e) ==
  /\ recvPc = "idle" /\ connected
  /\ frames < FrameMax /\ frames' = frames + 1
  /\ dup' = (KeyOf(e) # NoKey /\ KeyOf(e) \in RangeOf(seen))
  /\ \E late, failed \in {0, 1} :
       /\ late = 1 <=> Retired(e)
       /\ faults' = faults + late + failed /\ faults' <= FaultMax
       /\ IF KeyOf(e) = NoKey \/ dup'
          THEN failed = 0 /\ UNCHANGED <<seen, log, oom>>
          ELSE /\ log' = Append(MakeRoom(log, LogMax), KeyOf(e))
               /\ oom' = (oom \/ failed = 1)
               /\ seen' = IF failed = 1 THEN MakeRoom(seen, SeenMax)
                                        ELSE AddSeen(seen, KeyOf(e))
  /\ cur' = e /\ recvPc' = "dispatch"
  /\ UNCHANGED <<processed, repVars, acks, connected>>

(* The handler runs, on this thread, for a new event of a known method. *)
Dispatch ==
  /\ recvPc = "dispatch" /\ recvPc' = "ack"
  /\ processed' = IF ~dup /\ Known(cur) THEN processed \cup {cur} ELSE processed
  /\ UNCHANGED <<cur, dup, seen, log, oom, repVars, acks, connected, frames, faults>>

(* v2_add_ack_event, for a duplicate or a processed event with a usable id;
   a failed allocation leaves the list as it is. *)
AcknowledgeNewOnly ==
  /\ recvPc = "ack" /\ recvPc' = "idle"
  /\ IF AckOf(cur) > 0 /\ ~dup /\ Known(cur)
     THEN \/ acks' = AddAck(acks, AckOf(cur)) /\ UNCHANGED faults
          \/ acks' = acks /\ Len(acks) < AckMax /\ Fault
     ELSE UNCHANGED <<acks, faults>>
  /\ cur' = AnyEvent /\ dup' = FALSE
  /\ UNCHANGED <<seen, processed, log, oom, repVars, connected, frames>>
Acknowledge ==
  /\ recvPc = "ack" /\ recvPc' = "idle"
  /\ IF AckOf(cur) > 0 /\ (dup \/ Known(cur))
     THEN \/ acks' = AddAck(acks, AckOf(cur)) /\ UNCHANGED faults
          \/ acks' = acks /\ Len(acks) < AckMax /\ Fault
     ELSE UNCHANGED <<acks, faults>>
  /\ cur' = AnyEvent /\ dup' = FALSE
  /\ UNCHANGED <<seen, processed, log, oom, repVars, connected, frames>>

(* v2_snapshot_ack_ids at the start of a report cycle. *)
Snapshot ==
  /\ repPc = "idle" /\ connected
  /\ snap' = SubSeq(acks, 1, IF Len(acks) < AckMax THEN Len(acks) ELSE AckMax)
  /\ repPc' = "send" /\ frames' = 0
  /\ UNCHANGED <<recvVars, panelAcked, acks, connected, faults>>

(* The report does not fit its buffer, or the connection is gone: the cycle
   ends without sending or clearing anything. *)
SkipReport ==
  /\ repPc = "send" /\ (Len(snap) > ReportMax \/ ~connected)
  /\ repPc' = "idle"
  /\ UNCHANGED <<recvVars, snap, panelAcked, acks, connected, frames, faults>>

(* The report is sent; bytes in flight may still be lost with the connection. *)
SendReport ==
  /\ repPc = "send" /\ connected /\ Len(snap) <= ReportMax
  /\ \/ panelAcked' = panelAcked \cup RangeOf(snap) /\ UNCHANGED faults
     \/ UNCHANGED panelAcked /\ Fault
  /\ repPc' = IF Len(snap) > 0 THEN "clear" ELSE "idle"
  /\ UNCHANGED <<recvVars, snap, acks, connected, frames>>

SendFails ==
  /\ repPc = "send" /\ connected /\ Len(snap) <= ReportMax
  /\ Fault /\ repPc' = "disconnect"
  /\ UNCHANGED <<recvVars, snap, panelAcked, acks, connected, frames>>

(* ws_client_disconnect joins the receive thread before it returns. *)
Disconnect ==
  /\ repPc = "disconnect" /\ recvPc = "idle"
  /\ connected' = FALSE /\ repPc' = "idle"
  /\ UNCHANGED <<recvVars, snap, panelAcked, acks, frames, faults>>

(* v2_clear_acks empties the whole list. *)
ClearAcks ==
  /\ repPc = "clear" /\ acks' = <<>> /\ repPc' = "idle"
  /\ UNCHANGED <<recvVars, snap, panelAcked, connected, frames, faults>>

(* The receive thread finds the connection closed or silent. *)
ConnectionLost ==
  /\ connected /\ recvPc = "idle" /\ Fault /\ connected' = FALSE
  /\ UNCHANGED <<recvVars, repVars, acks, frames>>

(* The report thread reconnects; the v2 state survives a reconnection. *)
Reconnect ==
  /\ ~connected /\ repPc = "idle" /\ connected' = TRUE
  /\ UNCHANGED <<recvVars, repVars, acks, frames, faults>>

(* The agent process restarts: nothing of the v2 state is persistent. *)
RestartKeepingSeen ==
  /\ Fault /\ connected' = TRUE
  /\ acks' = <<>> /\ log' = <<>> /\ oom' = FALSE
  /\ recvPc' = "idle" /\ repPc' = "idle" /\ snap' = <<>> /\ frames' = 0
  /\ cur' = AnyEvent /\ dup' = FALSE
  /\ UNCHANGED <<seen, panelAcked, processed>>
Restart ==
  /\ Fault /\ connected' = TRUE
  /\ seen' = <<>> /\ acks' = <<>> /\ log' = <<>> /\ oom' = FALSE
  /\ recvPc' = "idle" /\ repPc' = "idle" /\ snap' = <<>> /\ frames' = 0
  /\ cur' = AnyEvent /\ dup' = FALSE
  /\ UNCHANGED <<panelAcked, processed>>

Next ==
  \/ \E e \in Event : Receive(e)
  \/ Dispatch \/ Acknowledge
  \/ Snapshot \/ SkipReport \/ SendReport \/ SendFails \/ Disconnect \/ ClearAcks
  \/ ConnectionLost \/ Reconnect \/ Restart

Spec == Init /\ [][Next]_vars

(* Threads keep running; the panel keeps retransmitting what it has not seen
   acknowledged, and its retransmissions are not locked to the report cycle:
   they also arrive, and are acknowledged, while the report thread sleeps
   (for whole seconds, where a report takes milliseconds). *)
Fairness ==
  /\ WF_vars(Dispatch) /\ WF_vars(Acknowledge)
  /\ WF_vars(Snapshot) /\ WF_vars(SkipReport) /\ WF_vars(SendReport)
  /\ WF_vars(Disconnect) /\ WF_vars(ClearAcks) /\ WF_vars(Reconnect)
  /\ \A e \in Event : /\ SF_vars(repPc = "idle" /\ ~Retired(e) /\ Receive(e))
                       /\ SF_vars(repPc = "idle" /\ cur = e /\ Acknowledge)

FairSpec == Spec /\ Fairness

-----------------------------------------------------------------------------
(* The types, and the capacity limits of the two lists. *)
TypeOK ==
  /\ seen \in Seq(Key) /\ Len(seen) <= SeenMax
  /\ acks \in Seq(Int) /\ Len(acks) <= AckMax
  /\ connected \in BOOLEAN /\ dup \in BOOLEAN /\ oom \in BOOLEAN
  /\ recvPc \in {"idle", "dispatch", "ack"} /\ cur \in Event
  /\ repPc \in {"idle", "send", "clear", "disconnect"}
  /\ snap \in Seq(Int) /\ Len(snap) <= AckMax
  /\ panelAcked \subseteq Int /\ processed \subseteq Event
  /\ log \in Seq(Key) /\ Len(log) <= LogMax
  /\ frames \in 0..FrameMax /\ faults \in 0..FaultMax

(* Within one life of the process an event is accepted again only when more
   than SeenMax other acceptances lie in between: eviction of the oldest id is
   the only way a command runs twice (v2_add_seen_event's sliding window). *)
NoReplayInWindow ==
  ~oom => \A i, j \in DOMAIN log : i < j /\ log[i] = log[j] => j - i > SeenMax

(* Events whose id no other event's id can be taken for. *)
Unaliased(e) ==
  /\ e.kind # "none" /\ e.suffix = "" /\ AckOf(e) = e.value
  /\ \A f \in Event \ {e} : AckOf(f) # AckOf(e) /\ KeyOf(f) # KeyOf(e)

(* The panel stops retransmitting a command only after the agent dispatched
   it: an id in the seen list, the ACK list, a snapshot or a report on its
   way belongs to a processed event, through drops and restarts. *)
RetiredWasProcessed ==
  \A e \in Event : Known(e) /\ Unaliased(e) /\ Retired(e) => e \in processed

Command == {e \in Event : Known(e) /\ Unaliased(e)}

Delivery == INSTANCE EventDelivery WITH
  executed <- processed \cap Command,
  promised <- {e \in Command : AckOf(e) \in RangeOf(acks) \cup RangeOf(snap)},
  retired  <- {e \in Command : Retired(e)}

(* Through evictions, snapshots that are older than the list they clear, lost
   reports and restarts the lists stay what the panel relies on: a command is
   dispatched, then queued for its report, then retired, and what is retired
   stays so. *)
ImplementsDelivery == Delivery!Spec

(* With finitely many faults every command is dispatched and acknowledged,
   although ClearAcks discards ids queued since the snapshot and a full list
   drops its oldest id: the retransmission is acknowledged again. *)
EventuallyRetired ==
  \A e \in Event : Known(e) /\ Unaliased(e) /\ AckOf(e) > 0 => <>Retired(e)

(* main.c:771 sizes the snapshot "so the full pending ACK set is reported in
   a single cycle".  8192 bytes do not hold 1024 ids of seven digits: the
   report is not generated, nothing is cleared and the next cycle is no better. *)
ReportAlwaysFits == repPc = "send" => Len(snap) <= ReportMax
=============================================================================
