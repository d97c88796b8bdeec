--------------------------- MODULE V2EventsProofs ---------------------------
(***************************************************************************)
(* Theorems about V2Events, for every set of events and all the limits.    *)
(***************************************************************************)
EXTENDS V2Events, TLAPS

(* A list keeps its limit when an entry is appended after MakeRoom. *)
LEMMA MakeRoomSeq ==
  ASSUME NEW T, NEW s \in Seq(T), NEW x \in T, NEW m \in Nat \ {0}, Len(s) <= m
  PROVE  /\ MakeRoom(s, m) \in Seq(T)
         /\ Len(MakeRoom(s, m)) < m
         /\ Len(MakeRoom(s, m)) = IF Len(s) >= m THEN Len(s) - 1 ELSE Len(s)
         /\ \A i \in 1..Len(MakeRoom(s, m)) :
              MakeRoom(s, m)[i] = s[Len(s) - Len(MakeRoom(s, m)) + i]
         /\ RangeOf(MakeRoom(s, m)) \subseteq RangeOf(s)
         /\ Append(MakeRoom(s, m), x) \in Seq(T)
         /\ Len(Append(MakeRoom(s, m), x)) = Len(MakeRoom(s, m)) + 1
<1>1. CASE Len(s) >= m
  <2>1. s # <<>> /\ MakeRoom(s, m) = Tail(s)
    BY <1>1 DEF MakeRoom
  <2>2. Tail(s) \in Seq(T) /\ Len(Tail(s)) = Len(s) - 1
    BY <2>1
  <2>3. \A i \in 1..Len(Tail(s)) : Tail(s)[i] = s[i + 1] /\ i + 1 \in 1..Len(s)
    BY <2>1, <2>2
  <2>4. RangeOf(Tail(s)) \subseteq RangeOf(s)
    BY <2>2, <2>3 DEF RangeOf
  <2> QED
    BY <1>1, <2>1, <2>2, <2>3, <2>4
<1>2. CASE Len(s) < m
  <2>1. MakeRoom(s, m) = s
    BY <1>2 DEF MakeRoom
  <2> QED
    BY <1>2, <2>1
<1> QED
  BY <1>1, <1>2

(* What an append adds to the members of a list. *)
LEMMA RangeAppend ==
  ASSUME NEW T, NEW s \in Seq(T), NEW x \in T
  PROVE  RangeOf(Append(s, x)) = RangeOf(s) \cup {x}
<1>1. DOMAIN Append(s, x) = 1..(Len(s) + 1) /\ DOMAIN s = 1..Len(s)
  OBVIOUS
<1>2. \A i \in 1..Len(s) : Append(s, x)[i] = s[i]
  OBVIOUS
<1>3. Append(s, x)[Len(s) + 1] = x
  OBVIOUS
<1> QED
  BY <1>1, <1>2, <1>3 DEF RangeOf

(* The empty list has no members; the front of a list has no others. *)
LEMMA RangeEmpty == RangeOf(<<>>) = {}
  BY DEF RangeOf

LEMMA RangeFront ==
  ASSUME NEW T, NEW s \in Seq(T), NEW n \in 0..Len(s)
  PROVE  RangeOf(SubSeq(s, 1, n)) \subseteq RangeOf(s)
<1>1. DOMAIN SubSeq(s, 1, n) = 1..n /\ \A i \in 1..n : SubSeq(s, 1, n)[i] = s[i]
  OBVIOUS
<1>2. DOMAIN s = 1..Len(s)
  OBVIOUS
<1> QED
  BY <1>1, <1>2 DEF RangeOf

(* Ids and keys are what the lists hold. *)
LEMMA IdTypes ==
  ASSUME NEW e \in Event
  PROVE  AckOf(e) \in Int /\ KeyOf(e) \in Key
<1>1. e.value \in Int /\ e.suffix \in Suffix
  BY EventAssumption DEF EventAssumption, EventType, Suffix
<1>2. ToInt(e.value) \in Int
  BY <1>1, BoundAssumption DEF ToInt, BoundAssumption
<1>3. AckOf(e) \in Int
  BY <1>2 DEF AckOf
<1>4. 0 \in Int
  OBVIOUS
<1>5. <<e.value, e.suffix>> \in Key /\ NoKey \in Key
  <2>1. "" \in Suffix
    BY DEF Suffix
  <2>2. <<e.value, e.suffix>> \in Key
    BY <1>1 DEF Key
  <2>3. NoKey \in Key
    BY <2>1, <1>4, Zenon DEF NoKey, Key
  <2> QED
    BY <2>2, <2>3
<1>6. KeyOf(e) \in Key
  BY <1>5 DEF KeyOf
<1> QED
  BY <1>3, <1>6

(* The handler's locals hold an event outside the handler too. *)
LEMMA AnyEventType == AnyEvent \in Event
  BY EventAssumption DEF EventAssumption, AnyEvent

-----------------------------------------------------------------------------
(* Base case and step of the type invariant. *)
LEMMA InitTypeOK == Init => TypeOK
<1> SUFFICES ASSUME Init PROVE TypeOK
  OBVIOUS
<1> USE BoundAssumption DEF Init, BoundAssumption
<1>1. seen \in Seq(Key) /\ Len(seen) <= SeenMax
  OBVIOUS
<1>2. acks \in Seq(Int) /\ Len(acks) <= AckMax
  OBVIOUS
<1>3. snap \in Seq(Int) /\ Len(snap) <= AckMax
  OBVIOUS
<1>4. log \in Seq(Key) /\ Len(log) <= LogMax
  OBVIOUS
<1>5. frames \in 0..FrameMax /\ faults \in 0..FaultMax
  OBVIOUS
<1> QED
  BY <1>1, <1>2, <1>3, <1>4, <1>5, AnyEventType DEF TypeOK

LEMMA NextTypeOK == TypeOK /\ [Next]_vars => TypeOK'
<1> SUFFICES ASSUME TypeOK, [Next]_vars PROVE TypeOK'
  OBVIOUS
<1> USE BoundAssumption DEF TypeOK, BoundAssumption
<1>1. ASSUME NEW e \in Event, Receive(e) PROVE TypeOK'
  <2>1. KeyOf(e) \in Key
    BY IdTypes
  <2>2. seen' \in Seq(Key) /\ Len(seen') <= SeenMax
    <3>1. /\ MakeRoom(seen, SeenMax) \in Seq(Key)
          /\ Len(MakeRoom(seen, SeenMax)) < SeenMax
          /\ AddSeen(seen, KeyOf(e)) \in Seq(Key)
          /\ Len(AddSeen(seen, KeyOf(e))) = Len(MakeRoom(seen, SeenMax)) + 1
      BY <2>1, MakeRoomSeq DEF AddSeen
    <3>2. seen' \in {seen, MakeRoom(seen, SeenMax), AddSeen(seen, KeyOf(e))}
      BY <1>1 DEF Receive
    <3> QED
      BY <3>1, <3>2
  <2>3. log' \in Seq(Key) /\ Len(log') <= LogMax
    <3>1. log' \in {log, Append(MakeRoom(log, LogMax), KeyOf(e))}
      BY <1>1 DEF Receive
    <3>2. LogMax \in Nat \ {0}
      OBVIOUS
    <3>3. /\ Append(MakeRoom(log, LogMax), KeyOf(e)) \in Seq(Key)
          /\ Len(Append(MakeRoom(log, LogMax), KeyOf(e))) <= LogMax
      BY <2>1, <3>2, MakeRoomSeq
    <3> QED
      BY <3>1, <3>3
  <2>4. frames' \in 0..FrameMax /\ faults' \in 0..FaultMax
    BY <1>1 DEF Receive
  <2>5. dup' \in BOOLEAN /\ oom' \in BOOLEAN
    <3>1. dup' \in BOOLEAN
      BY <1>1, Zenon DEF Receive
    <3>2. oom' \in BOOLEAN
      BY <1>1, Zenon DEF Receive
    <3> QED BY <3>1, <3>2
  <2> QED
    BY <1>1, <2>2, <2>3, <2>4, <2>5 DEF Receive, repVars
<1>2. CASE Dispatch
  BY <1>2 DEF Dispatch, repVars
<1>3. CASE Acknowledge
  <2>1. acks' \in Seq(Int) /\ Len(acks') <= AckMax
    <3>1. acks' \in {acks, AddAck(acks, AckOf(cur))}
      BY <1>3 DEF Acknowledge
    <3>2. /\ Len(MakeRoom(acks, AckMax)) < AckMax
          /\ AddAck(acks, AckOf(cur)) \in Seq(Int)
          /\ Len(AddAck(acks, AckOf(cur))) = Len(MakeRoom(acks, AckMax)) + 1
          /\ MakeRoom(acks, AckMax) \in Seq(Int)
      BY IdTypes, MakeRoomSeq DEF AddAck
    <3> QED
      BY <3>1, <3>2
  <2>2. faults' \in 0..FaultMax
    BY <1>3 DEF Acknowledge, Fault
  <2> QED
    BY <1>3, <2>1, <2>2, AnyEventType DEF Acknowledge, repVars
<1>4. CASE Snapshot
  <2>1. snap' \in Seq(Int) /\ Len(snap') <= AckMax
    BY <1>4 DEF Snapshot
  <2> QED
    BY <1>4, <2>1 DEF Snapshot, recvVars
<1>5. CASE SkipReport
  BY <1>5 DEF SkipReport, recvVars
<1>6. CASE SendReport
  <2>1. RangeOf(snap) \subseteq Int
    BY DEF RangeOf
  <2>2. panelAcked' \subseteq Int
    BY <1>6, <2>1 DEF SendReport
  <2>3. faults' \in 0..FaultMax
    BY <1>6 DEF SendReport, Fault
  <2> QED
    BY <1>6, <2>2, <2>3 DEF SendReport, recvVars
<1>7. CASE SendFails
  BY <1>7 DEF SendFails, Fault, recvVars
<1>8. CASE Disconnect
  BY <1>8 DEF Disconnect, recvVars
<1>9. CASE ClearAcks
  BY <1>9 DEF ClearAcks, recvVars
<1>10. CASE ConnectionLost
  <2>1. faults' \in 0..FaultMax
    BY <1>10 DEF ConnectionLost, Fault
  <2> QED
    BY <1>10, <2>1 DEF ConnectionLost, recvVars, repVars
<1>11. CASE Reconnect
  BY <1>11 DEF Reconnect, recvVars, repVars
<1>12. CASE Restart
  <2>1. faults' \in 0..FaultMax /\ frames' \in 0..FrameMax
    BY <1>12 DEF Restart, Fault
  <2>2. /\ seen' \in Seq(Key) /\ Len(seen') <= SeenMax
        /\ log' \in Seq(Key) /\ Len(log') <= LogMax
    BY <1>12 DEF Restart
  <2>3. /\ acks' \in Seq(Int) /\ Len(acks') <= AckMax
        /\ snap' \in Seq(Int) /\ Len(snap') <= AckMax
    BY <1>12 DEF Restart
  <2> QED
    BY <1>12, <2>1, <2>2, <2>3, AnyEventType DEF Restart
<1>13. CASE UNCHANGED vars
  BY <1>13 DEF vars, recvVars, repVars
<1> QED
  BY <1>1, <1>2, <1>3, <1>4, <1>5, <1>6, <1>7, <1>8, <1>9, <1>10, <1>11, <1>12,
     <1>13 DEF Next

(* The lists never exceed V2_SEEN_EVENTS_MAX and V2_ACK_IDS_MAX, and the
   threads stay in their loops, whatever the panel sends. *)
THEOREM TypeCorrect == Spec => []TypeOK
  BY InitTypeOK, NextTypeOK, PTL DEF Spec

-----------------------------------------------------------------------------
(* What WindowInv says of a seen list "s" and a log "h". *)
Window(s, h) ==
  /\ Len(s) = Len(h) \/ (Len(s) = SeenMax /\ SeenMax <= Len(h))
  /\ \A i \in 1..Len(s) : s[i] = h[Len(h) - Len(s) + i]
  /\ \A i, j \in 1..Len(h) : i < j /\ h[i] = h[j] => j - i > SeenMax

(* It survives when the log forgets its oldest entry to make room. *)
LEMMA WindowTrim ==
  ASSUME NEW s \in Seq(Key), NEW h \in Seq(Key), Window(s, h), Len(s) <= SeenMax,
         Len(h) <= LogMax
  PROVE  /\ MakeRoom(h, LogMax) \in Seq(Key)
         /\ Window(s, MakeRoom(h, LogMax))
<1> USE BoundAssumption DEF BoundAssumption
<1>1. CASE Len(h) < LogMax
  BY <1>1 DEF MakeRoom
<1>2. CASE Len(h) = LogMax
  <2> DEFINE t == Tail(h)
  <2>1. MakeRoom(h, LogMax) = t
    BY <1>2 DEF MakeRoom
  <2>2. t \in Seq(Key) /\ Len(t) = Len(h) - 1 /\ \A i \in 1..Len(t) : t[i] = h[i + 1]
    BY <1>2
  <2>3. Len(s) = SeenMax /\ SeenMax <= Len(t)
    BY <1>2, <2>2 DEF Window
  <2> HIDE DEF t
  <2>4. ASSUME NEW i \in 1..Len(s) PROVE s[i] = t[Len(t) - Len(s) + i]
    <3>1. Len(t) - Len(s) + i \in 1..Len(t)
      BY <2>2, <2>3
    <3>2. Len(t) - Len(s) + i + 1 = Len(h) - Len(s) + i
      BY <2>2
    <3>3. s[i] = h[Len(h) - Len(s) + i]
      BY DEF Window
    <3> QED
      BY <2>2, <3>1, <3>2, <3>3
  <2>5. ASSUME NEW i \in 1..Len(t), NEW j \in 1..Len(t), i < j, t[i] = t[j]
        PROVE  j - i > SeenMax
    <3>1. i + 1 \in 1..Len(h) /\ j + 1 \in 1..Len(h) /\ i + 1 < j + 1
      BY <2>2, <2>5
    <3>2. h[i + 1] = h[j + 1]
      BY <2>2, <2>5
    <3>3. (j + 1) - (i + 1) > SeenMax
      BY <3>1, <3>2 DEF Window
    <3> QED
      BY <3>3
  <2> QED
    BY <2>1, <2>2, <2>3, <2>4, <2>5 DEF Window
<1> QED
  BY <1>1, <1>2

(* It survives when the same new key is appended to both. *)
LEMMA WindowAppend ==
  ASSUME NEW s \in Seq(Key), NEW h \in Seq(Key), NEW k \in Key, Window(s, h),
         Len(s) <= SeenMax, k \notin RangeOf(s)
  PROVE  Window(AddSeen(s, k), Append(h, k))
<1> DEFINE m == MakeRoom(s, SeenMax)  s2 == Append(m, k)  h2 == Append(h, k)
<1>0. SeenMax \in Nat \ {0} /\ AddSeen(s, k) = s2
  BY BoundAssumption DEF BoundAssumption, AddSeen
<1>1. /\ m \in Seq(Key) /\ Len(s2) = Len(m) + 1 /\ Len(m) \in Nat
      /\ Len(m) = IF Len(s) >= SeenMax THEN Len(s) - 1 ELSE Len(s)
      /\ \A i \in 1..Len(m) : m[i] = s[Len(s) - Len(m) + i]
  BY <1>0, MakeRoomSeq
<1>2. /\ \A i \in 1..Len(m) : s2[i] = m[i]
      /\ s2[Len(m) + 1] = k
  BY <1>1
<1>3. /\ Len(h2) = Len(h) + 1 /\ h2[Len(h) + 1] = k
      /\ \A i \in 1..Len(h) : h2[i] = h[i]
  OBVIOUS
<1>4. /\ Len(s) = Len(h) \/ (Len(s) = SeenMax /\ SeenMax <= Len(h))
      /\ \A i \in 1..Len(s) : s[i] = h[Len(h) - Len(s) + i]
      /\ \A i, j \in 1..Len(h) : i < j /\ h[i] = h[j] => j - i > SeenMax
  BY DEF Window
<1> HIDE DEF m, s2, h2
<1>5. Len(s2) = Len(h2) \/ (Len(s2) = SeenMax /\ SeenMax <= Len(h2))
  BY <1>0, <1>1, <1>3, <1>4
<1>6. ASSUME NEW i \in 1..Len(s2)
      PROVE  s2[i] = h2[Len(h2) - Len(s2) + i]
  <2>1. CASE i = Len(m) + 1
    <3>1. Len(h2) - Len(s2) + i = Len(h) + 1
      <4>1. Len(s2) = i /\ Len(h2) = Len(h) + 1 /\ i \in Int /\ Len(h) \in Int
        BY <1>1, <1>3, <2>1
      <4> QED
        BY <4>1
    <3> QED
      BY <1>2, <1>3, <2>1, <3>1
  <2>2. CASE i \in 1..Len(m)
    <3>1. Len(s) - Len(m) + i \in 1..Len(s)
      BY <1>0, <1>1, <2>2
    <3>2. m[i] = h[Len(h) - Len(s) + (Len(s) - Len(m) + i)]
      BY <1>1, <1>4, <2>2, <3>1
    <3>3. /\ Len(h) - Len(s) + (Len(s) - Len(m) + i) = Len(h2) - Len(s2) + i
          /\ Len(h2) - Len(s2) + i \in 1..Len(h)
      BY <1>0, <1>1, <1>3, <1>4, <2>2
    <3> QED
      BY <1>2, <1>3, <2>2, <3>2, <3>3
  <2> QED
    BY <1>1, <2>1, <2>2
<1>7. ASSUME NEW i \in 1..Len(h2), NEW j \in 1..Len(h2), i < j, h2[i] = h2[j]
      PROVE  j - i > SeenMax
  <2>1. CASE j \in 1..Len(h)
    BY <1>3, <1>4, <1>7, <2>1
  <2>2. CASE j = Len(h) + 1
    <3>1. i \in 1..Len(h) /\ h[i] = k
      BY <1>3, <1>7, <2>2
    <3>2. ASSUME i > Len(h) - Len(s) PROVE FALSE
      <4>1. i - (Len(h) - Len(s)) \in 1..Len(s)
        BY <3>1, <3>2, <1>4
      <4>2. Len(h) - Len(s) + (i - (Len(h) - Len(s))) = i
        BY <3>1
      <4>3. s[i - (Len(h) - Len(s))] = h[i]
        BY <1>4, <4>1, <4>2
      <4> QED
        BY <3>1, <4>1, <4>3 DEF RangeOf
    <3> QED
      BY <1>0, <1>4, <2>2, <3>1, <3>2
  <2> QED
    BY <1>3, <2>1, <2>2
<1> QED
  BY <1>0, <1>5, <1>6, <1>7 DEF Window, h2

(* While no allocation failed the seen list is the end of the log, all of it
   or its last SeenMax entries, and equal entries of the log are far apart. *)
WindowInv == ~oom => Window(seen, log)

(* Base case and step of that invariant. *)
LEMMA InitWindow == Init => WindowInv
  BY DEF Init, WindowInv, Window

LEMMA ReceiveWindow ==
  ASSUME TypeOK, WindowInv, NEW e \in Event, Receive(e)
  PROVE  WindowInv'
<1> DEFINE k == KeyOf(e)  h == MakeRoom(log, LogMax)
<1>1. seen \in Seq(Key) /\ log \in Seq(Key) /\ k \in Key
      /\ Len(seen) <= SeenMax /\ Len(log) <= LogMax
  BY IdTypes DEF TypeOK
<1>2. CASE UNCHANGED <<seen, log, oom>>
  BY <1>2 DEF WindowInv
<1>3. CASE /\ ~oom' /\ ~oom /\ k \notin RangeOf(seen)
           /\ log' = Append(h, k) /\ seen' = AddSeen(seen, k)
  <2>1. h \in Seq(Key) /\ Window(seen, h)
    BY <1>1, <1>3, WindowTrim DEF WindowInv
  <2> HIDE DEF k, h
  <2>2. Window(AddSeen(seen, k), Append(h, k))
    BY <1>1, <1>3, <2>1, WindowAppend
  <2> QED
    BY <1>3, <2>2 DEF WindowInv
<1>4. CASE oom'
  BY <1>4 DEF WindowInv
<1>5. \/ UNCHANGED <<seen, log, oom>>
      \/ oom'
      \/ /\ ~oom' /\ ~oom /\ k \notin RangeOf(seen)
         /\ log' = Append(h, k) /\ seen' = AddSeen(seen, k)
  BY DEF Receive
<1> QED
  BY <1>2, <1>3, <1>4, <1>5

LEMMA NextWindow == TypeOK /\ WindowInv /\ [Next]_vars => WindowInv'
<1> SUFFICES ASSUME TypeOK, WindowInv, [Next]_vars PROVE WindowInv'
  OBVIOUS
<1>1. ASSUME NEW e \in Event, Receive(e) PROVE WindowInv'
  BY <1>1, ReceiveWindow
<1>2. CASE Restart
  BY <1>2 DEF Restart, WindowInv, Window
<1>3. CASE UNCHANGED <<seen, log, oom>>
  BY <1>3 DEF WindowInv, Window
<1>4. CASE Dispatch \/ Acknowledge
  BY <1>3, <1>4 DEF Dispatch, Acknowledge
<1>5. CASE \/ Snapshot \/ SkipReport \/ SendReport \/ SendFails \/ Disconnect
           \/ ClearAcks \/ ConnectionLost \/ Reconnect
  BY <1>3, <1>5 DEF Snapshot, SkipReport, SendReport, SendFails, Disconnect,
     ClearAcks, ConnectionLost, Reconnect, recvVars
<1>6. CASE UNCHANGED vars
  BY <1>3, <1>6 DEF vars, recvVars
<1> QED
  BY <1>1, <1>2, <1>4, <1>5, <1>6 DEF Next

(* However long the agent runs and whatever its limits are, a command runs a
   second time only after SeenMax other ids were accepted in between. *)
THEOREM NoReplay == Spec => []NoReplayInWindow
<1>1. TypeOK /\ WindowInv => NoReplayInWindow
  <2>1. TypeOK => DOMAIN log = 1..Len(log)
    BY DEF TypeOK
  <2> QED
    BY <2>1 DEF WindowInv, Window, NoReplayInWindow
<1> QED
  BY <1>1, InitTypeOK, NextTypeOK, InitWindow, NextWindow, PTL DEF Spec

-----------------------------------------------------------------------------
Good(e) == Known(e) /\ Unaliased(e)

(* An event is recorded as seen before it is dispatched.  So a seen event is
   processed, or is being dispatched for the first time; and wherever its
   acknowledgement is on its way to the panel, the event is processed. *)
SeenInv ==
  \A e \in Event : Good(e) =>
    /\ KeyOf(e) \in RangeOf(seen) =>
         e \in processed \/ (recvPc = "dispatch" /\ cur = e /\ ~dup)
    /\ recvPc = "dispatch" /\ dup /\ cur = e => e \in processed
    /\ recvPc = "ack" /\ cur = e => e \in processed
AckInv ==
  \A e \in Event : Good(e) /\ AckOf(e) \in RangeOf(acks) \cup RangeOf(snap) \cup panelAcked
    => e \in processed
DeliveryInv == SeenInv /\ AckInv

(* Base case and, below, the steps of that invariant. *)
LEMMA InitDelivery == Init => DeliveryInv
  BY DEF Init, DeliveryInv, SeenInv, AckInv, RangeOf

(* Two events of which one is Good have different keys and different ids. *)
LEMMA GoodUnique ==
  ASSUME NEW e \in Event, Good(e), NEW f \in Event,
         KeyOf(f) = KeyOf(e) \/ AckOf(f) = AckOf(e)
  PROVE  f = e
  BY DEF Good, Unaliased

LEMMA ReceiveDelivery ==
  ASSUME TypeOK, DeliveryInv, NEW f \in Event, Receive(f)
  PROVE  DeliveryInv'
<1>1. /\ recvPc = "idle" /\ recvPc' = "dispatch" /\ cur' = f
      /\ UNCHANGED <<processed, acks, snap, panelAcked>>
      /\ dup' => KeyOf(f) \in RangeOf(seen)
  BY DEF Receive, repVars
<1>2. RangeOf(seen') \subseteq RangeOf(seen) \cup (IF dup' THEN {} ELSE {KeyOf(f)})
  <2>1. seen \in Seq(Key) /\ KeyOf(f) \in Key /\ SeenMax \in Nat \ {0} /\ Len(seen) <= SeenMax
    BY IdTypes, BoundAssumption DEF TypeOK, BoundAssumption
  <2>2. RangeOf(AddSeen(seen, KeyOf(f))) \subseteq RangeOf(seen) \cup {KeyOf(f)}
    BY <2>1, MakeRoomSeq, RangeAppend DEF AddSeen
  <2>3. RangeOf(MakeRoom(seen, SeenMax)) \subseteq RangeOf(seen)
    BY <2>1, MakeRoomSeq
  <2>4. \/ seen' = seen
        \/ ~dup' /\ seen' \in {MakeRoom(seen, SeenMax), AddSeen(seen, KeyOf(f))}
    BY DEF Receive
  <2> QED
    BY <2>2, <2>3, <2>4
<1>3. ASSUME NEW e \in Event, Good(e)
      PROVE  /\ KeyOf(e) \in RangeOf(seen') => e \in processed \/ (cur' = e /\ ~dup')
             /\ dup' /\ cur' = e => e \in processed
  <2>1. KeyOf(e) \in RangeOf(seen) => e \in processed
    BY <1>1, <1>3 DEF DeliveryInv, SeenInv
  <2>2. CASE KeyOf(e) = KeyOf(f) /\ ~dup'
    BY <1>1, <1>3, <2>2, GoodUnique
  <2>3. CASE KeyOf(e) \in RangeOf(seen)
    BY <2>1, <2>3
  <2>4. CASE KeyOf(e) \notin RangeOf(seen) /\ ~(KeyOf(e) = KeyOf(f) /\ ~dup')
    <3>1. KeyOf(e) \notin RangeOf(seen')
      BY <1>2, <2>4
    <3>2. dup' => e # f
      BY <1>1, <2>4
    <3> QED
      BY <1>1, <3>1, <3>2
  <2> QED
    BY <2>2, <2>3, <2>4
<1> QED
  BY <1>1, <1>3 DEF DeliveryInv, SeenInv, AckInv, Good, Known, Unaliased

(* An acknowledgement adds one id at most. *)
LEMMA AcknowledgeRange ==
  ASSUME TypeOK, Acknowledge
  PROVE  RangeOf(acks') \subseteq RangeOf(acks) \cup {AckOf(cur)}
<1>1. acks \in Seq(Int) /\ AckOf(cur) \in Int /\ AckMax \in Nat \ {0} /\ Len(acks) <= AckMax
  BY IdTypes, BoundAssumption DEF TypeOK, BoundAssumption
<1>2. RangeOf(AddAck(acks, AckOf(cur))) \subseteq RangeOf(acks) \cup {AckOf(cur)}
  BY <1>1, MakeRoomSeq, RangeAppend DEF AddAck
<1>3. acks' \in {acks, AddAck(acks, AckOf(cur))}
  BY DEF Acknowledge
<1> QED
  BY <1>2, <1>3

LEMMA AcknowledgeDelivery ==
  ASSUME TypeOK, DeliveryInv, Acknowledge
  PROVE  DeliveryInv'
<1>1. /\ recvPc = "ack" /\ recvPc' = "idle" /\ cur \in Event
      /\ UNCHANGED <<seen, processed, snap, panelAcked>>
  BY DEF Acknowledge, repVars, TypeOK
<1>2. RangeOf(acks') \subseteq RangeOf(acks) \cup {AckOf(cur)}
  BY AcknowledgeRange
<1>3. ASSUME NEW e \in Event, Good(e), AckOf(e) = AckOf(cur)
      PROVE  e \in processed
  BY <1>1, <1>3, GoodUnique DEF DeliveryInv, SeenInv
<1>4. SeenInv'
  BY <1>1 DEF DeliveryInv, SeenInv, Good, Known, Unaliased
<1>5. AckInv'
  BY <1>1, <1>2, <1>3 DEF DeliveryInv, AckInv, Good, Known, Unaliased
<1> QED
  BY <1>4, <1>5 DEF DeliveryInv

(* A snapshot holds ids of the ACK list only. *)
LEMMA SnapshotRange ==
  ASSUME TypeOK, Snapshot
  PROVE  RangeOf(snap') \subseteq RangeOf(acks)
<1>1. acks \in Seq(Int) /\ Len(acks) <= AckMax /\ AckMax \in Nat /\ Len(acks) \in Nat
  BY BoundAssumption DEF TypeOK, BoundAssumption
<1>2. CASE Len(acks) < AckMax
  <2>1. snap' = SubSeq(acks, 1, Len(acks))
    BY <1>2 DEF Snapshot
  <2> QED
    BY <1>1, <2>1, RangeFront
<1>3. CASE ~(Len(acks) < AckMax)
  <2>1. snap' = SubSeq(acks, 1, AckMax)
    BY <1>3 DEF Snapshot
  <2>2. AckMax \in 0..Len(acks)
    BY <1>1, <1>3
  <2> QED
    BY <1>1, <2>1, <2>2, RangeFront
<1> QED
  BY <1>2, <1>3

LEMMA NextDelivery == TypeOK /\ DeliveryInv /\ [Next]_vars => DeliveryInv'
<1> SUFFICES ASSUME TypeOK, DeliveryInv, [Next]_vars PROVE DeliveryInv'
  OBVIOUS
<1> USE DEF DeliveryInv, SeenInv, AckInv, Good, Known, Unaliased
<1>1. ASSUME NEW e \in Event, Receive(e) PROVE DeliveryInv'
  BY <1>1, ReceiveDelivery
<1>2. CASE Dispatch
  BY <1>2 DEF Dispatch, repVars
<1>3. CASE Acknowledge
  BY <1>3, AcknowledgeDelivery
<1>4. CASE Snapshot
  <2>1. RangeOf(snap') \subseteq RangeOf(acks)
    BY <1>4, SnapshotRange
  <2> QED
    BY <1>4, <2>1 DEF Snapshot, recvVars
<1>5. CASE SendReport
  <2>1. panelAcked' \subseteq panelAcked \cup RangeOf(snap)
    BY <1>5 DEF SendReport
  <2> QED
    BY <1>5, <2>1 DEF SendReport, recvVars
<1>6. CASE ClearAcks
  BY <1>6, RangeEmpty DEF ClearAcks, recvVars
<1>7. CASE Restart
  BY <1>7, RangeEmpty DEF Restart
<1>8. CASE SkipReport \/ SendFails \/ Disconnect \/ ConnectionLost \/ Reconnect
  <2>1. UNCHANGED <<recvPc, cur, dup, seen, processed, acks, snap, panelAcked>>
    BY <1>8 DEF SkipReport, SendFails, Disconnect, ConnectionLost, Reconnect,
       recvVars, repVars
  <2> QED
    BY <2>1
<1>9. CASE UNCHANGED vars
  BY <1>9 DEF vars, recvVars, repVars
<1> QED
  BY <1>1, <1>2, <1>3, <1>4, <1>5, <1>6, <1>7, <1>8, <1>9 DEF Next

(* The panel never stops retransmitting a command the agent did not run,
   through any number of dropped connections, lost reports, late copies and
   restarts, provided no other event's id can be taken for the command's. *)
THEOREM OnlyProcessedRetired == Spec => []RetiredWasProcessed
<1>1. TypeOK /\ DeliveryInv => RetiredWasProcessed
  BY DEF DeliveryInv, AckInv, Good, Retired, Unaliased, RetiredWasProcessed
<1> QED
  BY <1>1, InitTypeOK, NextTypeOK, InitDelivery, NextDelivery, PTL DEF Spec

-----------------------------------------------------------------------------
(* The commands that ran, those promised to the panel, and those it sends no
   more. *)
Ran      == processed \cap Command
Promised == {e \in Command : AckOf(e) \in RangeOf(acks) \cup RangeOf(snap)}
Gone     == {e \in Command : Retired(e)}

(* A step of the abstract specification, in these terms. *)
DeliveryStep ==
  \/ \E c \in Command : \/ Ran' = Ran \cup {c} /\ UNCHANGED <<Promised, Gone>>
                       \/ /\ c \in Ran /\ Promised' \subseteq Promised \cup {c}
                          /\ UNCHANGED <<Ran, Gone>>
  \/ Promised' \subseteq Promised /\ UNCHANGED <<Ran, Gone>>
  \/ \E C \in SUBSET Command : /\ C \subseteq Promised /\ Gone' = Gone \cup C
                               /\ UNCHANGED <<Ran, Promised>>

LEMMA DeliveryStepMaps == DeliveryStep => [Delivery!Next]_Delivery!deliveryVars
  BY DEF DeliveryStep, Ran, Promised, Gone, Delivery!Next, Delivery!Execute,
     Delivery!Promise, Delivery!Forget, Delivery!Retire, Delivery!deliveryVars

(* They change only with the events processed, the two lists and the ids the
   panel has read. *)
LEMMA PromisedFollows ==
  /\ UNCHANGED processed => UNCHANGED Ran
  /\ UNCHANGED <<acks, snap>> => UNCHANGED Promised
  /\ UNCHANGED panelAcked => UNCHANGED Gone
  BY DEF Ran, Promised, Gone, Command, Known, Unaliased, Retired

LEMMA PromisedGrows ==
  ASSUME NEW X, RangeOf(acks') \cup RangeOf(snap') \subseteq RangeOf(acks) \cup RangeOf(snap) \cup X
  PROVE  Promised' \subseteq Promised \cup {e \in Command : AckOf(e) \in X}
  BY DEF Promised, Command, Known, Unaliased

(* What the report just sent retires was promised. *)
LEMMA SendRetires ==
  ASSUME SendReport
  PROVE  DeliveryStep
<1> DEFINE C == {e \in Command : AckOf(e) \in RangeOf(snap)}
<1>1. UNCHANGED <<processed, acks, snap>>
  BY DEF SendReport, recvVars
<1>2. CASE panelAcked' = panelAcked \cup RangeOf(snap)
  <2>1. C \in SUBSET Command /\ C \subseteq Promised
    BY DEF Promised
  <2>2. \A e \in Command : Retired(e)' <=> Retired(e) \/ e \in C
    BY <1>2 DEF Command, Unaliased, Retired
  <2>3. Gone' = Gone \cup C
    BY <2>2 DEF Gone, Command, Known, Unaliased
  <2> QED
    BY <1>1, <2>1, <2>3, PromisedFollows DEF DeliveryStep
<1>3. CASE UNCHANGED panelAcked
  BY <1>1, <1>3, PromisedFollows DEF DeliveryStep
<1> QED
  BY <1>2, <1>3 DEF SendReport

(* An acknowledged command was dispatched; a full list drops an older id. *)
LEMMA AcknowledgePromises ==
  ASSUME TypeOK, DeliveryInv, Acknowledge
  PROVE  DeliveryStep
<1>1. UNCHANGED <<processed, snap, panelAcked>> /\ recvPc = "ack" /\ cur \in Event
  BY DEF Acknowledge, repVars, TypeOK
<1>2. RangeOf(acks') \subseteq RangeOf(acks) \cup {AckOf(cur)}
  BY AcknowledgeRange
<1>3. Promised' \subseteq Promised \cup {e \in Command : AckOf(e) \in {AckOf(cur)}}
  BY <1>1, <1>2, PromisedGrows
<1>4. UNCHANGED Gone
  BY <1>1, PromisedFollows
<1>5. \A e \in Command : AckOf(e) = AckOf(cur) => e = cur /\ cur \in processed
  BY <1>1, GoodUnique DEF Command, Good, DeliveryInv, SeenInv
<1>6. CASE \E e \in Command : AckOf(e) = AckOf(cur)
  <2>1. cur \in Command /\ cur \in Ran
    BY <1>5, <1>6 DEF Ran
  <2>2. Promised' \subseteq Promised \cup {cur}
    BY <1>3, <1>5
  <2> QED
    BY <1>1, <1>4, <2>1, <2>2, PromisedFollows DEF DeliveryStep
<1>7. CASE ~ \E e \in Command : AckOf(e) = AckOf(cur)
  <2>1. Promised' \subseteq Promised
    BY <1>3, <1>7
  <2> QED
    BY <1>1, <1>4, <2>1, PromisedFollows DEF DeliveryStep
<1> QED
  BY <1>6, <1>7

LEMMA NextDelivers == TypeOK /\ DeliveryInv /\ [Next]_vars => DeliveryStep
<1> SUFFICES ASSUME TypeOK, DeliveryInv, [Next]_vars PROVE DeliveryStep
  OBVIOUS
<1>1. CASE Dispatch
  <2>1. UNCHANGED <<acks, snap, panelAcked>> /\ cur \in Event
    BY <1>1 DEF Dispatch, repVars, TypeOK
  <2>2. UNCHANGED <<Promised, Gone>>
    BY <2>1, PromisedFollows
  <2>3. processed' = processed \/ processed' = processed \cup {cur}
    BY <1>1 DEF Dispatch
  <2>4. Ran' = Ran \/ (cur \in Command /\ Ran' = Ran \cup {cur})
    <3>1. Ran' = processed' \cap Command
      BY DEF Ran, Command, Known, Unaliased
    <3>2. Ran = processed \cap Command
      BY DEF Ran
    <3> QED
      BY <2>3, <3>1, <3>2
  <2> QED
    BY <2>2, <2>4 DEF DeliveryStep
<1>2. CASE Acknowledge
  BY <1>2, AcknowledgePromises
<1>3. CASE SendReport
  BY <1>3, SendRetires
<1>4. CASE Snapshot \/ ClearAcks \/ Restart
  <2>1. UNCHANGED <<processed, panelAcked>>
    BY <1>4 DEF Snapshot, ClearAcks, Restart, recvVars
  <2>2. RangeOf(acks') \cup RangeOf(snap') \subseteq RangeOf(acks) \cup RangeOf(snap)
    BY <1>4, SnapshotRange, RangeEmpty DEF Snapshot, ClearAcks, Restart
  <2>3. Promised' \subseteq Promised \cup {e \in Command : AckOf(e) \in {}}
    BY <2>2, PromisedGrows
  <2> QED
    BY <2>1, <2>3, PromisedFollows DEF DeliveryStep
<1>5. CASE UNCHANGED <<processed, acks, snap, panelAcked>>
  BY <1>5, PromisedFollows DEF DeliveryStep
<1>6. ASSUME NEW e \in Event, Receive(e) PROVE DeliveryStep
  BY <1>5, <1>6 DEF Receive, repVars
<1>7. CASE \/ SkipReport \/ SendFails \/ Disconnect \/ ConnectionLost \/ Reconnect
           \/ UNCHANGED vars
  BY <1>5, <1>7 DEF SkipReport, SendFails, Disconnect, ConnectionLost, Reconnect,
     vars, recvVars, repVars
<1> QED
  BY <1>1, <1>2, <1>3, <1>4, <1>6, <1>7 DEF Next

LEMMA InitDelivers == Init => Delivery!Init
<1> SUFFICES ASSUME Init PROVE Delivery!Init
  OBVIOUS
<1>1. acks = <<>> /\ snap = <<>> /\ processed = {} /\ panelAcked = {}
  BY DEF Init
<1>2. \A e \in Event : ~Retired(e) /\ AckOf(e) \notin RangeOf(acks) \cup RangeOf(snap)
  BY <1>1, RangeEmpty DEF Retired
<1> QED
  BY <1>1, <1>2 DEF Delivery!Init, Command

(* The two lists, with their evictions, stale snapshots and restarts,
   implement delivery at least once as the panel relies on it: every command
   whose id is unambiguous runs before it is acknowledged and is acknowledged
   before the panel gives it up. *)
THEOREM DeliveredAtLeastOnce == Spec => ImplementsDelivery
<1>1. TypeOK /\ DeliveryInv /\ [Next]_vars => [Delivery!Next]_Delivery!deliveryVars
  BY NextDelivers, DeliveryStepMaps
<1> QED
  BY <1>1, InitTypeOK, NextTypeOK, InitDelivery, NextDelivery, InitDelivers, PTL
  DEF Spec, ImplementsDelivery, Delivery!Spec

(* An id that belongs to one event only is told to the panel, or on its way
   there, only after its command has run: what EventDelivery keeps, the lists
   that implement it keep. *)
THEOREM PanelToldTheTruth == Spec => []Delivery!ToldIsDone
<1>1. Delivery!Init => Delivery!ToldIsDone
  BY DEF Delivery!Init, Delivery!ToldIsDone
<1>2. Delivery!ToldIsDone /\ [Delivery!Next]_(Delivery!deliveryVars) => Delivery!ToldIsDone'
  BY DEF Delivery!ToldIsDone, Delivery!Next, Delivery!deliveryVars, Delivery!Execute,
         Delivery!Promise, Delivery!Forget, Delivery!Retire
<1>3. Delivery!Spec => []Delivery!ToldIsDone
  BY <1>1, <1>2, PTL DEF Delivery!Spec
<1> QED
  BY <1>3, DeliveredAtLeastOnce, PTL DEF ImplementsDelivery
=============================================================================
