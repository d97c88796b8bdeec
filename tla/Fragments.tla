------------------------------ MODULE Fragments ------------------------------
(***************************************************************************)
(* Assembly of WebSocket messages on the receive thread: ws_recv_frame     *)
(* rejects malformed frames, ws_recv_thread answers control frames, and    *)
(* ws_fragment_accumulate collects fragments in a buffer that is kept, and *)
(* grown, from message to message and from connection to connection.       *)
(* A frame is read in one step; masks and header bytes are left out.       *)
(***************************************************************************)
EXTENDS Integers, Sequences

CONSTANTS
  Byte,       \* the bytes a payload is made of
  Junk,       \* a byte the panel did not send: uninitialised, or the final NUL
  NoMessage,
  MsgMax,     \* WS_MAX_MESSAGE_SIZE, the limit of one frame
  FragMax,    \* WS_FRAGMENT_MAX_SIZE, the limit of a fragmented message
  CapMin,     \* the first capacity of the buffer, 4096
  LenMax      \* bound: the longest payload the panel sends

ASSUME SizeAssumption ==
  /\ MsgMax \in Nat \ {0} /\ FragMax \in Nat \ {0} /\ CapMin \in Nat \ {0}
  /\ LenMax \in Nat /\ MsgMax <= FragMax /\ CapMin <= FragMax
ASSUME ByteAssumption == Junk \notin Byte

Data    == {"text", "binary"}
Control == {"close", "ping", "pong"}

(* Reserved opcodes and bits, and control frames that are too long, are all
   "reserved"; no payload of theirs reaches a handler. *)
Payload == UNION {[1..n -> Byte] : n \in 0..LenMax}
Frame   == [op : Data \cup {"cont"}, fin : BOOLEAN, data : Payload]
           \cup [op : Control \cup {"reserved"}, fin : BOOLEAN, data : {<<>>}]

Message == [op : Data, data : Seq(Byte)]
ASSUME MessageAssumption == NoMessage \notin Message

VARIABLES
  frame, turn,  \* the latest frame read, and a bit that flips with each one
  connected,
  fragOp,     \* fragment_opcode, "none" when no message is under way
  fragLen,    \* fragment_len
  fragBuf,    \* fragment_buf; the length of the sequence is fragment_capacity
  out         \* the message dispatched in this pass of the loop, or NoMessage

frag == <<fragOp, fragLen, fragBuf>>
vars == <<frame, turn, connected, frag, out>>

Init ==
  /\ frame \in Frame /\ turn = 0
  /\ connected = TRUE /\ fragOp = "none" /\ fragLen = 0 /\ fragBuf = <<>>
  /\ out = NoMessage

Capacity == Len(fragBuf)

(* realloc keeps what is there; memcpy to an offset; the terminating NUL. *)
Realloc(b, n) == [i \in 1..n |-> IF i <= Len(b) THEN b[i] ELSE Junk]
Memcpy(b, at, d) == [i \in 1..Len(b) |-> IF i \in (at + 1)..(at + Len(d)) THEN d[i - at] ELSE b[i]]
Terminate(b, op, n) == IF op = "text" THEN Memcpy(b, n, <<Junk>>) ELSE b

(* The limit of a fragmented message. *)
FitsOneMore(n) == n <= FragMax + 1
Fits(n) == n <= FragMax

Larger(m, n) == IF m > n THEN m ELSE n

(* The capacity after a first fragment and after a continuation: one byte more
   than the message, doubled at least. *)
FirstCapacity(n) ==
  LET cap == Larger(n + 1, CapMin) IN Larger(Capacity, cap)
GrownCapacityTight(n) ==
  IF Capacity < fragLen + n THEN Larger(2 * Capacity, fragLen + n) ELSE Capacity
GrownCapacityAlways(n) == Larger(2 * Capacity, fragLen + n + 1)
GrownCapacity(n) ==
  IF Capacity < fragLen + n + 1 THEN Larger(2 * Capacity, fragLen + n + 1) ELSE Capacity

Reset == fragOp' = "none" /\ fragLen' = 0
Close == connected' = FALSE /\ out' = NoMessage

-----------------------------------------------------------------------------
(* The checks of ws_recv_frame. *)
Readable(f) ==
  f.op # "reserved" /\ (f.op \in Control => f.fin) /\ Len(f.data) <= MsgMax

Read(f) == connected /\ frame' = f /\ turn' = 1 - turn

(* The thread ends when the socket fails or the frame is not readable. *)
SocketFails ==
  /\ connected /\ Close /\ UNCHANGED <<frame, turn, frag>>

Rejected(f) ==
  /\ ~Readable(f) /\ Close /\ UNCHANGED frag

(* Control frames leave the accumulation alone; a ping is answered. *)
ControlFrameResets(f) ==
  /\ f.op \in Control /\ Readable(f)
  /\ IF f.op = "close" THEN Close ELSE out' = NoMessage /\ UNCHANGED connected
  /\ Reset /\ UNCHANGED fragBuf
ControlFrame(f) ==
  /\ f.op \in Control /\ Readable(f)
  /\ IF f.op = "close" THEN Close ELSE out' = NoMessage /\ UNCHANGED connected
  /\ UNCHANGED frag

(* A whole message goes from the receive buffer to the handler. *)
WholeMessage(f) ==
  /\ f.op \in Data /\ f.fin /\ Readable(f)
  /\ IF fragOp # "none"
     THEN Reset /\ Close
     ELSE /\ out' = [op |-> f.op, data |-> f.data]
          /\ UNCHANGED <<connected, fragOp, fragLen>>
  /\ UNCHANGED fragBuf

(* The first fragment starts at the beginning of the buffer. *)
FirstFragment(f) ==
  LET cap == FirstCapacity(Len(f.data)) IN
  /\ f.op \in Data /\ ~f.fin /\ Readable(f)
  /\ fragOp = "none" /\ Fits(Len(f.data))
  /\ fragBuf' = Memcpy(Realloc(fragBuf, cap), 0, f.data)
  /\ fragLen' = Len(f.data) /\ fragOp' = f.op
  /\ out' = NoMessage /\ UNCHANGED connected

(* A message is under way already, too much, or no memory for it. *)
FirstRejected(f) ==
  /\ f.op \in Data /\ ~f.fin /\ Readable(f)
  /\ \/ fragOp # "none"
     \/ ~Fits(Len(f.data))
     \/ FirstCapacity(Len(f.data)) > Capacity
  /\ Close /\ UNCHANGED fragBuf
  /\ IF fragOp # "none" THEN Reset ELSE UNCHANGED <<fragOp, fragLen>>

(* A continuation is appended; the last one hands the message over. *)
Continuation(f) ==
  LET cap == GrownCapacity(Len(f.data))
      b   == Memcpy(Realloc(fragBuf, cap), fragLen, f.data)
      n   == fragLen + Len(f.data)
  IN
  /\ f.op = "cont" /\ Readable(f) /\ fragOp # "none" /\ Fits(n)
  /\ fragLen' = (IF f.fin THEN 0 ELSE n) /\ fragOp' = (IF f.fin THEN "none" ELSE fragOp)
  /\ fragBuf' = IF f.fin THEN Terminate(b, fragOp, n) ELSE b
  /\ out' = IF f.fin THEN [op |-> fragOp, data |-> SubSeq(b, 1, n)] ELSE NoMessage
  /\ UNCHANGED connected

(* Nothing to continue, too much, or no memory for it. *)
ContinuationRejected(f) ==
  /\ f.op = "cont" /\ Readable(f)
  /\ \/ fragOp = "none" \/ ~Fits(fragLen + Len(f.data))
     \/ GrownCapacity(Len(f.data)) > Capacity
  /\ Close /\ Reset /\ UNCHANGED fragBuf

(* A new receive thread starts over; the buffer stays. *)
Reconnect ==
  /\ ~connected /\ connected' = TRUE /\ Reset /\ UNCHANGED <<frame, turn, fragBuf, out>>

Next ==
  \/ SocketFails
  \/ \E f \in Frame : /\ Read(f)
                      /\ \/ Rejected(f) \/ ControlFrame(f) \/ WholeMessage(f) \/ FirstFragment(f)
                         \/ FirstRejected(f) \/ Continuation(f) \/ ContinuationRejected(f)
  \/ Reconnect

Spec == Init /\ [][Next]_vars

-----------------------------------------------------------------------------
TypeOK ==
  /\ frame \in Frame /\ turn \in {0, 1}
  /\ connected \in BOOLEAN /\ fragOp \in Data \cup {"none"}
  /\ fragBuf \in Seq(Byte \cup {Junk}) /\ fragLen \in 0..FragMax
  /\ out # NoMessage => out \in Message

(* While a message is under way there is room behind it for the NUL that
   ws_recv_thread writes at its end, whatever sizes the fragments had. *)
TerminatorFits == fragOp # "none" => fragLen < Capacity

(* The buffer, which is never given back, stays below twice the limit of a
   message: it doubles only while it is too small for one. *)
CapacityBounded == Capacity <= 2 * FragMax

(* The reused buffer is large enough for every write of ws_recv_thread and
   ws_fragment_accumulate and never more than twice what a message may have. *)
BufferSound == TerminatorFits /\ CapacityBounded

(* What the abstract stream has of a message under way. *)
Current ==
  IF connected /\ fragOp # "none"
  THEN [op |-> fragOp, data |-> SubSeq(fragBuf, 1, fragLen)] ELSE NoMessage

Stream == INSTANCE MessageStream WITH current <- Current

(* The handlers get the messages RFC 6455 reads in the stream, and a frame out
   of place closes the connection: nothing of an earlier message or an earlier
   connection is left in the buffer where it could be handed over. *)
ImplementsStream == Stream!Spec
=============================================================================
