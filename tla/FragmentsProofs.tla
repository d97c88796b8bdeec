-------------------------- MODULE FragmentsProofs --------------------------
(***************************************************************************)
(* Theorems about Fragments, for all bytes and all sizes: the buffer holds  *)
(* what it must, and the assembly implements MessageStream.                 *)
(***************************************************************************)
EXTENDS Fragments, TLAPS

Cell == Byte \cup {Junk}

-----------------------------------------------------------------------------
(* The operations on the buffer. *)

LEMMA FrameType ==
  ASSUME NEW f \in Frame
  PROVE  f.data \in Seq(Byte) /\ f.op \in Data \cup Control \cup {"cont", "reserved"}
         /\ f.fin \in BOOLEAN
<1>1. CASE f \in [op : Data \cup {"cont"}, fin : BOOLEAN, data : Payload]
  <2>1. PICK n \in 0..LenMax : f.data \in [1..n -> Byte]
    BY <1>1 DEF Payload
  <2>2. n \in Nat
    BY <2>1, SizeAssumption DEF SizeAssumption
  <2> QED
    BY <1>1, <2>1, <2>2
<1>2. CASE f \in [op : Control \cup {"reserved"}, fin : BOOLEAN, data : {<<>>}]
  <2>1. f.data = <<>>
    BY <1>2
  <2>2. <<>> \in Seq(Byte)
    OBVIOUS
  <2> QED
    BY <1>2, <2>1, <2>2
<1> QED
  BY <1>1, <1>2 DEF Frame

LEMMA ReallocCells ==
  ASSUME NEW b \in Seq(Cell), NEW n \in Nat
  PROVE  /\ Realloc(b, n) \in Seq(Cell) /\ Len(Realloc(b, n)) = n
         /\ \A i \in 1..n : i <= Len(b) => Realloc(b, n)[i] = b[i]
  BY DEF Realloc, Cell

LEMMA MemcpyCells ==
  ASSUME NEW b \in Seq(Cell), NEW at \in Nat, NEW d \in Seq(Cell)
  PROVE  /\ Memcpy(b, at, d) \in Seq(Cell) /\ Len(Memcpy(b, at, d)) = Len(b)
         /\ \A i \in 1..Len(b) : i <= at => Memcpy(b, at, d)[i] = b[i]
         /\ \A i \in 1..Len(b) : at < i /\ i <= at + Len(d) => Memcpy(b, at, d)[i] = d[i - at]
  BY DEF Memcpy

(* A fragment behind the first k bytes: the bytes before it stay. *)
LEMMA Appended ==
  ASSUME NEW b \in Seq(Cell), NEW k \in Nat, NEW d \in Seq(Byte), NEW n \in Nat,
         k <= Len(b), k + Len(d) <= n, \A i \in 1..k : b[i] \in Byte
  PROVE  LET c == Memcpy(Realloc(b, n), k, d) IN
         /\ c \in Seq(Cell) /\ Len(c) = n
         /\ \A i \in 1..(k + Len(d)) : c[i] \in Byte
         /\ SubSeq(c, 1, k + Len(d)) = SubSeq(b, 1, k) \o d
         /\ SubSeq(c, 1, k + Len(d)) \in Seq(Byte)
<1> DEFINE r == Realloc(b, n)
           c == Memcpy(r, k, d)
<1>1. r \in Seq(Cell) /\ Len(r) = n /\ \A i \in 1..n : i <= Len(b) => r[i] = b[i]
  BY ReallocCells
<1>2. d \in Seq(Cell)
  BY DEF Cell
<1> HIDE DEF r
<1>3. /\ c \in Seq(Cell) /\ Len(c) = n
      /\ \A i \in 1..n : i <= k => c[i] = r[i]
      /\ \A i \in 1..n : k < i /\ i <= k + Len(d) => c[i] = d[i - k]
  BY <1>1, <1>2, MemcpyCells
<1> HIDE DEF c
<1>4. \A i \in 1..k : c[i] = b[i]
  BY <1>1, <1>3
<1>5. \A i \in 1..Len(d) : c[k + i] = d[i]
  BY <1>3
<1>6. \A i \in 1..(k + Len(d)) : c[i] \in Byte
  <2> SUFFICES ASSUME NEW i \in 1..(k + Len(d)) PROVE c[i] \in Byte
    OBVIOUS
  <2>1. CASE i <= k
    BY <1>4, <2>1
  <2>2. CASE i > k
    <3>1. c[i] = d[i - k] /\ i - k \in 1..Len(d)
      BY <1>3, <2>2
    <3> QED
      BY <3>1
  <2> QED
    BY <2>1, <2>2
<1>7. SubSeq(c, 1, k + Len(d)) \in Seq(Byte)
  BY <1>3, <1>6
<1>8. SubSeq(c, 1, k + Len(d)) = SubSeq(b, 1, k) \o d
  <2> DEFINE x == SubSeq(c, 1, k + Len(d))
             y == SubSeq(b, 1, k) \o d
  <2>1. x \in Seq(Byte) /\ Len(x) = k + Len(d) /\ \A i \in 1..(k + Len(d)) : x[i] = c[i]
    BY <1>3, <1>7
  <2>2. SubSeq(b, 1, k) \in Seq(Byte) /\ Len(SubSeq(b, 1, k)) = k
        /\ \A i \in 1..k : SubSeq(b, 1, k)[i] = b[i]
    OBVIOUS
  <2>3. y \in Seq(Byte) /\ Len(y) = k + Len(d)
        /\ \A i \in 1..(k + Len(d)) : y[i] = IF i <= k THEN b[i] ELSE d[i - k]
    BY <2>2
  <2> HIDE DEF x, y
  <2>4. \A i \in 1..(k + Len(d)) : x[i] = y[i]
    <3> SUFFICES ASSUME NEW i \in 1..(k + Len(d)) PROVE x[i] = y[i]
      OBVIOUS
    <3>1. CASE i <= k
      BY <2>1, <2>3, <1>4, <3>1
    <3>2. CASE i > k
      <4>1. i - k \in 1..Len(d) /\ k + (i - k) = i
        BY <3>2
      <4>2. c[k + (i - k)] = d[i - k]
        BY <4>1, <1>5
      <4> QED
        BY <2>1, <2>3, <3>2, <4>1, <4>2
    <3> QED
      BY <3>1, <3>2
  <2>5. x = y
    BY <2>1, <2>3, <2>4
  <2> QED
    BY <2>5 DEF x, y
<1> QED
  BY <1>3, <1>6, <1>7, <1>8 DEF r, c

(* The capacities asked for hold the message and its NUL, never shrink the
   buffer and stay within twice the limit. *)
LEMMA Capacities ==
  ASSUME fragBuf \in Seq(Cell), fragLen \in 0..FragMax, CapacityBounded, NEW n \in Nat
  PROVE  /\ FirstCapacity(n) \in Nat /\ n < FirstCapacity(n) /\ Capacity <= FirstCapacity(n)
         /\ Fits(n) => FirstCapacity(n) <= 2 * FragMax
         /\ GrownCapacity(n) \in Nat /\ fragLen + n < GrownCapacity(n)
         /\ Capacity <= GrownCapacity(n)
         /\ Fits(fragLen + n) => GrownCapacity(n) <= 2 * FragMax
<1>1. Capacity \in Nat /\ Capacity <= 2 * FragMax
  BY DEF Capacity, CapacityBounded
<1>2. FragMax \in Nat \ {0} /\ CapMin \in Nat /\ CapMin <= FragMax
  BY SizeAssumption DEF SizeAssumption
<1> QED
  BY <1>1, <1>2 DEF FirstCapacity, GrownCapacity, Larger, Fits

-----------------------------------------------------------------------------
(* The invariant.                                                            *)

(* The bytes of the message under way are the panel's. *)
Filled == \A i \in 1..fragLen : fragBuf[i] \in Byte

Idle == fragOp = "none" => fragLen = 0

IInv ==
  /\ TypeOK /\ TerminatorFits /\ CapacityBounded
  /\ Filled /\ Idle

LEMMA InitIInv == Init => IInv
<1> SUFFICES ASSUME Init PROVE IInv
  OBVIOUS
<1>1. 0 \in 0..FragMax /\ FragMax \in Nat
  BY SizeAssumption DEF SizeAssumption
<1>2. TypeOK
  BY <1>1 DEF Init, TypeOK
<1>3. CapacityBounded
  BY <1>1 DEF Init, CapacityBounded, Capacity
<1> QED
  BY <1>2, <1>3 DEF Init, IInv, TerminatorFits, Filled, Idle

(* What the two actions that fill the buffer do to it. *)
LEMMA FirstStored ==
  ASSUME IInv, NEW f \in Frame, FirstFragment(f)
  PROVE  /\ fragBuf' \in Seq(Cell) /\ fragLen' \in 0..FragMax
         /\ fragLen' < Len(fragBuf') /\ Len(fragBuf') <= 2 * FragMax
         /\ \A i \in 1..fragLen' : fragBuf'[i] \in Byte
         /\ SubSeq(fragBuf', 1, fragLen') = f.data
<1> DEFINE n   == Len(f.data)
           cap == FirstCapacity(n)
<1>1. f.data \in Seq(Byte) /\ n \in Nat
  BY FrameType
<1>2. fragBuf \in Seq(Cell) /\ fragLen \in 0..FragMax
  BY DEF IInv, TypeOK, Cell
<1>3. Fits(n) /\ fragBuf' = Memcpy(Realloc(fragBuf, cap), 0, f.data) /\ fragLen' = n
  BY DEF FirstFragment
<1>4. n <= FragMax
  BY <1>3 DEF Fits
<1>5. cap \in Nat /\ n < cap /\ cap <= 2 * FragMax
  BY <1>1, <1>2, <1>3, Capacities DEF IInv
<1> HIDE DEF cap
<1>6. /\ fragBuf' \in Seq(Cell) /\ Len(fragBuf') = cap
      /\ \A i \in 1..(0 + n) : fragBuf'[i] \in Byte
      /\ SubSeq(fragBuf', 1, 0 + n) = SubSeq(fragBuf, 1, 0) \o f.data
  <2>1. 0 <= Len(fragBuf) /\ 0 + n <= cap /\ \A i \in 1..0 : fragBuf[i] \in Byte
    BY <1>1, <1>2, <1>5
  <2> QED
    BY <2>1, <1>1, <1>2, <1>3, <1>5, Appended
<1>7. SubSeq(fragBuf, 1, 0) \o f.data = f.data
  <2>1. SubSeq(fragBuf, 1, 0) = <<>>
    BY <1>2
  <2> QED
    BY <2>1, <1>1
<1>8. 0 + n = n
  BY <1>1
<1> QED
  BY <1>1, <1>3, <1>4, <1>5, <1>6, <1>7, <1>8

LEMMA ContinuationStored ==
  ASSUME IInv, NEW f \in Frame, Continuation(f)
  PROVE  LET n == fragLen + Len(f.data)
             b == Memcpy(Realloc(fragBuf, GrownCapacity(Len(f.data))), fragLen, f.data)
         IN /\ n \in 0..FragMax /\ b \in Seq(Cell) /\ n < Len(b) /\ Len(b) <= 2 * FragMax
            /\ \A i \in 1..n : b[i] \in Byte
            /\ SubSeq(b, 1, n) = SubSeq(fragBuf, 1, fragLen) \o f.data
            /\ SubSeq(b, 1, n) \in Seq(Byte)
            /\ fragBuf' \in Seq(Cell) /\ Len(fragBuf') = Len(b)
<1> DEFINE l   == Len(f.data)
           n   == fragLen + l
           cap == GrownCapacity(l)
           b   == Memcpy(Realloc(fragBuf, cap), fragLen, f.data)
<1>1. f.data \in Seq(Byte) /\ l \in Nat
  BY FrameType
<1>2. fragBuf \in Seq(Cell) /\ fragLen \in 0..FragMax /\ fragLen \in Nat
  BY DEF IInv, TypeOK, Cell
<1>3. Fits(n) /\ fragOp # "none"
  BY DEF Continuation
<1>4. n \in 0..FragMax
  BY <1>1, <1>2, <1>3 DEF Fits
<1>5. cap \in Nat /\ n < cap /\ cap <= 2 * FragMax
  BY <1>1, <1>2, <1>3, Capacities DEF IInv
<1>6. fragLen < Len(fragBuf) /\ \A i \in 1..fragLen : fragBuf[i] \in Byte
  BY <1>3 DEF IInv, TerminatorFits, Capacity, Filled
<1> HIDE DEF cap
<1>7. /\ b \in Seq(Cell) /\ Len(b) = cap
      /\ \A i \in 1..n : b[i] \in Byte
      /\ SubSeq(b, 1, n) = SubSeq(fragBuf, 1, fragLen) \o f.data
      /\ SubSeq(b, 1, n) \in Seq(Byte)
  <2>1. fragLen <= Len(fragBuf) /\ fragLen + Len(f.data) <= cap
    BY <1>1, <1>2, <1>5, <1>6
  <2> QED
    BY <2>1, <1>1, <1>2, <1>5, <1>6, Appended
<1>8. fragBuf' = IF f.fin THEN Terminate(b, fragOp, n) ELSE b
  BY DEF Continuation, cap
<1> HIDE DEF b
<1>9. fragBuf' \in Seq(Cell) /\ Len(fragBuf') = Len(b)
  <2>1. <<Junk>> \in Seq(Cell)
    BY DEF Cell
  <2>2. n \in Nat
    BY <1>1, <1>2
  <2>3. Memcpy(b, n, <<Junk>>) \in Seq(Cell) /\ Len(Memcpy(b, n, <<Junk>>)) = Len(b)
    BY <1>7, <2>1, <2>2, MemcpyCells
  <2> QED
    BY <1>7, <1>8, <2>3 DEF Terminate
<1> QED
  BY <1>4, <1>5, <1>7, <1>9 DEF b, cap

(* A step that leaves the buffer alone and at most resets the message. *)
LEMMA BufferKept ==
  ASSUME IInv, UNCHANGED fragBuf, Reset \/ UNCHANGED <<fragOp, fragLen>>
  PROVE  /\ fragOp' \in Data \cup {"none"} /\ fragBuf' \in Seq(Byte \cup {Junk})
         /\ fragLen' \in 0..FragMax
         /\ (TerminatorFits /\ CapacityBounded /\ Filled /\ Idle)'
<1>1. 0 \in 0..FragMax
  BY SizeAssumption DEF SizeAssumption
<1>2. /\ fragOp' \in Data \cup {"none"} /\ fragBuf' \in Seq(Byte \cup {Junk})
      /\ fragLen' \in 0..FragMax
  BY <1>1 DEF IInv, TypeOK, Reset
<1>3. (TerminatorFits /\ CapacityBounded /\ Filled /\ Idle)'
  BY DEF IInv, Reset, TerminatorFits, CapacityBounded, Capacity, Filled, Idle
<1> QED
  BY <1>2, <1>3

(* Each kind of frame keeps the invariant. *)
LEMMA FrameIInv ==
  ASSUME IInv, NEW f \in Frame, Read(f),
         \/ Rejected(f) \/ ControlFrame(f) \/ WholeMessage(f) \/ FirstFragment(f)
         \/ FirstRejected(f) \/ Continuation(f) \/ ContinuationRejected(f)
  PROVE  IInv'
<1>1. f.data \in Seq(Byte) /\ frame' \in Frame /\ turn' \in {0, 1}
  BY FrameType DEF Read, IInv, TypeOK
<1>2. ASSUME UNCHANGED fragBuf, Reset \/ UNCHANGED <<fragOp, fragLen>>,
             connected' \in BOOLEAN, out' # NoMessage => out' \in Message
      PROVE  IInv'
  BY <1>1, <1>2, BufferKept DEF IInv, TypeOK
<1>3. CASE Rejected(f)
  BY <1>2, <1>3 DEF Rejected, Close, frag
<1>4. CASE ControlFrame(f)
  BY <1>2, <1>4 DEF ControlFrame, Close, frag, IInv, TypeOK
<1>5. CASE WholeMessage(f)
  <2>1. [op |-> f.op, data |-> f.data] \in Message
    BY <1>1, <1>5 DEF WholeMessage, Message
  <2> QED
    BY <1>2, <1>5, <2>1 DEF WholeMessage, Close, IInv, TypeOK
<1>6. CASE FirstRejected(f)
  BY <1>2, <1>6 DEF FirstRejected, Close
<1>7. CASE ContinuationRejected(f)
  BY <1>2, <1>7 DEF ContinuationRejected, Close
<1>8. CASE FirstFragment(f)
  <2>1. /\ fragBuf' \in Seq(Cell) /\ fragLen' \in 0..FragMax
        /\ fragLen' < Len(fragBuf') /\ Len(fragBuf') <= 2 * FragMax
        /\ \A i \in 1..fragLen' : fragBuf'[i] \in Byte
    BY <1>8, FirstStored
  <2>2. fragOp' \in Data /\ out' = NoMessage /\ connected' = connected
    BY <1>8 DEF FirstFragment
  <2>3. fragOp' # "none"
    BY <2>2 DEF Data
  <2>4. TypeOK'
    BY <1>1, <2>1, <2>2 DEF IInv, TypeOK, Cell
  <2> QED
    BY <2>1, <2>3, <2>4 DEF IInv, TerminatorFits, CapacityBounded, Capacity, Filled, Idle
<1>9. CASE Continuation(f)
  <2> DEFINE n == fragLen + Len(f.data)
             b == Memcpy(Realloc(fragBuf, GrownCapacity(Len(f.data))), fragLen, f.data)
  <2>1. /\ n \in 0..FragMax /\ b \in Seq(Cell) /\ n < Len(b) /\ Len(b) <= 2 * FragMax
        /\ \A i \in 1..n : b[i] \in Byte
        /\ SubSeq(b, 1, n) \in Seq(Byte)
        /\ fragBuf' \in Seq(Cell) /\ Len(fragBuf') = Len(b)
    BY <1>9, ContinuationStored
  <2>2. fragOp \in Data
    BY <1>9 DEF Continuation, IInv, TypeOK
  <2>3. /\ fragLen' = (IF f.fin THEN 0 ELSE n) /\ fragOp' = (IF f.fin THEN "none" ELSE fragOp)
        /\ ~f.fin => fragBuf' = b
        /\ out' = IF f.fin THEN [op |-> fragOp, data |-> SubSeq(b, 1, n)] ELSE NoMessage
        /\ connected' = connected
    BY <1>9 DEF Continuation
  <2> HIDE DEF n, b
  <2>4. fragLen' \in 0..FragMax
    BY <2>1, <2>3, SizeAssumption DEF SizeAssumption
  <2>5. out' # NoMessage => out' \in Message
    BY <2>1, <2>2, <2>3 DEF Message
  <2>6. TypeOK'
    BY <1>1, <2>1, <2>2, <2>3, <2>4, <2>5 DEF IInv, TypeOK, Cell
  <2>7. (TerminatorFits /\ CapacityBounded)'
    BY <2>1, <2>3 DEF TerminatorFits, CapacityBounded, Capacity
  <2>8. (Filled /\ Idle)'
    BY <2>1, <2>2, <2>3 DEF Filled, Idle, Data
  <2> QED
    BY <2>6, <2>7, <2>8 DEF IInv
<1> QED
  BY <1>3, <1>4, <1>5, <1>6, <1>7, <1>8, <1>9

LEMMA NextIInv == IInv /\ [Next]_vars => IInv'
<1> SUFFICES ASSUME IInv, [Next]_vars PROVE IInv'
  OBVIOUS
<1>1. CASE SocketFails
  BY <1>1, BufferKept DEF SocketFails, Close, frag, IInv, TypeOK
<1>2. CASE Reconnect
  BY <1>2, BufferKept DEF Reconnect, IInv, TypeOK
<1>3. ASSUME NEW f \in Frame, Read(f),
             \/ Rejected(f) \/ ControlFrame(f) \/ WholeMessage(f) \/ FirstFragment(f)
             \/ FirstRejected(f) \/ Continuation(f) \/ ContinuationRejected(f)
      PROVE  IInv'
  BY <1>3, FrameIInv
<1>4. CASE UNCHANGED vars
  BY <1>4, BufferKept DEF vars, frag, IInv, TypeOK
<1> QED
  BY <1>1, <1>2, <1>3, <1>4 DEF Next

LEMMA Invariance == Spec => []IInv
  BY InitIInv, NextIInv, PTL DEF Spec

(* What is handed to a handler is a text or binary message of the panel's bytes
   only: never the NUL, never memory that realloc added. *)
THEOREM TypeCorrect == Spec => []TypeOK
<1>1. IInv => TypeOK
  BY DEF IInv
<1> QED
  BY <1>1, Invariance, PTL

(* The NUL behind an assembled message is inside the buffer. *)
THEOREM RoomForTerminator == Spec => []TerminatorFits
<1>1. IInv => TerminatorFits
  BY DEF IInv
<1> QED
  BY <1>1, Invariance, PTL

(* The buffer never has more than twice WS_FRAGMENT_MAX_SIZE. *)
THEOREM BoundedBuffer == Spec => []CapacityBounded
<1>1. IInv => CapacityBounded
  BY DEF IInv
<1> QED
  BY <1>1, Invariance, PTL

(* Both together, for every sequence of frames and failing allocations. *)
THEOREM BufferOfRightSize == Spec => []BufferSound
<1>1. TerminatorFits /\ CapacityBounded => BufferSound
  BY DEF BufferSound
<1> QED
  BY <1>1, RoomForTerminator, BoundedBuffer, PTL

-----------------------------------------------------------------------------
(* The refinement: every step of the code is one of the stream, or none.     *)

(* The message under way is one to the stream too, and then only. *)
LEMMA CurrentValue ==
  ASSUME IInv
  PROVE  /\ connected /\ fragOp # "none" =>
              /\ Current = [op |-> fragOp, data |-> SubSeq(fragBuf, 1, fragLen)]
              /\ Current # NoMessage
         /\ ~connected \/ fragOp = "none" => Current = NoMessage
<1>1. ASSUME connected, fragOp # "none"
      PROVE  /\ Current = [op |-> fragOp, data |-> SubSeq(fragBuf, 1, fragLen)]
             /\ Current # NoMessage
  <2>1. fragOp \in Data
    BY <1>1 DEF IInv, TypeOK
  <2>2. SubSeq(fragBuf, 1, fragLen) \in Seq(Byte)
    <3>1. fragBuf \in Seq(Cell) /\ fragLen \in Nat /\ fragLen < Len(fragBuf)
      BY <1>1 DEF IInv, TypeOK, TerminatorFits, Capacity, Cell
    <3>2. \A k \in 1..fragLen : fragBuf[k] \in Byte
      BY DEF IInv, Filled
    <3> QED
      BY <3>1, <3>2
  <2>3. Current = [op |-> fragOp, data |-> SubSeq(fragBuf, 1, fragLen)]
    BY <1>1 DEF Current
  <2>4. Current \in Message
    BY <2>1, <2>2, <2>3 DEF Message
  <2> QED
    BY <2>3, <2>4, MessageAssumption DEF MessageAssumption
<1>2. ASSUME ~connected \/ fragOp = "none" PROVE Current = NoMessage
  BY <1>2 DEF Current
<1> QED
  BY <1>1, <1>2

LEMMA InitRefines == Init => Stream!Init
  BY DEF Init, Stream!Init, Current

(* A frame read by the code, as the stream sees it. *)
LEMMA FrameRefines ==
  ASSUME IInv, NEW f \in Frame, Read(f),
         \/ Rejected(f) \/ ControlFrame(f) \/ WholeMessage(f) \/ FirstFragment(f)
         \/ FirstRejected(f) \/ Continuation(f) \/ ContinuationRejected(f)
  PROVE  Stream!Next
<1>1. connected /\ Stream!Read(f)
  BY DEF Read, Stream!Read
<1>2. ASSUME \/ Stream!Whole(f) \/ Stream!First(f) \/ Stream!Middle(f) \/ Stream!Last(f)
             \/ Stream!Between(f) \/ Stream!Close
      PROVE  Stream!Next
  BY <1>1, <1>2 DEF Stream!Next
<1>3. ASSUME Close PROVE Stream!Close
  BY <1>3 DEF Close, Stream!Close, Current
<1>4. CASE Rejected(f)
  BY <1>2, <1>3, <1>4 DEF Rejected
<1>5. CASE FirstRejected(f)
  BY <1>2, <1>3, <1>5 DEF FirstRejected
<1>6. CASE ContinuationRejected(f)
  BY <1>2, <1>3, <1>6 DEF ContinuationRejected
<1>7. CASE ControlFrame(f)
  <2>1. CASE f.op = "close"
    BY <1>2, <1>3, <1>7, <2>1 DEF ControlFrame
  <2>2. CASE f.op # "close"
    <3>1. f.op \in {"ping", "pong"} /\ f.fin
      BY <1>7, <2>2 DEF ControlFrame, Readable, Control
    <3>2. Current' = Current
      BY <1>7, <2>2 DEF ControlFrame, frag, Current
    <3>3. out' = NoMessage /\ connected' = connected
      BY <1>7, <2>2 DEF ControlFrame
    <3> QED
      BY <1>2, <3>1, <3>2, <3>3 DEF Stream!Between
  <2> QED
    BY <2>1, <2>2
<1>8. CASE WholeMessage(f)
  <2>1. CASE fragOp # "none"
    BY <1>2, <1>3, <1>8, <2>1 DEF WholeMessage
  <2>2. CASE fragOp = "none"
    <3>1. fragOp' = "none" /\ connected' = connected /\ out' = [op |-> f.op, data |-> f.data]
      BY <1>8, <2>2 DEF WholeMessage
    <3>2. Current = NoMessage /\ Current' = NoMessage
      BY <2>2, <3>1 DEF Current
    <3>3. f.op \in {"text", "binary"} /\ f.fin
      BY <1>8 DEF WholeMessage, Data
    <3> QED
      BY <1>2, <3>1, <3>2, <3>3 DEF Stream!Whole
  <2> QED
    BY <2>1, <2>2
<1>9. CASE FirstFragment(f)
  <2>1. SubSeq(fragBuf', 1, fragLen') = f.data
    BY <1>9, FirstStored
  <2>2. /\ f.op \in {"text", "binary"} /\ ~f.fin /\ fragOp = "none" /\ fragOp' = f.op
        /\ out' = NoMessage /\ connected' = connected
    BY <1>9 DEF FirstFragment, Data
  <2>3. Current = NoMessage
    BY <2>2 DEF Current
  <2>4. Current' = [op |-> f.op, data |-> f.data]
    BY <1>1, <2>1, <2>2 DEF Current
  <2> QED
    BY <1>2, <2>2, <2>3, <2>4 DEF Stream!First
<1>10. CASE Continuation(f)
  <2> DEFINE n == fragLen + Len(f.data)
             b == Memcpy(Realloc(fragBuf, GrownCapacity(Len(f.data))), fragLen, f.data)
  <2>1. SubSeq(b, 1, n) = SubSeq(fragBuf, 1, fragLen) \o f.data
    BY <1>10, ContinuationStored
  <2>2. /\ f.op = "cont" /\ fragOp # "none" /\ connected' = connected
        /\ fragLen' = (IF f.fin THEN 0 ELSE n) /\ fragOp' = (IF f.fin THEN "none" ELSE fragOp)
        /\ ~f.fin => fragBuf' = b
        /\ out' = IF f.fin THEN [op |-> fragOp, data |-> SubSeq(b, 1, n)] ELSE NoMessage
    BY <1>10 DEF Continuation
  <2> HIDE DEF n, b
  <2>3. /\ Current = [op |-> fragOp, data |-> SubSeq(fragBuf, 1, fragLen)]
        /\ Current # NoMessage
    BY <1>1, <2>2, CurrentValue
  <2>4. Stream!Extended(f) = [op |-> fragOp, data |-> SubSeq(b, 1, n)]
    BY <2>1, <2>3 DEF Stream!Extended
  <2>5. CASE f.fin
    <3>1. Current' = NoMessage
      BY <2>2, <2>5 DEF Current
    <3> QED
      BY <1>2, <2>2, <2>3, <2>4, <2>5, <3>1 DEF Stream!Last
  <2>6. CASE ~f.fin
    <3>1. Current' = [op |-> fragOp, data |-> SubSeq(b, 1, n)]
      BY <1>1, <2>2, <2>6 DEF Current
    <3> QED
      BY <1>2, <2>2, <2>3, <2>4, <2>6, <3>1 DEF Stream!Middle
  <2> QED
    BY <2>5, <2>6
<1> QED
  BY <1>4, <1>5, <1>6, <1>7, <1>8, <1>9, <1>10

LEMMA NextRefines == IInv /\ [Next]_vars => [Stream!Next]_(Stream!streamVars)
<1> SUFFICES ASSUME IInv, [Next]_vars
             PROVE  Stream!Next \/ UNCHANGED Stream!streamVars
  OBVIOUS
<1>1. CASE SocketFails
  BY <1>1 DEF SocketFails, Close, Current, Stream!Next, Stream!Close
<1>2. CASE Reconnect
  BY <1>2 DEF Reconnect, Reset, Current, Stream!Next
<1>3. ASSUME NEW f \in Frame, Read(f),
             \/ Rejected(f) \/ ControlFrame(f) \/ WholeMessage(f) \/ FirstFragment(f)
             \/ FirstRejected(f) \/ Continuation(f) \/ ContinuationRejected(f)
      PROVE  Stream!Next
  BY <1>3, FrameRefines
<1>4. CASE UNCHANGED vars
  BY <1>4 DEF vars, frag, Current, Stream!streamVars
<1> QED
  BY <1>1, <1>2, <1>3, <1>4 DEF Next

(* The code hands over the messages RFC 6455 reads in the frames, whatever the
   sizes, the fragments, the failures and the connections before were. *)
THEOREM Refinement == Spec => ImplementsStream
<1>1. Init => Stream!Init
  BY InitRefines
<1>2. IInv /\ [Next]_vars => [Stream!Next]_(Stream!streamVars)
  BY NextRefines
<1> QED
  BY <1>1, <1>2, Invariance, PTL DEF Spec, ImplementsStream, Stream!Spec
=============================================================================
