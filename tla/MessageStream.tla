--------------------------- MODULE MessageStream ---------------------------
(***************************************************************************)
(* What the receive thread owes its handlers, as RFC 6455 reads a stream   *)
(* of frames: a message is one whole data frame, or a first fragment and   *)
(* its continuations, with control frames in between.  A handler is given  *)
(* the payloads of one message, all of them, in order and nothing else.    *)
(* A frame out of place closes the connection; any frame may do so.        *)
(***************************************************************************)
EXTENDS Integers, Sequences

CONSTANTS
  Frame,       \* records with an opcode "op", a flag "fin" and a payload "data"
  NoMessage

VARIABLES
  frame, turn, \* the latest frame read, and a bit that flips with each one
  connected,
  current,     \* the message under way, or NoMessage
  out          \* the message handed over by the latest step, or NoMessage

streamVars == <<frame, turn, connected, current, out>>

Init ==
  /\ frame \in Frame /\ turn = 0
  /\ connected = TRUE /\ current = NoMessage /\ out = NoMessage

Read(f) == frame' = f /\ turn' = 1 - turn

Whole(f) ==
  /\ f.op \in {"text", "binary"} /\ f.fin /\ current = NoMessage
  /\ out' = [op |-> f.op, data |-> f.data] /\ UNCHANGED <<connected, current>>

First(f) ==
  /\ f.op \in {"text", "binary"} /\ ~f.fin /\ current = NoMessage
  /\ current' = [op |-> f.op, data |-> f.data]
  /\ out' = NoMessage /\ UNCHANGED connected

Extended(f) == [op |-> current.op, data |-> current.data \o f.data]

Middle(f) ==
  /\ f.op = "cont" /\ ~f.fin /\ current # NoMessage
  /\ current' = Extended(f) /\ out' = NoMessage /\ UNCHANGED connected

Last(f) ==
  /\ f.op = "cont" /\ f.fin /\ current # NoMessage
  /\ out' = Extended(f) /\ current' = NoMessage /\ UNCHANGED connected

Between(f) ==
  /\ f.op \in {"ping", "pong"} /\ f.fin
  /\ out' = NoMessage /\ UNCHANGED <<connected, current>>

Close == connected' = FALSE /\ current' = NoMessage /\ out' = NoMessage

Next ==
  \/ /\ connected
     /\ \E f \in Frame :
          /\ Read(f)
          /\ Whole(f) \/ First(f) \/ Middle(f) \/ Last(f) \/ Between(f) \/ Close
  \/ connected /\ Close /\ UNCHANGED <<frame, turn>>
  \/ ~connected /\ connected' = TRUE /\ UNCHANGED <<frame, turn, current, out>>

Spec == Init /\ [][Next]_streamVars
=============================================================================
