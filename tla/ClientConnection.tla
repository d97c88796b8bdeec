--------------------------- MODULE ClientConnection ---------------------------
(***************************************************************************)
(* The life of the agent's connection as its users see it: a socket, the   *)
(* announcement that it may be used, the thread that reads it.  They come  *)
(* in this order and go in the other one, round after round, and the last  *)
(* step finds nothing left.  A reader that ends takes the announcement     *)
(* with it, unless the agent is stopping.                                  *)
(***************************************************************************)

VARIABLES
  socket,     \* there is one
  announced,  \* threads may use the connection
  reader,     \* "none", "running", or "ended" and not yet joined
  stopping,   \* the agent is told to stop
  over        \* the client is destroyed

connectionVars == <<socket, announced, reader, stopping, over>>

Nothing == ~socket /\ ~announced /\ reader = "none"

Init == Nothing /\ ~stopping /\ ~over

Open ==
  /\ Nothing /\ ~over /\ socket' = TRUE
  /\ UNCHANGED <<announced, reader, stopping, over>>

Announce ==
  /\ socket /\ reader = "none" /\ ~announced /\ announced' = TRUE
  /\ UNCHANGED <<socket, reader, stopping, over>>

Serve ==
  /\ socket /\ announced /\ reader = "none" /\ reader' = "running"
  /\ UNCHANGED <<socket, announced, stopping, over>>

Withdraw ==
  /\ announced /\ announced' = FALSE
  /\ UNCHANGED <<socket, reader, stopping, over>>

ReaderEnds ==
  /\ reader = "running" /\ reader' = "ended"
  /\ announced' = FALSE \/ (stopping /\ UNCHANGED announced)
  /\ UNCHANGED <<socket, stopping, over>>

Join ==
  /\ reader = "ended" /\ ~announced /\ reader' = "none"
  /\ UNCHANGED <<socket, announced, stopping, over>>

(* An attempt that failed, or a connection without its reader, is closed. *)
Close ==
  /\ socket /\ reader = "none" /\ socket' = FALSE /\ announced' = FALSE
  /\ UNCHANGED <<reader, stopping, over>>

Stop == stopping' = TRUE /\ UNCHANGED <<socket, announced, reader, over>>

Destroy ==
  /\ Nothing /\ stopping /\ ~over /\ over' = TRUE
  /\ UNCHANGED <<socket, announced, reader, stopping>>

Next ==
  \/ Open \/ Announce \/ Serve \/ Withdraw \/ ReaderEnds \/ Join \/ Close
  \/ Stop \/ Destroy

Spec == Init /\ [][Next]_connectionVars

\* Nobody is told of a connection, and nothing reads one, that has no socket; a
\* reader is gone unannounced only for a stop; after the end nothing is left.
InOrder ==
  /\ announced \/ reader # "none" => socket
  /\ reader = "ended" /\ announced => stopping
  /\ over => Nothing /\ stopping
===============================================================================
