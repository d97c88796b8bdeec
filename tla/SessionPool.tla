----------------------------- MODULE SessionPool -----------------------------
(***************************************************************************)
(* What the terminal sessions are to the rest of the agent: a pool with a  *)
(* number of places.  A session takes a place when it is requested, one at *)
(* a time; it fails, or is served by a thread of its own; either way it    *)
(* gives its place back once and never returns.  The agent exits with no   *)
(* session half made, and if its exit was quiet with none at all.          *)
(***************************************************************************)
EXTENDS Naturals, FiniteSets

CONSTANTS
  Session,
  Places,    \* how many sessions there may be at a time
  Drained    \* the agent exits only after every session has ended

VARIABLES
  phase,     \* of each session
  exited

poolVars == <<phase, exited>>

Init == phase = [s \in Session |-> "new"] /\ exited = FALSE

InPhase(p) == {s \in Session : phase[s] = p}
Placed == InPhase("opening") \cup InPhase("served")

Move(s, from, to) ==
  /\ ~exited /\ phase[s] = from
  /\ phase' = [phase EXCEPT ![s] = to] /\ UNCHANGED exited

Open(s) ==
  /\ InPhase("opening") = {} /\ Cardinality(Placed) < Places
  /\ Move(s, "new", "opening")

Fail(s)  == Move(s, "opening", "over")
Serve(s) == Move(s, "opening", "served")

(* The place is given back before the thread that served it ends. *)
Leave(s) == Move(s, "served", "leaving")
End(s)   == Move(s, "leaving", "over")

Exit ==
  /\ ~exited /\ exited' = TRUE /\ UNCHANGED phase
  /\ InPhase("opening") = {}
  /\ Drained => \A s \in Session : phase[s] \in {"new", "over"}

Next ==
  \/ \E s \in Session : Open(s) \/ Fail(s) \/ Serve(s) \/ Leave(s) \/ End(s)
  \/ Exit

Spec == Init /\ [][Next]_poolVars

\* There are never more sessions than places, one at most is being opened, and
\* the agent leaves nothing half made when it exits.
PlacesKept ==
  /\ Cardinality(Placed) <= Places
  /\ \A s, t \in InPhase("opening") : s = t
  /\ exited => InPhase("opening") = {}
  /\ exited /\ Drained => \A s \in Session : phase[s] \in {"new", "over"}
=============================================================================
