---------------------------- MODULE EventDelivery ----------------------------
(***************************************************************************)
(* What the panel may rely on when it sends a command: it is executed      *)
(* before its acknowledgement is promised, promised before the panel hears *)
(* it, and heard is final.  Promises may be forgotten at any moment, then  *)
(* the panel sends the command again: delivery at least once.              *)
(***************************************************************************)

CONSTANT Command

VARIABLES
  executed,  \* commands that ran at least once
  promised,  \* commands whose acknowledgement is on its way
  retired    \* commands the panel sends no more

deliveryVars == <<executed, promised, retired>>

Init == executed = {} /\ promised = {} /\ retired = {}

Execute(c) == executed' = executed \cup {c} /\ UNCHANGED <<promised, retired>>

(* A promise may displace others. *)
Promise(c) ==
  /\ c \in executed
  /\ promised' \subseteq promised \cup {c} /\ UNCHANGED <<executed, retired>>

Forget == promised' \subseteq promised /\ UNCHANGED <<executed, retired>>

Retire(C) ==
  /\ C \subseteq promised /\ retired' = retired \cup C
  /\ UNCHANGED <<executed, promised>>

Next ==
  \/ \E c \in Command : Execute(c) \/ Promise(c)
  \/ Forget
  \/ \E C \in SUBSET Command : Retire(C)

Spec == Init /\ [][Next]_deliveryVars

\* What the panel is told, or will be, has been done.
ToldIsDone == promised \cup retired \subseteq executed
=============================================================================
