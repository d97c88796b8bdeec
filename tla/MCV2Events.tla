----------------------------- MODULE MCV2Events -----------------------------
(* Finite instances of V2Events. *)
EXTENDS V2Events

Ev(kind, value, suffix, method) ==
  [kind |-> kind, value |-> value, suffix |-> suffix, method |-> method]

Exec1 == Ev("string", 1, "", "agent.exec")
Ping2 == Ev("number", 2, "", "agent.ping")

Note3 == Ev("string", 3, "", "agent.message")

TwoEvents   == {Exec1, Ping2}

(* More ids than the seen list holds. *)
ThreeEvents == {Exec1, Ping2, Note3}
=============================================================================
