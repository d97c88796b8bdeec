----------------------------- MODULE MCStartup -----------------------------
(* Finite instances of Startup. *)
EXTENDS Startup

\* What a source may offer for a setting; the command line has no option for
\* the key and its flag can only be given.
Offer(source, x) ==
  {Absent} \union
  IF x = "token" THEN {Empty, OwnToken}
  ELSE IF x = "endpoint" THEN {"http", "https", "wss", "malformed"}
  ELSE IF x = "interval" THEN {0, 7}
  ELSE IF source = "cli"
  THEN IF x = "auto_discovery_key" THEN {} ELSE {"true"}
  ELSE IF x = "auto_discovery_key" THEN {Empty, Key} ELSE {"1", "yes", "false", "maybe"}

\* UCI offers a token and an endpoint, and the key or not.
Base(key) ==
  [s \in Source |-> [x \in Setting |->
     IF s # "uci" THEN Absent
     ELSE IF x = "token" THEN OwnToken
     ELSE IF x = "endpoint" THEN "https"
     ELSE IF x = "auto_discovery_key" THEN key
     ELSE Absent]]

Contested(x) ==
  {g \in [Source -> UNION {Offer(s, x) : s \in Source}] :
     \A s \in Source : g[s] \in Offer(s, x)}

\* Each setting in turn, offered in every way by the four sources.
MCOfferings ==
  UNION {{[s \in Source |-> [Base(key)[s] EXCEPT ![x] = given[s]]] :
            given \in Contested(x), key \in {Absent, Key}} : x \in Setting}

MCRevisions == {Base(Absent), Base(Key)}
=============================================================================
