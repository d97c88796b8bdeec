-------------------------------- MODULE Ping --------------------------------
(***************************************************************************)
(* A ping task, as the receive thread executes it: handle_ws_message       *)
(* (src/src/core/main.c), ping_task_execute and the three probes           *)
(* (src/src/ping/ping.c), the name resolution they share                   *)
(* (src/src/network/dns_resolver.c) and the upload of the result           *)
(* (src/src/report/report.c).                                              *)
(*                                                                         *)
(* Time is counted from the moment a probe takes its start time.  What the *)
(* code waits for with a timeout (poll, SO_RCVTIMEO) counts in waited; no  *)
(* time passes between two blocking calls.  The network delivers, delays   *)
(* and loses what it likes; fault records that a call has told the probe   *)
(* that the target cannot be reached or does not answer as it should, or   *)
(* that a signal has interrupted a call the probe does not repeat.         *)
(***************************************************************************)
EXTENDS Integers

CONSTANTS Addresses,   \* the addresses a target can have
          Name,        \* a target that has to be resolved
          Kinds,       \* the probes: "icmp", "tcp", "http" and "https"
          Timeout,     \* PING_DEFAULT_TIMEOUT_MS
          Threshold,   \* PING_HIGH_LATENCY_THRESHOLD_MS
          Retries,     \* PING_HIGH_LATENCY_RETRIES
          Tries,       \* DNS_RESOLVER_MAX_RETRIES
          Longest      \* bound: longer times of a probe are not told apart

ASSUME AddressAssumption == Addresses # {} /\ Name \notin Addresses
ASSUME KindAssumption == Kinds \subseteq {"icmp", "tcp", "http", "https"}
ASSUME TimeAssumption ==
  /\ Timeout \in Nat \ {0}
  /\ Threshold \in Nat
  /\ Retries \in Nat
  /\ Tries \in Nat \ {0}
  /\ Longest \in Nat /\ Timeout <= Longest /\ Threshold < Longest

VARIABLES pc,        \* where the receive thread is
          kind,      \* the probe of the task
          target,    \* its target
          custom,    \* a custom DNS server is configured
          asked,     \* how often the present resolver was asked
          address,   \* the address the target has been resolved to
          elapsed,   \* time since the start time of the probe
          waited,    \* time in the present blocking call
          ready,     \* bytes of the answer are in the socket
          replies,   \* echo replies on their way
          fault,     \* the network has reported an error to the probe
          outcome,   \* what the last probe returned
          retry,     \* the number of the attempt, from 0
          latency,   \* the result so far
          value      \* the last result that was uploaded

task == <<kind, target, custom>>
clock == <<elapsed, waited>>
vars == <<pc, task, asked, address, clock, ready, replies, fault,
          outcome, retry, latency, value>>

Latencies == -1 .. Longest

\* An echo request and its reply carry the process id and the number 1: which
\* attempt a reply belongs to is not in it.
Replies == [from : Addresses, of : {"this", "earlier"}]

Resolving == {"query", "await", "pause", "lookup", "rest", "fallback"}
Blocked == {"echo", "connect", "handshake", "request", "answer"}

TypeOK ==
  /\ pc \in {"idle", "resolve", "open", "sent", "judge", "report"} \cup Resolving \cup Blocked
  /\ kind \in Kinds
  /\ target \in Addresses \cup {Name}
  /\ custom \in BOOLEAN
  /\ asked \in 0 .. Tries
  /\ address \in Addresses
  /\ elapsed \in 0 .. Longest
  /\ waited \in 0 .. Timeout
  /\ ready \in BOOLEAN
  /\ replies \subseteq Replies
  /\ fault \in BOOLEAN
  /\ outcome \in Latencies
  /\ retry \in 0 .. Retries
  /\ latency \in Latencies
  /\ value \in Latencies

Init ==
  /\ pc = "idle"
  /\ kind \in Kinds
  /\ target \in Addresses
  /\ custom \in BOOLEAN
  /\ asked = 0
  /\ address \in Addresses
  /\ elapsed = 0
  /\ waited = 0
  /\ ready = FALSE
  /\ replies = {}
  /\ fault = FALSE
  /\ outcome = -1
  /\ retry = 0
  /\ latency = -1
  /\ value = -1

-----------------------------------------------------------------------------
\* The task.

\* A task with a number, a known type and a target.
Begin ==
  /\ pc = "idle"
  /\ kind' \in Kinds
  /\ target' \in Addresses \cup {Name}
  /\ pc' = "resolve"
  /\ retry' = 0
  /\ latency' = -1
  /\ UNCHANGED <<custom, asked, address, clock, ready, replies, fault, outcome, value>>

\* An unknown type, or a target with a line break: the result is a failure.
Reject ==
  /\ pc = "idle"
  /\ pc' = "report"
  /\ latency' = -1
  /\ UNCHANGED <<task, asked, address, clock, ready, replies, fault, outcome, retry, value>>

\* A probe returns.  Its socket is closed; replies still under way to it will
\* find the socket of the next probe, or none.
Return(lat) ==
  /\ pc' = "judge"
  /\ outcome' = lat
  /\ waited' = 0
  /\ ready' = FALSE
  /\ UNCHANGED <<task, asked, address, elapsed, retry, latency, value>>

Fail == Return(-1) /\ fault' = TRUE

\* Mutant: whatever is not above the threshold is better, a failure too.
Improves(lat) == lat <= Threshold

Better(lat) == 0 <= lat /\ lat <= Threshold

\* The first probe gives the result; when it is high, up to Retries probes are
\* made until one is within the threshold.
Repeated(more) ==
  /\ pc = "judge"
  /\ latency' = (IF retry = 0 \/ Better(outcome) THEN outcome ELSE latency)
  /\ \/ /\ latency' > Threshold /\ more
        /\ pc' = "resolve"
        /\ retry' = retry + 1
     \/ /\ ~(latency' > Threshold /\ more)
        /\ pc' = "report"
        /\ retry' = 0
  /\ replies' = {[from |-> r.from, of |-> "earlier"] : r \in replies}
  /\ outcome' = -1
  /\ elapsed' = 0
  /\ fault' = FALSE
  /\ UNCHANGED <<task, asked, address, waited, ready, value>>

\* Mutant: one retry too many.
JudgeOnceMore == Repeated(retry <= Retries)

Judge == Repeated(retry < Retries)

\* One attempt to upload the result; nobody looks at how it ends.
Report ==
  /\ pc = "report"
  /\ pc' = "idle"
  /\ value' \in {latency, value}
  /\ latency' = -1
  /\ UNCHANGED <<task, asked, address, clock, ready, replies, fault, outcome, retry>>

-----------------------------------------------------------------------------
\* ping_resolve_ip and dns_resolver_lookup, before every probe.

Goto(where, n) ==
  /\ pc' = where
  /\ asked' = n
  /\ waited' = 0
  /\ UNCHANGED <<task, address, elapsed, ready, replies, fault, outcome, retry, latency, value>>

Found(a) ==
  /\ pc' = "open"
  /\ address' = a
  /\ asked' = 0
  /\ waited' = 0
  /\ UNCHANGED <<task, elapsed, ready, replies, fault, outcome, retry, latency, value>>

Resolve ==
  /\ pc = "resolve"
  /\ \/ target # Name /\ Found(target)
     \/ target = Name /\ custom /\ Goto("query", 1)
     \/ target = Name /\ ~custom /\ Goto("fallback", 0)

\* Brackets that do not match, or a URL that is too long.
Malformed ==
  /\ pc = "resolve"
  /\ Fail
  /\ UNCHANGED replies

\* Mutant: the attempts are not counted.
AsksForever(pause, resolver) == Goto(pause, asked)

\* The next attempt after a pause, or the next resolver.
TryAgain(pause, resolver) ==
  IF asked < Tries THEN Goto(pause, asked + 1) ELSE Goto(resolver, 1)

\* dns_query_server: one query, one datagram.
Query ==
  /\ pc = "query"
  /\ Goto("await", asked) \/ TryAgain("pause", "lookup")

\* Our server answers our query with an address.
Answered ==
  /\ pc = "await"
  /\ \E a \in Addresses : Found(a)

\* Another server or another query, a truncated answer, an answer without an
\* address, or nothing for DNS_RESOLVER_TIMEOUT_SEC.
NotAnswered ==
  /\ pc = "await"
  /\ TryAgain("pause", "lookup")

\* The pause before the next attempt.
Pause ==
  \/ pc = "pause" /\ Goto("query", asked)
  \/ pc = "rest" /\ Goto("lookup", asked)

\* getaddrinfo in dns_resolver_lookup: an IPv4 address if there is one.
Lookup ==
  /\ pc = "lookup"
  /\ \/ \E a \in Addresses : Found(a)
     \/ TryAgain("rest", "fallback")

\* getaddrinfo in ping_resolve_ip: the first address of any family, once.
Fallback ==
  /\ pc = "fallback"
  /\ \/ \E a \in Addresses : Found(a)
     \/ Fail /\ UNCHANGED replies

-----------------------------------------------------------------------------
\* The probes.

\* Time passes in a blocking call, up to its timeout.
Tick ==
  /\ pc \in Blocked
  /\ waited < Timeout
  /\ waited' = waited + 1
  /\ elapsed' = (IF elapsed < Longest THEN elapsed + 1 ELSE Longest)
  /\ UNCHANGED <<pc, task, asked, address, ready, replies, fault, outcome, retry, latency, value>>

\* The next blocking call begins.
Block(where) ==
  /\ pc' = where
  /\ waited' = 0
  /\ UNCHANGED <<task, asked, address, elapsed, ready, fault, outcome, retry, latency, value>>

\* The start time is taken; socket or send can fail.
OpenEcho ==
  /\ pc = "open"
  /\ kind = "icmp"
  /\ \/ Fail /\ UNCHANGED replies
     \/ /\ Block("echo")
        /\ replies' \in {replies, replies \cup {[from |-> address, of |-> "this"]}}

\* Mutant: a packet that is not the answer ends the probe.
AgainFails == Return(-1) /\ UNCHANGED fault

\* What comes is not the answer: the time is up, or the receive is repeated.
Again ==
  IF elapsed >= Timeout THEN Return(-1) /\ UNCHANGED fault
                        ELSE Block("echo")

\* An echo reply from the address that was probed, with our process id.
Matches(r) == r.from = address

Echo(r) ==
  /\ pc = "echo"
  /\ r \in replies
  /\ replies' = replies \ {r}
  /\ \/ Matches(r) /\ Return(elapsed) /\ UNCHANGED fault
     \/ ~Matches(r) /\ Again

\* Any other ICMP packet, or EINTR.
Stray ==
  /\ pc = "echo"
  /\ Again
  /\ UNCHANGED replies

\* recvfrom fails for another reason.
EchoFails ==
  /\ pc = "echo"
  /\ Fail
  /\ UNCHANGED replies

\* A reply is lost, or arrives while no socket is open.
Lose(r) ==
  /\ r \in replies
  /\ replies' = replies \ {r}
  /\ UNCHANGED <<pc, task, asked, address, clock, ready, fault, outcome, retry, latency, value>>

\* The start time is taken and connect is called on a socket that does not
\* block.
OpenStream ==
  /\ pc = "open"
  /\ kind # "icmp"
  /\ \/ Fail
     \/ Block("connect")
  /\ UNCHANGED replies

\* connect succeeds, at once or while poll waits.
Connected ==
  /\ pc = "connect"
  /\ \/ kind = "tcp" /\ Return(elapsed) /\ UNCHANGED fault
     \/ kind = "https" /\ Block("handshake")
     \/ kind = "http" /\ Block("sent")
  /\ UNCHANGED replies

\* SO_ERROR: refused, unreachable.
Refused ==
  /\ pc = "connect"
  /\ Fail
  /\ UNCHANGED replies

\* A signal interrupts poll, or a read of the handshake or of the answer: none
\* of them is repeated.
Interrupted ==
  /\ pc \in {"connect", "handshake", "answer"}
  /\ Fail
  /\ UNCHANGED replies

\* The socket blocks again, with timeouts, and every read of the handshake has
\* the whole timeout.  How many there are is up to the peer.
Handshake ==
  /\ pc = "handshake"
  /\ Block("handshake") \/ Block("request")
  /\ UNCHANGED replies

\* The request is written.  A write that times out or is interrupted is
\* repeated, as often as it takes; the read for the answer has a timeout again.
Request ==
  /\ pc = "request"
  /\ Block("request") \/ Block("answer")
  /\ UNCHANGED replies

\* A certificate that is not accepted, an alert, a connection that is reset.
StreamFails ==
  /\ pc \in {"handshake", "request", "answer"}
  /\ Fail
  /\ UNCHANGED replies

\* A blocking call has timed out.
Silence ==
  /\ pc \in Blocked \ {"request"}
  /\ waited = Timeout
  /\ Return(-1)
  /\ UNCHANGED <<replies, fault>>

\* The first part of the answer has arrived.
Arrive ==
  /\ pc \in {"sent", "answer"}
  /\ ~ready
  /\ ready' = TRUE
  /\ UNCHANGED <<pc, task, asked, address, clock, replies, fault, outcome, retry, latency, value>>

\* A status from 200 to 399 in that part, or another.
Judged == (Return(elapsed) /\ UNCHANGED fault) \/ Fail

ReadTls ==
  /\ pc = "answer"
  /\ ready
  /\ Judged
  /\ UNCHANGED replies

\* Without TLS the socket still does not block: there is an answer already, or
\* EAGAIN ends the probe.
ReadPlain ==
  /\ pc = "sent"
  /\ IF ready THEN Judged ELSE Return(-1) /\ UNCHANGED fault
  /\ UNCHANGED replies

-----------------------------------------------------------------------------
Names == Resolve \/ Malformed \/ Query \/ Answered \/ NotAnswered \/ Pause \/ Lookup \/ Fallback

Probe ==
  \/ OpenEcho \/ \E r \in replies : Echo(r)
  \/ Stray \/ EchoFails
  \/ OpenStream \/ Connected \/ Refused \/ Interrupted
  \/ Handshake \/ Request \/ StreamFails
  \/ Silence \/ ReadTls \/ ReadPlain

Next ==
  \/ Begin \/ Reject \/ Judge \/ Report
  \/ Names \/ Probe \/ Tick \/ Arrive
  \/ \E r \in replies : Lose(r)

Spec == Init /\ [][Next]_vars

\* The thread goes on where it is not blocked, timeouts expire, the system
\* resolver returns.  No answer, packet or task is taken for granted, nor that
\* a peer completes a handshake or takes in a request.
Fairness ==
  /\ WF_vars(Judge) /\ WF_vars(Report)
  /\ WF_vars(Names)
  /\ WF_vars(OpenEcho) /\ WF_vars(OpenStream) /\ WF_vars(ReadPlain)
  /\ WF_vars(Tick) /\ WF_vars(Silence)

FairSpec == Spec /\ Fairness

-----------------------------------------------------------------------------
\* A probe that can wait gives up on a silent target only after the timeout:
\* unless a call reports an error or is interrupted where it is not repeated,
\* it does not return a failure earlier.  An echo probe repeats the receive:
\* no foreign packet and no signal makes it fail early.
PatientEnough ==
  pc = "judge" /\ kind # "http" /\ outcome = -1 /\ ~fault => elapsed >= Timeout

\* "Perform an HTTP GET probe and measure the round-trip latency" (ping.h:75):
\* so does the probe without TLS.
AnswerAwaited ==
  pc = "judge" /\ kind = "http" /\ outcome = -1 /\ ~fault => elapsed >= Timeout

\* Retries never make the result worse: a latency that was measured is only
\* replaced by one within the threshold, and never by a failure.
RetryNeverWorsens ==
  [][latency >= 0 /\ pc # "report" => latency' \in 0 .. latency]_vars

\* The receive thread comes back from every task, provided no peer keeps it in
\* a TLS handshake or in the write of the request for ever: neither a flood of
\* foreign packets, nor interruptions, nor name servers or targets that are
\* silent keep it.
TaskEnds ==
  []<>(pc \notin {"handshake", "request"}) => (pc # "idle" ~> pc = "idle")

\* ping.c:688-689 sets timeouts "so the TLS handshake and subsequent
\* SSL_write/SSL_read cannot block indefinitely".  Each read has a timeout of
\* its own, and a write that has timed out is repeated.
TlsBounded == pc \in {"handshake", "request"} ~> pc \notin {"handshake", "request"}

\* "Perform an ICMP echo request and measure the round-trip latency"
\* (ping.h:55): the reply that ends a probe answers this probe, and not one
\* that timed out before it.
OwnReply ==
  [][pc = "echo" /\ outcome' >= 0 =>
       [from |-> address, of |-> "this"] \in replies \ replies']_vars
=============================================================================
