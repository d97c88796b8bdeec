----------------------------- MODULE PingProofs -----------------------------
(***************************************************************************)
(* Proofs about Ping, for any timeout, threshold, number of retries,       *)
(* addresses and probes: types, no probe gives up early on a silent        *)
(* target, no retry makes a result worse.                                  *)
(*                                                                         *)
(* The invariant carries, beside the properties, that a probe starts with  *)
(* no time used, that the present blocking call has not lasted longer than *)
(* the probe, and that a high latency is what a retry started from.        *)
(***************************************************************************)
EXTENDS Ping, TLAPS

USE AddressAssumption, KindAssumption, TimeAssumption

\* The time used, by where the probe is.
Timing ==
  /\ pc \notin Blocked \cup {"sent", "judge"} => elapsed = 0
  /\ pc \in Blocked => waited <= elapsed
  /\ pc = "sent" => kind = "http"

\* The result so far: none before the first probe has ended, a high one while
\* there are retries.
Progress ==
  /\ pc # "report" /\ retry = 0 => latency = -1
  /\ retry # 0 => latency > Threshold
  /\ pc \in {"idle", "report"} => retry = 0

\* The inductive invariant.
IInv == TypeOK /\ Timing /\ Progress /\ PatientEnough

-----------------------------------------------------------------------------
(* The steps, one lemma for each action.                                     *)

LEMMA BeginKeeps ==
  ASSUME IInv, Begin
  PROVE  IInv'
<1> USE DEF IInv, Begin, task, clock, Blocked, Resolving
<1>1. TypeOK'
  <2>1. replies' \subseteq Replies
    BY DEF TypeOK
  <2>2. elapsed' \in 0 .. Longest /\ waited' \in 0 .. Timeout
    BY DEF TypeOK, Timing
  <2>3. outcome' \in Latencies /\ latency' \in Latencies /\ value' \in Latencies
    BY DEF TypeOK, Latencies
  <2> QED
    BY <2>1, <2>2, <2>3 DEF TypeOK
<1>2. Timing'
  BY DEF TypeOK, Timing
<1>3. Progress'
  BY DEF TypeOK, Progress, Latencies
<1>4. PatientEnough'
  BY DEF TypeOK, Timing, PatientEnough
<1> QED
  BY <1>1, <1>2, <1>3, <1>4

LEMMA RejectKeeps ==
  ASSUME IInv, Reject
  PROVE  IInv'
<1> USE DEF IInv, Reject, task, clock, Blocked, Resolving
<1>1. TypeOK'
  <2>1. replies' \subseteq Replies
    BY DEF TypeOK
  <2>2. elapsed' \in 0 .. Longest /\ waited' \in 0 .. Timeout
    BY DEF TypeOK, Timing
  <2>3. outcome' \in Latencies /\ latency' \in Latencies /\ value' \in Latencies
    BY DEF TypeOK, Latencies
  <2> QED
    BY <2>1, <2>2, <2>3 DEF TypeOK
<1>2. Timing'
  BY DEF TypeOK, Timing
<1>3. Progress'
  BY DEF TypeOK, Progress, Latencies
<1>4. PatientEnough'
  BY DEF TypeOK, Timing, PatientEnough
<1> QED
  BY <1>1, <1>2, <1>3, <1>4

LEMMA JudgeKeeps ==
  ASSUME IInv, Judge
  PROVE  IInv'
<1> USE DEF IInv, Judge, Repeated, Better, task, clock, Blocked, Resolving
<1>1. TypeOK'
  <2>1. replies' \subseteq Replies
    BY DEF TypeOK, Replies
  <2>2. elapsed' \in 0 .. Longest /\ waited' \in 0 .. Timeout
    BY DEF TypeOK, Timing
  <2>3. outcome' \in Latencies /\ latency' \in Latencies /\ value' \in Latencies
    BY DEF TypeOK, Latencies
  <2>4. pc' \in {"resolve", "report"} /\ retry' \in 0 .. Retries
    BY DEF TypeOK
  <2> QED
    BY <2>1, <2>2, <2>3, <2>4 DEF TypeOK
<1>2. Timing'
  BY DEF TypeOK, Timing
<1>3. Progress'
  BY DEF TypeOK, Progress, Latencies
<1>4. PatientEnough'
  BY DEF TypeOK, Timing, PatientEnough
<1> QED
  BY <1>1, <1>2, <1>3, <1>4

LEMMA ReportKeeps ==
  ASSUME IInv, Report
  PROVE  IInv'
<1> USE DEF IInv, Report, task, clock, Blocked, Resolving
<1>1. TypeOK'
  <2>1. replies' \subseteq Replies
    BY DEF TypeOK
  <2>2. elapsed' \in 0 .. Longest /\ waited' \in 0 .. Timeout
    BY DEF TypeOK, Timing
  <2>3. outcome' \in Latencies /\ latency' \in Latencies /\ value' \in Latencies
    BY DEF TypeOK, Latencies
  <2> QED
    BY <2>1, <2>2, <2>3 DEF TypeOK
<1>2. Timing'
  BY DEF TypeOK, Timing
<1>3. Progress'
  BY DEF TypeOK, Progress, Latencies
<1>4. PatientEnough'
  BY DEF TypeOK, Timing, PatientEnough
<1> QED
  BY <1>1, <1>2, <1>3, <1>4

LEMMA ResolveKeeps ==
  ASSUME IInv, Resolve
  PROVE  IInv'
<1> USE DEF IInv, Resolve, Goto, Found, task, clock, Blocked, Resolving
<1>1. TypeOK'
  <2>1. replies' \subseteq Replies
    BY DEF TypeOK
  <2>2. elapsed' \in 0 .. Longest /\ waited' \in 0 .. Timeout
    BY DEF TypeOK, Timing
  <2>3. outcome' \in Latencies /\ latency' \in Latencies /\ value' \in Latencies
    BY DEF TypeOK, Latencies
  <2> QED
    BY <2>1, <2>2, <2>3 DEF TypeOK
<1>2. Timing'
  BY DEF TypeOK, Timing
<1>3. Progress'
  BY DEF TypeOK, Progress, Latencies
<1>4. PatientEnough'
  BY DEF TypeOK, Timing, PatientEnough
<1> QED
  BY <1>1, <1>2, <1>3, <1>4

LEMMA MalformedKeeps ==
  ASSUME IInv, Malformed
  PROVE  IInv'
<1> USE DEF IInv, Malformed, Fail, Return, task, clock, Blocked, Resolving
<1>1. TypeOK'
  <2>1. replies' \subseteq Replies
    BY DEF TypeOK
  <2>2. elapsed' \in 0 .. Longest /\ waited' \in 0 .. Timeout
    BY DEF TypeOK, Timing
  <2>3. outcome' \in Latencies /\ latency' \in Latencies /\ value' \in Latencies
    BY DEF TypeOK, Latencies
  <2> QED
    BY <2>1, <2>2, <2>3 DEF TypeOK
<1>2. Timing'
  BY DEF TypeOK, Timing
<1>3. Progress'
  BY DEF TypeOK, Progress, Latencies
<1>4. PatientEnough'
  BY DEF TypeOK, Timing, PatientEnough
<1> QED
  BY <1>1, <1>2, <1>3, <1>4

LEMMA QueryKeeps ==
  ASSUME IInv, Query
  PROVE  IInv'
<1> USE DEF IInv, Query, Goto, TryAgain, task, clock, Blocked, Resolving
<1>1. TypeOK'
  <2>1. replies' \subseteq Replies
    BY DEF TypeOK
  <2>2. elapsed' \in 0 .. Longest /\ waited' \in 0 .. Timeout
    BY DEF TypeOK, Timing
  <2>3. outcome' \in Latencies /\ latency' \in Latencies /\ value' \in Latencies
    BY DEF TypeOK, Latencies
  <2> QED
    BY <2>1, <2>2, <2>3 DEF TypeOK
<1>2. Timing'
  BY DEF TypeOK, Timing
<1>3. Progress'
  BY DEF TypeOK, Progress, Latencies
<1>4. PatientEnough'
  BY DEF TypeOK, Timing, PatientEnough
<1> QED
  BY <1>1, <1>2, <1>3, <1>4

LEMMA AnsweredKeeps ==
  ASSUME IInv, Answered
  PROVE  IInv'
<1> USE DEF IInv, Answered, Found, task, clock, Blocked, Resolving
<1>1. TypeOK'
  <2>1. replies' \subseteq Replies
    BY DEF TypeOK
  <2>2. elapsed' \in 0 .. Longest /\ waited' \in 0 .. Timeout
    BY DEF TypeOK, Timing
  <2>3. outcome' \in Latencies /\ latency' \in Latencies /\ value' \in Latencies
    BY DEF TypeOK, Latencies
  <2> QED
    BY <2>1, <2>2, <2>3 DEF TypeOK
<1>2. Timing'
  BY DEF TypeOK, Timing
<1>3. Progress'
  BY DEF TypeOK, Progress, Latencies
<1>4. PatientEnough'
  BY DEF TypeOK, Timing, PatientEnough
<1> QED
  BY <1>1, <1>2, <1>3, <1>4

LEMMA NotAnsweredKeeps ==
  ASSUME IInv, NotAnswered
  PROVE  IInv'
<1> USE DEF IInv, NotAnswered, Goto, TryAgain, task, clock, Blocked, Resolving
<1>1. TypeOK'
  <2>1. replies' \subseteq Replies
    BY DEF TypeOK
  <2>2. elapsed' \in 0 .. Longest /\ waited' \in 0 .. Timeout
    BY DEF TypeOK, Timing
  <2>3. outcome' \in Latencies /\ latency' \in Latencies /\ value' \in Latencies
    BY DEF TypeOK, Latencies
  <2> QED
    BY <2>1, <2>2, <2>3 DEF TypeOK
<1>2. Timing'
  BY DEF TypeOK, Timing
<1>3. Progress'
  BY DEF TypeOK, Progress, Latencies
<1>4. PatientEnough'
  BY DEF TypeOK, Timing, PatientEnough
<1> QED
  BY <1>1, <1>2, <1>3, <1>4

LEMMA PauseKeeps ==
  ASSUME IInv, Pause
  PROVE  IInv'
<1> USE DEF IInv, Pause, Goto, task, clock, Blocked, Resolving
<1>1. TypeOK'
  <2>1. replies' \subseteq Replies
    BY DEF TypeOK
  <2>2. elapsed' \in 0 .. Longest /\ waited' \in 0 .. Timeout
    BY DEF TypeOK, Timing
  <2>3. outcome' \in Latencies /\ latency' \in Latencies /\ value' \in Latencies
    BY DEF TypeOK, Latencies
  <2> QED
    BY <2>1, <2>2, <2>3 DEF TypeOK
<1>2. Timing'
  BY DEF TypeOK, Timing
<1>3. Progress'
  BY DEF TypeOK, Progress, Latencies
<1>4. PatientEnough'
  BY DEF TypeOK, Timing, PatientEnough
<1> QED
  BY <1>1, <1>2, <1>3, <1>4

LEMMA LookupKeeps ==
  ASSUME IInv, Lookup
  PROVE  IInv'
<1> USE DEF IInv, Lookup, Goto, TryAgain, Found, task, clock, Blocked, Resolving
<1>1. TypeOK'
  <2>1. replies' \subseteq Replies
    BY DEF TypeOK
  <2>2. elapsed' \in 0 .. Longest /\ waited' \in 0 .. Timeout
    BY DEF TypeOK, Timing
  <2>3. outcome' \in Latencies /\ latency' \in Latencies /\ value' \in Latencies
    BY DEF TypeOK, Latencies
  <2> QED
    BY <2>1, <2>2, <2>3 DEF TypeOK
<1>2. Timing'
  BY DEF TypeOK, Timing
<1>3. Progress'
  BY DEF TypeOK, Progress, Latencies
<1>4. PatientEnough'
  BY DEF TypeOK, Timing, PatientEnough
<1> QED
  BY <1>1, <1>2, <1>3, <1>4

LEMMA FallbackKeeps ==
  ASSUME IInv, Fallback
  PROVE  IInv'
<1> USE DEF IInv, Fallback, Found, Fail, Return, task, clock, Blocked, Resolving
<1>1. TypeOK'
  <2>1. replies' \subseteq Replies
    BY DEF TypeOK
  <2>2. elapsed' \in 0 .. Longest /\ waited' \in 0 .. Timeout
    BY DEF TypeOK, Timing
  <2>3. outcome' \in Latencies /\ latency' \in Latencies /\ value' \in Latencies
    BY DEF TypeOK, Latencies
  <2>4. pc' \in {"open", "judge"} /\ address' \in Addresses /\ asked' \in 0 .. Tries
    BY DEF TypeOK
  <2> QED
    BY <2>1, <2>2, <2>3, <2>4 DEF TypeOK
<1>2. Timing'
  BY DEF TypeOK, Timing
<1>3. Progress'
  BY DEF TypeOK, Progress, Latencies
<1>4. PatientEnough'
  BY DEF TypeOK, Timing, PatientEnough
<1> QED
  BY <1>1, <1>2, <1>3, <1>4

LEMMA OpenEchoKeeps ==
  ASSUME IInv, OpenEcho
  PROVE  IInv'
<1> USE DEF IInv, OpenEcho, Fail, Return, Block, task, clock, Blocked, Resolving
<1>1. TypeOK'
  <2>1. replies' \subseteq Replies
    BY DEF TypeOK, Replies
  <2>2. elapsed' \in 0 .. Longest /\ waited' \in 0 .. Timeout
    BY DEF TypeOK, Timing
  <2>3. outcome' \in Latencies /\ latency' \in Latencies /\ value' \in Latencies
    BY DEF TypeOK, Latencies
  <2> QED
    BY <2>1, <2>2, <2>3 DEF TypeOK
<1>2. Timing'
  BY DEF TypeOK, Timing
<1>3. Progress'
  BY DEF TypeOK, Progress, Latencies
<1>4. PatientEnough'
  BY DEF TypeOK, Timing, PatientEnough
<1> QED
  BY <1>1, <1>2, <1>3, <1>4

LEMMA EchoKeeps ==
  ASSUME IInv, NEW r \in replies, Echo(r)
  PROVE  IInv'
<1> USE DEF IInv, Echo, Return, Again, Block, Matches, task, clock, Blocked, Resolving
<1>1. TypeOK'
  <2>1. replies' \subseteq Replies
    BY DEF TypeOK
  <2>2. elapsed' \in 0 .. Longest /\ waited' \in 0 .. Timeout
    BY DEF TypeOK, Timing
  <2>3. outcome' \in Latencies /\ latency' \in Latencies /\ value' \in Latencies
    BY DEF TypeOK, Latencies
  <2> QED
    BY <2>1, <2>2, <2>3 DEF TypeOK
<1>2. Timing'
  BY DEF TypeOK, Timing
<1>3. Progress'
  BY DEF TypeOK, Progress, Latencies
<1>4. PatientEnough'
  BY DEF TypeOK, Timing, PatientEnough
<1> QED
  BY <1>1, <1>2, <1>3, <1>4

LEMMA StrayKeeps ==
  ASSUME IInv, Stray
  PROVE  IInv'
<1> USE DEF IInv, Stray, Again, Return, Block, task, clock, Blocked, Resolving
<1>1. TypeOK'
  <2>1. replies' \subseteq Replies
    BY DEF TypeOK
  <2>2. elapsed' \in 0 .. Longest /\ waited' \in 0 .. Timeout
    BY DEF TypeOK, Timing
  <2>3. outcome' \in Latencies /\ latency' \in Latencies /\ value' \in Latencies
    BY DEF TypeOK, Latencies
  <2> QED
    BY <2>1, <2>2, <2>3 DEF TypeOK
<1>2. Timing'
  BY DEF TypeOK, Timing
<1>3. Progress'
  BY DEF TypeOK, Progress, Latencies
<1>4. PatientEnough'
  BY DEF TypeOK, Timing, PatientEnough
<1> QED
  BY <1>1, <1>2, <1>3, <1>4

LEMMA EchoFailsKeeps ==
  ASSUME IInv, EchoFails
  PROVE  IInv'
<1> USE DEF IInv, EchoFails, Fail, Return, task, clock, Blocked, Resolving
<1>1. TypeOK'
  <2>1. replies' \subseteq Replies
    BY DEF TypeOK
  <2>2. elapsed' \in 0 .. Longest /\ waited' \in 0 .. Timeout
    BY DEF TypeOK, Timing
  <2>3. outcome' \in Latencies /\ latency' \in Latencies /\ value' \in Latencies
    BY DEF TypeOK, Latencies
  <2> QED
    BY <2>1, <2>2, <2>3 DEF TypeOK
<1>2. Timing'
  BY DEF TypeOK, Timing
<1>3. Progress'
  BY DEF TypeOK, Progress, Latencies
<1>4. PatientEnough'
  BY DEF TypeOK, Timing, PatientEnough
<1> QED
  BY <1>1, <1>2, <1>3, <1>4

LEMMA OpenStreamKeeps ==
  ASSUME IInv, OpenStream
  PROVE  IInv'
<1> USE DEF IInv, OpenStream, Fail, Return, Block, task, clock, Blocked, Resolving
<1>1. TypeOK'
  <2>1. replies' \subseteq Replies
    BY DEF TypeOK
  <2>2. elapsed' \in 0 .. Longest /\ waited' \in 0 .. Timeout
    BY DEF TypeOK, Timing
  <2>3. outcome' \in Latencies /\ latency' \in Latencies /\ value' \in Latencies
    BY DEF TypeOK, Latencies
  <2> QED
    BY <2>1, <2>2, <2>3 DEF TypeOK
<1>2. Timing'
  BY DEF TypeOK, Timing
<1>3. Progress'
  BY DEF TypeOK, Progress, Latencies
<1>4. PatientEnough'
  BY DEF TypeOK, Timing, PatientEnough
<1> QED
  BY <1>1, <1>2, <1>3, <1>4

LEMMA ConnectedKeeps ==
  ASSUME IInv, Connected
  PROVE  IInv'
<1> USE DEF IInv, Connected, Return, Block, task, clock, Blocked, Resolving
<1>1. TypeOK'
  <2>1. replies' \subseteq Replies
    BY DEF TypeOK
  <2>2. elapsed' \in 0 .. Longest /\ waited' \in 0 .. Timeout
    BY DEF TypeOK, Timing
  <2>3. outcome' \in Latencies /\ latency' \in Latencies /\ value' \in Latencies
    BY DEF TypeOK, Latencies
  <2> QED
    BY <2>1, <2>2, <2>3 DEF TypeOK
<1>2. Timing'
  BY DEF TypeOK, Timing
<1>3. Progress'
  BY DEF TypeOK, Progress, Latencies
<1>4. PatientEnough'
  BY DEF TypeOK, Timing, PatientEnough
<1> QED
  BY <1>1, <1>2, <1>3, <1>4

LEMMA RefusedKeeps ==
  ASSUME IInv, Refused
  PROVE  IInv'
<1> USE DEF IInv, Refused, Fail, Return, task, clock, Blocked, Resolving
<1>1. TypeOK'
  <2>1. replies' \subseteq Replies
    BY DEF TypeOK
  <2>2. elapsed' \in 0 .. Longest /\ waited' \in 0 .. Timeout
    BY DEF TypeOK, Timing
  <2>3. outcome' \in Latencies /\ latency' \in Latencies /\ value' \in Latencies
    BY DEF TypeOK, Latencies
  <2> QED
    BY <2>1, <2>2, <2>3 DEF TypeOK
<1>2. Timing'
  BY DEF TypeOK, Timing
<1>3. Progress'
  BY DEF TypeOK, Progress, Latencies
<1>4. PatientEnough'
  BY DEF TypeOK, Timing, PatientEnough
<1> QED
  BY <1>1, <1>2, <1>3, <1>4

LEMMA InterruptedKeeps ==
  ASSUME IInv, Interrupted
  PROVE  IInv'
<1> USE DEF IInv, Interrupted, Fail, Return, task, clock, Blocked, Resolving
<1>1. TypeOK'
  <2>1. replies' \subseteq Replies
    BY DEF TypeOK
  <2>2. elapsed' \in 0 .. Longest /\ waited' \in 0 .. Timeout
    BY DEF TypeOK, Timing
  <2>3. outcome' \in Latencies /\ latency' \in Latencies /\ value' \in Latencies
    BY DEF TypeOK, Latencies
  <2> QED
    BY <2>1, <2>2, <2>3 DEF TypeOK
<1>2. Timing'
  BY DEF TypeOK, Timing
<1>3. Progress'
  BY DEF TypeOK, Progress, Latencies
<1>4. PatientEnough'
  BY DEF TypeOK, Timing, PatientEnough
<1> QED
  BY <1>1, <1>2, <1>3, <1>4

LEMMA HandshakeKeeps ==
  ASSUME IInv, Handshake
  PROVE  IInv'
<1> USE DEF IInv, Handshake, Block, task, clock, Blocked, Resolving
<1>1. TypeOK'
  <2>1. replies' \subseteq Replies
    BY DEF TypeOK
  <2>2. elapsed' \in 0 .. Longest /\ waited' \in 0 .. Timeout
    BY DEF TypeOK, Timing
  <2>3. outcome' \in Latencies /\ latency' \in Latencies /\ value' \in Latencies
    BY DEF TypeOK, Latencies
  <2> QED
    BY <2>1, <2>2, <2>3 DEF TypeOK
<1>2. Timing'
  BY DEF TypeOK, Timing
<1>3. Progress'
  BY DEF TypeOK, Progress, Latencies
<1>4. PatientEnough'
  BY DEF TypeOK, Timing, PatientEnough
<1> QED
  BY <1>1, <1>2, <1>3, <1>4

LEMMA RequestKeeps ==
  ASSUME IInv, Request
  PROVE  IInv'
<1> USE DEF IInv, Request, Block, task, clock, Blocked, Resolving
<1>1. TypeOK'
  <2>1. replies' \subseteq Replies
    BY DEF TypeOK
  <2>2. elapsed' \in 0 .. Longest /\ waited' \in 0 .. Timeout
    BY DEF TypeOK, Timing
  <2>3. outcome' \in Latencies /\ latency' \in Latencies /\ value' \in Latencies
    BY DEF TypeOK, Latencies
  <2> QED
    BY <2>1, <2>2, <2>3 DEF TypeOK
<1>2. Timing'
  BY DEF TypeOK, Timing
<1>3. Progress'
  BY DEF TypeOK, Progress, Latencies
<1>4. PatientEnough'
  BY DEF TypeOK, Timing, PatientEnough
<1> QED
  BY <1>1, <1>2, <1>3, <1>4

LEMMA StreamFailsKeeps ==
  ASSUME IInv, StreamFails
  PROVE  IInv'
<1> USE DEF IInv, StreamFails, Fail, Return, task, clock, Blocked, Resolving
<1>1. TypeOK'
  <2>1. replies' \subseteq Replies
    BY DEF TypeOK
  <2>2. elapsed' \in 0 .. Longest /\ waited' \in 0 .. Timeout
    BY DEF TypeOK, Timing
  <2>3. outcome' \in Latencies /\ latency' \in Latencies /\ value' \in Latencies
    BY DEF TypeOK, Latencies
  <2> QED
    BY <2>1, <2>2, <2>3 DEF TypeOK
<1>2. Timing'
  BY DEF TypeOK, Timing
<1>3. Progress'
  BY DEF TypeOK, Progress, Latencies
<1>4. PatientEnough'
  BY DEF TypeOK, Timing, PatientEnough
<1> QED
  BY <1>1, <1>2, <1>3, <1>4

LEMMA SilenceKeeps ==
  ASSUME IInv, Silence
  PROVE  IInv'
<1> USE DEF IInv, Silence, Return, task, clock, Blocked, Resolving
<1>1. TypeOK'
  <2>1. replies' \subseteq Replies
    BY DEF TypeOK
  <2>2. elapsed' \in 0 .. Longest /\ waited' \in 0 .. Timeout
    BY DEF TypeOK, Timing
  <2>3. outcome' \in Latencies /\ latency' \in Latencies /\ value' \in Latencies
    BY DEF TypeOK, Latencies
  <2> QED
    BY <2>1, <2>2, <2>3 DEF TypeOK
<1>2. Timing'
  BY DEF TypeOK, Timing
<1>3. Progress'
  BY DEF TypeOK, Progress, Latencies
<1>4. PatientEnough'
  BY DEF TypeOK, Timing, PatientEnough
<1> QED
  BY <1>1, <1>2, <1>3, <1>4

LEMMA ReadTlsKeeps ==
  ASSUME IInv, ReadTls
  PROVE  IInv'
<1> USE DEF IInv, ReadTls, Judged, Fail, Return, task, clock, Blocked, Resolving
<1>1. TypeOK'
  <2>1. replies' \subseteq Replies
    BY DEF TypeOK
  <2>2. elapsed' \in 0 .. Longest /\ waited' \in 0 .. Timeout
    BY DEF TypeOK, Timing
  <2>3. outcome' \in Latencies /\ latency' \in Latencies /\ value' \in Latencies
    BY DEF TypeOK, Latencies
  <2> QED
    BY <2>1, <2>2, <2>3 DEF TypeOK
<1>2. Timing'
  BY DEF TypeOK, Timing
<1>3. Progress'
  BY DEF TypeOK, Progress, Latencies
<1>4. PatientEnough'
  BY DEF TypeOK, Timing, PatientEnough
<1> QED
  BY <1>1, <1>2, <1>3, <1>4

LEMMA ReadPlainKeeps ==
  ASSUME IInv, ReadPlain
  PROVE  IInv'
<1> USE DEF IInv, ReadPlain, Judged, Fail, Return, task, clock, Blocked, Resolving
<1>1. TypeOK'
  <2>1. replies' \subseteq Replies
    BY DEF TypeOK
  <2>2. elapsed' \in 0 .. Longest /\ waited' \in 0 .. Timeout
    BY DEF TypeOK, Timing
  <2>3. outcome' \in Latencies /\ latency' \in Latencies /\ value' \in Latencies
    BY DEF TypeOK, Latencies
  <2> QED
    BY <2>1, <2>2, <2>3 DEF TypeOK
<1>2. Timing'
  BY DEF TypeOK, Timing
<1>3. Progress'
  BY DEF TypeOK, Progress, Latencies
<1>4. PatientEnough'
  BY DEF TypeOK, Timing, PatientEnough
<1> QED
  BY <1>1, <1>2, <1>3, <1>4

LEMMA TickKeeps ==
  ASSUME IInv, Tick
  PROVE  IInv'
<1> USE DEF IInv, Tick, task, clock, Blocked, Resolving
<1>1. TypeOK'
  <2>1. replies' \subseteq Replies
    BY DEF TypeOK
  <2>2. elapsed' \in 0 .. Longest /\ waited' \in 0 .. Timeout
    BY DEF TypeOK, Timing
  <2>3. outcome' \in Latencies /\ latency' \in Latencies /\ value' \in Latencies
    BY DEF TypeOK, Latencies
  <2> QED
    BY <2>1, <2>2, <2>3 DEF TypeOK
<1>2. Timing'
  BY DEF TypeOK, Timing
<1>3. Progress'
  BY DEF TypeOK, Progress, Latencies
<1>4. PatientEnough'
  BY DEF TypeOK, Timing, PatientEnough
<1> QED
  BY <1>1, <1>2, <1>3, <1>4

LEMMA ArriveKeeps ==
  ASSUME IInv, Arrive
  PROVE  IInv'
<1> USE DEF IInv, Arrive, task, clock, Blocked, Resolving
<1>1. TypeOK'
  <2>1. replies' \subseteq Replies
    BY DEF TypeOK
  <2>2. elapsed' \in 0 .. Longest /\ waited' \in 0 .. Timeout
    BY DEF TypeOK, Timing
  <2>3. outcome' \in Latencies /\ latency' \in Latencies /\ value' \in Latencies
    BY DEF TypeOK, Latencies
  <2> QED
    BY <2>1, <2>2, <2>3 DEF TypeOK
<1>2. Timing'
  BY DEF TypeOK, Timing
<1>3. Progress'
  BY DEF TypeOK, Progress, Latencies
<1>4. PatientEnough'
  BY DEF TypeOK, Timing, PatientEnough
<1> QED
  BY <1>1, <1>2, <1>3, <1>4

LEMMA LoseKeeps ==
  ASSUME IInv, NEW r \in replies, Lose(r)
  PROVE  IInv'
<1> USE DEF IInv, Lose, task, clock, Blocked, Resolving
<1>1. TypeOK'
  <2>1. replies' \subseteq Replies
    BY DEF TypeOK
  <2>2. elapsed' \in 0 .. Longest /\ waited' \in 0 .. Timeout
    BY DEF TypeOK, Timing
  <2>3. outcome' \in Latencies /\ latency' \in Latencies /\ value' \in Latencies
    BY DEF TypeOK, Latencies
  <2> QED
    BY <2>1, <2>2, <2>3 DEF TypeOK
<1>2. Timing'
  BY DEF TypeOK, Timing
<1>3. Progress'
  BY DEF TypeOK, Progress, Latencies
<1>4. PatientEnough'
  BY DEF TypeOK, Timing, PatientEnough
<1> QED
  BY <1>1, <1>2, <1>3, <1>4

-----------------------------------------------------------------------------
(* The invariant and what follows from it.                                   *)

LEMMA InitIInv == Init => IInv
<1> SUFFICES ASSUME Init PROVE IInv
  OBVIOUS
<1>1. TypeOK
  <2>1. elapsed \in 0 .. Longest /\ waited \in 0 .. Timeout
    BY DEF Init
  <2>2. asked \in 0 .. Tries /\ retry \in 0 .. Retries
    BY DEF Init
  <2>3. outcome \in Latencies /\ latency \in Latencies /\ value \in Latencies
    BY DEF Init, Latencies
  <2>4. /\ kind \in Kinds /\ target \in Addresses \cup {Name} /\ address \in Addresses
        /\ replies \subseteq Replies
    BY DEF Init
  <2>5. custom \in BOOLEAN /\ ready \in BOOLEAN /\ fault \in BOOLEAN
    BY Zenon DEF Init
  <2>6. pc \in {"idle", "resolve", "open", "sent", "judge", "report"} \cup Resolving \cup Blocked
    BY DEF Init
  <2> QED
    BY <2>1, <2>2, <2>3, <2>4, <2>5, <2>6 DEF TypeOK
<1> QED
  BY <1>1 DEF Init, IInv, Timing, Progress, PatientEnough, Blocked

LEMMA NextIInv ==
  ASSUME IInv, [Next]_vars
  PROVE  IInv'
<1>1. CASE Begin \/ Reject \/ Judge \/ Report
  BY <1>1, BeginKeeps, RejectKeeps, JudgeKeeps, ReportKeeps
<1>2. CASE Names
  BY <1>2, ResolveKeeps, MalformedKeeps, QueryKeeps, AnsweredKeeps, NotAnsweredKeeps,
     PauseKeeps, LookupKeeps, FallbackKeeps DEF Names
<1>3. CASE Probe
  BY <1>3, OpenEchoKeeps, EchoKeeps, StrayKeeps, EchoFailsKeeps, OpenStreamKeeps,
     ConnectedKeeps, RefusedKeeps, InterruptedKeeps, HandshakeKeeps, RequestKeeps,
     StreamFailsKeeps, SilenceKeeps, ReadTlsKeeps, ReadPlainKeeps DEF Probe
<1>4. CASE Tick \/ Arrive
  BY <1>4, TickKeeps, ArriveKeeps
<1>5. ASSUME NEW r \in replies, Lose(r) PROVE IInv'
  BY <1>5, LoseKeeps
<1>6. CASE UNCHANGED vars
  BY <1>6 DEF vars, task, clock, IInv, TypeOK, Timing, Progress, PatientEnough
<1> QED
  BY <1>1, <1>2, <1>3, <1>4, <1>5, <1>6 DEF Next

LEMMA Invariance == Spec => []IInv
  BY InitIInv, NextIInv, PTL DEF Spec

(* Every variable has its type: no blocking call outlasts its timeout, the
   attempts of the resolvers and the retries of the probe keep their limits. *)
THEOREM TypeCorrect == Spec => []TypeOK
<1>1. IInv => TypeOK
  BY DEF IInv
<1> QED
  BY <1>1, Invariance, PTL

(* A probe that can wait and reports a failure before its timeout has been told
   of one by a call, or was interrupted where it does not repeat the call: not
   so the echo probe, however many foreign packets and signals come in between. *)
THEOREM NoEarlyFailure == Spec => []PatientEnough
<1>1. IInv => PatientEnough
  BY DEF IInv
<1> QED
  BY <1>1, Invariance, PTL

(* A measured latency is replaced by one within the threshold at most. *)
THEOREM ResultOnlyImproves == Spec => RetryNeverWorsens
<1>1. IInv /\ [Next]_vars => [latency >= 0 /\ pc # "report" => latency' \in 0 .. latency]_vars
  <2> SUFFICES ASSUME IInv, Next, latency >= 0, pc # "report"
               PROVE  latency' \in 0 .. latency
    BY DEF RetryNeverWorsens
  <2>1. latency > Threshold /\ retry # 0 /\ pc # "idle"
    BY DEF IInv, Progress
  <2>2. CASE Judge
    BY <2>1, <2>2 DEF Judge, Repeated, Better, IInv, TypeOK, Latencies
  <2>3. CASE ~Judge
    <3>1. latency' = latency
      BY <2>1, <2>3 DEF Next, Begin, Reject, Report, Names, Resolve, Malformed, Query, Answered,
         NotAnswered, Pause, Lookup, Fallback, Goto, Found, TryAgain, Fail, Return, Block,
         Probe, OpenEcho, Echo, Again, Stray, EchoFails, OpenStream, Connected, Refused,
         Interrupted, Handshake, Request, StreamFails, Silence, Judged, ReadTls, ReadPlain, Tick, Arrive, Lose
    <3> QED
      BY <3>1 DEF IInv, TypeOK, Latencies
  <2> QED
    BY <2>2, <2>3
<1> QED
  BY <1>1, Invariance, PTL DEF Spec, RetryNeverWorsens
=============================================================================
