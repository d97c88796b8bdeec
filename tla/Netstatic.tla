------------------------------ MODULE Netstatic ------------------------------
(***************************************************************************)
(* The persistent traffic statistics (netstatic.c): a worker thread samples *)
(* the kernel's byte counter of an interface, ages the samples and writes   *)
(* them to a file; main starts it, stops it and saves a last time.  The     *)
(* counter restarts when the interface does, the clock of a router may be   *)
(* set to any time, and the process may die between two steps.              *)
(*                                                                          *)
(* One interface and one direction: the others are treated alike.           *)
(***************************************************************************)
EXTENDS Integers, Sequences, FiniteSetsExt

CONSTANTS
  NoFile, Broken,   \* no file; a file that does not parse
  MaxSamples,       \* NETSTATIC_MAX_SAMPLES_PER_INTERFACE
  Keep,             \* data_preserve_days, in units of time
  SaveInterval,     \* save_interval
  Wrap,             \* 2^64, the range of a timestamp
  Latest,           \* bound: the latest time
  TrafficMax,       \* bound: the traffic of the interface
  FaultMax          \* bound: crashes, failed calls, resets and clock changes

ASSUME LimitAssumption ==
  /\ MaxSamples \in Nat \ {0} /\ Keep \in Nat \ {0} /\ SaveInterval \in Nat \ {0}
  /\ Latest \in Nat /\ TrafficMax \in Nat /\ FaultMax \in Nat
  /\ Wrap \in Nat /\ Wrap > Latest + Keep
ASSUME FileAssumption == NoFile # Broken

Times == 0..Latest

VARIABLES
  counter, total,   \* the kernel's counter, and all traffic so far
  now,              \* the clock
  tracked, data, lastBytes, \* the interface_stats_t: samples and last counter
  lastSave, snapshot,       \* locals of the worker
  running,                  \* ns->running
  worker, main,             \* the two threads
  file, failed,             \* the file; a write has failed in this life
  faults

kernel == <<counter, total>>
stats  == <<tracked, data, lastBytes>>
nsVars == <<kernel, now, stats, lastSave, snapshot, running, worker, main, file, failed, faults>>

Sample == [time : Times, bytes : Nat]

NSInit ==
  /\ counter \in {0, 1} /\ total = 0 /\ now \in Times
  /\ tracked = FALSE /\ data = <<>> /\ lastBytes = 0
  /\ lastSave = 0 /\ snapshot = <<>> /\ running = FALSE
  /\ worker = "none" /\ main = "down" /\ file = NoFile /\ failed = FALSE
  /\ faults = 0

Fault == faults < FaultMax /\ faults' = faults + 1

(* The bytes of the first n samples, and of all. *)
SumTo(s) == LET sum[n \in 0..Len(s)] == IF n = 0 THEN 0 ELSE sum[n - 1] + s[n].bytes
            IN sum
SumOf(s) == SumTo(s)[Len(s)]

-----------------------------------------------------------------------------
(* Sampling and ageing.                                                      *)

(* A counter of 0 and a counter that went back give no delta. *)
DeltaFromZero == IF counter >= lastBytes THEN counter - lastBytes ELSE 0
Delta == IF lastBytes > 0 /\ counter >= lastBytes THEN counter - lastBytes ELSE 0

NewestOneMore(s, n) == IF Len(s) > n + 1 THEN SubSeq(s, Len(s) - n, Len(s)) ELSE s
Newest(s, n) == IF Len(s) > n THEN SubSeq(s, Len(s) - n + 1, Len(s)) ELSE s

(* netstatic_collect: a full list drops its oldest sample. *)
Sampled == Append(Newest(data, MaxSamples - 1), [time |-> now, bytes |-> Delta])

(* netstatic_cleanup_old_data, in unsigned arithmetic. *)
Cutoff == (now - Keep) % Wrap
CleanedEvery(s) == SelectSeq(s, LAMBDA x : x.time > Cutoff)
Cleaned(s) ==
  LET Valid == {i \in DOMAIN s : s[i].time >= Cutoff}
      kept  == IF Valid = {} THEN <<>> ELSE SubSeq(s, Min(Valid), Len(s))
  IN Newest(kept, MaxSamples)

SaveDueSigned == now - lastSave >= SaveInterval
SaveDue == (now - lastSave) % Wrap >= SaveInterval

-----------------------------------------------------------------------------
(* The worker thread.                                                        *)

(* while (ns->running) *)
TestRunning ==
  /\ worker = "test" /\ worker' = (IF running THEN "collect" ELSE "ended")
  /\ UNCHANGED <<kernel, now, stats, lastSave, snapshot, running, main, file, failed, faults>>

(* One pass under the lock.  Growing the list may fail, then the sample is lost;
   /proc may be unreadable, then the counter is not seen either. *)
Collect ==
  /\ worker = "collect"
  /\ \E s \in {Sampled, data}, l \in {counter, lastBytes} :
       /\ \/ s = Sampled /\ l = counter /\ tracked /\ UNCHANGED faults
          \/ s = data /\ l = counter /\ tracked /\ Len(data) < MaxSamples /\ Fault
          \/ s = data /\ l = lastBytes /\ (IF tracked THEN Fault ELSE UNCHANGED faults)
       /\ lastBytes' = l
       /\ IF SaveDue
          THEN /\ data' = Cleaned(s) /\ lastSave' = now
               /\ snapshot' = [tracked |-> tracked, data |-> Cleaned(s)]
               /\ worker' = "open"
          ELSE /\ data' = s /\ worker' = "sleep" /\ UNCHANGED <<snapshot, lastSave>>
  /\ UNCHANGED <<kernel, now, tracked, running, main, file, failed>>

(* netstatic_write_to_disk: fopen truncates the file, fwrite fills it. *)
OpenFile == file' = Broken /\ UNCHANGED <<failed, faults>>
FillFile(content) == file' = content /\ UNCHANGED <<failed, faults>>
FileFails == UNCHANGED file /\ failed' = TRUE /\ Fault

Content == [tracked |-> tracked, data |-> data]

WorkerOpens ==
  /\ worker = "open"
  /\ \/ OpenFile /\ worker' = "write"
     \/ FileFails /\ worker' = "sleep"
  /\ UNCHANGED <<kernel, now, stats, lastSave, snapshot, running, main>>

WorkerWrites ==
  /\ worker = "write" /\ worker' = "sleep"
  /\ FillFile(snapshot) \/ FileFails
  /\ UNCHANGED <<kernel, now, stats, lastSave, snapshot, running, main>>

(* usleep: time passes, or the clock is set.  At the bound the clock starts
   again at 0. *)
Sleep ==
  /\ worker = "sleep" /\ worker' = "test"
  /\ \E t \in Times \ {now} :
       /\ now' = t
       /\ IF t = (now + 1) % (Latest + 1) THEN UNCHANGED faults ELSE Fault
  /\ UNCHANGED <<kernel, stats, lastSave, snapshot, running, main, file, failed>>

-----------------------------------------------------------------------------
(* The main thread: netstatic_create, start, stop and destroy.               *)

(* netstatic_load: what does not open or parse leaves nothing behind, and the
   last counters are not part of the file. *)
Load ==
  IF file \in {NoFile, Broken} THEN UNCHANGED <<tracked, data>>
  ELSE tracked' = file.tracked /\ data' = file.data

Start ==
  /\ main = "down" /\ main' = "running" /\ Load
  /\ \/ running' = TRUE /\ worker' = "test" /\ UNCHANGED faults
     \/ running' = FALSE /\ worker' = "none" /\ Fault
  /\ UNCHANGED <<kernel, now, lastBytes, lastSave, snapshot, file, failed>>

AddInterface ==
  /\ main = "running" /\ ~tracked
  /\ tracked' = TRUE /\ data' = <<>> /\ lastBytes' = 0
  /\ UNCHANGED <<kernel, now, lastSave, snapshot, running, worker, main, file, failed, faults>>

RemoveInterface ==
  /\ main = "running" /\ tracked
  /\ tracked' = FALSE /\ data' = <<>> /\ lastBytes' = 0
  /\ UNCHANGED <<kernel, now, lastSave, snapshot, running, worker, main, file, failed, faults>>

(* netstatic_stop joins the worker before it saves; without a worker it
   returns at once. *)
Stop ==
  /\ main = "running" /\ running' = FALSE
  /\ main' = IF running THEN "join" ELSE "stopped"
  /\ UNCHANGED <<kernel, now, stats, lastSave, snapshot, worker, file, failed, faults>>

JoinUnwaited ==
  /\ main = "join" /\ main' = "open"
  /\ UNCHANGED <<kernel, now, stats, lastSave, snapshot, running, worker, file, failed, faults>>
Join ==
  /\ main = "join" /\ worker = "ended" /\ main' = "open"
  /\ UNCHANGED <<kernel, now, stats, lastSave, snapshot, running, worker, file, failed, faults>>

SaveOpens ==
  /\ main = "open"
  /\ \/ OpenFile /\ main' = "write"
     \/ FileFails /\ main' = "stopped"
  /\ UNCHANGED <<kernel, now, stats, lastSave, snapshot, running, worker>>

SaveWrites ==
  /\ main = "write" /\ main' = "stopped"
  /\ FillFile(Content) \/ FileFails
  /\ UNCHANGED <<kernel, now, stats, lastSave, snapshot, running, worker>>

Gone ==
  /\ tracked' = FALSE /\ data' = <<>> /\ lastBytes' = 0 /\ lastSave' = 0 /\ snapshot' = <<>>
  /\ running' = FALSE /\ worker' = "none" /\ main' = "down" /\ failed' = FALSE
  /\ UNCHANGED <<kernel, now, file>>

(* netstatic_destroy and the end of the process, or its death at any time. *)
Destroy == main = "stopped" /\ Gone /\ UNCHANGED faults
Crash   == main # "down" /\ Gone /\ Fault

-----------------------------------------------------------------------------
(* The kernel.                                                               *)

Traffic ==
  /\ total < TrafficMax /\ total' = total + 1 /\ counter' = counter + 1
  /\ UNCHANGED <<now, stats, lastSave, snapshot, running, worker, main, file, failed, faults>>

InterfaceRestarts ==
  /\ counter > 0 /\ counter' = 0 /\ Fault
  /\ UNCHANGED <<total, now, stats, lastSave, snapshot, running, worker, main, file, failed>>

Worker == TestRunning \/ Collect \/ WorkerOpens \/ WorkerWrites \/ Sleep
Main   == Join \/ SaveOpens \/ SaveWrites \/ Destroy

NSNext ==
  \/ Worker \/ Main \/ Start \/ Stop \/ AddInterface \/ RemoveInterface \/ Crash
  \/ Traffic \/ InterfaceRestarts

NSSpec == NSInit /\ [][NSNext]_nsVars

(* The threads run on, the operator and the kernel owe nothing. *)
Fairness == WF_nsVars(Worker) /\ WF_nsVars(Main)
NSFairSpec == NSSpec /\ Fairness

-----------------------------------------------------------------------------
NSTypeOK ==
  /\ counter \in 0..(TrafficMax + 1) /\ total \in 0..TrafficMax /\ now \in Times
  /\ tracked \in BOOLEAN /\ lastBytes \in 0..(TrafficMax + 1) /\ lastSave \in Times
  /\ data \in Seq(Sample) /\ Len(data) <= MaxSamples
  /\ snapshot = <<>> \/ snapshot \in [tracked : BOOLEAN, data : Seq(Sample)]
  /\ running \in BOOLEAN /\ failed \in BOOLEAN
  /\ worker \in {"none", "test", "collect", "open", "write", "sleep", "ended"}
  /\ main \in {"down", "running", "join", "open", "write", "stopped"}
  /\ file \in {NoFile, Broken} \/ file \in [tracked : BOOLEAN, data : Seq(Sample)]
  /\ faults \in 0..FaultMax

(* No byte is counted twice and none is made up: the samples in memory and in
   the file add up to no more than the traffic there was, through counters that
   restart, restarts of the agent and a history that is loaded again. *)
NeverOvercounts ==
  /\ SumOf(data) <= total
  /\ file \notin {NoFile, Broken} => SumOf(file.data) <= total

(* After a stop in which no write failed the file holds the last samples, and
   a worker that is still writing does not put older ones in their place. *)
StopSavesAll == main = "stopped" /\ worker # "none" /\ ~failed => file = Content

(* A step of the worker that may clean up keeps what is within the preserve
   window, unless the list is full. *)
YoungKept ==
  worker = "collect" /\ worker' \in {"open", "sleep"} /\ Len(data) < MaxSamples =>
    \A i \in DOMAIN data : data[i].time >= now - Keep =>
      \E j \in DOMAIN data' : data'[j] = data[i]

(* While no interface is removed the running agent drops a sample only when it
   is older than the preserve window or the list is full, once the clock is past
   the window. *)
OnlyOldDropped == [][now >= Keep => YoungKept]_nsVars

(* netstatic.c:109 says "Remove traffic samples older than the configured
   preserve-days window", whatever the clock.  Before the clock is past the window
   the unsigned cutoff wraps and everything goes. *)
OnlyOldDroppedEver == [][YoungKept]_nsVars

(* A clock that is set back does not stop the saving: the worker comes to a save
   again and again, or ends. *)
SavesGoOn == (worker \in {"test", "collect", "sleep"}) ~> (worker \in {"open", "ended", "none"})
=============================================================================
