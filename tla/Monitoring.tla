----------------------------- MODULE Monitoring -----------------------------
(***************************************************************************)
(* What the agent reports about its machine: the report thread's cycle     *)
(* (report_thread in src/src/core/main.c), report_generate and             *)
(* report_generate_basic_info (src/src/report/report.c), the samples and   *)
(* caches of src/src/monitoring/monitoring.c, the choice of the GPU        *)
(* (gpu.c) and the cached kind of virtualization (utils/virtual.c).        *)
(*                                                                         *)
(* Most figures are differences to an earlier call or are taken from a     *)
(* cache, and all of them are timed by the wall clock, which may be set.   *)
(* Only differences of clock readings matter, so the model keeps, for      *)
(* every stored time, how long ago it is for the clock (since) and how     *)
(* long ago it really is (age).  One tick is a second.                     *)
(***************************************************************************)
EXTENDS Integers, Sequences

CONSTANTS Caches,       \* the cached figures: "disk", "conn" and "process"
          SlowTtl,      \* MONITORING_SLOW_TTL_SEC
          Interval,     \* the seconds between two reports
          InfoInterval, \* info_report_interval, in seconds
          Width,        \* an unsigned number is one modulo Width
          Machines,     \* machines: what lspci lists and how much of it fits
                        \* into the buffer, what sysfs lists, what they are
          Loads,        \* what the CPU counters can change by between samples
          Disks,        \* sums of total and free space of the mounted disks
          MaxBytes,     \* bound: the traffic counter
          MaxAway,      \* bound: how far a clock reading is from a stored one
          Steps,        \* what the clock is set by
          Adjustments   \* bound: how often the clock is set

Timers == Caches \cup {"info"}
Lifetime(t) == IF t = "info" THEN InfoInterval ELSE SlowTtl

Kinds == {"none", "container", "vm"}
Cards == {"nvidia", "intel", "other", "virtual"}

ASSUME CacheAssumption == Caches \subseteq {"disk", "conn", "process"}
ASSUME TimeAssumption ==
  /\ SlowTtl \in Nat \ {0}
  /\ Interval \in Nat \ {0}
  /\ InfoInterval \in Nat \ {0}
  /\ MaxAway \in Nat
  /\ Adjustments \in Nat
  /\ Steps \subseteq -MaxAway .. MaxAway
  /\ \A t \in Timers : Lifetime(t) < MaxAway
ASSUME WidthAssumption ==
  /\ Width \in Nat \ {0}
  /\ MaxBytes \in Nat
  /\ MaxBytes < Width
  /\ MaxAway < Width
ASSUME MachineAssumption ==
  /\ \A m \in Machines : /\ m.lspci \in Seq(Cards)
                        /\ m.fits \in 0 .. Len(m.lspci)
                        /\ m.sysfs \in Seq(Cards)
                        /\ m.kind \in Kinds
  /\ Loads \subseteq [used : Nat, idle : Nat, wait : Int]
  /\ Disks \subseteq [total : 0 .. Width - 1, free : 0 .. Width - 1]

VARIABLES pc,       \* where the report thread is
          slept,    \* seconds of its sleep
          machine,  \* the machine the agent runs on
          filled,   \* a time is stored
          since,    \* the clock reading minus the stored one
          age,      \* how long ago it was stored
          back,     \* the clock has been set back since then
          adjusted, \* how often the clock was set
          last,     \* the traffic counter at the last sample of it
          known,    \* there is a CPU sample
          shown,    \* the figures of the report that was just generated
          virt,     \* g_virt_type
          gpu,      \* the GPU of the last basic info
          opened    \* sysfs could be opened for it

timers == <<filled, since, age, back>>
samples == <<last, known>>
vars == <<pc, slept, machine, timers, adjusted, samples, shown, virt,
          gpu, opened>>

\* The traffic sample has a time of its own.
Stored == Timers \cup {"net"}

Nothing == [usage |-> 0, speed |-> 0, total |-> 0, used |-> 0,
            traffic |-> 0, fell |-> FALSE, served |-> {}, blind |-> FALSE]

TypeOK ==
  /\ pc \in {"connect", "report", "generated", "sleep"}
  /\ slept \in 0 .. Interval
  /\ machine \in Machines
  /\ filled \in [Stored -> BOOLEAN]
  /\ since \in [Stored -> -MaxAway .. MaxAway]
  /\ age \in [Timers -> 0 .. MaxAway]
  /\ back \in [Timers -> BOOLEAN]
  /\ adjusted \in 0 .. Adjustments
  /\ last \in 0 .. MaxBytes
  /\ known \in BOOLEAN
  /\ DOMAIN shown = DOMAIN Nothing
  /\ shown.total \in 0 .. Width - 1
  /\ shown.used \in 0 .. Width - 1
  /\ shown.served \subseteq Caches
  /\ virt \in Kinds \cup {"unknown"}
  /\ gpu \in Cards \cup {"None", "unknown"}
  /\ opened \in BOOLEAN

Init ==
  /\ pc = "connect"
  /\ slept = 0
  /\ machine \in Machines
  /\ filled = [t \in Stored |-> FALSE]
  /\ since = [t \in Stored |-> 0]
  /\ age = [t \in Timers |-> 0]
  /\ back = [t \in Timers |-> FALSE]
  /\ adjusted = 0
  /\ last = 0
  /\ known = FALSE
  /\ shown = Nothing
  /\ virt = "unknown"
  /\ gpu = "unknown"
  /\ opened = TRUE

Least(a, b) == IF a < b THEN a ELSE b

-----------------------------------------------------------------------------
\* The system.

\* A second of the connection attempts or of the sleep.
Second(sleep) ==
  /\ \/ pc = "connect" /\ UNCHANGED slept
     \/ pc = "sleep" /\ slept < sleep /\ slept' = slept + 1
  /\ since' = [t \in Stored |-> Least(since[t] + 1, MaxAway)]
  /\ age' = [t \in Timers |-> Least(age[t] + 1, Lifetime(t))]
  /\ UNCHANGED <<pc, machine, filled, back, adjusted, samples, shown, virt, gpu, opened>>

\* Mutant: one second too many.
TickOnceMore == Second(Interval + 1)

Tick == Second(Interval)

\* The clock is set, by NTP or by hand.
SetClock ==
  /\ adjusted < Adjustments
  /\ pc \in {"connect", "sleep"}
  /\ adjusted' = adjusted + 1
  /\ \E d \in Steps :
       /\ \A t \in Stored : since[t] + d >= -MaxAway
       /\ since' = [t \in Stored |-> Least(since[t] + d, MaxAway)]
       /\ back' = [t \in Timers |-> back[t] \/ d < 0]
  /\ UNCHANGED <<pc, slept, filled, age, machine, samples, shown, virt, gpu, opened>>

\* What the traffic counter shows after so much traffic since the sample of
\* it: it is a sum over interfaces, and less when one went with its counter.
Counters(traffic) == {n \in 0 .. MaxBytes : n <= last + traffic}

-----------------------------------------------------------------------------
\* Samples and caches (monitoring.c).

\* The stored time of these timers is now, these figures are new.
Store(stamped, read) ==
  /\ filled' = [t \in Stored |-> filled[t] \/ t \in stamped]
  /\ since' = [t \in Stored |-> IF t \in stamped THEN 0 ELSE since[t]]
  /\ age' = [t \in Timers |-> IF t \in read THEN 0 ELSE age[t]]
  /\ back' = [t \in Timers |-> back[t] /\ t \notin read]

\* Time to read it again.
Due(t) == ~filled[t] \/ since[t] >= Lifetime(t)

\* What is read again: conn counts as read whatever could be opened, disk and
\* process only when they could be read.
Read(readable) == {c \in Caches : Due(c) /\ (c = "conn" \/ c \in readable)}

\* What an earlier call has read and this one returns: what is not due, and the
\* number of processes also when it is due and /proc cannot be opened.
Served(readable) ==
  {c \in Caches : filled[c] /\ (Due(c) => c = "process" /\ c \notin readable)}

\* The processes are due and /proc cannot be opened.
Blind(readable) == "process" \in Caches \ readable /\ Due("process")

\* Mutant: serving from the cache renews it.
StampedAlways(readable) == Caches

Stamped(readable) == Read(readable)

\* CPU time since the sample before: with no sample before it, or a total that
\* did not grow, the usage is 0.
Usage(load) ==
  LET all == load.used + load.idle + load.wait
  IN  IF known /\ all > 0 /\ load.used >= 0 THEN (100 * load.used) \div all ELSE 0

\* Mutant: no guard against a counter that starts again.
WrappedBytes(bytes) == (bytes - last) % Width

NewBytes(bytes) == IF bytes >= last THEN bytes - last ELSE 0

\* Bytes per second of the clock, rounded; the difference of the clock
\* readings is unsigned.
Speed(bytes) ==
  LET seconds == since["net"] % Width
  IN  IF filled["net"] /\ seconds > 0
        THEN (2 * NewBytes(bytes) + seconds) \div (2 * seconds) ELSE 0

\* Mutant: no guard against more free space than space.
DiskWraps(d) == (d.total - d.free) % Width

\* A disk that has more free space than space is shown as unused.
DiskUsed(d) == IF d.free > d.total THEN 0 ELSE d.total - d.free

-----------------------------------------------------------------------------
\* GPU and virtualization.

\* The place in the table of vendors.
Priority(card) == IF card = "nvidia" THEN 0 ELSE IF card = "intel" THEN 2 ELSE 99

Physical(list) == {i \in DOMAIN list : list[i] # "virtual"}

\* Mutant: the first physical card of the list.
FirstOfLspci(list) == list[CHOOSE i \in Physical(list) : \A j \in Physical(list) : i <= j]

\* The first of the physical cards with the best priority.
BestOfLspci(list) ==
  list[CHOOSE i \in Physical(list) : \A j \in Physical(list) :
         \/ Priority(list[i]) < Priority(list[j])
         \/ Priority(list[i]) = Priority(list[j]) /\ i <= j]

\* What the buffer holds of lspci's list when the command succeeds: the whole
\* list; or the lines that fit, and of the next one perhaps a part, in which the
\* vendor or what marks a card as virtual may be missing.
Listed ==
  LET whole == SubSeq(machine.lspci, 1, machine.fits)
  IN  IF machine.fits = Len(machine.lspci) THEN {machine.lspci}
      ELSE {whole} \cup {Append(whole, card) : card \in {"other", machine.lspci[machine.fits + 1]}}

\* The first card with a driver that is not virtual.
FirstOfSysfs(list) == list[CHOOSE i \in Physical(list) : \A j \in Physical(list) : i <= j]

\* What was read of lspci's list, when there is a physical card in it, before
\* sysfs.
GpuName(list, sys) ==
  IF Physical(list) # {} THEN BestOfLspci(list)
  ELSE IF sys /\ Physical(machine.sysfs) # {} THEN FirstOfSysfs(machine.sysfs)
  ELSE "None"

\* Files of a container runtime show a container; a virtual machine shows in the
\* answer of a command, and on some machines in what the kernel says of the CPU
\* and the board.  What fails to be read or run shows nothing.  The first result
\* is kept.
Virtualization == IF virt # "unknown" THEN {virt} ELSE {machine.kind, "none"}

-----------------------------------------------------------------------------
\* The report thread.

\* Basic info: the CPU sample, the disk cache, GPU and virtualization.  lspci
\* gives nothing when it cannot be run or ends before its output was read.
\* It is sent when the connection is there.
Inform(ts) ==
  \E readable \in SUBSET {"cpu", "disk"}, list \in Listed \cup {<<>>} :
    /\ known' = (known \/ "cpu" \in readable)
    /\ Store((Stamped(readable) \cap {"disk"}) \cup ts, (Read(readable) \cap {"disk"}) \cup ts)
    /\ opened' \in BOOLEAN
    /\ gpu' = GpuName(list, opened')
    /\ virt' \in Virtualization
    /\ UNCHANGED <<machine, adjusted, last>>

\* The connection is made and basic info is sent at once.  It does not count
\* for the next one that is due.
Connect ==
  /\ pc = "connect"
  /\ pc' = "report"
  /\ Inform({})
  /\ UNCHANGED <<slept, shown>>

\* report_generate: what cannot be read leaves the sample before as it is and
\* is reported as 0, except for the number of processes.
Report ==
  /\ pc = "report"
  /\ pc' = "generated"
  /\ \E readable \in SUBSET ({"cpu", "net"} \cup Caches),
        d \in Disks, load \in Loads, traffic \in 0 .. MaxBytes :
     \E bytes \in Counters(traffic) :
       LET net == "net" \in readable
           stat == "cpu" \in readable
       IN  /\ Store(Stamped(readable) \cup ({"net"} \cap readable), Read(readable))
           /\ last' = (IF net THEN bytes ELSE last)
           /\ known' = (known \/ stat)
           /\ shown' = [usage |-> IF stat THEN Usage(load) ELSE 0,
                        speed |-> IF net THEN Speed(bytes) ELSE 0,
                        total |-> d.total,
                        used |-> DiskUsed(d),
                        traffic |-> traffic,
                        fell |-> load.wait < 0,
                        served |-> Served(readable),
                        blind |-> Blind(readable)]
  /\ gpu' = "unknown"
  /\ opened' = TRUE
  /\ UNCHANGED <<slept, machine, adjusted, virt>>

\* The report is sent, or is not; then basic info when it is due.
Send ==
  /\ pc = "generated"
  /\ pc' = "sleep"
  /\ slept' = 0
  /\ shown' = Nothing
  /\ \/ Due("info") /\ Inform({"info"})
     \/ ~Due("info") /\ UNCHANGED <<machine, timers, adjusted, samples, virt, gpu, opened>>

\* The interval is over; the connection is still there, or it is not.
Wake ==
  /\ pc = "sleep"
  /\ slept = Interval
  /\ pc' \in {"report", "connect"}
  /\ slept' = 0
  /\ UNCHANGED <<machine, timers, adjusted, samples, shown, virt, gpu, opened>>

Next ==
  \/ Connect \/ Report \/ Send \/ Wake
  \/ Tick \/ SetClock

Spec == Init /\ [][Next]_vars

-----------------------------------------------------------------------------
\* A report shows a figure longer than its lifetime, and basic info is held back
\* longer than that, only when the clock has been set back since: failed reads,
\* reconnections and clocks that run ahead never make it older.  The number of
\* processes is also shown while /proc cannot be opened, however old it is.
StaleOnlyAfterSetBack ==
  /\ \A c \in shown.served :
       \/ age[c] < SlowTtl \/ back[c]
       \/ c = "process" /\ shown.blind
  /\ ~Due("info") /\ ~back["info"] => age["info"] < InfoInterval

\* "@return Process count, 0 on failure" (monitoring.h:209): no count of an
\* earlier call is returned when this one fails.
NoCountOnFailure == ~("process" \in shown.served /\ shown.blind)

\* "refresh them every MONITORING_SLOW_TTL seconds" (monitoring.c:53): also
\* after the clock was set back.
RefreshedInTime == \A c \in shown.served : age[c] < SlowTtl

\* No bogus figure: a speed is backed by traffic since the sample before, also
\* when an interface went or samples failed; no disk is fuller than it is large;
\* and while no counter goes down the CPU is used by 100 % at most.
FiguresBacked ==
  /\ shown.speed <= shown.traffic
  /\ shown.used <= shown.total
  /\ shown.fell \/ shown.usage <= 100

\* "Guard against counter wraparound or reset to avoid a bogus spike when
\* /proc/stat counters go backwards" (monitoring.c:158): whatever goes down.
UsageAtMost100 == shown.usage <= 100

\* The GPU in the basic info is one of the machine's, and no card whose line
\* lspci has within the size of the buffer is better than one taken from lspci.
\* A card of unknown make may stand for one whose line was cut, and none is
\* named only when sysfs shows none or cannot be opened.
GpuNamed ==
  gpu # "unknown" =>
    LET listed == {machine.lspci[i] : i \in Physical(machine.lspci)}
        whole == Physical(machine.lspci) \cap (1 .. machine.fits)
        system == {machine.sysfs[i] : i \in Physical(machine.sysfs)}
    IN  \/ /\ gpu \in listed \/ (gpu = "other" /\ machine.fits < Len(machine.lspci))
           /\ \A i \in whole : Priority(gpu) <= Priority(machine.lspci[i])
        \/ gpu \in system
        \/ gpu = "None" /\ (opened => system = {})
=============================================================================
