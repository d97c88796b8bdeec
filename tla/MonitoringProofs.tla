-------------------------- MODULE MonitoringProofs --------------------------
(***************************************************************************)
(* Proofs about the two parts of src/src/monitoring.                       *)
(*                                                                         *)
(* Monitoring, for any lifetimes of the cached figures, any interval,      *)
(* machine and disks, and however the clock is set: types, no figure shown *)
(* beyond its lifetime unless the clock was set back or /proc cannot be    *)
(* opened, figures backed by what was counted, the choice of the GPU.      *)
(*                                                                         *)
(* Netstatic (names with NS), for any window, length of the list and       *)
(* number of faults: types, no byte counted twice, the last save stands,   *)
(* recent samples are kept.                                                *)
(***************************************************************************)
EXTENDS Monitoring, Netstatic, FiniteSetTheorems, TLAPS

USE CacheAssumption, TimeAssumption, WidthAssumption, MachineAssumption

\* A stored time that the clock was not set back behind is at least as far
\* away for the clock as it is old.
Dated ==
  \A t \in Timers : /\ age[t] <= Lifetime(t)
                    /\ filled[t] /\ ~back[t] => age[t] <= since[t]

\* The types by what changes together.
TimerTypes ==
  /\ filled \in [Stored -> BOOLEAN]
  /\ since \in [Stored -> -MaxAway .. MaxAway]
  /\ age \in [Timers -> 0 .. MaxAway]
  /\ back \in [Timers -> BOOLEAN]

ShownTypes ==
  /\ DOMAIN shown = DOMAIN Nothing
  /\ shown.total \in 0 .. Width - 1
  /\ shown.used \in 0 .. Width - 1
  /\ shown.served \subseteq Caches

NameTypes ==
  /\ virt \in Kinds \cup {"unknown"}
  /\ gpu \in Cards \cup {"None", "unknown"}
  /\ opened \in BOOLEAN

\* What a report shows of an earlier call is not beyond its lifetime.
ServedInTime ==
  \A c \in shown.served :
    \/ age[c] < SlowTtl \/ back[c]
    \/ c = "process" /\ shown.blind

\* There are figures between report_generate and the end of sending.
Quiet == pc # "generated" => shown = Nothing

\* The inductive invariant.
IInv == TypeOK /\ Dated /\ ServedInTime /\ Quiet /\ FiguresBacked /\ GpuNamed

-----------------------------------------------------------------------------
(* Choices.                                                                  *)

\* A set of numbers has a least one: the intervals up to its elements are
\* ordered by inclusion, which is well-founded on finite sets.
LEMMA Smallest ==
  ASSUME NEW S \in SUBSET Nat, S # {}
  PROVE  \E m \in S : \A n \in S : m <= n
<1> DEFINE T == {0 .. m : m \in S}
<1>1. T # {} /\ T \subseteq FiniteSubsetsOf(Nat)
  <2>1. \A m \in S : IsFiniteSet(0 .. m) /\ 0 .. m \subseteq Nat
    BY FS_Interval
  <2>2. T # {}
    <3>1. PICK m \in S : TRUE
      OBVIOUS
    <3>2. 0 .. m \in T
      BY <3>1
    <3> QED
      BY <3>2
  <2>3. ASSUME NEW t \in T PROVE t \in FiniteSubsetsOf(Nat)
    BY <2>1 DEF FiniteSubsetsOf
  <2> QED
    BY <2>2, <2>3
<1>2. IsWellFoundedOn(StrictSubsetOrdering(Nat), FiniteSubsetsOf(Nat))
  BY FS_StrictSubsetOrderingWellFounded
<1>3. \E x \in T : \A y \in T : ~(<<y, x>> \in StrictSubsetOrdering(Nat))
  <2> HIDE DEF T
  <2> QED
    BY <1>1, <1>2, WFMin
<1>4. PICK m \in S : \A n \in S : ~(<<0 .. n, 0 .. m>> \in StrictSubsetOrdering(Nat))
  BY <1>3
<1>5. ASSUME NEW n \in S, n < m PROVE FALSE
  <2>1. 0 .. n \subseteq 0 .. m /\ m \in 0 .. m /\ m \notin 0 .. n
    BY <1>5
  <2>2. 0 .. n \subseteq Nat /\ 0 .. m \subseteq Nat
    OBVIOUS
  <2> QED
    BY <1>4, <2>1, <2>2 DEF StrictSubsetOrdering
<1> QED
  BY <1>5

LEMMA PhysicalFacts ==
  ASSUME NEW list \in Seq(Cards)
  PROVE  /\ Physical(list) \subseteq Nat
         /\ \A i \in Physical(list) : list[i] \in Cards /\ Priority(list[i]) \in Nat
  BY DEF Physical, Priority

\* The choice from sysfs is a physical card.
LEMMA FirstIsPhysical ==
  ASSUME NEW list \in Seq(Cards), Physical(list) # {}
  PROVE  \E i \in Physical(list) : FirstOfSysfs(list) = list[i]
<1>1. \E i \in Physical(list) : \A j \in Physical(list) : i <= j
  BY PhysicalFacts, Smallest
<1> QED
  BY <1>1 DEF FirstOfSysfs

\* The choice from lspci is a physical card of the best priority.
LEMMA BestIsBest ==
  ASSUME NEW list \in Seq(Cards), Physical(list) # {}
  PROVE  \E i \in Physical(list) :
           /\ BestOfLspci(list) = list[i]
           /\ \A j \in Physical(list) : Priority(list[i]) <= Priority(list[j])
<1> DEFINE P == Physical(list)
           Ranks == {Priority(list[i]) : i \in P}
<1>1. P \subseteq Nat /\ \A i \in P : Priority(list[i]) \in Nat
  BY PhysicalFacts
<1>2. PICK r \in Ranks : \A s \in Ranks : r <= s
  <2>1. Ranks \in SUBSET Nat /\ Ranks # {}
    BY <1>1
  <2> HIDE DEF Ranks
  <2> QED
    BY <2>1, Smallest
<1> DEFINE Q == {i \in P : Priority(list[i]) = r}
<1>3. PICK i \in Q : \A j \in Q : i <= j
  <2>1. Q \in SUBSET Nat /\ Q # {}
    BY <1>1, <1>2
  <2> HIDE DEF Q
  <2> QED
    BY <2>1, Smallest
<1>4. \A j \in P : \/ Priority(list[i]) < Priority(list[j])
                   \/ Priority(list[i]) = Priority(list[j]) /\ i <= j
  <2> SUFFICES ASSUME NEW j \in P
               PROVE  \/ Priority(list[i]) < Priority(list[j])
                      \/ Priority(list[i]) = Priority(list[j]) /\ i <= j
    OBVIOUS
  <2>1. Priority(list[i]) = r /\ r <= Priority(list[j]) /\ r \in Nat /\ Priority(list[j]) \in Nat
    BY <1>1, <1>2, <1>3
  <2> QED
    BY <2>1, <1>3
<1>5. PICK k \in P : /\ BestOfLspci(list) = list[k]
                     /\ \A j \in P : \/ Priority(list[k]) < Priority(list[j])
                                     \/ Priority(list[k]) = Priority(list[j]) /\ k <= j
  BY <1>3, <1>4, Zenon DEF BestOfLspci
<1>6. ASSUME NEW j \in P PROVE Priority(list[k]) <= Priority(list[j])
  <2>1. Priority(list[k]) \in Nat /\ Priority(list[j]) \in Nat
    BY <1>1
  <2>2. Priority(list[k]) < Priority(list[j]) \/ Priority(list[k]) = Priority(list[j])
    BY <1>5
  <2> QED
    BY <2>1, <2>2
<1> QED
  BY <1>5, <1>6, Zenon

\* What is read of lspci's list is the list or begins with the lines that fit,
\* and nothing else in it but the next line, or a card of unknown make for it.
LEMMA ListedFacts ==
  ASSUME machine \in Machines, NEW list \in Listed
  PROVE  /\ list \in Seq(Cards)
         /\ \A i \in Physical(list) :
              \/ \E j \in Physical(machine.lspci) : list[i] = machine.lspci[j]
              \/ list[i] = "other" /\ machine.fits < Len(machine.lspci)
         /\ \A j \in Physical(machine.lspci) \cap (1 .. machine.fits) :
              j \in Physical(list) /\ list[j] = machine.lspci[j]
<1> DEFINE all == machine.lspci
           n == machine.fits
<1>1. all \in Seq(Cards) /\ n \in 0 .. Len(all)
  OBVIOUS
<1>2. CASE n = Len(all)
  <2>1. list = all
    BY <1>2 DEF Listed
  <2> QED
    BY <1>1, <1>2, <2>1
<1>3. CASE n # Len(all)
  <2> DEFINE whole == SubSeq(all, 1, n)
  <2>1. n < Len(all) /\ n \in Nat /\ n + 1 \in DOMAIN all /\ all[n + 1] \in Cards /\ "other" \in Cards
    BY <1>1, <1>3 DEF Cards
  <2>2. /\ whole \in Seq(Cards) /\ Len(whole) = n /\ DOMAIN whole = 1 .. n
        /\ \A i \in 1 .. n : whole[i] = all[i]
    BY <1>1, <2>1
  <2>3. list = whole \/ \E card \in {"other", all[n + 1]} : list = Append(whole, card)
    BY <1>3 DEF Listed
  <2> HIDE DEF whole, all, n
  <2>4. CASE list = whole
    <3>1. \A i \in Physical(list) : i \in Physical(all) /\ list[i] = all[i]
      BY <1>1, <2>1, <2>2, <2>4 DEF Physical
    <3>2. \A j \in Physical(all) \cap (1 .. n) : j \in Physical(list) /\ list[j] = all[j]
      BY <2>2, <2>4 DEF Physical
    <3> QED
      BY <2>2, <2>4, <3>1, <3>2 DEF all, n
  <2>5. ASSUME NEW card \in {"other", all[n + 1]}, list = Append(whole, card)
        PROVE  /\ list \in Seq(Cards)
               /\ \A i \in Physical(list) :
                    (\E j \in Physical(all) : list[i] = all[j]) \/ list[i] = "other"
               /\ \A j \in Physical(all) \cap (1 .. n) : j \in Physical(list) /\ list[j] = all[j]
    <3>1. /\ list \in Seq(Cards) /\ DOMAIN list = 1 .. n + 1 /\ list[n + 1] = card
          /\ \A i \in 1 .. n : list[i] = all[i]
      BY <2>1, <2>2, <2>5
    <3>2. ASSUME NEW i \in Physical(list)
          PROVE  (\E j \in Physical(all) : list[i] = all[j]) \/ list[i] = "other"
      <4>1. i \in 1 .. n + 1 /\ list[i] # "virtual"
        BY <3>1 DEF Physical
      <4>2. CASE i = n + 1
        BY <2>1, <2>5, <3>1, <4>1, <4>2 DEF Physical
      <4>3. CASE i # n + 1
        <5>1. i \in 1 .. n /\ list[i] = all[i] /\ i \in DOMAIN all
          BY <1>1, <2>1, <3>1, <4>1, <4>3
        <5> QED
          BY <4>1, <5>1 DEF Physical
      <4> QED
        BY <4>2, <4>3
    <3>3. ASSUME NEW j \in Physical(all) \cap (1 .. n)
          PROVE  j \in Physical(list) /\ list[j] = all[j]
      BY <2>1, <3>1 DEF Physical
    <3> QED
      BY <3>1, <3>2, <3>3
  <2> QED
    BY <2>1, <2>3, <2>4, <2>5 DEF all, n
<1> QED
  BY <1>2, <1>3

\* Whatever runs and is read, the GPU that is named is one of the machine's.
LEMMA NamedGpu ==
  ASSUME machine \in Machines, NEW list \in Listed \cup {<<>>},
         opened' \in BOOLEAN, gpu' = GpuName(list, opened'), UNCHANGED machine
  PROVE  GpuNamed' /\ gpu' \in Cards \cup {"None", "unknown"}
<1>1. machine.lspci \in Seq(Cards) /\ machine.sysfs \in Seq(Cards)
  OBVIOUS
<1>2. CASE Physical(list) # {}
  <2>1. list \in Listed
    BY <1>2 DEF Physical
  <2>2. gpu' = BestOfLspci(list)
    BY <1>2 DEF GpuName
  <2>3. PICK i \in Physical(list) :
          /\ gpu' = list[i]
          /\ \A j \in Physical(list) : Priority(list[i]) <= Priority(list[j])
    BY <1>2, <2>1, <2>2, ListedFacts, BestIsBest
  <2>4. gpu' \in Cards
    BY <2>1, <2>3, ListedFacts, PhysicalFacts
  <2>5. \/ gpu' \in {machine.lspci[j] : j \in Physical(machine.lspci)}
        \/ gpu' = "other" /\ machine.fits < Len(machine.lspci)
    BY <2>1, <2>3, ListedFacts
  <2>6. \A j \in Physical(machine.lspci) \cap (1 .. machine.fits) :
          Priority(gpu') <= Priority(machine.lspci[j])
    BY <2>1, <2>3, ListedFacts
  <2> QED
    BY <2>4, <2>5, <2>6 DEF GpuNamed
<1>3. CASE Physical(list) = {} /\ opened' /\ Physical(machine.sysfs) # {}
  <2>1. gpu' = FirstOfSysfs(machine.sysfs)
    BY <1>3 DEF GpuName
  <2>2. PICK i \in Physical(machine.sysfs) : gpu' = machine.sysfs[i]
    BY <1>1, <1>3, <2>1, FirstIsPhysical
  <2> QED
    BY <1>1, <2>2, PhysicalFacts DEF GpuNamed
<1>4. CASE Physical(list) = {} /\ ~(opened' /\ Physical(machine.sysfs) # {})
  <2>1. gpu' = "None"
    BY <1>4 DEF GpuName
  <2>2. opened' => {machine.sysfs[i] : i \in Physical(machine.sysfs)} = {}
    BY <1>4
  <2> QED
    BY <2>1, <2>2 DEF GpuNamed
<1> QED
  BY <1>2, <1>3, <1>4

-----------------------------------------------------------------------------
(* Figures.                                                                  *)

LEMMA Rounded ==
  ASSUME NEW n \in Nat, NEW s \in Nat \ {0}, NEW t \in Nat, n <= t
  PROVE  (2 * n + s) \div (2 * s) <= t
  OBVIOUS

LEMMA Percent ==
  ASSUME NEW u \in Nat, NEW a \in Nat \ {0}, u <= a
  PROVE  (100 * u) \div a <= 100
  OBVIOUS

\* A speed is at most the traffic, as the counter shows no more than that.
LEMMA SpeedBacked ==
  ASSUME TimerTypes, last \in 0 .. MaxBytes,
         NEW traffic \in 0 .. MaxBytes, NEW bytes \in Counters(traffic)
  PROVE  Speed(bytes) <= traffic
<1> DEFINE seconds == since["net"] % Width
<1>1. bytes \in Nat /\ NewBytes(bytes) \in Nat /\ NewBytes(bytes) <= traffic
  BY DEF Counters, NewBytes
<1>2. since["net"] \in Int /\ seconds \in Nat
  BY DEF TimerTypes, Stored
<1>3. CASE filled["net"] /\ seconds > 0
  <2>1. Speed(bytes) = (2 * NewBytes(bytes) + seconds) \div (2 * seconds)
    BY <1>3 DEF Speed
  <2>2. seconds \in Nat \ {0} /\ traffic \in Nat
    BY <1>2, <1>3
  <2> HIDE DEF seconds
  <2>3. (2 * NewBytes(bytes) + seconds) \div (2 * seconds) <= traffic
    BY <1>1, <2>2, Rounded
  <2> QED
    BY <2>1, <2>3
<1>4. CASE ~(filled["net"] /\ seconds > 0)
  BY <1>4 DEF Speed
<1> QED
  BY <1>3, <1>4

LEMMA UsageBounded ==
  ASSUME NEW load \in Loads, ~(load.wait < 0)
  PROVE  Usage(load) <= 100
<1> DEFINE all == load.used + load.idle + load.wait
<1>1. load.used \in Nat /\ all \in Nat /\ load.used <= all
  OBVIOUS
<1>2. CASE known /\ all > 0 /\ load.used >= 0
  <2>1. Usage(load) = (100 * load.used) \div all
    BY <1>2 DEF Usage
  <2> HIDE DEF all
  <2> QED
    BY <1>1, <1>2, <2>1, Percent
<1>3. CASE ~(known /\ all > 0 /\ load.used >= 0)
  BY <1>3 DEF Usage
<1> QED
  BY <1>2, <1>3

-----------------------------------------------------------------------------
(* Times.                                                                    *)

\* What is read gets a new time with it.
LEMMA StoreKeeps ==
  ASSUME TimerTypes, Dated, NEW stamped, NEW read, Store(stamped, read),
         \A t \in Timers : t \in stamped <=> t \in read
  PROVE  TimerTypes' /\ Dated'
<1>1. filled' \in [Stored -> BOOLEAN] /\ back' \in [Timers -> BOOLEAN]
  BY DEF Store, TimerTypes
<1>2. since' \in [Stored -> -MaxAway .. MaxAway] /\ age' \in [Timers -> 0 .. MaxAway]
  BY DEF Store, TimerTypes
<1>3. ASSUME NEW t \in Timers
      PROVE  /\ age'[t] <= Lifetime(t)
             /\ filled'[t] /\ ~back'[t] => age'[t] <= since'[t]
  <2>1. t \in Stored /\ Lifetime(t) \in Nat
    BY DEF Stored, Lifetime
  <2>2. CASE t \in read
    <3>1. t \in stamped
      BY <2>2
    <3> QED
      BY <2>1, <2>2, <3>1 DEF Store
  <2>3. CASE t \notin read
    <3>1. t \notin stamped
      BY <2>3
    <3>2. age'[t] = age[t] /\ since'[t] = since[t]
      BY <2>1, <2>3, <3>1 DEF Store
    <3>3. (filled'[t] <=> filled[t]) /\ (back'[t] <=> back[t])
      BY <2>1, <2>3, <3>1, Zenon DEF Store
    <3> QED
      BY <3>2, <3>3 DEF Dated
  <2> QED
    BY <2>2, <2>3
<1> QED
  BY <1>1, <1>2, <1>3 DEF TimerTypes, Dated

\* Passing time ages a figure and its time alike, up to the bounds.
LEMMA SecondKeeps ==
  ASSUME TimerTypes, Dated, UNCHANGED <<filled, back>>,
         since' = [t \in Stored |-> Least(since[t] + 1, MaxAway)],
         age' = [t \in Timers |-> Least(age[t] + 1, Lifetime(t))]
  PROVE  TimerTypes' /\ Dated'
<1>1. \A t \in Timers : t \in Stored /\ Lifetime(t) \in Nat /\ Lifetime(t) < MaxAway
  BY DEF Stored, Lifetime
<1>2. since' \in [Stored -> -MaxAway .. MaxAway]
  BY DEF TimerTypes, Least
<1>3. age' \in [Timers -> 0 .. MaxAway]
  BY <1>1 DEF TimerTypes, Least
<1>4. Dated'
  BY <1>1 DEF Dated, TimerTypes, Least
<1> QED
  BY <1>2, <1>3, <1>4 DEF TimerTypes

\* A clock that is set forward makes figures look older, never younger.
LEMMA ClockKeeps ==
  ASSUME TimerTypes, Dated, NEW d \in Steps, UNCHANGED <<filled, age>>,
         \A t \in Stored : since[t] + d >= -MaxAway,
         since' = [t \in Stored |-> Least(since[t] + d, MaxAway)],
         back' = [t \in Timers |-> back[t] \/ d < 0]
  PROVE  TimerTypes' /\ Dated'
<1>1. \A t \in Timers : t \in Stored /\ Lifetime(t) \in Nat /\ Lifetime(t) < MaxAway
  BY DEF Stored, Lifetime
<1>2. d \in Int
  OBVIOUS
<1>3. since' \in [Stored -> -MaxAway .. MaxAway]
  BY <1>2 DEF TimerTypes, Least
<1>4. back' \in [Timers -> BOOLEAN]
  BY <1>2
<1>5. ASSUME NEW t \in Timers
      PROVE  /\ age'[t] <= Lifetime(t)
             /\ filled'[t] /\ ~back'[t] => age'[t] <= since'[t]
  <2>1. CASE d < 0
    BY <2>1 DEF Dated
  <2>2. CASE ~(d < 0)
    <3>1. since'[t] = Least(since[t] + d, MaxAway) /\ since[t] \in Int /\ age[t] \in Int
      BY <1>1 DEF TimerTypes
    <3>2. filled[t] /\ ~back'[t] => age[t] <= since[t]
      BY <2>2 DEF Dated
    <3> QED
      BY <1>1, <1>2, <2>2, <3>1, <3>2 DEF Dated, Least
  <2> QED
    BY <2>1, <2>2
<1> QED
  BY <1>3, <1>4, <1>5 DEF TimerTypes, Dated

-----------------------------------------------------------------------------
(* The steps.                                                                *)

\* The parts of the invariant, as the steps change them.
LEMMA Parts ==
  IInv <=> /\ pc \in {"connect", "report", "generated", "sleep"}
           /\ slept \in 0 .. Interval
           /\ machine \in Machines
           /\ TimerTypes /\ Dated
           /\ adjusted \in 0 .. Adjustments
           /\ last \in 0 .. MaxBytes
           /\ known \in BOOLEAN
           /\ ShownTypes /\ FiguresBacked /\ ServedInTime /\ Quiet
           /\ NameTypes /\ GpuNamed
  BY DEF IInv, TypeOK, TimerTypes, ShownTypes, NameTypes

LEMMA PartsNext ==
  ASSUME pc' \in {"connect", "report", "generated", "sleep"},
         slept' \in 0 .. Interval,
         machine' \in Machines,
         TimerTypes', Dated',
         adjusted' \in 0 .. Adjustments,
         last' \in 0 .. MaxBytes,
         known' \in BOOLEAN,
         ShownTypes', FiguresBacked', ServedInTime', Quiet',
         NameTypes', GpuNamed'
  PROVE  IInv'
  BY DEF IInv, TypeOK, TimerTypes, ShownTypes, NameTypes

\* Basic info.
LEMMA InformKeeps ==
  ASSUME IInv, NEW ts \in SUBSET {"info"}, Inform(ts)
  PROVE  /\ machine' \in Machines
         /\ TimerTypes' /\ Dated'
         /\ adjusted' \in 0 .. Adjustments
         /\ last' \in 0 .. MaxBytes
         /\ known' \in BOOLEAN
         /\ NameTypes' /\ GpuNamed'
<1> USE Parts
<1>1. PICK readable \in SUBSET {"cpu", "disk"}, list \in Listed \cup {<<>>} :
        /\ known' = (known \/ "cpu" \in readable)
        /\ Store((Stamped(readable) \cap {"disk"}) \cup ts, (Read(readable) \cap {"disk"}) \cup ts)
        /\ opened' \in BOOLEAN
        /\ gpu' = GpuName(list, opened')
        /\ virt' \in Virtualization
        /\ UNCHANGED <<machine, adjusted, last>>
  BY DEF Inform
<1>2. TimerTypes' /\ Dated'
  BY <1>1, StoreKeeps DEF Stamped
<1>3. GpuNamed' /\ gpu' \in Cards \cup {"None", "unknown"}
  BY <1>1, NamedGpu
<1>4. virt' \in Kinds \cup {"unknown"}
  <2>1. machine.kind \in Kinds /\ "none" \in Kinds /\ virt \in Kinds \cup {"unknown"}
    BY Parts DEF Kinds, NameTypes
  <2> QED
    BY <1>1, <2>1 DEF Virtualization
<1>5. known' \in BOOLEAN
  BY <1>1
<1> QED
  BY <1>1, <1>2, <1>3, <1>4, <1>5 DEF NameTypes

\* Before anything is known no figure is bogus and no GPU is named.
LEMMA NothingShown ==
  ASSUME shown' = Nothing
  PROVE  ShownTypes' /\ FiguresBacked' /\ ServedInTime' /\ Quiet'
<1>1. ShownTypes' /\ FiguresBacked'
  BY DEF Nothing, ShownTypes, FiguresBacked
<1>2. shown'.served = {}
  BY DEF Nothing
<1> QED
  BY <1>1, <1>2 DEF ServedInTime, Quiet

LEMMA NoGpuNamed ==
  ASSUME gpu' = "unknown", virt' = virt, opened' \in BOOLEAN, NameTypes
  PROVE  NameTypes' /\ GpuNamed'
<1>1. NameTypes'
  BY DEF NameTypes
<1>2. GpuNamed'
  BY DEF GpuNamed
<1> QED
  BY <1>1, <1>2

LEMMA NamesUnchanged ==
  ASSUME UNCHANGED <<virt, gpu, opened, machine>>, NameTypes, GpuNamed
  PROVE  NameTypes' /\ GpuNamed'
<1>1. NameTypes'
  BY DEF NameTypes
<1>2. GpuNamed'
  BY DEF GpuNamed
<1> QED
  BY <1>1, <1>2

LEMMA TimersUnchanged ==
  ASSUME UNCHANGED timers, TimerTypes, Dated
  PROVE  TimerTypes' /\ Dated'
  BY DEF timers, TimerTypes, Dated

LEMMA ConnectKeeps ==
  ASSUME IInv, Connect
  PROVE  IInv'
<1>1. pc' = "report" /\ UNCHANGED <<slept, shown>> /\ Inform({})
  BY DEF Connect
<1>2. shown' = Nothing
  BY <1>1, Parts DEF Quiet, Connect
<1> QED
  BY <1>1, <1>2, Parts, PartsNext, InformKeeps, NothingShown

\* What one report puts into shown.
LEMMA NewFigures ==
  ASSUME TimerTypes, last \in 0 .. MaxBytes,
         NEW stat \in BOOLEAN, NEW net \in BOOLEAN,
         NEW d \in Disks, NEW load \in Loads, NEW readable,
         NEW traffic \in 0 .. MaxBytes, NEW bytes \in Counters(traffic),
         shown' = [usage |-> IF stat THEN Usage(load) ELSE 0,
                   speed |-> IF net THEN Speed(bytes) ELSE 0,
                   total |-> d.total,
                   used |-> DiskUsed(d),
                   traffic |-> traffic,
                   fell |-> load.wait < 0,
                   served |-> Served(readable),
                   blind |-> Blind(readable)]
  PROVE  ShownTypes' /\ FiguresBacked'
<1>1. d.total \in 0 .. Width - 1 /\ d.free \in 0 .. Width - 1
  OBVIOUS
<1>2. DiskUsed(d) \in 0 .. Width - 1 /\ DiskUsed(d) <= d.total
  BY <1>1 DEF DiskUsed
<1>3. shown'.speed <= shown'.traffic
  <2>1. shown'.traffic = traffic /\ shown'.speed = (IF net THEN Speed(bytes) ELSE 0)
    OBVIOUS
  <2>2. Speed(bytes) <= traffic
    BY SpeedBacked
  <2> QED
    BY <2>1, <2>2
<1>4. shown'.fell \/ shown'.usage <= 100
  <2>1. shown'.fell = (load.wait < 0) /\ shown'.usage = (IF stat THEN Usage(load) ELSE 0)
    OBVIOUS
  <2>2. CASE load.wait < 0
    BY <2>1, <2>2
  <2>3. CASE ~(load.wait < 0)
    BY <2>1, <2>3, UsageBounded
  <2> QED
    BY <2>2, <2>3
<1>5. /\ DOMAIN shown' = DOMAIN Nothing
      /\ shown'.total = d.total /\ shown'.used = DiskUsed(d)
      /\ shown'.served \subseteq Caches
  BY DEF Nothing, Served
<1> QED
  BY <1>1, <1>2, <1>3, <1>4, <1>5 DEF ShownTypes, FiguresBacked

\* What a report takes from a cache was read within its lifetime, or the clock
\* was set back since; what is due is only taken from an earlier call when it is
\* the number of processes and cannot be counted.
LEMMA ServedKeeps ==
  ASSUME TimerTypes, Dated, NEW stamped, NEW readable, Store(stamped, Read(readable)),
         shown'.served = Served(readable), shown'.blind = Blind(readable)
  PROVE  ServedInTime'
<1> SUFFICES ASSUME NEW c \in Served(readable)
             PROVE  \/ age'[c] < SlowTtl \/ back'[c]
                    \/ c = "process" /\ shown'.blind
  BY DEF ServedInTime
<1>1. /\ c \in Caches /\ c \in Timers /\ c \in Stored /\ c # "info" /\ filled[c]
      /\ Due(c) => c = "process" /\ c \notin readable
  BY DEF Served, Timers, Stored
<1>2. CASE Due(c)
  BY <1>1, <1>2 DEF Blind
<1>3. CASE ~Due(c)
  <2>1. since[c] < SlowTtl
    <3>1. since[c] \in Int /\ ~(since[c] >= SlowTtl)
      BY <1>1, <1>3 DEF Due, Lifetime, TimerTypes
    <3> QED
      BY <3>1
  <2>2. c \notin Read(readable)
    BY <1>3 DEF Read
  <2>3. age'[c] = age[c]
    BY <1>1, <2>2 DEF Store
  <2>4. back'[c] <=> back[c]
    BY <1>1, <2>2, Zenon DEF Store
  <2>5. ~back[c] => age[c] <= since[c]
    BY <1>1 DEF Dated
  <2>6. age[c] \in Int /\ since[c] \in Int
    BY <1>1 DEF TimerTypes
  <2> QED
    BY <2>1, <2>3, <2>4, <2>5, <2>6
<1> QED
  BY <1>2, <1>3

LEMMA ReportKeeps ==
  ASSUME IInv, Report
  PROVE  IInv'
<1>1. PICK readable \in SUBSET ({"cpu", "net"} \cup Caches),
           d \in Disks, load \in Loads, traffic \in 0 .. MaxBytes :
        \E bytes \in Counters(traffic) :
          /\ Store(Stamped(readable) \cup ({"net"} \cap readable), Read(readable))
          /\ last' = (IF "net" \in readable THEN bytes ELSE last)
          /\ known' = (known \/ "cpu" \in readable)
          /\ shown' = [usage |-> IF "cpu" \in readable THEN Usage(load) ELSE 0,
                       speed |-> IF "net" \in readable THEN Speed(bytes) ELSE 0,
                       total |-> d.total,
                       used |-> DiskUsed(d),
                       traffic |-> traffic,
                       fell |-> load.wait < 0,
                       served |-> Served(readable),
                       blind |-> Blind(readable)]
  BY DEF Report
<1>2. PICK bytes \in Counters(traffic) :
          /\ Store(Stamped(readable) \cup ({"net"} \cap readable), Read(readable))
          /\ last' = (IF "net" \in readable THEN bytes ELSE last)
          /\ known' = (known \/ "cpu" \in readable)
          /\ shown' = [usage |-> IF "cpu" \in readable THEN Usage(load) ELSE 0,
                       speed |-> IF "net" \in readable THEN Speed(bytes) ELSE 0,
                       total |-> d.total,
                       used |-> DiskUsed(d),
                       traffic |-> traffic,
                       fell |-> load.wait < 0,
                       served |-> Served(readable),
                       blind |-> Blind(readable)]
  BY <1>1
<1>3. TimerTypes' /\ Dated'
  <2>1. \A t \in Timers : t \in Stamped(readable) \cup ({"net"} \cap readable) <=> t \in Read(readable)
    BY DEF Timers, Stamped, Read
  <2>2. TimerTypes /\ Dated
    BY Parts
  <2>3. Store(Stamped(readable) \cup ({"net"} \cap readable), Read(readable))
    BY <1>2
  <2> QED
    BY <2>1, <2>2, <2>3, StoreKeeps
<1>4. ShownTypes' /\ FiguresBacked' /\ ServedInTime'
  <2>1. shown'.served = Served(readable) /\ shown'.blind = Blind(readable)
    BY <1>2
  <2>2. ServedInTime'
    BY <1>2, <2>1, Parts, ServedKeeps
  <2> QED
    BY <1>2, <2>2, Parts, NewFigures
<1>5. last' \in 0 .. MaxBytes /\ known' \in BOOLEAN
  BY <1>2, Parts DEF Counters
<1>6. /\ pc' = "generated" /\ gpu' = "unknown" /\ opened' = TRUE
      /\ UNCHANGED <<slept, machine, adjusted, virt>>
  BY DEF Report
<1>7. NameTypes' /\ GpuNamed'
  BY <1>6, Parts, NoGpuNamed
<1> QED
  BY <1>3, <1>4, <1>5, <1>6, <1>7, Parts, PartsNext DEF Quiet

LEMMA SendKeeps ==
  ASSUME IInv, Send
  PROVE  IInv'
<1>1. pc' = "sleep" /\ slept' = 0 /\ shown' = Nothing
  BY DEF Send
<1>2. ShownTypes' /\ FiguresBacked' /\ ServedInTime' /\ Quiet'
  BY <1>1, NothingShown
<1>3. CASE Inform({"info"})
  BY <1>1, <1>2, <1>3, Parts, PartsNext, InformKeeps
<1>4. CASE UNCHANGED <<machine, timers, adjusted, samples, virt, gpu, opened>>
  BY <1>1, <1>2, <1>4, Parts, PartsNext, TimersUnchanged, NamesUnchanged DEF samples
<1> QED
  BY <1>3, <1>4 DEF Send

LEMMA WakeKeeps ==
  ASSUME IInv, Wake
  PROVE  IInv'
<1>0. shown' = Nothing
  BY Parts DEF Wake, Quiet
<1>1. /\ pc' \in {"report", "connect"} /\ slept' = 0
      /\ UNCHANGED <<machine, timers, adjusted, samples, shown, virt, gpu, opened>>
  BY DEF Wake
<1> QED
  BY <1>0, <1>1, Parts, PartsNext, TimersUnchanged, NamesUnchanged, NothingShown DEF samples

LEMMA TickKeeps ==
  ASSUME IInv, Tick
  PROVE  IInv'
<1>1. TimerTypes' /\ Dated'
  BY Parts, SecondKeeps DEF Tick, Second
<1>2. /\ slept' \in 0 .. Interval
      /\ UNCHANGED <<pc, machine, adjusted, samples, shown, virt, gpu, opened>>
  BY Parts DEF Tick, Second
<1>3. shown' = Nothing
  BY Parts DEF Tick, Second, Quiet
<1> QED
  BY <1>1, <1>2, <1>3, Parts, PartsNext, NamesUnchanged, NothingShown DEF samples

LEMMA SetClockKeeps ==
  ASSUME IInv, SetClock
  PROVE  IInv'
<1>1. TimerTypes' /\ Dated'
  BY Parts, ClockKeeps DEF SetClock
<1>2. /\ adjusted' \in 0 .. Adjustments
      /\ UNCHANGED <<pc, slept, machine, samples, shown, virt, gpu, opened>>
  BY Parts DEF SetClock
<1>3. shown' = Nothing
  BY Parts DEF SetClock, Quiet
<1> QED
  BY <1>1, <1>2, <1>3, Parts, PartsNext, NamesUnchanged, NothingShown DEF samples

-----------------------------------------------------------------------------
(* The invariant and what follows from it.                                   *)

LEMMA InitIInv == Init => IInv
<1> SUFFICES ASSUME Init PROVE IInv
  OBVIOUS
<1>1. TimerTypes /\ Dated
  <2>1. filled \in [Stored -> BOOLEAN] /\ back \in [Timers -> BOOLEAN]
    BY DEF Init
  <2>2. since \in [Stored -> -MaxAway .. MaxAway] /\ age \in [Timers -> 0 .. MaxAway]
    BY DEF Init
  <2>3. \A t \in Timers : ~filled[t] /\ age[t] = 0 /\ Lifetime(t) \in Nat
    BY DEF Init, Stored, Lifetime
  <2> QED
    BY <2>1, <2>2, <2>3 DEF TimerTypes, Dated
<1>2. ShownTypes /\ FiguresBacked /\ ServedInTime /\ Quiet
  <2>1. shown = Nothing /\ Nothing.served = {}
    BY DEF Init, Nothing
  <2>2. ShownTypes /\ FiguresBacked
    BY <2>1 DEF Nothing, ShownTypes, FiguresBacked
  <2> QED
    BY <2>1, <2>2 DEF ServedInTime, Quiet
<1>3. NameTypes /\ GpuNamed
  BY DEF Init, NameTypes, GpuNamed
<1>4. /\ pc = "connect" /\ slept = 0 /\ adjusted = 0 /\ last = 0
      /\ machine \in Machines
  BY DEF Init
<1>5. known \in BOOLEAN
  BY Zenon DEF Init
<1> QED
  BY <1>1, <1>2, <1>3, <1>4, <1>5, Parts

LEMMA NextIInv ==
  ASSUME IInv, [Next]_vars
  PROVE  IInv'
<1>1. CASE Connect \/ Report \/ Send \/ Wake
  BY <1>1, ConnectKeeps, ReportKeeps, SendKeeps, WakeKeeps
<1>2. CASE Tick \/ SetClock
  BY <1>2, TickKeeps, SetClockKeeps
<1>3. CASE UNCHANGED vars
  <2>1. UNCHANGED <<pc, slept, machine, timers, adjusted, samples, shown, virt, gpu, opened>>
    BY <1>3 DEF vars
  <2>2. ShownTypes' /\ FiguresBacked'
    BY <2>1, Parts DEF ShownTypes, FiguresBacked
  <2>3. ServedInTime' /\ Quiet'
    BY <2>1, Parts DEF ServedInTime, Quiet, timers
  <2> QED
    BY <2>1, <2>2, <2>3, Parts, PartsNext, TimersUnchanged, NamesUnchanged DEF samples
<1> QED
  BY <1>1, <1>2, <1>3 DEF Next

LEMMA Invariance == Spec => []IInv
  BY InitIInv, NextIInv, PTL DEF Spec

\* Every variable has its type: the figures fit their width, the GPU is a card
\* or the word for none, the sleep is no longer than the interval.
THEOREM TypeCorrect == Spec => []TypeOK
<1>1. IInv => TypeOK
  BY DEF IInv
<1> QED
  BY <1>1, Invariance, PTL

\* However often the agent reconnects and however far the clock runs ahead, no
\* report shows a figure of an earlier call beyond its lifetime, unless the
\* clock was set back since, or it is the number of processes and /proc cannot
\* be opened; nor is basic info held back longer unless the clock was set back.
THEOREM NoFigureOutlivesItsTime == Spec => []StaleOnlyAfterSetBack
<1>1. IInv => StaleOnlyAfterSetBack
  <2> SUFFICES ASSUME IInv PROVE StaleOnlyAfterSetBack
    OBVIOUS
  <2>1. ASSUME ~Due("info"), ~back["info"]
        PROVE  age["info"] < InfoInterval
    <3>1. "info" \in Timers /\ "info" \in Stored /\ Lifetime("info") = InfoInterval
      BY DEF Timers, Stored, Lifetime
    <3>2. since["info"] \in Int /\ age["info"] \in Int
      BY <3>1, Parts DEF TimerTypes
    <3>3. filled["info"] /\ since["info"] < InfoInterval
      BY <2>1, <3>1, <3>2 DEF Due
    <3> QED
      BY <2>1, <3>1, <3>2, <3>3, Parts DEF Dated
  <2> QED
    BY <2>1, Parts DEF StaleOnlyAfterSetBack, ServedInTime
<1> QED
  BY <1>1, Invariance, PTL

\* A speed is backed by traffic, no disk is fuller than it is large, the CPU is
\* used by 100 % at most while its counters do not go down.
THEOREM NoBogusFigure == Spec => []FiguresBacked
<1>1. IInv => FiguresBacked
  BY DEF IInv
<1> QED
  BY <1>1, Invariance, PTL

\* The GPU that is reported is one of the machine's, for lists of any length and
\* order and a buffer that holds any part of them: from lspci none is named while
\* a better one is among the lines that fit; a card of unknown make may stand for
\* one whose line was cut; and none is named only when sysfs shows none or cannot
\* be opened.
THEOREM GpuChosenWell == Spec => []GpuNamed
<1>1. IInv => GpuNamed
  BY DEF IInv
<1> QED
  BY <1>1, Invariance, PTL

HIDE CacheAssumption
HIDE TimeAssumption
HIDE WidthAssumption
HIDE MachineAssumption

-----------------------------------------------------------------------------
(* Netstatic: sums of samples.  A sum is a recursive function; what holds of *)
(* it for every length is shown of a shortest prefix for which it would not, *)
(* which exists by Smallest.                                                 *)

\* One step of a sum.
Grown(f, s, n) == IF n = 0 THEN 0 ELSE f[n - 1] + s[n].bytes

LEMMA BytesOfSample ==
  ASSUME NEW s \in Seq(Sample), NEW n \in 1 .. Len(s)
  PROVE  s[n] \in Sample /\ s[n].bytes \in Nat
<1>1. s[n] \in Sample
  OBVIOUS
<1> QED
  BY <1>1 DEF Sample

\* There is one: a shortest prefix without one would follow on a prefix with.
LEMMA SumsExist ==
  ASSUME NEW s \in Seq(Sample)
  PROVE  \E f \in [0 .. Len(s) -> Nat] : f = [n \in 0 .. Len(s) |-> Grown(f, s, n)]
<1> DEFINE Summed(m) == \E f \in [0 .. m -> Nat] : f = [n \in 0 .. m |-> Grown(f, s, n)]
           Bad == {m \in 0 .. Len(s) : ~Summed(m)}
<1>1. ASSUME NEW m \in Bad, \A n \in Bad : m <= n
      PROVE  FALSE
  <2>1. m # 0
    <3> DEFINE f == [n \in 0 .. 0 |-> 0]
    <3>1. f \in [0 .. 0 -> Nat] /\ f = [n \in 0 .. 0 |-> Grown(f, s, n)]
      BY DEF Grown
    <3> QED
      BY <3>1
  <2>2. m - 1 \in 0 .. Len(s) /\ m \in 1 .. Len(s) /\ Summed(m - 1)
    <3>1. m \in 1 .. Len(s) /\ m - 1 \in 0 .. Len(s) /\ ~(m <= m - 1)
      BY <2>1
    <3>2. m - 1 \notin Bad
      BY <1>1, <3>1, Zenon
    <3> HIDE DEF Summed
    <3> QED
      BY <3>1, <3>2
  <2>3. PICK f \in [0 .. m - 1 -> Nat] : f = [n \in 0 .. m - 1 |-> Grown(f, s, n)]
    BY <2>2
  <2> DEFINE g == [n \in 0 .. m |-> IF n = m THEN f[m - 1] + s[m].bytes ELSE f[n]]
  <2>4. s[m].bytes \in Nat
    BY <2>2, BytesOfSample
  <2>5. g \in [0 .. m -> Nat]
    BY <2>2, <2>4
  <2>6. ASSUME NEW n \in 0 .. m
        PROVE  g[n] = Grown(g, s, n)
    <3>1. CASE n = m
      BY <2>2, <3>1 DEF Grown
    <3>2. CASE n # m
      <4>1. n \in 0 .. m - 1 /\ g[n] = f[n] /\ f[n] = Grown(f, s, n)
        <5>1. n \in 0 .. m - 1
          BY <2>2, <3>2
        <5>2. f[n] = Grown(f, s, n)
          <6> HIDE DEF Summed, Bad, g
          <6> QED
            BY <2>3, <5>1
        <5> QED
          BY <3>2, <5>1, <5>2
      <4>2. n # 0 => g[n - 1] = f[n - 1]
        BY <2>2, <4>1
      <4> QED
        BY <4>1, <4>2 DEF Grown
    <3> QED
      BY <3>1, <3>2
  <2>7. g = [n \in 0 .. m |-> Grown(g, s, n)]
    BY <2>5, <2>6
  <2> QED
    BY <1>1, <2>5, <2>7
<1>2. Bad = {}
  <2> HIDE DEF Bad
  <2>1. Bad \in SUBSET Nat
    BY DEF Bad
  <2> QED
    BY <1>1, <2>1, Smallest
<1> QED
  BY <1>2

\* The recursive definition is such a sum.
LEMMA SumsByStep ==
  ASSUME NEW s \in Seq(Sample)
  PROVE  /\ DOMAIN SumTo(s) = 0 .. Len(s)
         /\ SumTo(s)[0] = 0
         /\ \A n \in 1 .. Len(s) : SumTo(s)[n] = SumTo(s)[n - 1] + s[n].bytes
<1> DEFINE Sums(f) == f = [n \in 0 .. Len(s) |-> IF n = 0 THEN 0 ELSE f[n - 1] + s[n].bytes]
<1>1. \E f : Sums(f)
  BY SumsExist DEF Grown
<1>2. SumTo(s) = CHOOSE f : Sums(f)
  BY DEF SumTo
<1>3. Sums(SumTo(s))
  <2> HIDE DEF Sums
  <2> QED
    BY <1>1, <1>2
<1> QED
  BY <1>3

LEMMA SumsAreNumbers ==
  ASSUME NEW s \in Seq(Sample), NEW n \in 0 .. Len(s)
  PROVE  SumTo(s)[n] \in Nat
<1> DEFINE Bad == {m \in 0 .. Len(s) : SumTo(s)[m] \notin Nat}
<1>1. ASSUME NEW m \in Bad, \A k \in Bad : m <= k
      PROVE  FALSE
  <2>1. m # 0
    BY SumsByStep
  <2>2. m \in 1 .. Len(s) /\ m - 1 \in 0 .. Len(s) /\ m - 1 \notin Bad
    BY <1>1, <2>1
  <2>3. SumTo(s)[m - 1] \in Nat /\ s[m].bytes \in Nat
    BY <2>2, BytesOfSample
  <2>4. SumTo(s)[m] = SumTo(s)[m - 1] + s[m].bytes
    BY <2>2, SumsByStep
  <2> QED
    BY <2>3, <2>4
<1>2. Bad = {}
  <2>1. Bad \in SUBSET Nat
    OBVIOUS
  <2> HIDE DEF Bad
  <2> QED
    BY <1>1, <2>1, Smallest
<1> QED
  BY <1>2

\* Where t repeats the samples of s from k on, its sums are those of s less
\* what is before.
LEMMA SumsShifted ==
  ASSUME NEW s \in Seq(Sample), NEW t \in Seq(Sample), NEW k \in Nat, NEW m \in Nat,
         k + m <= Len(s), m <= Len(t),
         \A i \in 1 .. m : t[i] = s[k + i]
  PROVE  SumTo(s)[k + m] = SumTo(s)[k] + SumTo(t)[m]
<1> DEFINE Bad == {i \in 0 .. m : SumTo(s)[k + i] # SumTo(s)[k] + SumTo(t)[i]}
<1>1. ASSUME NEW i \in Bad, \A j \in Bad : i <= j
      PROVE  FALSE
  <2>1. SumTo(t)[0] = 0 /\ SumTo(s)[k] \in Nat
    BY SumsByStep, SumsAreNumbers
  <2>2. i # 0
    BY <2>1
  <2>3. i \in 1 .. m /\ i - 1 \in 0 .. m /\ i - 1 \notin Bad
    BY <1>1, <2>2
  <2>4. SumTo(s)[k + i - 1] = SumTo(s)[k] + SumTo(t)[i - 1]
    <3>1. k + (i - 1) = k + i - 1
      BY <2>3
    <3> QED
      BY <2>3, <3>1
  <2>5. SumTo(t)[i] = SumTo(t)[i - 1] + t[i].bytes
    BY <2>3, SumsByStep
  <2>6. SumTo(s)[k + i] = SumTo(s)[k + i - 1] + s[k + i].bytes
    <3>1. PICK n \in 1 .. Len(s) : n = k + i
      BY <2>3
    <3>2. SumTo(s)[n] = SumTo(s)[n - 1] + s[n].bytes
      BY SumsByStep
    <3> QED
      BY <3>1, <3>2
  <2>7. s[k + i] = t[i] /\ t[i].bytes \in Nat
    <3>1. i \in 1 .. Len(t)
      BY <2>3
    <3> QED
      BY <2>3, <3>1, BytesOfSample
  <2>8. SumTo(t)[i - 1] \in Nat
    BY <2>3, SumsAreNumbers
  <2>9. SumTo(s)[k + i] = SumTo(s)[k] + SumTo(t)[i]
    <3> DEFINE a == SumTo(s)[k]
               b == SumTo(t)[i - 1]
               c == t[i].bytes
    <3>1. a \in Nat /\ b \in Nat /\ c \in Nat
      BY <2>1, <2>7, <2>8
    <3>2. SumTo(s)[k + i] = (a + b) + c /\ SumTo(t)[i] = b + c
      BY <2>4, <2>5, <2>6, <2>7
    <3> HIDE DEF a, b, c
    <3>3. (a + b) + c = a + (b + c)
      BY <3>1
    <3> QED
      BY <3>2, <3>3 DEF a
  <2> QED
    BY <2>9
<1>2. Bad = {}
  <2>1. Bad \in SUBSET Nat
    OBVIOUS
  <2> HIDE DEF Bad
  <2> QED
    BY <1>1, <2>1, Smallest
<1>3. m \in 0 .. m /\ m \notin Bad
  BY <1>2
<1> QED
  BY <1>3

LEMMA SumOfFacts ==
  ASSUME NEW s \in Seq(Sample)
  PROVE  SumOf(s) \in Nat /\ (s = <<>> => SumOf(s) = 0)
BY SumsAreNumbers, SumsByStep DEF SumOf

LEMMA SumOfAppend ==
  ASSUME NEW s \in Seq(Sample), NEW x \in Sample
  PROVE  SumOf(Append(s, x)) = SumOf(s) + x.bytes
<1> DEFINE t == Append(s, x)
<1>1. /\ t \in Seq(Sample) /\ Len(t) = Len(s) + 1 /\ t[Len(t)] = x
      /\ \A i \in 1 .. Len(s) : t[i] = s[i]
  OBVIOUS
<1> HIDE DEF t
<1>2. SumTo(t)[Len(s)] = SumTo(s)[Len(s)]
  <2>1. SumTo(t)[0 + Len(s)] = SumTo(t)[0] + SumTo(s)[Len(s)]
    <3>1. /\ 0 \in Nat /\ Len(s) \in Nat /\ 0 + Len(s) <= Len(t) /\ Len(s) <= Len(s)
          /\ \A i \in 1 .. Len(s) : s[i] = t[0 + i]
      BY <1>1
    <3> QED
      BY <1>1, <3>1, SumsShifted, Zenon
  <2>2. SumTo(t)[0] = 0 /\ SumTo(s)[Len(s)] \in Nat
    BY <1>1, SumsByStep, SumsAreNumbers
  <2> QED
    BY <2>1, <2>2
<1>3. SumTo(t)[Len(t)] = SumTo(t)[Len(s)] + x.bytes
  <2>1. Len(t) \in 1 .. Len(t) /\ Len(t) - 1 = Len(s)
    BY <1>1
  <2> QED
    BY <1>1, <2>1, SumsByStep
<1> QED
  BY <1>2, <1>3 DEF SumOf, t

\* The last samples sum up to no more than all.
LEMMA SumOfSuffix ==
  ASSUME NEW s \in Seq(Sample), NEW k \in 1 .. Len(s) + 1
  PROVE  SumOf(SubSeq(s, k, Len(s))) <= SumOf(s)
<1> DEFINE t == SubSeq(s, k, Len(s))
<1>1. /\ t \in Seq(Sample) /\ Len(t) = Len(s) - k + 1
      /\ \A i \in 1 .. Len(t) : t[i] = s[(k - 1) + i]
  OBVIOUS
<1> HIDE DEF t
<1>2. SumTo(s)[(k - 1) + Len(t)] = SumTo(s)[k - 1] + SumTo(t)[Len(t)]
  <2>1. /\ k - 1 \in Nat /\ Len(t) \in Nat /\ (k - 1) + Len(t) <= Len(s) /\ Len(t) <= Len(t)
    BY <1>1
  <2> QED
    BY <1>1, <2>1, SumsShifted, Zenon
<1>3. SumTo(s)[k - 1] \in Nat /\ SumTo(t)[Len(t)] \in Nat /\ (k - 1) + Len(t) = Len(s)
  BY <1>1, SumsAreNumbers
<1> QED
  BY <1>2, <1>3 DEF SumOf, t
-----------------------------------------------------------------------------
(* The invariant of the statistics.                                          *)

\* Samples that fit the list and add up to no more than the traffic t.
Backed(s, t) == s \in Seq(Sample) /\ Len(s) <= MaxSamples /\ SumOf(s) <= t
SavedBacked(c, t) == c \in [tracked : BOOLEAN, data : Seq(Sample)] /\ Backed(c.data, t)

KernelOK ==
  /\ total \in 0 .. TrafficMax /\ counter \in 0 .. total + 1
  /\ now \in Times /\ faults \in 0 .. FaultMax

\* What has passed since the last sample is not in the samples yet.
StatsOK ==
  /\ tracked \in BOOLEAN /\ lastBytes \in 0 .. total + 1
  /\ Backed(data, total)
  /\ SumOf(data) + Delta <= total

SavedOK ==
  /\ lastSave \in Times /\ failed \in BOOLEAN
  /\ snapshot = <<>> \/ SavedBacked(snapshot, total)
  /\ worker \in {"open", "write"} => SavedBacked(snapshot, total)
  /\ file \in {NoFile, Broken} \/ SavedBacked(file, total)

\* Where the two threads are together.
ThreadsOK ==
  /\ running \in BOOLEAN
  /\ worker \in {"none", "test", "collect", "open", "write", "sleep", "ended"}
  /\ main \in {"down", "running", "join", "open", "write", "stopped"}
  /\ main = "down" => worker = "none" /\ data = <<>> /\ lastBytes = 0
  /\ main = "running" /\ ~running => worker = "none"
  /\ main # "running" => ~running
  /\ main \in {"open", "write"} => worker = "ended"
  /\ main = "stopped" => worker \in {"none", "ended"}

NSInv == KernelOK /\ StatsOK /\ SavedOK /\ ThreadsOK /\ StopSavesAll

-----------------------------------------------------------------------------
(* What becomes of the samples.                                              *)

LEMMA NewestFacts ==
  ASSUME NEW s \in Seq(Sample), NEW n \in Nat
  PROVE  /\ Newest(s, n) \in Seq(Sample)
         /\ Len(Newest(s, n)) <= n
         /\ SumOf(Newest(s, n)) <= SumOf(s)
<1>1. CASE Len(s) > n
  <2> DEFINE k == Len(s) - n + 1
  <2>1. k \in 1 .. Len(s) + 1 /\ Newest(s, n) = SubSeq(s, k, Len(s))
    BY <1>1 DEF Newest
  <2>2. /\ SubSeq(s, k, Len(s)) \in Seq(Sample)
        /\ Len(SubSeq(s, k, Len(s))) = n
    BY <1>1
  <2>3. SumOf(SubSeq(s, k, Len(s))) <= SumOf(s)
    BY <2>1, SumOfSuffix
  <2> QED
    BY <2>1, <2>2, <2>3
<1>2. CASE ~(Len(s) > n)
  BY <1>2, SumOfFacts DEF Newest
<1> QED
  BY <1>1, <1>2

\* What is kept begins with the oldest sample that is still valid.
LEMMA OldestValid ==
  ASSUME NEW S \in SUBSET Nat, S # {}
  PROVE  Min(S) \in S /\ \A n \in S : Min(S) <= n
<1>1. \E m \in S : \A n \in S : m <= n
  BY Smallest
<1> QED
  BY <1>1 DEF Min

LEMMA CleanedFacts ==
  ASSUME NEW s \in Seq(Sample)
  PROVE  /\ Cleaned(s) \in Seq(Sample)
         /\ Len(Cleaned(s)) <= MaxSamples
         /\ SumOf(Cleaned(s)) <= SumOf(s)
<1> DEFINE Valid == {i \in DOMAIN s : s[i].time >= Cutoff}
           kept == IF Valid = {} THEN <<>> ELSE SubSeq(s, Min(Valid), Len(s))
<1>1. kept \in Seq(Sample) /\ SumOf(kept) <= SumOf(s)
  <2>1. CASE Valid = {}
    <3>1. kept = <<>> /\ <<>> \in Seq(Sample)
      BY <2>1
    <3>2. SumOf(<<>>) = 0 /\ SumOf(s) \in Nat
      BY <3>1, SumOfFacts
    <3> HIDE DEF kept
    <3> QED
      BY <3>1, <3>2
  <2>2. CASE Valid # {}
    <3>1. Valid \in SUBSET Nat /\ Valid \subseteq 1 .. Len(s)
      OBVIOUS
    <3>2. Min(Valid) \in 1 .. Len(s)
      <4> HIDE DEF Valid
      <4> QED
        BY <2>2, <3>1, OldestValid
    <3>3. kept = SubSeq(s, Min(Valid), Len(s))
      BY <2>2
    <3> HIDE DEF kept, Valid
    <3>4. SubSeq(s, Min(Valid), Len(s)) \in Seq(Sample)
      BY <3>2
    <3>5. SumOf(SubSeq(s, Min(Valid), Len(s))) <= SumOf(s)
      BY <3>2, SumOfSuffix
    <3> QED
      BY <3>3, <3>4, <3>5
  <2> QED
    BY <2>1, <2>2
<1>2. Cleaned(s) = Newest(kept, MaxSamples)
  BY DEF Cleaned
<1> HIDE DEF kept
<1>3. /\ Newest(kept, MaxSamples) \in Seq(Sample)
      /\ Len(Newest(kept, MaxSamples)) <= MaxSamples
      /\ SumOf(Newest(kept, MaxSamples)) <= SumOf(kept)
  BY <1>1, NewestFacts, LimitAssumption
<1>4. SumOf(s) \in Nat /\ SumOf(kept) \in Nat /\ SumOf(Newest(kept, MaxSamples)) \in Nat
  BY <1>1, <1>3, SumOfFacts
<1> QED
  BY <1>1, <1>2, <1>3, <1>4

\* A sample adds what has passed since the last one.
LEMMA SampledFacts ==
  ASSUME KernelOK, StatsOK
  PROVE  /\ Delta \in Nat
         /\ Sampled \in Seq(Sample)
         /\ Len(Sampled) <= MaxSamples
         /\ SumOf(Sampled) <= SumOf(data) + Delta
<1> DEFINE s == Newest(data, MaxSamples - 1)
           x == [time |-> now, bytes |-> Delta]
<1>1. Delta \in Nat
  BY DEF Delta, KernelOK, StatsOK
<1>2. x \in Sample /\ x.bytes = Delta
  BY <1>1 DEF KernelOK, Sample
<1>3. data \in Seq(Sample) /\ MaxSamples - 1 \in Nat
  BY LimitAssumption DEF StatsOK, Backed
<1>4. s \in Seq(Sample) /\ Len(s) <= MaxSamples - 1 /\ SumOf(s) <= SumOf(data)
  BY <1>3, NewestFacts
<1>5. Sampled = Append(s, x)
  BY DEF Sampled
<1> HIDE DEF s, x
<1>6. SumOf(Append(s, x)) = SumOf(s) + Delta
  BY <1>2, <1>4, SumOfAppend
<1>7. SumOf(s) \in Nat /\ SumOf(data) \in Nat
  BY <1>3, <1>4, SumOfFacts
<1>8. Append(s, x) \in Seq(Sample) /\ Len(Append(s, x)) <= MaxSamples
  BY <1>2, <1>4, LimitAssumption
<1> QED
  BY <1>1, <1>4, <1>5, <1>6, <1>7, <1>8

-----------------------------------------------------------------------------
(* Every step keeps the invariant.                                           *)

LEMMA BackedByMore ==
  ASSUME NEW s, NEW t \in Nat, NEW u \in Nat, t <= u, Backed(s, t)
  PROVE  Backed(s, u)
<1>1. SumOf(s) \in Nat
  BY SumOfFacts DEF Backed
<1> QED
  BY <1>1 DEF Backed

LEMMA NothingBacked ==
  ASSUME NEW t \in Nat
  PROVE  Backed(<<>>, t) /\ SumOf(<<>>) = 0
<1>1. <<>> \in Seq(Sample) /\ Len(<<>>) = 0
  OBVIOUS
<1>2. SumOf(<<>>) = 0
  BY <1>1, SumOfFacts
<1> QED
  BY <1>1, <1>2, LimitAssumption DEF Backed

\* Steps of the threads alone.
LEMMA KernelKept ==
  ASSUME KernelOK, UNCHANGED <<kernel, now>>, Fault \/ UNCHANGED faults
  PROVE  KernelOK'
  BY LimitAssumption DEF KernelOK, kernel, Fault

LEMMA StatsKept ==
  ASSUME StatsOK, UNCHANGED <<kernel, stats>>
  PROVE  StatsOK'
<1>1. UNCHANGED <<counter, total, tracked, data, lastBytes>> /\ Delta' = Delta
  BY DEF kernel, stats, Delta
<1> QED
  BY <1>1 DEF StatsOK

\* With nothing counted yet, the samples alone count.
LEMMA StatsFromStart ==
  ASSUME KernelOK, tracked' \in BOOLEAN, lastBytes' = 0, Backed(data', total), UNCHANGED kernel
  PROVE  StatsOK'
<1>1. Delta' = 0 /\ total' = total /\ lastBytes' \in 0 .. total' + 1
  BY DEF Delta, KernelOK, kernel
<1>2. SumOf(data') \in Nat /\ SumOf(data') <= total
  BY SumOfFacts DEF Backed
<1> QED
  BY <1>1, <1>2 DEF StatsOK, KernelOK

LEMMA SavedKept ==
  ASSUME SavedOK, UNCHANGED <<total, lastSave, snapshot, file>>,
         failed' \in BOOLEAN, worker' \in {"open", "write"} => worker \in {"open", "write"}
  PROVE  SavedOK'
  BY DEF SavedOK

\* A call that opens, fills or fails.
Written(content) ==
  /\ file' \in {file, Broken, content}
  /\ failed' \in {failed, TRUE}
  /\ Fault \/ UNCHANGED faults

LEMMA WrittenKeeps ==
  ASSUME SavedOK, NEW content, Written(content), SavedBacked(content, total),
         UNCHANGED <<total, lastSave, snapshot>>,
         worker' \in {"open", "write"} => worker \in {"open", "write"}
  PROVE  SavedOK'
<1>1. file' \in {NoFile, Broken} \/ SavedBacked(file', total)
  BY DEF SavedOK, Written
<1>2. failed' \in BOOLEAN
  BY Zenon DEF SavedOK, Written
<1> QED
  BY <1>1, <1>2 DEF SavedOK

LEMMA ContentBacked ==
  ASSUME StatsOK
  PROVE  SavedBacked(Content, total)
  BY DEF StatsOK, SavedBacked, Content, Backed

LEMMA TestRunningKeeps ==
  ASSUME NSInv, TestRunning
  PROVE  NSInv'
<1>1. /\ worker = "test" /\ worker' = (IF running THEN "collect" ELSE "ended")
      /\ UNCHANGED <<kernel, now, stats, lastSave, snapshot, running, main, file, failed, faults>>
  BY DEF TestRunning
<1>2. KernelOK' /\ StatsOK'
  BY <1>1, KernelKept, StatsKept DEF NSInv
<1>3. SavedOK'
  BY <1>1, SavedKept DEF NSInv, SavedOK, kernel
<1>4. ThreadsOK' /\ StopSavesAll'
  BY <1>1 DEF NSInv, ThreadsOK, StopSavesAll, Content, stats
<1> QED
  BY <1>2, <1>3, <1>4 DEF NSInv

LEMMA CollectKeeps ==
  ASSUME NSInv, Collect
  PROVE  NSInv'
<1>1. PICK s \in {Sampled, data}, l \in {counter, lastBytes} :
        /\ \/ s = Sampled /\ l = counter /\ UNCHANGED faults
           \/ s = data /\ l = counter /\ Fault
           \/ s = data /\ l = lastBytes /\ (Fault \/ UNCHANGED faults)
        /\ lastBytes' = l
        /\ \/ /\ data' = Cleaned(s) /\ lastSave' = now
              /\ snapshot' = [tracked |-> tracked, data |-> Cleaned(s)]
              /\ worker' = "open"
           \/ data' = s /\ worker' = "sleep" /\ UNCHANGED <<snapshot, lastSave>>
  BY DEF Collect
<1>2. /\ worker = "collect"
      /\ UNCHANGED <<kernel, now, tracked, running, main, file, failed>>
  BY DEF Collect
<1> DEFINE Rest == IF l = counter THEN 0 ELSE Delta
<1>3. /\ Delta \in Nat /\ Sampled \in Seq(Sample) /\ data \in Seq(Sample)
      /\ Len(Sampled) <= MaxSamples /\ Len(data) <= MaxSamples
      /\ SumOf(Sampled) <= SumOf(data) + Delta /\ SumOf(data) + Delta <= total
      /\ SumOf(data) \in Nat /\ SumOf(Sampled) \in Nat /\ total \in Nat
  BY SampledFacts, SumOfFacts DEF NSInv, StatsOK, Backed, KernelOK
<1>4. s \in Seq(Sample) /\ Len(s) <= MaxSamples /\ SumOf(s) + Rest <= total /\ SumOf(s) \in Nat
  <2> HIDE DEF Rest
  <2>1. s = Sampled \/ s = data
    OBVIOUS
  <2>2. Rest \in {0, Delta} /\ (s = data \/ Rest = 0)
    BY <1>1 DEF Rest
  <2> QED
    BY <1>3, <2>1, <2>2
<1>5. /\ data' \in Seq(Sample) /\ Len(data') <= MaxSamples
      /\ SumOf(data') <= SumOf(s) /\ SumOf(data') \in Nat
  <2>1. data' \in {s, Cleaned(s)}
    BY <1>1
  <2>2. /\ Cleaned(s) \in Seq(Sample) /\ Len(Cleaned(s)) <= MaxSamples
        /\ SumOf(Cleaned(s)) <= SumOf(s) /\ SumOf(Cleaned(s)) \in Nat
    BY <1>4, CleanedFacts, SumOfFacts
  <2> QED
    BY <1>4, <2>1, <2>2
<1>6. Delta' = Rest
  BY <1>1, <1>2 DEF Delta, kernel, NSInv, KernelOK
<1>7. KernelOK'
  BY <1>1, <1>2, KernelKept DEF NSInv
<1>8. StatsOK'
  <2>1. total' = total /\ tracked' \in BOOLEAN /\ lastBytes' \in 0 .. total + 1
    BY <1>1, <1>2 DEF kernel, NSInv, KernelOK, StatsOK
  <2>2. Backed(data', total)
    <3>1. Rest \in Nat
      BY <1>3
    <3> HIDE DEF Rest
    <3> QED
      BY <1>3, <1>4, <1>5, <3>1 DEF Backed
  <2>3. SumOf(data') + Delta' <= total
    <3>1. Rest \in Nat
      BY <1>3
    <3> HIDE DEF Rest
    <3> QED
      BY <1>3, <1>4, <1>5, <1>6, <3>1
  <2> QED
    BY <2>1, <2>2, <2>3 DEF StatsOK
<1>9. SavedOK'
  <2>1. UNCHANGED <<total, file, failed>> /\ tracked \in BOOLEAN /\ now \in Times
    BY <1>2 DEF kernel, NSInv, StatsOK, KernelOK
  <2>2. CASE data' = Cleaned(s) /\ lastSave' = now /\ snapshot' = [tracked |-> tracked, data |-> Cleaned(s)]
    <3>1. Backed(Cleaned(s), total)
      BY <1>8, <2>1, <2>2 DEF StatsOK
    <3>2. SavedBacked(snapshot', total)
      BY <2>1, <2>2, <3>1 DEF SavedBacked, Backed
    <3> QED
      BY <2>1, <2>2, <3>2 DEF NSInv, SavedOK
  <2>3. CASE worker' = "sleep" /\ UNCHANGED <<snapshot, lastSave>>
    BY <2>1, <2>3 DEF NSInv, SavedOK
  <2> QED
    BY <1>1, <2>2, <2>3
<1>10. ThreadsOK' /\ StopSavesAll'
  <2>1. worker' \in {"open", "sleep"} /\ UNCHANGED <<running, main>> /\ main \notin {"down", "stopped", "open", "write"}
    BY <1>1, <1>2 DEF NSInv, ThreadsOK
  <2>2. ~(main = "running" /\ ~running)
    BY <1>2 DEF NSInv, ThreadsOK
  <2> QED
    BY <2>1, <2>2 DEF NSInv, ThreadsOK, StopSavesAll
<1> QED
  BY <1>7, <1>8, <1>9, <1>10 DEF NSInv

LEMMA WorkerOpensKeeps ==
  ASSUME NSInv, WorkerOpens
  PROVE  NSInv'
<1>1. /\ worker = "open" /\ worker' \in {"write", "sleep"}
      /\ UNCHANGED <<kernel, now, stats, lastSave, snapshot, running, main>>
      /\ Written(snapshot)
  BY DEF WorkerOpens, OpenFile, FileFails, Written
<1>2. KernelOK' /\ StatsOK'
  BY <1>1, KernelKept, StatsKept DEF NSInv, Written
<1>3. SavedOK'
  BY <1>1, WrittenKeeps DEF NSInv, SavedOK, kernel
<1>4. ThreadsOK' /\ StopSavesAll'
  BY <1>1 DEF NSInv, ThreadsOK, StopSavesAll, stats
<1> QED
  BY <1>2, <1>3, <1>4 DEF NSInv

LEMMA WorkerWritesKeeps ==
  ASSUME NSInv, WorkerWrites
  PROVE  NSInv'
<1>1. /\ worker = "write" /\ worker' = "sleep"
      /\ UNCHANGED <<kernel, now, stats, lastSave, snapshot, running, main>>
      /\ Written(snapshot)
  BY DEF WorkerWrites, FillFile, FileFails, Written
<1>2. KernelOK' /\ StatsOK'
  BY <1>1, KernelKept, StatsKept DEF NSInv, Written
<1>3. SavedOK'
  BY <1>1, WrittenKeeps DEF NSInv, SavedOK, kernel
<1>4. ThreadsOK' /\ StopSavesAll'
  BY <1>1 DEF NSInv, ThreadsOK, StopSavesAll, stats
<1> QED
  BY <1>2, <1>3, <1>4 DEF NSInv

LEMMA SleepKeeps ==
  ASSUME NSInv, Sleep
  PROVE  NSInv'
<1>1. /\ worker = "sleep" /\ worker' = "test" /\ now' \in Times
      /\ UNCHANGED <<kernel, stats, lastSave, snapshot, running, main, file, failed>>
      /\ Fault \/ UNCHANGED faults
  BY DEF Sleep
<1>2. KernelOK'
  BY <1>1, LimitAssumption DEF NSInv, KernelOK, kernel, Fault
<1>3. StatsOK'
  BY <1>1, StatsKept DEF NSInv
<1>4. SavedOK'
  BY <1>1, SavedKept DEF NSInv, SavedOK, kernel
<1>5. ThreadsOK' /\ StopSavesAll'
  BY <1>1 DEF NSInv, ThreadsOK, StopSavesAll, stats
<1> QED
  BY <1>2, <1>3, <1>4, <1>5 DEF NSInv

LEMMA StartKeeps ==
  ASSUME NSInv, Start
  PROVE  NSInv'
<1>1. /\ main = "down" /\ main' = "running" /\ Load
      /\ running' \in BOOLEAN /\ worker' = (IF running' THEN "test" ELSE "none")
      /\ Fault \/ UNCHANGED faults
      /\ UNCHANGED <<kernel, now, lastBytes, lastSave, snapshot, file, failed>>
  BY DEF Start
<1>2. KernelOK'
  BY <1>1, KernelKept DEF NSInv
<1>3. StatsOK'
  <2>1. tracked' \in BOOLEAN /\ Backed(data', total)
    <3>1. CASE file \in {NoFile, Broken}
      BY <1>1, <3>1, Zenon DEF Load, NSInv, StatsOK
    <3>2. CASE file \notin {NoFile, Broken}
      <4>1. SavedBacked(file, total) /\ tracked' = file.tracked /\ data' = file.data
        BY <1>1, <3>2 DEF Load, NSInv, SavedOK
      <4> QED
        BY <4>1 DEF SavedBacked
    <3> QED
      BY <3>1, <3>2
  <2>2. lastBytes' = 0
    BY <1>1 DEF NSInv, ThreadsOK
  <2> QED
    BY <1>1, <2>1, <2>2, StatsFromStart DEF NSInv
<1>4. SavedOK'
  BY <1>1, SavedKept DEF NSInv, SavedOK, kernel
<1>5. ThreadsOK' /\ StopSavesAll'
  BY <1>1 DEF ThreadsOK, StopSavesAll
<1> QED
  BY <1>2, <1>3, <1>4, <1>5 DEF NSInv

\* Both calls that change the interfaces leave no samples.
LEMMA InterfaceKeeps ==
  ASSUME NSInv, AddInterface \/ RemoveInterface
  PROVE  NSInv'
<1>1. /\ main = "running" /\ tracked' \in BOOLEAN /\ data' = <<>> /\ lastBytes' = 0
      /\ UNCHANGED <<kernel, now, lastSave, snapshot, running, worker, main, file, failed, faults>>
  BY DEF AddInterface, RemoveInterface
<1>2. KernelOK'
  BY <1>1, KernelKept DEF NSInv
<1>3. StatsOK'
  BY <1>1, NothingBacked, StatsFromStart DEF NSInv, KernelOK
<1>4. SavedOK'
  BY <1>1, SavedKept DEF NSInv, SavedOK, kernel
<1>5. ThreadsOK' /\ StopSavesAll'
  BY <1>1 DEF NSInv, ThreadsOK, StopSavesAll
<1> QED
  BY <1>2, <1>3, <1>4, <1>5 DEF NSInv

LEMMA StopKeeps ==
  ASSUME NSInv, Stop
  PROVE  NSInv'
<1>1. /\ main = "running" /\ running' = FALSE /\ main' = (IF running THEN "join" ELSE "stopped")
      /\ UNCHANGED <<kernel, now, stats, lastSave, snapshot, worker, file, failed, faults>>
  BY DEF Stop
<1>2. KernelOK' /\ StatsOK'
  BY <1>1, KernelKept, StatsKept DEF NSInv
<1>3. SavedOK'
  BY <1>1, SavedKept DEF NSInv, SavedOK, kernel
<1>4. ThreadsOK' /\ StopSavesAll'
  BY <1>1 DEF NSInv, ThreadsOK, StopSavesAll
<1> QED
  BY <1>2, <1>3, <1>4 DEF NSInv

LEMMA JoinKeeps ==
  ASSUME NSInv, Join
  PROVE  NSInv'
<1>1. /\ main = "join" /\ worker = "ended" /\ main' = "open"
      /\ UNCHANGED <<kernel, now, stats, lastSave, snapshot, running, worker, file, failed, faults>>
  BY DEF Join
<1>2. KernelOK' /\ StatsOK'
  BY <1>1, KernelKept, StatsKept DEF NSInv
<1>3. SavedOK'
  BY <1>1, SavedKept DEF NSInv, SavedOK, kernel
<1>4. ThreadsOK' /\ StopSavesAll'
  BY <1>1 DEF NSInv, ThreadsOK, StopSavesAll
<1> QED
  BY <1>2, <1>3, <1>4 DEF NSInv

LEMMA SaveOpensKeeps ==
  ASSUME NSInv, SaveOpens
  PROVE  NSInv'
<1>1. /\ main = "open" /\ main' \in {"write", "stopped"} /\ (main' = "stopped" => failed')
      /\ UNCHANGED <<kernel, now, stats, lastSave, snapshot, running, worker>>
      /\ Written(Content)
  BY DEF SaveOpens, OpenFile, FileFails, Written
<1>2. KernelOK' /\ StatsOK'
  BY <1>1, KernelKept, StatsKept DEF NSInv, Written
<1>3. SavedOK'
  BY <1>1, WrittenKeeps, ContentBacked DEF NSInv, SavedOK, kernel
<1>4. ThreadsOK' /\ StopSavesAll'
  BY <1>1 DEF NSInv, ThreadsOK, StopSavesAll, stats
<1> QED
  BY <1>2, <1>3, <1>4 DEF NSInv

LEMMA SaveWritesKeeps ==
  ASSUME NSInv, SaveWrites
  PROVE  NSInv'
<1>1. /\ main = "write" /\ main' = "stopped" /\ (file' = Content \/ failed')
      /\ UNCHANGED <<kernel, now, stats, lastSave, snapshot, running, worker>>
      /\ Written(Content)
  BY DEF SaveWrites, FillFile, FileFails, Written
<1>2. KernelOK' /\ StatsOK'
  BY <1>1, KernelKept, StatsKept DEF NSInv, Written
<1>3. SavedOK'
  BY <1>1, WrittenKeeps, ContentBacked DEF NSInv, SavedOK, kernel
<1>4. ThreadsOK' /\ StopSavesAll'
  BY <1>1 DEF NSInv, ThreadsOK, StopSavesAll, Content, stats
<1> QED
  BY <1>2, <1>3, <1>4 DEF NSInv

\* Destroyed or crashed: the file stays as it was.
LEMMA GoneKeeps ==
  ASSUME NSInv, Gone, Fault \/ UNCHANGED faults
  PROVE  NSInv'
<1>1. /\ tracked' = FALSE /\ data' = <<>> /\ lastBytes' = 0 /\ lastSave' = 0 /\ snapshot' = <<>>
      /\ running' = FALSE /\ worker' = "none" /\ main' = "down" /\ failed' = FALSE
      /\ UNCHANGED <<kernel, now, file>>
  BY DEF Gone
<1>2. KernelOK'
  BY <1>1, KernelKept DEF NSInv
<1>3. StatsOK'
  <2>1. tracked' \in BOOLEAN /\ UNCHANGED kernel
    BY <1>1
  <2>2. Backed(data', total)
    BY <1>1, NothingBacked DEF NSInv, KernelOK
  <2> QED
    BY <1>1, <2>1, <2>2, StatsFromStart DEF NSInv
<1>4. SavedOK'
  <2>1. lastSave' \in Times
    BY <1>1, LimitAssumption DEF Times
  <2>2. failed' \in BOOLEAN
    BY <1>1
  <2>3. UNCHANGED <<total, file>>
    BY <1>1 DEF kernel
  <2> QED
    BY <1>1, <2>1, <2>2, <2>3 DEF NSInv, SavedOK
<1>5. ThreadsOK' /\ StopSavesAll'
  BY <1>1 DEF ThreadsOK, StopSavesAll
<1> QED
  BY <1>2, <1>3, <1>4, <1>5 DEF NSInv

LEMMA TrafficKeeps ==
  ASSUME NSInv, Traffic
  PROVE  NSInv'
<1>1. /\ total < TrafficMax /\ total' = total + 1 /\ counter' = counter + 1
      /\ UNCHANGED <<now, stats, lastSave, snapshot, running, worker, main, file, failed, faults>>
  BY DEF Traffic
<1>2. KernelOK'
  BY <1>1, LimitAssumption DEF NSInv, KernelOK
<1>3. total \in Nat /\ total' \in Nat /\ total <= total'
  BY <1>1 DEF NSInv, KernelOK
<1>4. \A s : Backed(s, total) => Backed(s, total')
  BY <1>3, BackedByMore
<1>5. \A c : SavedBacked(c, total) => SavedBacked(c, total')
  BY <1>4 DEF SavedBacked
<1>6. StatsOK'
  <2>1. UNCHANGED <<tracked, data, lastBytes>>
    BY <1>1 DEF stats
  <2>2. Delta \in Nat /\ Delta' \in Nat /\ Delta' <= Delta + 1
    BY <1>1, <2>1 DEF Delta, NSInv, KernelOK, StatsOK
  <2>3. SumOf(data) \in Nat /\ SumOf(data) + Delta <= total
    BY SumOfFacts DEF NSInv, StatsOK, Backed
  <2>4. SumOf(data') + Delta' <= total'
    BY <1>1, <1>3, <2>1, <2>2, <2>3
  <2> QED
    BY <1>1, <1>3, <1>4, <2>1, <2>4 DEF NSInv, StatsOK
<1>7. SavedOK'
  BY <1>1, <1>5 DEF NSInv, SavedOK
<1>8. ThreadsOK' /\ StopSavesAll'
  BY <1>1 DEF NSInv, ThreadsOK, StopSavesAll, Content, stats
<1> QED
  BY <1>2, <1>6, <1>7, <1>8 DEF NSInv

LEMMA InterfaceRestartsKeeps ==
  ASSUME NSInv, InterfaceRestarts
  PROVE  NSInv'
<1>1. /\ counter' = 0 /\ Fault
      /\ UNCHANGED <<total, now, stats, lastSave, snapshot, running, worker, main, file, failed>>
  BY DEF InterfaceRestarts
<1>2. KernelOK'
  BY <1>1, LimitAssumption DEF NSInv, KernelOK, Fault
<1>3. StatsOK'
  <2>1. UNCHANGED <<tracked, data, lastBytes, total>>
    BY <1>1 DEF stats
  <2>2. Delta' = 0
    BY <1>1, <2>1 DEF Delta, NSInv, StatsOK, KernelOK
  <2>3. SumOf(data') + Delta' <= total'
    <3>1. SumOf(data) \in Nat /\ SumOf(data) <= total /\ total \in Nat
      BY SumOfFacts DEF NSInv, StatsOK, Backed, KernelOK
    <3> QED
      BY <2>1, <2>2, <3>1
  <2> QED
    BY <2>1, <2>3 DEF NSInv, StatsOK
<1>4. SavedOK'
  BY <1>1, SavedKept DEF NSInv, SavedOK
<1>5. ThreadsOK' /\ StopSavesAll'
  BY <1>1 DEF NSInv, ThreadsOK, StopSavesAll, Content, stats
<1> QED
  BY <1>2, <1>3, <1>4, <1>5 DEF NSInv

LEMMA InitNSInv == NSInit => NSInv
<1> SUFFICES ASSUME NSInit PROVE NSInv
  OBVIOUS
<1>1. /\ counter \in {0, 1} /\ total = 0 /\ now \in Times /\ faults = 0
      /\ tracked = FALSE /\ data = <<>> /\ lastBytes = 0
      /\ lastSave = 0 /\ snapshot = <<>> /\ running = FALSE
      /\ worker = "none" /\ main = "down" /\ file = NoFile /\ failed = FALSE
  BY DEF NSInit
<1>2. KernelOK
  BY <1>1, LimitAssumption DEF KernelOK
<1>3. StatsOK
  <2>1. Backed(data, total) /\ SumOf(data) = 0
    BY <1>1, NothingBacked
  <2>2. tracked \in BOOLEAN
    BY <1>1
  <2> QED
    BY <1>1, <2>1, <2>2 DEF StatsOK, Delta
<1>4. SavedOK
  <2>1. lastSave \in Times
    BY <1>1, LimitAssumption DEF Times
  <2>2. failed \in BOOLEAN
    BY <1>1
  <2> QED
    BY <1>1, <2>1, <2>2 DEF SavedOK
<1>5. ThreadsOK /\ StopSavesAll
  BY <1>1 DEF ThreadsOK, StopSavesAll
<1> QED
  BY <1>2, <1>3, <1>4, <1>5 DEF NSInv

LEMMA NextNSInv ==
  ASSUME NSInv, [NSNext]_nsVars
  PROVE  NSInv'
<1>1. CASE Worker
  BY <1>1, TestRunningKeeps, CollectKeeps, WorkerOpensKeeps, WorkerWritesKeeps, SleepKeeps
     DEF Worker
<1>2. CASE Join \/ SaveOpens \/ SaveWrites
  BY <1>2, JoinKeeps, SaveOpensKeeps, SaveWritesKeeps
<1>3. CASE Destroy \/ Crash
  BY <1>3, GoneKeeps DEF Destroy, Crash
<1>4. CASE Start \/ Stop \/ AddInterface \/ RemoveInterface
  BY <1>4, StartKeeps, StopKeeps, InterfaceKeeps
<1>5. CASE Traffic \/ InterfaceRestarts
  BY <1>5, TrafficKeeps, InterfaceRestartsKeeps
<1>6. CASE UNCHANGED nsVars
  <2>1. KernelOK' /\ StatsOK'
    BY <1>6, KernelKept, StatsKept DEF NSInv, nsVars
  <2>2. SavedOK'
    BY <1>6, SavedKept DEF NSInv, SavedOK, nsVars, kernel
  <2>3. ThreadsOK' /\ StopSavesAll'
    BY <1>6 DEF NSInv, ThreadsOK, StopSavesAll, Content, nsVars, stats
  <2> QED
    BY <2>1, <2>2, <2>3 DEF NSInv
<1> QED
  BY <1>1, <1>2, <1>3, <1>4, <1>5, <1>6 DEF NSNext, Main

LEMMA NSInvariance == NSSpec => []NSInv
  BY InitNSInv, NextNSInv, PTL DEF NSSpec

\* Every variable of the statistics has its type; no list of samples, in memory
\* or in the file, is longer than it may be.
THEOREM NSTypeCorrect == NSSpec => []NSTypeOK
<1>1. NSInv => NSTypeOK
  <2> SUFFICES ASSUME NSInv PROVE NSTypeOK
    OBVIOUS
  <2>1. counter \in 0 .. TrafficMax + 1 /\ total \in 0 .. TrafficMax /\ now \in Times
        /\ lastBytes \in 0 .. TrafficMax + 1 /\ faults \in 0 .. FaultMax
    BY LimitAssumption DEF NSInv, KernelOK, StatsOK
  <2>2. data \in Seq(Sample) /\ Len(data) <= MaxSamples
    BY DEF NSInv, StatsOK, Backed
  <2>3. snapshot = <<>> \/ snapshot \in [tracked : BOOLEAN, data : Seq(Sample)]
    BY DEF NSInv, SavedOK, SavedBacked
  <2>4. file \in {NoFile, Broken} \/ file \in [tracked : BOOLEAN, data : Seq(Sample)]
    BY DEF NSInv, SavedOK, SavedBacked
  <2>5. tracked \in BOOLEAN /\ running \in BOOLEAN /\ failed \in BOOLEAN
    BY Zenon DEF NSInv, StatsOK, SavedOK, ThreadsOK
  <2>6. lastSave \in Times
    BY DEF NSInv, SavedOK
  <2> QED
    BY <2>1, <2>2, <2>3, <2>4, <2>5, <2>6 DEF NSInv, ThreadsOK, NSTypeOK
<1> QED
  BY <1>1, NSInvariance, PTL

\* No byte is counted twice, in memory or in the file, for a history of any
\* length and whatever restarts, fails or is loaded again.
THEOREM NoByteCountedTwice == NSSpec => []NeverOvercounts
<1>1. NSInv => NeverOvercounts
  BY DEF NSInv, StatsOK, SavedOK, SavedBacked, Backed, NeverOvercounts
<1> QED
  BY <1>1, NSInvariance, PTL

\* The save of a stop is the last one: no worker writes after it.
THEOREM LastSaveStands == NSSpec => []StopSavesAll
<1>1. NSInv => StopSavesAll
  BY DEF NSInv
<1> QED
  BY <1>1, NSInvariance, PTL

LEMMA CutoffOfPast ==
  ASSUME now \in Times, now >= Keep
  PROVE  Cutoff = now - Keep
<1>1. now - Keep \in 0 .. Wrap - 1 /\ Wrap \in Nat \ {0}
  BY LimitAssumption DEF Times
<1>2. \A a \in Nat, w \in Nat \ {0} : a < w => a % w = a
  OBVIOUS
<1> QED
  BY <1>1, <1>2 DEF Cutoff

\* Ageing keeps a sample that is valid, if the list is not too long.
LEMMA CleanedKeepsValid ==
  ASSUME NEW s \in Seq(Sample), Len(s) <= MaxSamples,
         NEW i \in DOMAIN s, s[i].time >= Cutoff
  PROVE  \E j \in DOMAIN Cleaned(s) : Cleaned(s)[j] = s[i]
<1> DEFINE Valid == {n \in DOMAIN s : s[n].time >= Cutoff}
           m == Min(Valid)
           kept == SubSeq(s, m, Len(s))
<1>1. i \in Valid /\ Valid \in SUBSET Nat /\ Valid \subseteq 1 .. Len(s)
  OBVIOUS
<1>2. m \in 1 .. Len(s) /\ m <= i
  <2> HIDE DEF Valid
  <2>1. Valid # {}
    BY <1>1
  <2>2. m \in Valid /\ \A n \in Valid : m <= n
    BY <1>1, <2>1, OldestValid
  <2> QED
    BY <1>1, <2>2
<1>3. Cleaned(s) = Newest(kept, MaxSamples)
  BY <1>1 DEF Cleaned
<1> HIDE DEF m
<1>4. /\ kept \in Seq(Sample) /\ Len(kept) = Len(s) - m + 1
      /\ \A j \in 1 .. Len(kept) : kept[j] = s[m + j - 1]
  BY <1>2
<1>5. Cleaned(s) = kept
  BY <1>2, <1>3, <1>4, LimitAssumption DEF Newest
<1>6. i - m + 1 \in DOMAIN kept /\ kept[i - m + 1] = s[i]
  <2>1. i - m + 1 \in 1 .. Len(kept) /\ m + (i - m + 1) - 1 = i
    BY <1>2, <1>4
  <2> QED
    BY <1>4, <2>1
<1> QED
  BY <1>5, <1>6

\* With room in the list a sample leaves it only when it is too old.
THEOREM RecentSamplesKept == NSSpec => OnlyOldDropped
<1>1. ASSUME NSInv, [NSNext]_nsVars
      PROVE  now >= Keep => YoungKept
  <2> SUFFICES ASSUME worker = "collect", worker' \in {"open", "sleep"},
                      now >= Keep, Len(data) < MaxSamples,
                      NEW i \in DOMAIN data, data[i].time >= now - Keep
               PROVE  \E j \in DOMAIN data' : data'[j] = data[i]
    BY DEF YoungKept
  <2>1. Collect
    BY <1>1 DEF NSNext, nsVars, Worker, Main, TestRunning, WorkerOpens, WorkerWrites, Sleep,
                Join, SaveOpens, SaveWrites, Destroy, Crash, Gone, Start, Stop, AddInterface,
                RemoveInterface, Traffic, InterfaceRestarts, NSInv, ThreadsOK
  <2>2. PICK s \in {Sampled, data} : data' = s \/ data' = Cleaned(s)
    BY <2>1 DEF Collect
  <2>3. data \in Seq(Sample) /\ Sampled \in Seq(Sample) /\ now \in Times
        /\ Len(Sampled) <= MaxSamples /\ Len(data) <= MaxSamples
    BY <1>1, SampledFacts DEF NSInv, KernelOK, StatsOK, Backed
  <2>4. i \in DOMAIN Sampled /\ Sampled[i] = data[i]
    <3>1. Sampled = Append(data, [time |-> now, bytes |-> Delta])
      BY <2>3, LimitAssumption DEF Sampled, Newest
    <3> QED
      BY <2>3, <3>1
  <2>5. s \in Seq(Sample) /\ Len(s) <= MaxSamples /\ i \in DOMAIN s /\ s[i] = data[i]
    BY <2>3, <2>4
  <2>6. s[i].time >= Cutoff
    BY <2>3, <2>5, CutoffOfPast
  <2>7. \E j \in DOMAIN Cleaned(s) : Cleaned(s)[j] = s[i]
    BY <2>5, <2>6, CleanedKeepsValid
  <2> QED
    BY <2>2, <2>5, <2>7
<1> QED
  BY <1>1, NSInvariance, PTL DEF NSSpec, OnlyOldDropped
=============================================================================
