--------------------------- MODULE CommandsProofs ---------------------------
(***************************************************************************)
(* Proofs about Commands, for any callers, shells and sizes: types, no     *)
(* descriptor astray, no output lost.  And about ExecArgs, for texts of    *)
(* any length: the arguments fit their vector, the text its buffer.        *)
(*                                                                         *)
(* The descriptors need to know which processes can hold an end at all: a  *)
(* command from its fork to its end, the agent while it captures.  The     *)
(* output needs an account of it: what was written is in the pipe or in    *)
(* the buffer as long as it is read.  Both meet where a read finds the     *)
(* end: nobody holds the write end, so the command is over.                *)
(***************************************************************************)
EXTENDS Commands, ExecArgs, TLAPS

\* What the processes hold of the pipes, by the state of the command of c.
Holding(c) ==
  /\ child[c] \in {"none", "zombie"} =>
       \A d \in Callers : c \notin readEnd[d] /\ c \notin writeEnd[d]
  /\ child[c] = "running" =>
       \A d \in Callers : c \notin readEnd[d] /\ (c \in writeEnd[d] <=> d = c)
  /\ child[c] = "forked" => c \in writeEnd[c]

\* Command and agent, by the place of the caller.
Phase(c) ==
  /\ pc[c] \in {"idle", "piped", "returned", "ended"} => child[c] = "none"
  /\ pc[c] \in {"forked", "reading", "waiting"} => child[c] # "none"
  /\ pc[c] \in {"idle", "waiting", "returned", "ended"} => Agent \notin readEnd[c]
  /\ pc[c] \in {"idle", "reading", "waiting", "returned", "ended"} => Agent \notin writeEnd[c]
  /\ pc[c] = "piped" => Agent \in writeEnd[c]

\* Where the output is.
Account(c) ==
  /\ pc[c] \in {"idle", "piped", "ended"} =>
       pipe[c] = 0 /\ total[c] = 0 /\ sent[c] = 0 /\ status[c] = "none"
  /\ child[c] = "forked" => sent[c] = 0
  /\ child[c] \in {"forked", "running"} => status[c] = "none"
  /\ child[c] = "running" => sent[c] <= size[c]
  /\ status[c] = "ok" => sent[c] = size[c]
  /\ pc[c] \in {"forked", "reading"} => total[c] + pipe[c] = sent[c]
  /\ pc[c] \in {"waiting", "returned"} =>
       /\ total[c] <= sent[c]
       /\ \/ total[c] = OutputSize
          \/ child[c] \notin {"forked", "running"} /\ total[c] = sent[c]

\* The inductive invariant.
IInv ==
  /\ TypeOK
  /\ \A c \in Callers : Holding(c)
  /\ \A c \in Callers : Phase(c)
  /\ \A c \in Callers : Account(c)

-----------------------------------------------------------------------------
(* The steps, one lemma for each action.                                     *)

USE CallersAssumption, SizeAssumption

LEMMA BeginKeeps ==
  ASSUME IInv, NEW c \in Callers, Begin(c)
  PROVE  IInv'
<1> USE DEF IInv, Begin, pipes, command, world
<1>1. TypeOK'
  BY DEF TypeOK, Processes
<1>2. ASSUME NEW d \in Callers PROVE Holding(d)'
  BY DEF Holding, Phase, TypeOK
<1>3. ASSUME NEW d \in Callers PROVE Phase(d)'
  BY DEF Phase, Holding, TypeOK
<1>4. ASSUME NEW d \in Callers PROVE Account(d)'
  BY DEF Account, Phase, Holding, TypeOK
<1> QED
  BY <1>1, <1>2, <1>3, <1>4

LEMMA ForkKeeps ==
  ASSUME IInv, NEW c \in Callers, Fork(c)
  PROVE  IInv'
<1> USE DEF IInv, Fork, Inherit, pipes, command, world
<1>1. TypeOK'
  BY DEF TypeOK, Processes
<1>2. ASSUME NEW d \in Callers PROVE Holding(d)'
  BY DEF Holding, Phase, TypeOK
<1>3. ASSUME NEW d \in Callers PROVE Phase(d)'
  BY DEF Phase, Holding, TypeOK
<1>4. ASSUME NEW d \in Callers PROVE Account(d)'
  BY DEF Account, Phase, Holding, TypeOK
<1> QED
  BY <1>1, <1>2, <1>3, <1>4

LEMMA ForkFailsKeeps ==
  ASSUME IInv, NEW c \in Callers, ForkFails(c)
  PROVE  IInv'
<1> USE DEF IInv, ForkFails, pipes, command, world
<1>1. TypeOK'
  BY DEF TypeOK, Processes
<1>2. ASSUME NEW d \in Callers PROVE Holding(d)'
  BY DEF Holding, Phase, TypeOK
<1>3. ASSUME NEW d \in Callers PROVE Phase(d)'
  BY DEF Phase, Holding, TypeOK
<1>4. ASSUME NEW d \in Callers PROVE Account(d)'
  BY DEF Account, Phase, Holding, TypeOK
<1> QED
  BY <1>1, <1>2, <1>3, <1>4

LEMMA CloseWriteKeeps ==
  ASSUME IInv, NEW c \in Callers, CloseWrite(c)
  PROVE  IInv'
<1> USE DEF IInv, CloseWrite, pipes, command, world
<1>1. TypeOK'
  BY DEF TypeOK, Processes
<1>2. ASSUME NEW d \in Callers PROVE Holding(d)'
  BY DEF Holding, Phase, TypeOK
<1>3. ASSUME NEW d \in Callers PROVE Phase(d)'
  BY DEF Phase, Holding, TypeOK
<1>4. ASSUME NEW d \in Callers PROVE Account(d)'
  BY DEF Account, Phase, Holding, TypeOK
<1> QED
  BY <1>1, <1>2, <1>3, <1>4

LEMMA ReadKeeps ==
  ASSUME IInv, NEW c \in Callers, Read(c)
  PROVE  IInv'
<1> USE DEF IInv, Read, Least, pipes, command, world
<1>1. TypeOK'
  BY DEF TypeOK, Processes
<1>2. ASSUME NEW d \in Callers PROVE Holding(d)'
  BY DEF Holding, Phase, TypeOK
<1>3. ASSUME NEW d \in Callers PROVE Phase(d)'
  BY DEF Phase, Holding, TypeOK
<1>4. ASSUME NEW d \in Callers PROVE Account(d)'
  BY DEF Account, Phase, Holding, TypeOK
<1> QED
  BY <1>1, <1>2, <1>3, <1>4

LEMMA StopReadingKeeps ==
  ASSUME IInv, NEW c \in Callers, StopReading(c)
  PROVE  IInv'
<1> USE DEF IInv, StopReading, AtEnd, pipes, command, world
<1>1. TypeOK'
  BY DEF TypeOK, Processes
<1>2. ASSUME NEW d \in Callers PROVE Holding(d)'
  BY DEF Holding, Phase, TypeOK
<1>3. ASSUME NEW d \in Callers PROVE Phase(d)'
  BY DEF Phase, Holding, TypeOK
<1>4. ASSUME NEW d \in Callers PROVE Account(d)'
  BY DEF Account, Phase, Holding, TypeOK
<1> QED
  BY <1>1, <1>2, <1>3, <1>4

LEMMA ReapKeeps ==
  ASSUME IInv, NEW c \in Callers, Reap(c)
  PROVE  IInv'
<1> USE DEF IInv, Reap, pipes, command, world
<1>1. TypeOK'
  BY DEF TypeOK, Processes
<1>2. ASSUME NEW d \in Callers PROVE Holding(d)'
  BY DEF Holding, Phase, TypeOK
<1>3. ASSUME NEW d \in Callers PROVE Phase(d)'
  BY DEF Phase, Holding, TypeOK
<1>4. ASSUME NEW d \in Callers PROVE Account(d)'
  BY DEF Account, Phase, Holding, TypeOK
<1> QED
  BY <1>1, <1>2, <1>3, <1>4

LEMMA UseKeeps ==
  ASSUME IInv, NEW c \in Callers, Use(c)
  PROVE  IInv'
<1> USE DEF IInv, Use, Forget, pipes, command, world
<1>1. TypeOK'
  BY DEF TypeOK, Processes
<1>2. ASSUME NEW d \in Callers PROVE Holding(d)'
  BY DEF Holding, Phase, TypeOK
<1>3. ASSUME NEW d \in Callers PROVE Phase(d)'
  BY DEF Phase, Holding, TypeOK
<1>4. ASSUME NEW d \in Callers PROVE Account(d)'
  BY DEF Account, Phase, Holding, TypeOK
<1> QED
  BY <1>1, <1>2, <1>3, <1>4

LEMMA ChildExecsKeeps ==
  ASSUME IInv, NEW c \in Callers, ChildExecs(c)
  PROVE  IInv'
<1> USE DEF IInv, ChildExecs, Without, Kept, pipes, command, world
<1>1. TypeOK'
  BY DEF TypeOK, Processes
<1>2. ASSUME NEW d \in Callers PROVE Holding(d)'
  BY DEF Holding, Phase, TypeOK
<1>3. ASSUME NEW d \in Callers PROVE Phase(d)'
  BY DEF Phase, Holding, TypeOK
<1>4. ASSUME NEW d \in Callers PROVE Account(d)'
  BY DEF Account, Phase, Holding, TypeOK
<1> QED
  BY <1>1, <1>2, <1>3, <1>4

LEMMA ChildFailsKeeps ==
  ASSUME IInv, NEW c \in Callers, ChildFails(c)
  PROVE  IInv'
<1> USE DEF IInv, ChildFails, Ended, Without, pipes, command, world
<1>1. TypeOK'
  BY DEF TypeOK, Processes
<1>2. ASSUME NEW d \in Callers PROVE Holding(d)'
  BY DEF Holding, Phase, TypeOK
<1>3. ASSUME NEW d \in Callers PROVE Phase(d)'
  BY DEF Phase, Holding, TypeOK
<1>4. ASSUME NEW d \in Callers PROVE Account(d)'
  BY DEF Account, Phase, Holding, TypeOK
<1> QED
  BY <1>1, <1>2, <1>3, <1>4

LEMMA ChildWritesKeeps ==
  ASSUME IInv, NEW c \in Callers, ChildWrites(c)
  PROVE  IInv'
<1> USE DEF IInv, ChildWrites, pipes, command, world
<1>1. TypeOK'
  BY DEF TypeOK, Processes
<1>2. ASSUME NEW d \in Callers PROVE Holding(d)'
  BY DEF Holding, Phase, TypeOK
<1>3. ASSUME NEW d \in Callers PROVE Phase(d)'
  BY DEF Phase, Holding, TypeOK
<1>4. ASSUME NEW d \in Callers PROVE Account(d)'
  <2>1. CASE d = c
    <3>1. total[c] + pipe[c] = sent[c] \/ pc[c] \notin {"forked", "reading"}
      BY DEF Account
    <3>2. /\ total[c] \in Nat /\ pipe[c] \in Nat /\ sent[c] \in Nat /\ size[c] \in Nat
          /\ pc[c] \notin {"idle", "piped", "returned", "ended"} /\ child[c] = "running"
      BY DEF TypeOK, Phase
    <3>3. status[c] = "none" /\ sent[c] <= size[c]
      BY <3>2 DEF Account
    <3> QED
      BY <2>1, <3>1, <3>2, <3>3 DEF Account, TypeOK
  <2>2. CASE d # c
    BY <2>2 DEF Account, TypeOK
  <2> QED
    BY <2>1, <2>2
<1> QED
  BY <1>1, <1>2, <1>3, <1>4

LEMMA ChildBrokenKeeps ==
  ASSUME IInv, NEW c \in Callers, ChildBroken(c)
  PROVE  IInv'
<1> USE DEF IInv, ChildBroken, Ended, Without, pipes, command, world
<1>1. TypeOK'
  BY DEF TypeOK, Processes
<1>2. ASSUME NEW d \in Callers PROVE Holding(d)'
  BY DEF Holding, Phase, TypeOK
<1>3. ASSUME NEW d \in Callers PROVE Phase(d)'
  BY DEF Phase, Holding, TypeOK
<1>4. ASSUME NEW d \in Callers PROVE Account(d)'
  BY DEF Account, Phase, Holding, TypeOK
<1> QED
  BY <1>1, <1>2, <1>3, <1>4

LEMMA ChildExitsKeeps ==
  ASSUME IInv, NEW c \in Callers, ChildExits(c)
  PROVE  IInv'
<1> USE DEF IInv, ChildExits, Ended, Without, pipes, command, world
<1>1. TypeOK'
  BY DEF TypeOK, Processes
<1>2. ASSUME NEW d \in Callers PROVE Holding(d)'
  BY DEF Holding, Phase, TypeOK
<1>3. ASSUME NEW d \in Callers PROVE Phase(d)'
  BY DEF Phase, Holding, TypeOK
<1>4. ASSUME NEW d \in Callers PROVE Account(d)'
  BY DEF Account, Phase, Holding, TypeOK
<1> QED
  BY <1>1, <1>2, <1>3, <1>4

LEMMA BackgroundExitsKeeps ==
  ASSUME IInv, NEW c \in Callers, BackgroundExits(c)
  PROVE  IInv'
<1> USE DEF IInv, BackgroundExits, pipes, command, world
<1>1. TypeOK'
  BY DEF TypeOK, Processes
<1>2. ASSUME NEW d \in Callers PROVE Holding(d)'
  BY DEF Holding, Phase, TypeOK
<1>3. ASSUME NEW d \in Callers PROVE Phase(d)'
  BY DEF Phase, Holding, TypeOK
<1>4. ASSUME NEW d \in Callers PROVE Account(d)'
  BY DEF Account, Phase, Holding, TypeOK
<1> QED
  BY <1>1, <1>2, <1>3, <1>4

LEMMA UploadKeeps ==
  ASSUME IInv, Upload
  PROVE  IInv'
<1> USE DEF IInv, Upload, Forget, Posted, pipes, command, world
<1>1. TypeOK'
  BY DEF TypeOK, Processes
<1>2. ASSUME NEW d \in Callers PROVE Holding(d)'
  BY DEF Holding, Phase, TypeOK
<1>3. ASSUME NEW d \in Callers PROVE Phase(d)'
  BY DEF Phase, Holding, TypeOK
<1>4. ASSUME NEW d \in Callers PROVE Account(d)'
  BY DEF Account, Phase, Holding, TypeOK
<1> QED
  BY <1>1, <1>2, <1>3, <1>4

LEMMA ConcludeKeeps ==
  ASSUME IInv, Conclude
  PROVE  IInv'
<1> USE DEF IInv, Conclude, Forget, pipes, command, world
<1>1. TypeOK'
  BY DEF TypeOK, Processes
<1>2. ASSUME NEW d \in Callers PROVE Holding(d)'
  BY DEF Holding, Phase, TypeOK
<1>3. ASSUME NEW d \in Callers PROVE Phase(d)'
  BY DEF Phase, Holding, TypeOK
<1>4. ASSUME NEW d \in Callers PROVE Account(d)'
  BY DEF Account, Phase, Holding, TypeOK
<1> QED
  BY <1>1, <1>2, <1>3, <1>4

LEMMA StopKeeps ==
  ASSUME IInv, Stop
  PROVE  IInv'
<1> USE DEF IInv, Stop, pipes, command, world
<1>1. TypeOK'
  BY DEF TypeOK, Processes
<1>2. ASSUME NEW d \in Callers PROVE Holding(d)'
  BY DEF Holding, Phase, TypeOK
<1>3. ASSUME NEW d \in Callers PROVE Phase(d)'
  BY DEF Phase, Holding, TypeOK
<1>4. ASSUME NEW d \in Callers PROVE Account(d)'
  BY DEF Account, Phase, Holding, TypeOK
<1> QED
  BY <1>1, <1>2, <1>3, <1>4

LEMMA UpdaterEndsKeeps ==
  ASSUME IInv, UpdaterEnds
  PROVE  IInv'
<1> USE DEF IInv, UpdaterEnds, pipes, command, world
<1>1. TypeOK'
  BY DEF TypeOK, Processes
<1>2. ASSUME NEW d \in Callers PROVE Holding(d)'
  BY DEF Holding, Phase, TypeOK
<1>3. ASSUME NEW d \in Callers PROVE Phase(d)'
  BY DEF Phase, Holding, TypeOK
<1>4. ASSUME NEW d \in Callers PROVE Account(d)'
  BY DEF Account, Phase, Holding, TypeOK
<1> QED
  BY <1>1, <1>2, <1>3, <1>4

LEMMA OpenShellKeeps ==
  ASSUME IInv, NEW s \in Shells, OpenShell(s)
  PROVE  IInv'
<1> USE DEF IInv, OpenShell, Inherit, pipes, command, world
<1>1. TypeOK'
  BY DEF TypeOK, Processes
<1>2. ASSUME NEW d \in Callers PROVE Holding(d)'
  BY DEF Holding, Phase, TypeOK
<1>3. ASSUME NEW d \in Callers PROVE Phase(d)'
  BY DEF Phase, Holding, TypeOK
<1>4. ASSUME NEW d \in Callers PROVE Account(d)'
  BY DEF Account, Phase, Holding, TypeOK
<1> QED
  BY <1>1, <1>2, <1>3, <1>4

LEMMA CloseShellKeeps ==
  ASSUME IInv, NEW s \in Shells, CloseShell(s)
  PROVE  IInv'
<1> USE DEF IInv, CloseShell, Without, pipes, command, world
<1>1. TypeOK'
  BY DEF TypeOK, Processes
<1>2. ASSUME NEW d \in Callers PROVE Holding(d)'
  BY DEF Holding, Phase, TypeOK
<1>3. ASSUME NEW d \in Callers PROVE Phase(d)'
  BY DEF Phase, Holding, TypeOK
<1>4. ASSUME NEW d \in Callers PROVE Account(d)'
  BY DEF Account, Phase, Holding, TypeOK
<1> QED
  BY <1>1, <1>2, <1>3, <1>4

-----------------------------------------------------------------------------
(* The invariant and what follows from it.                                   *)

LEMMA InitIInv == Init => IInv
  BY DEF Init, IInv, TypeOK, Holding, Phase, Account

LEMMA NextIInv ==
  ASSUME IInv, [Next]_vars
  PROVE  IInv'
<1>1. ASSUME NEW c \in Callers, Begin(c) \/ Capture(c) \/ Use(c) PROVE IInv'
  BY <1>1, BeginKeeps, ForkKeeps, ForkFailsKeeps, CloseWriteKeeps, ReadKeeps,
     StopReadingKeeps, ReapKeeps, UseKeeps DEF Capture
<1>2. ASSUME NEW c \in Callers, Command(c) PROVE IInv'
  BY <1>2, ChildExecsKeeps, ChildFailsKeeps, ChildWritesKeeps, ChildBrokenKeeps,
     ChildExitsKeeps, BackgroundExitsKeeps DEF Command
<1>3. CASE Upload \/ Conclude \/ Stop \/ UpdaterEnds
  BY <1>3, UploadKeeps, ConcludeKeeps, StopKeeps, UpdaterEndsKeeps
<1>4. ASSUME NEW s \in Shells, OpenShell(s) \/ CloseShell(s) PROVE IInv'
  BY <1>4, OpenShellKeeps, CloseShellKeeps
<1>5. CASE UNCHANGED vars
  BY <1>5 DEF vars, pipes, command, world, IInv, TypeOK, Holding, Phase, Account
<1> QED
  BY <1>1, <1>2, <1>3, <1>4, <1>5 DEF Next

LEMMA Invariance == Spec => []IInv
  BY InitIInv, NextIInv, PTL DEF Spec

(* Every variable has its type, the buffer and the pipe their limits. *)
THEOREM TypeCorrect == Spec => []TypeOK
<1>1. IInv => TypeOK
  BY DEF IInv
<1> QED
  BY <1>1, Invariance, PTL

(* No descriptor goes astray: whatever is forked while others capture, the
   agent gives its ends back and commands keep their own write end only. *)
THEOREM NoDescriptorAstray == Spec => []DescriptorsConfined
<1>1. IInv => DescriptorsConfined
  BY DEF IInv, DescriptorsConfined, CommandsIsolated, NothingLeft, Holding, Phase
<1> QED
  BY <1>1, Invariance, PTL

(* A command that ended well has its output in the buffer, up to its size. *)
THEOREM NoOutputLost == Spec => []OutputComplete
<1>1. IInv => OutputComplete
  BY DEF IInv, OutputComplete, Account, TypeOK, Least
<1> QED
  BY <1>1, Invariance, PTL

-----------------------------------------------------------------------------
(* ExecArgs: the splitter of exec commands, for texts of any length over any *)
(* characters.  The arguments are counted by the read position: an argument  *)
(* takes a character at least, another argument a separator before it.       *)

Characters == Letters \cup Quotes \cup {Blank, NUL}

SplitTypes ==
  /\ at \in {"between", "argument", "quoted", "done"}
  /\ text \in Seq(Characters)
  /\ buf \in [1 .. Len(text) + 1 -> Characters]
  /\ p \in Nat /\ start \in Nat /\ write \in Nat
  /\ at = "quoted" => quote \in Quotes
  /\ argv \in Seq(Nat)

\* The positions in the buffer, which ends as the text does.
Positions ==
  /\ WithinBuffer
  /\ at = "quoted" => write < p
  /\ buf[Len(text) + 1] = NUL
  /\ InArgument => \A i \in p .. Len(text) : buf[i] = text[i]

\* The count of arguments.
Counted ==
  /\ InArgument =>
       /\ 2 * Len(argv) < start
       /\ p > start \/ (at = "argument" /\ buf[p] \notin {Blank, NUL})
  /\ ~InArgument =>
       2 * Len(argv) < p \/ (2 * Len(argv) = p /\ buf[p] = NUL)

\* The arguments lie behind the place that is written.
Ordered ==
  /\ \A k \in DOMAIN argv : 1 <= argv[k] /\ argv[k] <= Upto(Len(argv))
  /\ at = "between" => argv = <<>> \/ write < p \/ buf[p] = NUL

SplitInv == SplitTypes /\ Positions /\ UnreadIntact /\ Counted /\ Ordered /\ Terminated

(* Where the arguments begin. *)
LEMMA Beginnings ==
  ASSUME SplitInv
  PROVE  /\ Len(argv) \in Nat /\ DOMAIN argv = 1 .. Len(argv)
         /\ \A k \in DOMAIN argv :
              argv[k] \in Nat /\ 1 <= argv[k] /\ argv[k] <= Upto(Len(argv))
<1>1. /\ Len(argv) \in Nat /\ DOMAIN argv = 1 .. Len(argv)
      /\ \A k \in DOMAIN argv : argv[k] \in Nat
  BY DEF SplitInv, SplitTypes
<1>2. \A k \in DOMAIN argv : 1 <= argv[k] /\ argv[k] <= Upto(Len(argv))
  BY DEF SplitInv, Ordered
<1> QED
  BY <1>1, <1>2

(* What is complete lies behind what is written next. *)
LEMMA CompleteBehind ==
  ASSUME SplitInv
  PROVE  \A k \in DOMAIN argv : Upto(k) \in Nat /\ Upto(k) <= Upto(Len(argv))
<1>1. /\ Len(argv) \in Nat /\ DOMAIN argv = 1 .. Len(argv)
      /\ \A k \in DOMAIN argv : argv[k] \in Nat
  BY Beginnings
<1>2. \A k \in DOMAIN argv : 1 <= argv[k] /\ argv[k] <= Upto(Len(argv))
  BY Beginnings
<1>3. Upto(Len(argv)) \in Nat
  BY <1>1 DEF SplitInv, SplitTypes, Positions, WithinBuffer, Upto
<1> SUFFICES ASSUME NEW k \in DOMAIN argv
             PROVE  Upto(k) \in Nat /\ Upto(k) <= Upto(Len(argv))
  OBVIOUS
<1>4. CASE k < Len(argv)
  <2>1. k + 1 \in DOMAIN argv
    BY <1>1, <1>4
  <2>2. Upto(k) = argv[k + 1] - 1
    BY <1>4 DEF Upto
  <2> QED
    BY <1>1, <1>2, <1>3, <2>1, <2>2
<1>5. CASE k = Len(argv)
  BY <1>3, <1>5
<1> QED
  BY <1>1, <1>4, <1>5

LEMMA SkipBlankKeeps ==
  ASSUME CharactersDistinct, SplitInv, SkipBlank
  PROVE  SplitInv'
<1> USE DEF CharactersDistinct, SplitInv, SplitTypes, Positions, WithinBuffer, InArgument, SkipBlank
<1>1. SplitTypes'
  BY DEF Characters, Counted
<1>2. Positions'
  BY DEF UnreadIntact, Counted, Characters
<1>3. UnreadIntact'
  BY DEF UnreadIntact
<1>4. Counted'
  BY DEF Counted
<1>5. Ordered'
  BY DEF Ordered, Upto
<1>6. Terminated'
  BY DEF Terminated, Upto
<1> QED
  BY <1>1, <1>2, <1>3, <1>4, <1>5, <1>6

LEMMA BeginArgumentKeeps ==
  ASSUME CharactersDistinct, SplitInv, BeginArgument
  PROVE  SplitInv'
<1> USE DEF CharactersDistinct, SplitInv, SplitTypes, Positions, WithinBuffer, InArgument, BeginArgument
<1>1. SplitTypes'
  BY DEF Characters, Counted
<1>2. Positions'
  BY DEF UnreadIntact, Counted, Characters
<1>3. UnreadIntact'
  BY <1>2 DEF UnreadIntact
<1>4. Counted'
  BY DEF Counted
<1>5. Ordered'
  BY DEF Ordered, Upto
<1>6. Terminated'
  <2>1. \A k \in DOMAIN argv : argv = <<>> \/ write < p
    BY DEF Ordered
  <2>2. ASSUME NEW k \in DOMAIN argv PROVE Upto(k) <= Upto(k)' /\ Upto(k) \in Nat /\ Upto(k)' \in Nat
    <3>1. k < Len(argv) \/ (~(k < Len(argv)) /\ write < p)
      BY <2>1
    <3>2. CASE k < Len(argv)
      BY <3>2, CompleteBehind DEF Upto
    <3>3. CASE ~(k < Len(argv)) /\ write < p
      <4>1. Upto(k) = write /\ Upto(k)' = p - 1
        BY <3>3 DEF Upto
      <4> QED
        BY <3>3, <4>1
    <3> QED
      BY <3>1, <3>2, <3>3
  <2>3. \A k \in DOMAIN argv : argv[k] \in Nat
    OBVIOUS
  <2>4. ASSUME NEW k \in DOMAIN argv PROVE \E e \in argv[k] .. Upto(k)' : buf[e] = NUL
    <3>1. PICK e \in argv[k] .. Upto(k) : buf[e] = NUL
      BY DEF Terminated
    <3>2. e \in argv[k] .. Upto(k)'
      BY <2>2, <2>3
    <3> QED
      BY <3>1, <3>2
  <2> QED
    BY <2>4 DEF Terminated
<1> QED
  BY <1>1, <1>2, <1>3, <1>4, <1>5, <1>6

LEMMA CopyKeeps ==
  ASSUME CharactersDistinct, SplitInv, Copy
  PROVE  SplitInv'
<1> USE DEF CharactersDistinct, SplitInv, SplitTypes, Positions, WithinBuffer, InArgument, Copy
<1>1. SplitTypes'
  BY DEF Characters, Counted
<1>2. Positions'
  BY DEF UnreadIntact, Counted, Characters
<1>3. UnreadIntact'
  BY DEF UnreadIntact
<1>4. Counted'
  BY DEF Counted
<1>5. Ordered'
  BY DEF Ordered, Upto
<1>6. Terminated'
  <2>1. UNCHANGED argv /\ \A k \in DOMAIN argv : Upto(k)' = Upto(k) /\ Upto(k) \in Nat /\ Upto(k) < write
    <3>1. UNCHANGED <<argv, start>> /\ InArgument /\ InArgument'
      OBVIOUS
    <3>2. \A k \in DOMAIN argv : Upto(k)' = Upto(k)
      BY <3>1 DEF Upto
    <3>3. Upto(Len(argv)) = start - 1
      BY <3>1 DEF Upto
    <3> QED
      BY <3>1, <3>2, <3>3, CompleteBehind
  <2>2. ASSUME NEW i \in 1 .. Len(text) + 1, i < write PROVE buf'[i] = buf[i]
    BY <2>2
  <2>3. ASSUME NEW k \in DOMAIN argv
        PROVE  \E e \in argv'[k] .. Upto(k)' : buf'[e] = NUL
    <3>1. PICK e \in argv[k] .. Upto(k) : buf[e] = NUL
      BY DEF Terminated
    <3>2. e \in 1 .. Len(text) + 1 /\ e < write
      BY <2>1 DEF Ordered
    <3> QED
      BY <2>1, <2>2, <3>1, <3>2
  <2> QED
    BY <2>1, <2>3 DEF Terminated
<1> QED
  BY <1>1, <1>2, <1>3, <1>4, <1>5, <1>6

LEMMA OpenQuoteKeeps ==
  ASSUME CharactersDistinct, SplitInv, OpenQuote
  PROVE  SplitInv'
<1> USE DEF CharactersDistinct, SplitInv, SplitTypes, Positions, WithinBuffer, InArgument, OpenQuote
<1>1. SplitTypes'
  BY DEF Characters, Counted
<1>2. Positions'
  BY DEF UnreadIntact, Counted, Characters
<1>3. UnreadIntact'
  BY DEF UnreadIntact
<1>4. Counted'
  BY DEF Counted
<1>5. Ordered'
  BY DEF Ordered, Upto
<1>6. Terminated'
  BY DEF Terminated, Upto
<1> QED
  BY <1>1, <1>2, <1>3, <1>4, <1>5, <1>6

LEMMA CloseQuoteKeeps ==
  ASSUME CharactersDistinct, SplitInv, CloseQuote
  PROVE  SplitInv'
<1> USE DEF CharactersDistinct, SplitInv, SplitTypes, Positions, WithinBuffer, InArgument, CloseQuote
<1>1. SplitTypes'
  BY DEF Characters, Counted
<1>2. Positions'
  BY DEF UnreadIntact, Counted, Characters
<1>3. UnreadIntact'
  BY DEF UnreadIntact
<1>4. Counted'
  BY DEF Counted
<1>5. Ordered'
  BY DEF Ordered, Upto
<1>6. Terminated'
  BY DEF Terminated, Upto
<1> QED
  BY <1>1, <1>2, <1>3, <1>4, <1>5, <1>6

LEMMA EndArgumentKeeps ==
  ASSUME CharactersDistinct, SplitInv, EndArgument
  PROVE  SplitInv'
<1> USE DEF CharactersDistinct, SplitInv, SplitTypes, Positions, WithinBuffer, InArgument, EndArgument
<1>1. SplitTypes'
  BY DEF Characters, Counted
<1>a. write \in 1 .. Len(text) + 1 /\ p \in 1 .. Len(text) + 1
  OBVIOUS
<1>b. buf'[write] = NUL /\ \A i \in 1 .. Len(text) + 1 : i # write => buf'[i] = buf[i]
  BY <1>a
<1>c. buf'[Len(text) + 1] = NUL
  BY <1>a, <1>b
<1>d. p' \in 1 .. Len(text) + 1 /\ p <= p'
  BY <1>a, <1>c
<1>2. Positions'
  BY <1>a, <1>c, <1>d
<1>3. UnreadIntact'
  BY DEF UnreadIntact
<1>4. Counted'
  BY <1>a, <1>b DEF Counted
<1>5. Ordered'
  BY DEF Ordered, Upto
<1>6. Terminated'
  <2> DEFINE n == Len(argv)
  <2>1. n \in Nat /\ DOMAIN argv = 1 .. n /\ Len(argv') = n + 1 /\ argv'[n + 1] = start /\ DOMAIN argv' = 1 .. n + 1
    OBVIOUS
  <2>2. ASSUME NEW k \in 1 .. n PROVE argv'[k] = argv[k] /\ Upto(k)' = Upto(k) /\ Upto(k) \in Nat /\ Upto(k) < write
    <3>1. argv'[k] = argv[k] /\ (k < n => argv'[k + 1] = argv[k + 1])
      OBVIOUS
    <3>2. Upto(k)' = Upto(k)
      BY <2>1, <3>1 DEF Upto
    <3>3. Upto(k) \in Nat /\ Upto(k) <= Upto(n)
      BY <2>1, CompleteBehind
    <3>4. Upto(n) = start - 1
      BY <2>1 DEF Upto
    <3> QED
      BY <3>1, <3>2, <3>3, <3>4
  <2>3. ASSUME NEW k \in 1 .. n PROVE \E e \in argv'[k] .. Upto(k)' : buf'[e] = NUL
    <3>1. PICK e \in argv[k] .. Upto(k) : buf[e] = NUL
      BY <2>1 DEF Terminated
    <3>2. 1 <= argv[k] /\ argv[k] \in Nat
      BY <2>1, Beginnings
    <3>3. e \in 1 .. Len(text) + 1 /\ e # write
      <4>1. e \in Nat /\ 1 <= e /\ e < write
        BY <1>a, <2>2, <3>2
      <4> QED
        BY <1>a, <4>1
    <3> QED
      BY <1>b, <2>2, <3>1, <3>3
  <2>4. ASSUME NEW k \in 1 .. n + 1 PROVE \E e \in argv'[k] .. Upto(k)' : buf'[e] = NUL
    <3>1. CASE k = n + 1
      <4>1. Upto(k)' = write
        BY <2>1, <3>1 DEF Upto
      <4> QED
        BY <1>a, <1>b, <2>1, <3>1, <4>1
    <3>2. CASE k # n + 1
      <4>1. k \in 1 .. n
        BY <2>1, <3>2
      <4> QED
        BY <2>3, <4>1
    <3> QED
      BY <3>1, <3>2
  <2> QED
    BY <2>1, <2>4 DEF Terminated
<1> QED
  BY <1>1, <1>2, <1>3, <1>4, <1>5, <1>6

LEMMA FinishKeeps ==
  ASSUME CharactersDistinct, SplitInv, Finish
  PROVE  SplitInv'
<1> USE DEF CharactersDistinct, SplitInv, SplitTypes, Positions, WithinBuffer, InArgument, Finish
<1>1. SplitTypes'
  BY DEF Characters, Counted
<1>2. Positions'
  BY DEF UnreadIntact, Counted, Characters
<1>3. UnreadIntact'
  BY DEF UnreadIntact
<1>4. Counted'
  BY DEF Counted
<1>5. Ordered'
  BY DEF Ordered, Upto
<1>6. Terminated'
  BY DEF Terminated, Upto
<1> QED
  BY <1>1, <1>2, <1>3, <1>4, <1>5, <1>6

LEMMA SplitInitInv == SplitInit => SplitInv
<1> SUFFICES ASSUME SplitInit PROVE SplitInv
  OBVIOUS
<1> USE DEF SplitInit
<1>1. text \in Seq(Letters \cup Quotes \cup {Blank})
  BY DEF Texts
<1>2. text \in Seq(Characters) /\ Append(text, NUL) \in Seq(Characters)
  BY <1>1 DEF Characters
<1>3. Len(Append(text, NUL)) = Len(text) + 1
  BY <1>1
<1>4. SplitTypes
  <2>1. buf \in [1 .. Len(text) + 1 -> Characters]
    <3>1. \A s \in Seq(Characters) : s \in [1 .. Len(s) -> Characters]
      OBVIOUS
    <3> QED
      BY <1>2, <1>3, <3>1
  <2>2. argv \in Seq(Nat)
    OBVIOUS
  <2> QED
    BY <1>2, <2>1, <2>2 DEF SplitTypes
<1>5. Positions
  BY <1>1 DEF Positions, WithinBuffer, InArgument
<1>6. UnreadIntact
  BY <1>1 DEF UnreadIntact
<1>7. Counted /\ Ordered /\ Terminated
  BY DEF Counted, Ordered, Terminated, InArgument
<1> QED
  BY <1>4, <1>5, <1>6, <1>7 DEF SplitInv

LEMMA SplitInvariance ==
  ASSUME CharactersDistinct
  PROVE  SplitSpec => []SplitInv
<1>1. SplitInv /\ [SplitNext]_splitVars => SplitInv'
  <2>1. SplitInv /\ UNCHANGED splitVars => SplitInv'
    BY DEF splitVars, SplitInv, SplitTypes, Positions, WithinBuffer, InArgument,
           UnreadIntact, Counted, Ordered, Terminated, Upto
  <2> QED
    BY <2>1, SkipBlankKeeps, BeginArgumentKeeps, CopyKeeps, OpenQuoteKeeps, CloseQuoteKeeps, EndArgumentKeeps, FinishKeeps DEF SplitNext
<1> QED
  BY <1>1, SplitInitInv, PTL DEF SplitSpec

(* The vector has room for the arguments and the NULL behind them, for every
   text: what max_argv in parse_exec_command_argv counts on. *)
THEOREM VectorLargeEnough ==
  ASSUME CharactersDistinct
  PROVE  SplitSpec => []ArgumentsFit
<1>1. SplitInv => ArgumentsFit
  <2> SUFFICES ASSUME SplitInv PROVE ArgumentsFit
    OBVIOUS
  <2>1. Len(text) \in Nat /\ Len(argv) \in Nat /\ p \in Nat /\ p <= Len(text) + 1
    BY DEF SplitInv, SplitTypes, Positions, WithinBuffer
  <2>2. 2 * Len(argv) <= p
    BY <2>1 DEF SplitInv, SplitTypes, Counted, Positions, WithinBuffer
  <2> QED
    BY <2>1, <2>2 DEF ArgumentsFit, Capacity
<1> QED
  BY <1>1, SplitInvariance, PTL

(* The splitter keeps within its buffer and does not overwrite what it has not
   read, except the separator behind an argument. *)
THEOREM SplitInPlace ==
  ASSUME CharactersDistinct
  PROVE  SplitSpec => [](WithinBuffer /\ UnreadIntact)
<1>1. SplitInv => WithinBuffer /\ UnreadIntact
  BY DEF SplitInv, Positions
<1> QED
  BY <1>1, SplitInvariance, PTL

(* The arguments are strings one behind the other, each with its NUL, and none
   changes once it is complete. *)
THEOREM ArgumentsApart ==
  ASSUME CharactersDistinct
  PROVE  SplitSpec => []Terminated /\ ArgumentsFinal
<1>1. SplitInv => Terminated
  BY DEF SplitInv
<1>2. SplitInv /\ [SplitNext]_splitVars => [\A k \in DOMAIN argv :
        argv'[k] = argv[k] /\ \A i \in 1 .. Upto(k) : buf'[i] = buf[i]]_splitVars
  <2> SUFFICES ASSUME SplitInv, SplitNext, NEW k \in DOMAIN argv
               PROVE  argv'[k] = argv[k] /\ \A i \in 1 .. Upto(k) : buf'[i] = buf[i]
    BY DEF splitVars
  <2> USE DEF SplitInv, SplitTypes, Positions, WithinBuffer
  <2>1. CASE SkipBlank \/ BeginArgument \/ OpenQuote \/ CloseQuote \/ Finish
    BY <2>1 DEF SkipBlank, BeginArgument, OpenQuote, CloseQuote, Finish
  <2>2. CASE Copy \/ EndArgument
    <3>1. Upto(k) < write /\ InArgument
      <4>1. InArgument
        BY <2>2 DEF Copy, EndArgument, InArgument
      <4>2. Upto(Len(argv)) = start - 1
        BY <4>1 DEF Upto
      <4>3. Upto(k) \in Nat /\ Upto(k) <= Upto(Len(argv))
        BY CompleteBehind
      <4> QED
        BY <4>1, <4>2, <4>3
    <3>2. argv'[k] = argv[k]
      <4>1. CASE Copy
        BY <4>1 DEF Copy
      <4>2. CASE EndArgument
        BY <4>2 DEF EndArgument
      <4> QED
        BY <2>2, <4>1, <4>2
    <3>3. ASSUME NEW i \in 1 .. Upto(k) PROVE buf'[i] = buf[i]
      <4>1. i < write /\ i \in Nat
        BY <3>1 DEF Upto
      <4> QED
        BY <2>2, <4>1 DEF Copy, EndArgument
    <3> QED
      BY <3>2, <3>3
  <2> QED
    BY <2>1, <2>2 DEF SplitNext
<1> QED
  BY <1>1, <1>2, SplitInvariance, PTL DEF SplitSpec, ArgumentsFinal
=============================================================================
