------------------------------ MODULE Commands ------------------------------
(***************************************************************************)
(* Commands run by the agent and the pipes their output comes through:     *)
(* utils_exec_capture (src/src/utils/utils.c) as called by the receive     *)
(* thread (exec tasks, motd scripts), by the report thread (lspci,         *)
(* systemd-detect-virt) and by the update checker (opkg, apk), and the     *)
(* shells that terminal_start (src/src/terminal/terminal.c) forks from the *)
(* receive thread meanwhile.                                               *)
(*                                                                         *)
(* A fork gives the child every descriptor the agent has at that moment,   *)
(* so what is modelled of a pipe is the set of processes that hold its     *)
(* ends: a read ends when nobody can write any more, a write fails when    *)
(* nobody can read any more.  A caller has one command at a time; the      *)
(* child process of caller c is named c here.                              *)
(***************************************************************************)
EXTENDS Naturals

CONSTANTS Callers,     \* the threads that capture commands
          Receiver,    \* among them: the receive thread of the main client
          Updater,     \* and the update checker
          Agent,       \* the agent's own process
          Shells,      \* the shells of terminal sessions
          OutputSize,  \* what the caller's buffer takes, without the NUL
          PipeSize,    \* what the pipe takes before a writer blocks
          Longest      \* bound: the longest output of a command

ASSUME CallersAssumption ==
  /\ {Receiver, Updater} \subseteq Callers
  /\ Receiver # Updater
  /\ Agent \notin Callers \cup Shells
  /\ Callers \cap Shells = {}

ASSUME SizeAssumption ==
  /\ OutputSize \in Nat \ {0}
  /\ PipeSize \in Nat \ {0}
  /\ Longest \in Nat

VARIABLES pc,        \* where each caller is
          readEnd,   \* the processes that hold the read end of its pipe
          writeEnd,  \* the processes that hold the write end
          pipe,      \* output written and not read yet
          total,     \* output in the caller's buffer
          child,     \* the state of its command
          size,      \* the output the command has to write
          sent,      \* how much of it is written
          status,    \* how the command ended
          lingers,   \* a background process of the command holds the write end
          shell,     \* the shells that are open
          running,   \* g_update_running
          answer,    \* what became of the last result of an exec task
          notice     \* what the last update check found

pipes == <<readEnd, writeEnd>>
command == <<child, size, sent, status, lingers>>
world == <<shell, running, answer, notice>>
vars == <<pc, pipes, pipe, total, command, world>>

Processes == {Agent} \cup Callers \cup Shells
Least(a, b) == IF a < b THEN a ELSE b

TypeOK ==
  /\ pc \in [Callers -> {"idle", "piped", "forked", "reading", "waiting", "returned", "ended"}]
  /\ readEnd \in [Callers -> SUBSET Processes]
  /\ writeEnd \in [Callers -> SUBSET Processes]
  /\ pipe \in [Callers -> 0 .. PipeSize]
  /\ total \in [Callers -> 0 .. OutputSize]
  /\ child \in [Callers -> {"none", "forked", "running", "zombie"}]
  /\ size \in [Callers -> 0 .. Longest]
  /\ sent \in [Callers -> 0 .. Longest]
  /\ status \in [Callers -> {"none", "ok", "failed"}]
  /\ lingers \in [Callers -> BOOLEAN]
  /\ shell \subseteq Shells
  /\ running \in BOOLEAN
  /\ answer \in {"none", "uploaded", "lost", "oversized"}
  /\ notice \in {"none", "available", "current", "failed"}

Init ==
  /\ pc = [c \in Callers |-> "idle"]
  /\ readEnd = [c \in Callers |-> {}]
  /\ writeEnd = [c \in Callers |-> {}]
  /\ pipe = [c \in Callers |-> 0]
  /\ total = [c \in Callers |-> 0]
  /\ child = [c \in Callers |-> "none"]
  /\ size = [c \in Callers |-> 0]
  /\ sent = [c \in Callers |-> 0]
  /\ status = [c \in Callers |-> "none"]
  /\ lingers = [c \in Callers |-> FALSE]
  /\ shell = {}
  /\ running = TRUE
  /\ answer = "none"
  /\ notice = "none"

-----------------------------------------------------------------------------
\* Descriptors.

\* A process without the ends it holds.
Without(ends, x) == [c \in Callers |-> ends[c] \ {x}]

\* fork: the new process x holds what the agent holds.
Inherit(ends, x) ==
  [c \in Callers |-> IF Agent \in ends[c] THEN ends[c] \cup {x} ELSE ends[c]]

\* Mutant: the child leaves the descriptors it inherited open.
KeptAll(ends, c) == ends

\* What a command keeps when it is executed: its own write end as standard
\* output and error, nothing else of the agent's.
Kept(ends, c) == [d \in Callers |-> IF d = c THEN ends[d] ELSE ends[d] \ {c}]

\* Nobody can write to the pipe of c any more.
AtEnd(c) == writeEnd[c] = {} /\ ~lingers[c]

-----------------------------------------------------------------------------
\* utils_exec_capture in the calling thread.

\* pipe(), from an exec task, a motd script, a basic-info report or an update
\* check.  A pipe that cannot be made returns as a fork that fails does.
Begin(c) ==
  /\ pc[c] = "idle"
  /\ c = Updater => running
  /\ pc' = [pc EXCEPT ![c] = "piped"]
  /\ readEnd' = [readEnd EXCEPT ![c] = {Agent}]
  /\ writeEnd' = [writeEnd EXCEPT ![c] = {Agent}]
  /\ answer' = IF c = Receiver THEN "none" ELSE answer
  /\ notice' = IF c = Updater THEN "none" ELSE notice
  /\ UNCHANGED <<pipe, total, command, shell, running>>

Fork(c) ==
  /\ pc[c] = "piped"
  /\ pc' = [pc EXCEPT ![c] = "forked"]
  /\ child' = [child EXCEPT ![c] = "forked"]
  /\ readEnd' = Inherit(readEnd, c)
  /\ writeEnd' = Inherit(writeEnd, c)
  /\ UNCHANGED <<pipe, total, size, sent, status, lingers, world>>

ForkFails(c) ==
  /\ pc[c] = "piped"
  /\ pc' = [pc EXCEPT ![c] = "idle"]
  /\ readEnd' = [readEnd EXCEPT ![c] = @ \ {Agent}]
  /\ writeEnd' = [writeEnd EXCEPT ![c] = @ \ {Agent}]
  /\ notice' = IF c = Updater THEN "failed" ELSE notice
  /\ UNCHANGED <<pipe, total, command, shell, running, answer>>

CloseWrite(c) ==
  /\ pc[c] = "forked"
  /\ pc' = [pc EXCEPT ![c] = "reading"]
  /\ writeEnd' = [writeEnd EXCEPT ![c] = @ \ {Agent}]
  /\ UNCHANGED <<readEnd, pipe, total, command, world>>

\* Mutant: as much as is there, whatever room the buffer has.
ReadAll(c) ==
  /\ pc[c] = "reading"
  /\ pipe[c] > 0
  /\ pipe' = [pipe EXCEPT ![c] = 0]
  /\ total' = [total EXCEPT ![c] = @ + pipe[c]]
  /\ UNCHANGED <<pc, pipes, command, world>>

\* A read returns any part of what is there; EINTR is retried.
Read(c) ==
  /\ pc[c] = "reading"
  /\ \E n \in 1 .. Least(pipe[c], OutputSize - total[c]) :
       /\ pipe' = [pipe EXCEPT ![c] = @ - n]
       /\ total' = [total EXCEPT ![c] = @ + n]
  /\ UNCHANGED <<pc, pipes, command, world>>

\* Mutant: one read is taken for all of the output.
StopShort(c) ==
  /\ pc[c] = "reading"
  /\ total[c] > 0 \/ AtEnd(c)
  /\ pc' = [pc EXCEPT ![c] = "waiting"]
  /\ readEnd' = [readEnd EXCEPT ![c] = @ \ {Agent}]
  /\ UNCHANGED <<writeEnd, pipe, total, command, world>>

\* Mutant: the parent waits for the command with the read end still open.
WaitsFirst(c) ==
  /\ pc[c] = "reading"
  /\ total[c] = OutputSize \/ (pipe[c] = 0 /\ AtEnd(c))
  /\ pc' = [pc EXCEPT ![c] = "waiting"]
  /\ UNCHANGED <<pipes, pipe, total, command, world>>

\* The buffer is full, or the read has met the end.
StopReading(c) ==
  /\ pc[c] = "reading"
  /\ \/ total[c] = OutputSize
     \/ pipe[c] = 0 /\ AtEnd(c)
  /\ pc' = [pc EXCEPT ![c] = "waiting"]
  /\ readEnd' = [readEnd EXCEPT ![c] = @ \ {Agent}]
  /\ UNCHANGED <<writeEnd, pipe, total, command, world>>

\* waitpid has no timeout.
Reap(c) ==
  /\ pc[c] = "waiting"
  /\ child[c] = "zombie"
  /\ pc' = [pc EXCEPT ![c] = "returned"]
  /\ child' = [child EXCEPT ![c] = "none"]
  /\ UNCHANGED <<pipes, pipe, total, size, sent, status, lingers, world>>

-----------------------------------------------------------------------------
\* What the callers do with the output.

\* The buffers are reused, the pipe is gone.
Forget(c) ==
  /\ pc' = [pc EXCEPT ![c] = "idle"]
  /\ readEnd' = [readEnd EXCEPT ![c] = {}]
  /\ writeEnd' = [writeEnd EXCEPT ![c] = {}]
  /\ pipe' = [pipe EXCEPT ![c] = 0]
  /\ total' = [total EXCEPT ![c] = 0]
  /\ size' = [size EXCEPT ![c] = 0]
  /\ sent' = [sent EXCEPT ![c] = 0]
  /\ status' = [status EXCEPT ![c] = "none"]
  /\ lingers' = [lingers EXCEPT ![c] = FALSE]
  /\ UNCHANGED <<child, shell, running>>

\* The payload buffer has the size of the output buffer, and has to hold the
\* envelope and the escaped form of every byte of output as well.
PayloadFits(n, escaped) == n + escaped + 1 < OutputSize + 1

\* http_post: one attempt, which any of its steps may end.
Posted == {"uploaded", "lost"}

\* The result of an exec task: nobody looks at how its upload ends.
Upload ==
  /\ pc[Receiver] = "returned"
  /\ Forget(Receiver)
  /\ \E escaped \in 0 .. total[Receiver] :
       answer' \in IF PayloadFits(total[Receiver], escaped)
                     THEN Posted ELSE {"oversized"}
  /\ UNCHANGED notice

\* The other outputs go into a report or into the greeting of a terminal.
Use(c) ==
  /\ c # Updater
  /\ pc[c] = "returned"
  /\ Forget(c)
  /\ UNCHANGED <<answer, notice>>

\* The package is looked for in what was captured; opkg must have succeeded,
\* the status of apk is ignored.
Conclude ==
  /\ pc[Updater] = "returned"
  /\ Forget(Updater)
  /\ \E listed \in 0 .. size[Updater], manager \in {"opkg", "apk"} :
       notice' = IF manager = "opkg" /\ status[Updater] # "ok" THEN "failed"
                 ELSE IF listed \in 1 .. total[Updater] THEN "available"
                 ELSE "current"
  /\ UNCHANGED answer

\* update_stop, by the main thread; the worker looks at the flag between its
\* checks and in its sleep.
Stop ==
  /\ running
  /\ running' = FALSE
  /\ UNCHANGED <<pc, pipes, pipe, total, command, shell, answer, notice>>

\* Mutant: the worker is cancelled wherever it is.
UpdaterCancelled ==
  /\ pc[Updater] # "ended"
  /\ ~running
  /\ pc' = [pc EXCEPT ![Updater] = "ended"]
  /\ UNCHANGED <<pipes, pipe, total, command, world>>

UpdaterEnds ==
  /\ pc[Updater] = "idle"
  /\ ~running
  /\ pc' = [pc EXCEPT ![Updater] = "ended"]
  /\ UNCHANGED <<pipes, pipe, total, command, world>>

-----------------------------------------------------------------------------
\* The command.

\* It keeps its write end and is executed.
ChildExecs(c) ==
  /\ child[c] = "forked"
  /\ child' = [child EXCEPT ![c] = "running"]
  /\ readEnd' = Without(readEnd, c)
  /\ writeEnd' = Kept(writeEnd, c)
  /\ \E n \in 0 .. Longest : size' = [size EXCEPT ![c] = n]
  /\ UNCHANGED <<pc, pipe, total, sent, status, lingers, world>>

\* The process is gone, and all it held with it.
Ended(c, how) ==
  /\ child' = [child EXCEPT ![c] = "zombie"]
  /\ status' = [status EXCEPT ![c] = how]
  /\ readEnd' = Without(readEnd, c)
  /\ writeEnd' = Without(writeEnd, c)
  /\ UNCHANGED <<pc, pipe, total, size, sent, world>>

\* dup2 or execvp fails: _exit(127).
ChildFails(c) ==
  /\ child[c] = "forked"
  /\ Ended(c, "failed")
  /\ UNCHANGED lingers

\* A write blocks while the pipe is full and somebody could still read it.
ChildWrites(c) ==
  /\ child[c] = "running"
  /\ sent[c] < size[c]
  /\ readEnd[c] # {}
  /\ pipe[c] < PipeSize
  /\ sent' = [sent EXCEPT ![c] = @ + 1]
  /\ pipe' = [pipe EXCEPT ![c] = @ + 1]
  /\ UNCHANGED <<pc, pipes, total, child, size, status, lingers, world>>

\* EPIPE: nobody can read any more.
ChildBroken(c) ==
  /\ child[c] = "running"
  /\ sent[c] < size[c]
  /\ readEnd[c] = {}
  /\ Ended(c, "failed")
  /\ UNCHANGED lingers

\* It ends, well or not; a process it left behind may hold the write end.
ChildExits(c) ==
  /\ child[c] = "running"
  /\ sent[c] = size[c]
  /\ \E how \in {"ok", "failed"} : Ended(c, how)
  /\ \E left \in BOOLEAN : lingers' = [lingers EXCEPT ![c] = left]

BackgroundExits(c) ==
  /\ lingers[c]
  /\ lingers' = [lingers EXCEPT ![c] = FALSE]
  /\ UNCHANGED <<pc, pipes, pipe, total, child, size, sent, status, world>>

-----------------------------------------------------------------------------
\* Shells: forkpty in terminal_start, on the receive thread.  Its child
\* executes the shell with everything it inherited.

OpenShell(s) ==
  /\ pc[Receiver] = "idle"
  /\ s \notin shell
  /\ shell' = shell \cup {s}
  /\ readEnd' = Inherit(readEnd, s)
  /\ writeEnd' = Inherit(writeEnd, s)
  /\ UNCHANGED <<pc, pipe, total, command, running, answer, notice>>

CloseShell(s) ==
  /\ s \in shell
  /\ shell' = shell \ {s}
  /\ readEnd' = Without(readEnd, s)
  /\ writeEnd' = Without(writeEnd, s)
  /\ UNCHANGED <<pc, pipe, total, command, running, answer, notice>>

-----------------------------------------------------------------------------
Capture(c) ==
  \/ Fork(c) \/ ForkFails(c) \/ CloseWrite(c)
  \/ Read(c) \/ StopReading(c) \/ Reap(c)

Command(c) ==
  \/ ChildExecs(c) \/ ChildFails(c) \/ ChildWrites(c)
  \/ ChildBroken(c) \/ ChildExits(c) \/ BackgroundExits(c)

Next ==
  \/ \E c \in Callers : Begin(c) \/ Capture(c) \/ Use(c) \/ Command(c)
  \/ Upload \/ Conclude \/ Stop \/ UpdaterEnds
  \/ \E s \in Shells : OpenShell(s) \/ CloseShell(s)

Spec == Init /\ [][Next]_vars

\* The callers go on, commands and what they leave behind end.  No fairness
\* for a new command, for a user of a shell or for the stop.
Fairness ==
  /\ \A c \in Callers : WF_vars(Capture(c)) /\ WF_vars(Command(c)) /\ WF_vars(Use(c))
  /\ WF_vars(Conclude) /\ WF_vars(UpdaterEnds)

FairSpec == Spec /\ Fairness

-----------------------------------------------------------------------------
\* A command holds its own write end and no other end of any pipe, whatever
\* other threads were capturing when it was forked (utils_close_inherited_fds).
CommandsIsolated ==
  \A c \in Callers : child[c] = "running" =>
    \A d \in Callers : c \notin readEnd[d] /\ (c \in writeEnd[d] <=> d = c)

\* Between two captures a caller has no end of a pipe in the agent's process
\* and no child to reap, on every path of utils_exec_capture.
NothingLeft ==
  \A c \in Callers : pc[c] \in {"idle", "returned"} =>
    Agent \notin readEnd[c] \cup writeEnd[c] /\ child[c] = "none"

\* No descriptor goes astray, in the agent or in the commands it executes,
\* although forks of several threads copy each other's pipes.
DescriptorsConfined == CommandsIsolated /\ NothingLeft

\* A command that ended well has all its output in the caller's buffer, or as
\* much as the buffer takes: no short read, no early end loses the rest.
OutputComplete ==
  \A c \in Callers : pc[c] = "returned" /\ status[c] = "ok" =>
    total[c] = Least(size[c], OutputSize)

\* A capture comes back once its command has ended, also when the output is
\* longer than buffer and pipe: the caller and the command never wait for each
\* other.  Only a shell that inherited an end of the pipe can keep it.
CaptureReturns ==
  \A c \in Callers :
    pc[c] = "piped" ~> \/ pc[c] \in {"idle", "returned"}
                       \/ shell \cap (readEnd[c] \cup writeEnd[c]) # {}

(* A capture that ends whoever else has been forked meanwhile.  It does not: the
   shell of a terminal (terminal.c:167) keeps the pipe it inherits open. *)
CaptureEnds == \A c \in Callers : pc[c] = "piped" ~> pc[c] \in {"idle", "returned"}
=============================================================================
