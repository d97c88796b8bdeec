# A formal model of the Komari monitoring agent

TLA+ modules, TLC configurations and TLAPS proofs for the agent under
`src/src`, a C program that runs on an OpenWrt router, reports measurements to
a panel, executes the panel's commands and serves remote terminals.
`PROJECT.json` lists the components, the runs, the lines every definition
translates, the hazards and the findings; this file explains them.

## 1. The system

### Threads

| thread | code | what it does |
|---|---|---|
| main | `core/main.c:896-1264` | reads the configuration, registers, creates the client, starts the threads, waits for a signal, shuts down |
| report | `main.c:713-843` | connects and reconnects, writes a report every interval, sends it, clears acknowledgements |
| heartbeat | `main.c:852-882` | a ping every 30 s |
| receiver | `websocket.c:731-868` | reads frames, assembles messages, runs the handlers of panel events; one per connection |
| monitor | `main.c:269-352` | one per terminal session: polls, then takes the session apart |
| terminal reader | `terminal.c:68-92` | one per session: reads the pty, sends to the panel |
| session receiver | as receiver | one per session: writes the panel's input to the pty |
| statistics worker | `netstatic.c:239-271` | samples byte counters, saves them to a file |
| update checker | `update.c:350-372` | asks the package manager for a new version |

### Components, their state and how they interact

* **v2 event state** (`protocol/v2.c`). The list of seen event ids, the list of
  ids to acknowledge and the count of protocol failures, under one mutex. The
  receiver adds ids, the report thread takes a snapshot and clears the list.
* **v2 event handler** (`websocket.c:1037-1176`). Parses an event, drops what
  was seen, dispatches the rest on the receive thread, queues the
  acknowledgement.
* **Report thread** (`main.c`, `report/report.c`). Reads the acknowledgements,
  chooses the protocol, connects, sends, and hangs up when a send fails.
* **WebSocket client** (`network/websocket.c`). Socket, TLS object and context,
  the flags `connected` and `should_stop` under `state_mutex`, a send mutex, the
  receive thread. Called by report, heartbeat, main and the handlers.
* **Message assembly** (`websocket.c:889-1001`). A buffer for fragmented messages
  that survives messages and connections; used on the receive thread only.
* **Terminal sessions** (`main.c:130-555`, `terminal/terminal.c`). A counter of
  sessions, a registry of slots, and per session a struct with three flags, a
  terminal and a WebSocket of its own, shared by four threads.
* **Network statistics** (`monitoring/netstatic.c`). Samples per interface under a
  mutex, and the file they are saved to.
* **Configuration and startup** (`config/config.c`, `main.c:976-1048`). Defaults,
  file, UCI, environment and command line in an order of precedence; validation.
* **Autodiscovery** (`autodiscovery/autodiscovery.c`). Registers at the panel and
  keeps the token in a file across restarts.
* **Commands** (`utils/utils.c:25-151`, `main.c:557-651`, `update/update.c`,
  `utils/motd.c`). Three threads run commands and read their output through pipes,
  while a terminal may fork a shell: exec tasks and greeting scripts on the receive
  thread, the detection of hardware on the report thread, the package manager on the
  update checker.
* **Ping tasks and the DNS resolver** (`main.c:653-696`, `ping/ping.c`,
  `network/dns_resolver.c`). A ping of one of four kinds on the receive thread,
  resolved, retried and uploaded.
* **Monitoring** (`monitoring/monitoring.c`, `gpu.c`, `utils/virtual.c`,
  `report/report.c`). Samples, cached figures and what is found out once; called
  by the report thread only.
* **Logger, utilities, IDN, compression, JSON-RPC, v1 payloads**: conversions and
  I/O. **LuCI pages and packaging**: no logic of the agent.

### What is hard

1. An event must be executed though reports and connections are lost, but not
   twice, and must not be acknowledged before it is executed. The state for that
   is split between two threads and is not persistent.
2. A terminal session is torn down by its monitor, by the establishing thread
   on five error paths and by the shutdown, while its read and receive
   threads still run.
3. Four threads share a connection which any of them may find broken and one
   of them replaces; two flags tell them apart, `should_stop` is used both for
   "stop for good" and for "stop this receive thread".
4. A buffer that outlives the messages and the connections it was filled from.
5. A history that is kept through counter restarts, clocks that jump, failing
   writes and crashes.
6. A configuration merged from four sources with different notions of "not set",
   and an identity at the panel that must outlive crashes of the agent.
7. Forks in a process with many threads: a child inherits the pipes that other
   threads are reading through, and a pipe ends only when its last holder lets go.
8. A raw socket to which every packet of the machine comes, resolvers and peers that
   are silent, and a thread that must come back from all of them.
9. Figures that are differences of counters that start again, timed by a clock
   that is set.

### What makes each component correct

| component | properties |
|---|---|
| events | no replay inside the window of remembered ids; only processed events are retired; every event is retired in the end; the report always fits its buffer |
| sessions | the counter equals the sessions held; nothing is freed under a running thread; a monitored session is in the registry once; a session admitted by the limit finds a slot outside one window; a monitor whose start was noted in time is joined; a closed session gives its place back; the shutdown ends |
| client | a running receiver has its socket and TLS object and is alone; a connected flag means somebody reads; main destroys alone; a stop is followed by the end; a lost connection comes back |
| assembly | handlers get the messages RFC 6455 reads in the frames; the terminating NUL fits; the buffer is bounded |
| statistics | nothing counted twice; only what is old is dropped; the last save is the last word; saving goes on |
| startup | the highest source decides each setting; the agent goes on with validated settings; a saved identity is neither lost nor doubled, whenever the agent crashes |
| commands | no descriptor goes astray between concurrent forks; no output is lost; caller and command never wait for each other; every word of a command reaches it |
| ping | no probe gives up early; no retry spoils a result; the thread comes back from every task; the answer is waited for |
| monitoring | no cached figure outlives its time; no figure is made up; the GPU named is one of the machine's, and the best |

## 2. The modules

### V2Events and EventDelivery — `websocket.c:1037-1176`, `v2.c`, `main.c:719-813`

State: `seen`, `acks` (the two lists), `connected`; `recvPc`, `cur`, `dup` (the
handler's position and locals); `repPc`, `snap` (the report cycle); `panelAcked`
(what the panel has read). `processed`, `log` and `oom` are history variables for
the properties: the events dispatched, the latest ids accepted as new, and
whether an allocation failed.

Actions: `Receive` is the parsing and the check against the seen list including
the insertion, which the code does under the lock; `Dispatch` and `Acknowledge`
follow without it. `Snapshot`, `SendReport`/`SendFails`/`SkipReport`, `ClearAcks` are
the cycle of the report thread. `Disconnect` waits for the handler, as
`ws_client_disconnect` joins the receive thread. `ConnectionLost`, `Reconnect` and
`Restart` complete it. An id is a number with the text behind it: that is what
`strtol` and the narrowing to `int` see of it.

`EventDelivery` is what the panel may rely on: a command runs before its
acknowledgement is promised, is promised before the panel hears it, and then is over;
promises may be forgotten, as the panel sends again. `ImplementsDelivery` takes as
promised what is in the list of acknowledgements or in a snapshot, and counts only the
commands whose number no other event's id can be read as.

### TerminalSessions and SessionPool — `main.c:130-555, 1168-1263`, `terminal.c`

State: the counter, the registry, and per session its memory, flags, WebSocket,
terminal and the positions of its threads; the establishing thread (`reqPc`,
`reqS`, `zombie`) and the main thread (`mainPc`, `slot`, `mainS`). `Request` to
`Unregister` are `establish_terminal_connection` with all its error paths,
the late ones (`UnwindFlag` to `UnwindRelease`) in the same single steps as the monitor
thread's `MonitorWakes` to `MarkDone`,
`SignalStop` to `Exit` the shutdown. An access to freed memory sets `ub`, after
which nothing is claimed.

`SessionPool` is what the sessions are to the rest: a session opens, one at a time, while
a place is free, fails or is served, gives its place back once, and the agent exits with
none half made. `ImplementsPool` reads the phase of a session from its memory and the
positions of its threads (`PhaseOf`).

### WsClient and ClientConnection — `websocket.c:1178-1540`, `main.c:713-882, 1168-1263`

State: socket, link, TLS context, endpoint, flags, failure count, and the positions
of the report, receive, heartbeat and main threads; `disc` is the progress of
`ws_client_disconnect`, which two callers share. `ws_extract_header` looks for a colon
behind a header name that is given with its colon (`websocket.c:275, 446`): of a panel
that answers as RFC 6455 has it, no handshake is accepted (`ReplyAccepted`), and there is
never a connection. The panel of the model writes the header in either way (`accept`),
so that what the threads do with a connection is seen too. The failure count has no
limit, as in the code. `Handled` is the return of a handler, which nothing guarantees: it
may be running a command.

`ClientConnection` is the life of a connection: a socket, the announcement that it
may be used, the reader; they come in this order and go in the other one.
`ImplementsConnection` reads them from `open`, `connected` and the receive thread, and main's
`g_running` and `ws_client_destroy` as the end.

### Fragments and MessageStream — `websocket.c:551-672, 731-817, 889-1001`

`MessageStream` says what RFC 6455 makes of a stream of frames: the message under
way and the message handed over, as values. `Fragments` is the code: opcode, length
and a buffer with a capacity, `realloc`, `memcpy` at an offset, and the NUL behind
a text. Its property `ImplementsStream` is the specification of `MessageStream` with
`current` mapped to the filled part of the buffer. The bit `turn` makes two equal
frames two steps.

### Netstatic — `netstatic.c`, `main.c:1113-1118, 1239-1242`

State: the kernel's counter and the traffic that really passed (`total`), the
clock, the samples and the last counter, the worker and its snapshot, the main
thread's calls, the file. Timestamps are unsigned modulo `Wrap`, as in the code:
`Cutoff` and `SaveDue` wrap as `uint64_t` does. Opening the file truncates it;
writing it, failing, and the death of the process are steps of their own. The agent
never calls `netstatic_add_interface` itself: an interface gets in by
the file, or by the library's callers; the model has the calls.

### Startup — `config.c`, `autodiscovery.c:419-687`, `main.c:896-1071`

State: what the four sources offer (`settings`), the position of `main()`, the merged
`config`, the panel's `answer`, the token file (`disk`) and the number of clients
the panel has registered. One setting stands for each kind of field: three
strings, a number, a flag. `Heeds` and `Meaning` are what each source takes for "set"
and how it spells "true": only the environment knows "yes", only the file ignores
a number that is not positive, only the command line cannot say "false".
`Merged` is the order of the loaders, `Validate` the repair. `Reuse`, `Register`,
`RegisterBlank` and `RegisterFails` are the outcomes of `autodiscovery_handle`, an
answer lost on the way included; `OpenFile` and `WriteFile` are the two steps of the
save in place. `Crash` may follow any of them. Two clauses of
the code differ from the comments beside them: a token that is configured is
cleared as soon as there is a key (`autodiscovery.c:651`, against
`main.c:1037`, "auto_discovery_key is configured and token is empty", and against the
command line that overrides all, `README.en.md:127`), and is not
restored when the registration fails: `GivenTokenCounts` is violated, `TokenOfPanel` is what
holds. A complete token file may fail to load, for want of memory or because it
cannot be read (`autodiscovery.c:433-442`, `LoadFails`): that start registers anew and writes
over the saved identity; `SameIdentity` and `IdentityKept` are about the other starts. An
endpoint is its scheme; `wss`, which the documentation gives, is cleared as a malformed one is
(`config.c:567-570`, `DocumentedEndpointServes`). The file
does not say which panel issued the token; there is one panel in the model.

### Commands — `utils.c:25-151`, `main.c:615-651`, `update.c:244-372`, `terminal.c:149-216`

State: for every caller the position in `utils_exec_capture`, the processes that hold
the read end and the write end of its pipe, what is in the pipe and in the buffer,
and its command; the shells that are open; the flag of the update checker and what came
of the last result and the last check. `Begin`, `Fork`, `ForkFails`, `CloseWrite`,
`Read`, `StopReading` and `Reap` are `utils_exec_capture` with its error paths;
`Upload`, `Use` and `Conclude` are what its callers do with the output; `Stop` and
`UpdaterEnds` are the end of the update checker. A fork copies the descriptors of
the agent (`Inherit`); a command closes what it inherited (`Kept`, for
`utils_close_inherited_fds`), a shell does not. The kernel's part, external to the
repository: a write blocks while the pipe is full and somebody can read, fails when nobody
can (`ChildWrites`, `ChildBroken`), a read ends when nobody can write. A process
the command left in the background keeps the write end (`lingers`).

### ExecArgs — `main.c:545-612`

`parse_exec_command_argv`, character by character, as it works in place: `p` reads,
`write` follows, `EndArgument` puts the NUL where the argument ends and `argv` takes
its beginning (`token_start`). One letter stands for all characters without a meaning.
Its names differ from those of `Commands`, so that `CommandsProofs` can extend both.

### Ping — `main.c:653-696`, `ping.c`, `dns_resolver.c`, `report.c:740-797`

State: the task, the position of the receive thread, the address, the time used
(`elapsed`) and the time in the present blocking call (`waited`), the echo replies on
their way, whether an answer is in the socket, and the results of the last probe, of
the task and of the last upload. `Begin` and `Reject` are the validation;
`Resolve` to `Fallback` are `ping_resolve_ip` with the custom server, the system
resolver and `getaddrinfo`; `OpenEcho`, `Echo`, `Stray` and `EchoFails` are the ICMP
probe; `OpenStream` to `ReadPlain` are TCP, HTTP and HTTPS, which share
connect; `Judge` is the retry loop of `ping_task_execute`; `Report` the upload. Time
passes only in blocking calls, and each ends by its timeout (`Tick`,
`Silence`) or by a signal. A signal fails the probe while it connects
(`ping.c:452-455, 615-619`), during the TLS handshake and while it reads the answer
(`Interrupted`); the wait for an echo and the writing of the request are only repeated.
The TLS handshake and the request are loops without a limit of their own (`Handshake`,
`Request`). An echo reply carries the address it comes from but not the attempt it
answers: the identifier is the process id and the number is always 1 (`Replies`).

### Monitoring — `main.c:713-843`, `report.c`, `monitoring.c`, `gpu.c`, `virtual.c`

State: the position of the report thread in its cycle; for each stored time how long
ago it is by the clock (`since`) and how long ago it really is (`age`), and whether
the clock was set back in between; the samples; the figures of the report under way;
the GPU and the kind of virtualization. `Connect` is the basic info sent with a new
connection, `Report` is `report_generate`, `Send` the rest of the cycle with the
basic info when it is due, `Tick` and `Wake` the sleep. Any of the files may be
unreadable at any time; `SetClock` sets the clock. The times are kept as
differences because the code uses nothing else of them. The counters behind a figure
(`Counters`, `Loads`, `Disks`) are what the kernel may show. Disk, connection and
process figures are cached (`Store`, `Due`, `Read`), with three ways to fail: the disks
count as read, the connections are read again and reported as none, the processes are
read again and the last count, however old, is returned (`monitoring.c:572-573`,
`Blind`). `Served` is what of a report came from a cache; what a
cache serves is the figure that was read, so that the properties of a fresh figure and
the age of the cached one say together what a report holds. Of what `lspci` lists only
the lines that fit into 4095 bytes are whole (`fits`, `Listed`).

## 3. The runs

| run | what it asks | states |
|---|---|---|
| `V2Events_delivery` | replay window, delivery at least once, retirement, through losses, failed allocations, restarts | 86,978 |
| `TerminalSessions_lifecycle` | counter, registry and threads agree; order of release; the sessions are a pool; end of sessions and of the agent | 160,077 |
| `TerminalSessions_dangling` | is a finished session freed safely? (**no**) | |
| `WsClient_threads` | ownership and life of the connection, stop, reconnection | 77,944 |
| `Fragments_stream` | assembly implements the stream; buffer bounds | 68,108 |
| `Netstatic_history` | statistics through restarts, clocks, failures, crashes | 596,135 |
| `Startup_identity` | precedence of the sources; identity through failures, crashes, reboots | 60,773 |
| `Commands_capture` | descriptors, output and end of captures through concurrent forks | 81,636 |
| `ExecArgs_split` | does every word of a command reach it? (**no**) | |
| `Ping_task` | patience, retries and end of a ping task | 243,488 |
| `Ping_plain` | is the answer to an HTTP probe waited for? (**no**) | |
| `Monitoring_report` | age and truth of the figures, choice of the GPU | 889,836 |

### What the three violations show

* `TerminalSessions_dangling`: `sessions_register` remembers a finished session for
  reuse of its slot, goes on to a NULL slot, uses that, and still frees the
  finished session (`main.c:162-189`). Its slot keeps the pointer.
* `ExecArgs_split`: the NUL that ends an argument without quotes overwrites the separator
  the read position stands on, and the test for more characters (`main.c:601`) then
  sees that NUL. `ls -l /tmp` is executed as `ls`; only an argument with quotes,
  behind which the write position lags, is followed by another.
* `Ping_plain`: the socket of an HTTP probe is made non-blocking for the connect
  (`ping.c:580`) and blocking again on the TLS path only (`ping.c:686`). Without TLS
  the one `recv` meets an empty socket (`ping.c:769`) unless the answer has arrived
  within the time of a system call, and the probe fails.

### Properties the code does not have, without a run of their own

Each is stated in its module; adding it to the run named here shows the counterexample.

| property | add it to | what happens |
|---|---|---|
| `StopIsObserved` | `TerminalSessions_lifecycle` with `QuietShutdown = FALSE` | a session established between `sessions_signal_stop` and the end of the main connection never gets the signal; main joins its monitor |
| `RegistryNeverFull` | `TerminalSessions_lifecycle` | between `terminal_release_session` and `cleanup_done` (`main.c:348-349`) the limit admits a session for which there is no slot, against `main.c:496-497` |
| `NoMonitorAfterExit` | `TerminalSessions_lifecycle` with `QuietShutdown = FALSE` | the shutdown takes a session whose `monitor_started` is not set yet (`main.c:514-539`) and does not join its monitor, against `main.c:512-513` |
| `ExitedIsReleased` | `TerminalSessions_lifecycle` | the shell ends, `term->running` stays set (`terminal.c:90`), and the session lasts as long as its connection |
| `CompliantReplyAccepted` | `WsClient_threads` | the reply of a compliant panel has one colon behind `Sec-WebSocket-Accept`, and the handshake fails |
| `AbortOnlyWhenStopping` | `WsClient_threads` | `ws_client_connect` clears `should_stop`, then calls `ws_client_disconnect` when a socket is still open, which sets it again: the first attempt to reconnect after a close by the panel fails |
| `PayloadMatchesEndpoint` | `WsClient_threads` | endpoint and payload version both come from the failure count, at different times: a v2 payload goes to the v1 endpoint |
| `ReportAlwaysFits` | `V2Events_delivery` with `AckMax = 3`, `ReportMax = 2`, `FrameMax = 3` | the report buffer of 8192 bytes (`main.c:716`) does not hold 1024 ids of seven digits, against `main.c:771`; then no report is generated, and only a sent one clears the list |
| `DocumentedEndpointServes` | `Startup_identity` | the `wss://` endpoint of `README.en.md:67, 163, 193` is cleared by the validation, and the agent refuses to start |
| `GivenTokenCounts` | `Startup_identity` | with an auto-discovery key a token is cleared, from whichever source |
| `CaptureEnds` | `Commands_capture` | a shell opened during a capture holds its pipe (`terminal.c:167`), and the capture ends with the terminal only |
| `OnlyOldDroppedEver` | `Netstatic_history` | with a clock below the preserve window the unsigned cutoff wraps and all samples go, against `netstatic.c:109` |
| `TlsBounded` | `Ping_task` | the TLS handshake is a loop of reads with a timeout each, the request repeats a write that timed out: a peer that is slow enough keeps the thread, against `ping.c:688-689` |
| `OwnReply` | `Ping_task` | a reply to an attempt that timed out ends the next one with a latency that is too small |
| `NoCountOnFailure` | `Monitoring_report` | a failing read of `/proc` returns the count of an earlier call, against `monitoring.h:209` |
| `RefreshedInTime` | `Monitoring_report` | after the clock is set back, cached figures are served for as long again (`monitoring.c:53` gives the lifetime) |
| `UsageAtMost100` | `Monitoring_report` | a total that grows less than the busy time, because the waiting time was corrected downwards, gives more than 100 % (`monitoring.c:158` guards the total only) |

Seen while reading, outside the properties: the output buffer of a task and its payload buffer
have the same size, so that the result of a long output is never uploaded
(`report.c:711`). The "timeout" of a join at `main.c:1175-1178` is a plain
`pthread_join`. An event id is narrowed to `int` and cut at its first letter
(`websocket.c:1070`). A TLS context is lost with every reconnection
(`websocket.c:1354`). The first prompt of a shell is dropped when it comes before the session
is active (`main.c:490`). A saved token is reused when the endpoint was changed to
another panel (`autodiscovery.c:655`). `terminal_write` may use a descriptor
that was closed since it was read (`terminal.c:222`).

### Bounds, and why they are enough

* V2Events: three events against a seen list of two and an acknowledgement list
  of one, so that eviction, overflow of the list and a late copy all
  happen; `IntHalf` is the half range of `int` (8 in the runs), a fault budget
  of one covers every single fault at every place, two frames per report cycle.
  `log` is a window of three acceptances, longer than the seen list; the proof
  covers the other sizes.
* TerminalSessions: two slots and three sessions fill the registry, make a session
  wait and reuse a slot. No request is served during the shutdown
  (`QuietShutdown`), as otherwise the shutdown does not end; the code does not prevent it
  (`main.c:1186`), so this is an assumption, a guard of `Request` and `SignalStop`. The
  types, `RegistrySound`, `JoinedBeforeFreed` and `ImplementsPool` are
  proved for both cases, and `StartedIsJoined` says what is left of
  `NoMonitorAfterExit` without it. No symmetry: liveness is checked.
* WsClient: three faults with a fallback threshold of two and three retries:
  the fallback, its end, and the end of the retries are reached. The failure count is
  not bounded by the model; retries and faults keep it small.
* Fragments: payloads of up to three bytes over two values, capacities that
  start at two, a limit of three: doubling, its overshoot to twice the limit and
  every rejection occur.
* Netstatic: four times, a window of two, two samples, two faults. At the
  bound the clock goes back to 0, so that there is always a next time; a clock
  that does so is a clock that is set back, which the code must survive. One
  interface and one direction, the loops treat the others alike.

* Startup: one setting at a time is contested by all four sources, with every offer
  each of them can make (2,093 starting points, with and without a key); the merge
  treats each setting on its own, so no combination of two adds a case. Two
  clients at the panel: one that is lost and one that replaces it. The
  administrator may change to two settings, with and without a key (`Revisions`).
* Commands: two callers with a shell between them, each of which can be forked while
  the others hold pipes. Outputs of up to four bytes against a buffer of two and a pipe
  of one: the output ends before the buffer, exactly with it, behind it, and
  behind what buffer and pipe take together.
* ExecArgs: four characters hold two words, both quotes and a separator within them.
* Ping: a timeout of two ticks, a threshold of one: results within the
  threshold, above it and none. Two retries, two attempts per resolver, two
  addresses to tell a foreign reply by: the fewest for which each loop goes round and
  ends by its limit. Times of a probe above `Longest` count as `Longest`, which is
  more than any time the code compares with; the TLS loops go round without limit.
* Monitoring: one tick is a second. Lifetimes of two seconds, a
  reading at most three from a stored one (`MaxAway`, longer than any lifetime), one
  step of the clock, backwards beyond every lifetime or forwards; two of the
  three caches, the disks and the processes, whose failing reads differ most; the
  connections (0 on failure) are in the proof only. Two machines: several cards with the best
  last, and one whose list is cut in its second line. One disk, with more free space
  than space, as a quota or an overlay shows it.

### Fairness

Weak fairness for the steps of the agent's threads: they are runnable and no step
waits for another forever unless its guard says so. None for the panel, the
network, the shell, the operator, the kernel's counters, and none for the handlers of
messages (`Handled` of `WsClient`): they run commands, `utils_exec_capture` waits for those
without a timeout (`utils.c:104-135`), and `Stops` says in its premise that the receive
thread returns from its handlers again and again. In `V2Events` the panel retransmits
what it has not seen acknowledged, and its retransmissions are not locked to the
report cycle: `Receive` of each event is strongly fair *in the part of the cycle
in which the report thread sleeps*, seconds against the milliseconds of the rest.
Without it an acknowledgement could always fall between snapshot and clear
and be dropped (`main.c:811`); this is the weakness of `v2_clear_acks`, and the
assumption is what the code relies on.
`Commands`: callers go on, commands and what they leave behind end; nobody has to run a
command, close a shell or stop the checker. `Ping`: the thread goes on where it is
not blocked, timeouts expire and the system resolver returns; no packet and no task is
taken for granted. The loops of the TLS handshake and of the request may go round for
ever: `TaskEnds` says in its premise that they are left again and again.
`Monitoring` states safety only.
`Reconnects` of `WsClient` is about a panel whose reply the client accepts, and holds while
the faults to come are two less than the retries: the
report thread ends for good after `max_retries` failed attempts (`main.c:755`). The
connection of a terminal session makes the same handshake; `TerminalSessions` counts it
among the calls that may fail (`SetupFails`).

## 4. What is proved

`V2EventsProofs`, for every set of events and all limits that meet the
assumptions (`EventAssumption`, `BoundAssumption`: limits positive, the history window
longer than the seen list):

* `TypeCorrect`: the types, with both lists inside their capacities.
* `NoReplay`: no id is accepted twice within `SeenMax` acceptances. The property is
  about the history alone and not inductive; the strengthening `Window` says
  that the seen list is the last part of the history and that the history
  is as long as the seen list at least. `WindowTrim` and
  `WindowAppend` show that it survives the eviction on both sides.
* `OnlyProcessedRetired`: only processed events are retired (`RetiredWasProcessed`).
  The strengthening follows an id from place to place: `SeenInv`, what is in the seen
  list is processed or is the event in the handler; `AckInv`, every number in the ACK
  list, a snapshot or a report belongs to an event that is processed.
* `DeliveredAtLeastOnce`: `Spec => ImplementsDelivery`. `DeliveryStep` is a step of the
  abstract specification in terms of the code's lists (`Ran`, `Promised`, `Gone`).
  `Dispatch` runs a command or touches none; `Acknowledge` promises the event in
  the handler, which `SeenInv` says has run, and no other, as its number is nobody
  else's (`GoodUnique`), while a full list forgets one; `Snapshot`, `ClearAcks` and
  `Restart` forget; `SendReport` retires the commands of the snapshot, all promised.
* `PanelToldTheTruth`: what `EventDelivery` keeps (`ToldIsDone`), by the refinement.

`TerminalSessionsProofs`, for any finite set of sessions and any number of slots.
The invariant `IInv` adds three parts to the types. `Locals`: the locals of the
establishing and the main thread name a session where they are used. `Stages`: at
each position of the establishing or the monitor thread, what exists of the
session; this is what makes the joins before the frees visible. `Registry`: a
session has one slot at most, `cleanup_done` is set exactly when the monitor
ends, and only main takes a monitored session out. From it:

* `TypeCorrect`, `ReleaseOrder` (`JoinedBeforeFreed`), and `ReachableByStop`
  (`MonitorRegistered`), that main finds the sessions it has to stop.
* `RegistryAgrees` (`RegistrySound`): counter, registry, monitor threads and slots
  agree, requests during the shutdown included; it puts these two and
  `TakenOnlyInWindow` together:
* `CounterCorrect`: the counter is the cardinality of the set of held sessions; an
  action adds one, removes one (`OneMore`, `OneLess`) or leaves the set
  alone (`SameHeld`).
* `FullRegistryExplained` (`FullOnlyInWindow`): `sessions_register` turns a session down
  only while some monitor is between the release of its place and `cleanup_done`.
  By `TakenOnlyInWindow`: were every slot taken by a session that still counts,
  the registry would be an injection into a set with fewer elements.
* `StartedMonitorsEnd` (`StartedIsJoined`), with requests at any moment: a session whose
  `monitor_started` was set before main began to take the slots has no monitor
  when main exits. `ToBeJoined` follows it through the slots main has yet to visit; no
  request overwrites its slot (`OthersKeepSlots`), as it is not `cleanup_done`.
* `PoolOfSessions`: `Spec => ImplementsPool`, for any number of sessions and places.
  `PhaseSteps` gives for each action whether it moves one session to its next phase
  (`Moves`) or none (`Still`); `MoveInPool` and `StillInPool` make pool steps of these.
  `RequestOpens` is the step with the limit in it: the code tests its counter, the pool
  the number of sessions that hold a place, and by `CounterCorrect` they are equal.
  `ExitCloses` needs `Sweep`: when main leaves after a quiet shutdown, nothing is served.
* `SessionsWithinLimit`: what the pool keeps (`PlacesKept`) is proved of the pool, by
  counting its places, and holds of the threads because they implement it.

`WsClientProofs`, for every threshold, retry limit and number of faults:
`TypeCorrect`, `ConnectionOwned` (`ReceiverHasConnection`), `ConnectedServed`
(`ConnectedIsServed`, that while the agent runs a connection flagged as connected is read),
`TakenApartAlone` (`DestroyedAlone`), and `ConnectionsInOrder`: `Spec => ImplementsConnection`. `IInv` adds who waits for a disconnect under way
(`DisconnectOwner`), what an attempt to connect has at each position
(`Construction`: without an open socket there is no receive thread to join), the
flags (`StopFlags`: beside a live connection `should_stop` can only be
main's, as the disconnect clears `connected` in the same critical section), and when
`connected` may be up at all (`Announcement`). For the refinement, `ReportConnects`,
`ReceiverLeaves`, `DisconnectCloses` and `MainDestroys` map the steps of each thread; that a
reader which ends takes the flag down or the agent is stopping is `StopFlags`. By the
refinement `ConnectionKept` follows from what is proved of `ClientConnection` (`InOrder`).
`CompliantPanelRefused` proves of a panel that answers as RFC 6455 has it that the agent
never has a connection, for any number of retries.

`FragmentsProofs`, for all bytes and sizes with `MsgMax <= FragMax` and
`CapMin <= FragMax`: `TypeCorrect`, `RoomForTerminator`, `BoundedBuffer`, both
together `BufferOfRightSize` (`BufferSound`), and
`Refinement`: `Spec => ImplementsStream`. `Appended` says what `realloc` and `memcpy` make
of a prefix; the invariant says that the bytes below `fragLen` are the panel's and that
there is room for one more; `NextRefines` maps each action to one of the stream.
`MessageAssumption` says that `NoMessage` is not a message.

`StartupProofs`, for all offers and any number of clients: `TypeCorrect`;
`HighestSourceDecides` (`Precedence`), by `MergedValue`, the four loaders as one choice,
and `EffectiveValue`, that this is the choice of the highest rank;
`SameIdentityKept`, `IdentityNeverLost` and `GivenTokenNeverCounts` (`TokenOfPanel`, that with
a key an agent runs with a token of the panel's, whatever token was given). The first two
are about starts that could read their token file, as the properties say. `IInv` says that the file is not usable while
it is being written, that it holds a token the panel issued, and that a
token past the registration is the panel's and the file's.

`CommandsProofs`, for any set of callers and shells and any sizes of buffer, pipe and
output: `TypeCorrect`, `NoDescriptorAstray` (`DescriptorsConfined`),
`NoOutputLost` (`OutputComplete`). The invariant names the holders of each pipe at each
position of its caller (`Holding`) and ties the positions of a caller to
the states of its command (`Phase`); the output is accounted for as what is in the buffer,
in the pipe and still to be written.

Its second part is about `ExecArgs`, for texts of any length over any characters,
provided that the NUL is no character of a text and white space no quote
(`CharactersDistinct`): `VectorLargeEnough` (`ArgumentsFit`), the bound `max_argv` the code
allocates by; `SplitInPlace` (`WithinBuffer`, `UnreadIntact`), that compacting the text
within itself never runs into what is still to be read; `ArgumentsApart` (`Terminated`,
`ArgumentsFinal`), that the arguments are separate strings. `SplitInv` counts the arguments by
the read position (`Counted`): one takes a character at least, the next a
separator before it. That they are not all the arguments the text has is what
`ExecArgs_split` shows.

`PingProofs`, for any timeout, threshold, limits, addresses and kinds: `TypeCorrect`,
`NoEarlyFailure` (`PatientEnough`: no probe gives up before its timeout unless a call
reports an error or is interrupted where it is not repeated), `ResultOnlyImproves` (`RetryNeverWorsens`). `Timing`
relates the time a probe has used to its present blocking call. `Progress` says that there are retries only while the result is above the
threshold.

`MonitoringProofs` has two parts. The first, for any lifetimes, interval, width, machines and steps of the clock
(`MachineAssumption`: CPU time used and idle does not go down, disk sums fit the
width): `TypeCorrect`, `NoFigureOutlivesItsTime` (`StaleOnlyAfterSetBack`),
`NoBogusFigure` (`FiguresBacked`), `GpuChosenWell` (`GpuNamed`). `Dated` says that a
stored time the clock was not set back behind is at least as far away for the clock as
it is old; each step of time, of the clock and of the caches keeps it. The process count
of a failing read is excepted, as it is in the property. The choice of the GPU
is a CHOOSE: that there is a best card at all is `Smallest`, from the well-foundedness of
inclusion on finite sets.

The second part is about `Netstatic`, for any number of samples, window, interval,
amount of traffic and faults (`LimitAssumption`: the clock may wrap, but not within the
window): `NSTypeCorrect`, `NoByteCountedTwice` (`NeverOvercounts`), `LastSaveStands`
(`StopSavesAll`), and `RecentSamplesKept`, that no step drops a sample inside the window
(`OnlyOldDropped`). The invariant `NSInv` has four parts besides `StopSavesAll`:
`KernelOK` bounds the counter by the traffic; `StatsOK` says that the samples and
what the counter has moved since the last one (`Delta`) are together at most the
traffic, so that no restart of the counter lets a byte in twice; `SavedOK` says the
same of the file and of a snapshot on its way to it; `ThreadsOK` says where worker and
main can be at the same time. The sum is a recursive function, and the library's
induction theorems are out of reach: `SumsExist`, `SumsByStep`, `SumsAreNumbers` and
`SumsShifted` take instead the least length at which they would fail (`Smallest`) and
refute it. `SumOfAppend` and `SumOfSuffix` are what the invariant needs of them.

Only model-checked: the liveness properties (`EventuallyRetired`,
`ShutdownCompletes`, `ClosedIsReleased`, `Stops`, `Reconnects`, `SavesGoOn`,
`CaptureReturns`, `TaskEnds`), which need fairness and with it ENABLED. Every safety
invariant, action property and refinement a passing run checks has a theorem.

## 5. Not modelled, and why

* Contents of reports, JSON, HTTP headers (but the one the handshake looks for), base64, IDN,
  gzip: conversions of data. The frame's mask and header bytes: the same.
* TLS and the kernel: only success, failure and order of their calls.
* A ping written by the heartbeat thread on a TLS object that a disconnect
  has just freed (`websocket.c:1514-1526`): listed as a hazard. `WsClient` has
  the interleaving (`HeartbeatWrite` may follow `FreeConnection`), no
  property forbids it because no document promises the contrary.
* `config.protocol_version`: never reaches the client.
* The monthly sum over the calendar (`netstatic.c:393-439`): calendar arithmetic.
* Figures that are read and passed on (memory, load, uptime, system, addresses) and
  the parsing of `/proc`, sysfs and `lspci`: text.
* The comparison of versions (`update.c`): a pure function the update checker does not use; the
  package manager compares.
* DNS packets are accepted or rejected; names and their compression are not built.
* IDN, compression, JSON-RPC and the v1 payloads: conversions without state.
* Logging: an append under a lock, whose text no property is about.
* LuCI pages, init script, packaging: no logic of the agent.

## 6. Plan

Done: `V2Events` with `EventDelivery`, `TerminalSessions` with `SessionPool`, `WsClient`
with `ClientConnection`, `Fragments` with `MessageStream`, `Netstatic`, `Startup`,
`Commands`, `Ping` and `Monitoring`, each with its runs and proofs; `ExecArgs` with its
run.

What would add most from here:

1. A composition of `V2Events` with `Commands`: an exec task keeps the receive thread, and
   with it pings, events and terminal input, for as long as its command runs.
2. The choice of the configuration file.
