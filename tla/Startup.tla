------------------------------ MODULE Startup ------------------------------
(***************************************************************************)
(* One agent over its starts, crashes and restarts: main.c merges the      *)
(* administrator's settings, validates them, obtains a token from the      *)
(* panel when an auto-discovery key is set, and runs or gives up.          *)
(*                                                                         *)
(* A setting stands for a kind of field of agent_config_t: token, endpoint *)
(* and auto_discovery_key for the strings, interval for the numbers and    *)
(* ignore_unsafe_cert for the flags.  A source offers a value for each     *)
(* setting or leaves it Absent; a configuration file that is missing,      *)
(* refused for its mode, or not JSON offers nothing.  An endpoint is its   *)
(* scheme: "wss" is the one of the documentation's examples, "malformed"   *)
(* stands for the rest of what config_validate clears (CR or LF, another   *)
(* scheme, port 0); a port above 65535 is not cleared                      *)
(* (parse_endpoint_port returns -1 for it) and counts as well formed.      *)
(***************************************************************************)
EXTENDS Integers

CONSTANTS
  Absent,      \* what a source that leaves a setting out offers
  Empty,       \* the empty string
  Key,         \* an auto-discovery key
  OwnToken,    \* a token the administrator configures
  None, Torn,  \* the token file: not there, cut short
  Offerings,   \* what the sources may offer at first
  Revisions,   \* bound: what an administrator may change it to
  ClientMax    \* bound: clients the panel registers

Setting == {"token", "endpoint", "auto_discovery_key", "interval",
            "ignore_unsafe_cert"}
Source  == {"file", "uci", "env", "cli"}

\* The tokens the panel issues are numbered in the order it registers clients.
Issued == 1 .. ClientMax

\* What a source may offer for each kind of setting.
Offers ==
  [token : {Absent, Empty, OwnToken},
   endpoint : {Absent, Empty, "http", "https", "wss", "malformed"},
   auto_discovery_key : {Absent, Empty, Key},
   interval : {Absent} \union Nat,
   ignore_unsafe_cert : {Absent, "true", "1", "yes", "false", "maybe"}]

ASSUME StartupAssumption ==
  /\ ClientMax \in Nat
  /\ Offerings \union Revisions \subseteq [Source -> Offers]
  /\ {Empty, OwnToken, None, Torn} \intersect Issued = {}
  /\ None # Torn
  /\ Empty \notin {Absent, Key, OwnToken, None, Torn,
                   "http", "https", "wss", "malformed"}

VARIABLES
  settings,  \* what every source offers
  pc,        \* how far main() has come; "off" when no agent runs
  config,    \* g_config
  unread,    \* this start could not read a whole record that is on disk
  answer,    \* the token in autodiscovery_register's config
  disk,      \* /tmp/komari-auto-discovery.json: the token it holds, None, Torn
  panel      \* external: how many clients the panel has registered

vars == <<settings, pc, config, unread, answer, disk, panel>>

-----------------------------------------------------------------------------
(* Merging the sources. *)

\* config_init
Default ==
  [x \in Setting |-> IF x = "interval" THEN 1
                     ELSE IF x = "ignore_unsafe_cert" THEN FALSE ELSE Empty]

\* The spellings of a flag a source takes for true; any other one is false,
\* but get_env_bool keeps the old value when it knows the spelling for neither.
Truth == [file |-> {"true"}, uci |-> {"true", "1"},
          env  |-> {"true", "1", "yes"}, cli |-> {"true"}]

\* The settings of an offer that a source applies to the configuration.
Heeds(source, offer) ==
  {x \in Setting :
     /\ offer[x] # Absent
     /\ source = "file" /\ x = "interval" => offer[x] > 0
     /\ source = "env" /\ x = "ignore_unsafe_cert" => offer[x] # "maybe"}

Meaning(source, offer, x) ==
  IF x = "ignore_unsafe_cert" THEN offer[x] \in Truth[source] ELSE offer[x]

Override(c, source, offer) ==
  [x \in Setting |->
     IF x \in Heeds(source, offer) THEN Meaning(source, offer, x) ELSE c[x]]

LoadFromFile(c, given)     == Override(c, "file", given["file"])
LoadFromUci(c, given)      == Override(c, "uci", given["uci"])
LoadFromEnv(c, given)      == Override(c, "env", given["env"])
ApplyCommandLine(c, given) == Override(c, "cli", given["cli"])

\* Mutant: UCI is read after the environment.
MergedUciLate(given) ==
  ApplyCommandLine(
    LoadFromUci(LoadFromEnv(LoadFromFile(Default, given), given), given), given)

Merged(given) ==
  ApplyCommandLine(
    LoadFromEnv(LoadFromUci(LoadFromFile(Default, given), given), given), given)

\* Mutant: the interval is not repaired.
ValidateEndpoint(c) ==
  [c EXCEPT !["endpoint"] = IF @ \in {"http", "https"} THEN @ ELSE Empty]

\* config_validate
Validate(c) ==
  [c EXCEPT !["endpoint"] = IF @ \in {"http", "https"} THEN @ ELSE Empty,
            !["interval"] = IF @ > 0 THEN @ ELSE Default["interval"]]

-----------------------------------------------------------------------------
Init ==
  /\ settings \in Offerings
  /\ pc = "off"
  /\ config = Default
  /\ unread = FALSE
  /\ answer = Empty
  /\ disk = None
  /\ panel = 0

Configure ==
  /\ pc = "off"
  /\ config' = Validate(Merged(settings))
  /\ pc' = IF config'["auto_discovery_key"] # Empty THEN "discover" ELSE "check"
  /\ UNCHANGED <<settings, unread, answer, disk, panel>>

\* autodiscovery_load_config succeeds and the token it read is not empty.
Usable(file) == file \in Issued

\* autodiscovery_load_config fails on a whole record: no memory for its buffer
\* or for the JSON, or the file cannot be read.
LoadFails ==
  /\ pc = "discover"
  /\ Usable(disk) /\ ~unread
  /\ unread' = TRUE
  /\ UNCHANGED <<settings, pc, config, answer, disk, panel>>

\* Mutant: what was loaded is saved again.
ReuseAndSave ==
  /\ pc = "discover"
  /\ Usable(disk) /\ ~unread
  /\ answer' = disk
  /\ pc' = "save"
  /\ UNCHANGED <<settings, config, unread, disk, panel>>

\* autodiscovery_handle begins by clearing the token it was given.
Reuse ==
  /\ pc = "discover"
  /\ Usable(disk) /\ ~unread
  /\ config' = [config EXCEPT !["token"] = disk]
  /\ pc' = "check"
  /\ UNCHANGED <<settings, unread, answer, disk, panel>>

\* Mutant: the token file is not looked at first.
RegisterAnew ==
  /\ pc = "discover"
  /\ config["endpoint"] = "https"
  /\ panel < ClientMax
  /\ panel' = panel + 1
  /\ answer' = panel'
  /\ config' = [config EXCEPT !["token"] = Empty]
  /\ pc' = "save"
  /\ UNCHANGED <<settings, unread, disk>>

\* autodiscovery_register is sent, over https alone; the panel registers a
\* client, and its answer arrives.
Register ==
  /\ pc = "discover"
  /\ ~Usable(disk) \/ unread
  /\ config["endpoint"] = "https"
  /\ panel < ClientMax
  /\ panel' = panel + 1
  /\ answer' = panel'
  /\ config' = [config EXCEPT !["token"] = Empty]
  /\ pc' = "save"
  /\ UNCHANGED <<settings, unread, disk>>

\* An answer with both fields but an empty token is accepted, and saved.
RegisterBlank ==
  /\ pc = "discover"
  /\ ~Usable(disk) \/ unread
  /\ config["endpoint"] = "https"
  /\ answer' = Empty
  /\ config' = [config EXCEPT !["token"] = Empty]
  /\ pc' = "save"
  /\ UNCHANGED <<settings, unread, disk, panel>>

\* The registration fails: before it is sent (endpoint, host name, connection),
\* at the panel, or because the answer to a registration that was done is lost.
RegisterFails ==
  /\ pc = "discover"
  /\ ~Usable(disk) \/ unread
  /\ \/ UNCHANGED panel
     \/ /\ config["endpoint"] = "https"
        /\ panel < ClientMax
        /\ panel' = panel + 1
  /\ config' = [config EXCEPT !["token"] = Empty]
  /\ pc' = "check"
  /\ UNCHANGED <<settings, unread, answer, disk>>

\* utils_write_file_string: open(O_TRUNC) empties the file, or fails.
OpenFile ==
  /\ pc = "save"
  /\ disk' = Torn
  /\ pc' = "write"
  /\ UNCHANGED <<settings, config, unread, answer, panel>>

OpenFails ==
  /\ pc = "save"
  /\ config' = [config EXCEPT !["token"] = answer]
  /\ pc' = "check"
  /\ UNCHANGED <<settings, unread, answer, disk, panel>>

\* The record is written, or cut short (disk full); a failure to save does not
\* stop the agent.
WriteFile ==
  /\ pc = "write"
  /\ disk' \in {answer, Torn}
  /\ config' = [config EXCEPT !["token"] = answer]
  /\ pc' = "check"
  /\ UNCHANGED <<settings, unread, answer, panel>>

Run ==
  /\ pc = "check"
  /\ config["token"] # Empty
  /\ config["endpoint"] # Empty
  /\ pc' = "running"
  /\ UNCHANGED <<settings, config, unread, answer, disk, panel>>

\* The process is gone: it gave up, was stopped, or crashed at any point.
Leave ==
  /\ pc' = "off"
  /\ config' = Default
  /\ unread' = FALSE
  /\ answer' = Empty
  /\ UNCHANGED <<settings, disk, panel>>

GiveUp ==
  /\ pc = "check"
  /\ config["token"] = Empty \/ config["endpoint"] = Empty
  /\ Leave

Crash == pc # "off" /\ Leave

\* /tmp is a file system in memory: the router's restart empties it.
Reboot ==
  /\ pc = "off"
  /\ disk' = None
  /\ UNCHANGED <<settings, pc, config, unread, answer, panel>>

Reconfigure ==
  /\ pc = "off"
  /\ settings' \in Revisions
  /\ UNCHANGED <<pc, config, unread, answer, disk, panel>>

Next ==
  \/ Configure \/ LoadFails \/ Reuse \/ Register \/ RegisterBlank \/ RegisterFails
  \/ OpenFile \/ OpenFails \/ WriteFile \/ Run
  \/ GiveUp \/ Crash \/ Reboot \/ Reconfigure

Spec == Init /\ [][Next]_vars

-----------------------------------------------------------------------------
(* Properties. *)

\* The variables have their types: what main() goes on with is validated.
TypeOK ==
  /\ settings \in [Source -> Offers]
  /\ pc \in {"off", "discover", "save", "write", "check", "running"}
  /\ DOMAIN config = Setting
  /\ config["token"] \in {Empty, OwnToken} \union Issued
  /\ config["endpoint"] \in {Empty, "http", "https"}
  /\ config["auto_discovery_key"] \in {Empty, Key}
  /\ config["interval"] \in Nat \ {0}
  /\ config["ignore_unsafe_cert"] \in BOOLEAN
  /\ unread \in BOOLEAN
  /\ answer \in {Empty} \union Issued
  /\ disk \in {None, Torn, Empty} \union Issued
  /\ panel \in 0 .. ClientMax

\* The order of priority main.c states: command-line > env > UCI > JSON.
Rank == [file |-> 1, uci |-> 2, env |-> 3, cli |-> 4]

Effective(x) ==
  LET givers == {s \in Source : x \in Heeds(s, settings[s])}
      giver  == CHOOSE s \in givers : \A t \in givers : Rank[t] <= Rank[s]
  IN  IF givers = {} THEN Default[x] ELSE Meaning(giver, settings[giver], x)

\* Whatever the sources offer together, each setting the agent starts with is
\* the one of the highest-ranking source that gives it, or the default when
\* validation rejects that one: a lower source is never a fallback.  Every
\* endpoint but an http or https one is rejected, the documented wss too.
Precedence ==
  pc = "discover" \/ (pc # "off" /\ config["auto_discovery_key"] = Empty) =>
    \A x \in Setting :
      \/ config[x] = Effective(x)
      \/ /\ x = "endpoint"
         /\ Effective(x) \in {"wss", "malformed"}
         /\ config[x] = Empty
      \/ /\ x = "interval"
         /\ Effective(x) <= 0
         /\ config[x] = Default[x]

\* An agent that runs with a token of the panel's, and could read its file,
\* uses the token that is saved if one is: its next start, after a stop or a
\* crash, takes up the same client.
SameIdentity ==
  pc = "running" /\ config["token"] \in Issued /\ Usable(disk) /\ ~unread =>
    config["token"] = disk

\* Saving truncates the file in place, yet no crash or failure of a start that
\* could read its identity ever costs it: it is lost only by a reboot, or when
\* a start that could not read it has registered anew and saves.
IdentityKept ==
  [][Usable(disk) =>
       \/ disk' = disk
       \/ disk' = None /\ pc = "off"
       \/ disk' = Torn /\ pc = "save" /\ unread]_vars

\* README.en.md:67, 163 and 193 give a wss:// URL as the endpoint.  config.c
\* clears it, and the agent refuses to start.
DocumentedEndpointServes ==
  pc = "check" => (Effective("endpoint") = "wss" => config["endpoint"] # Empty)

\* main.c:1037 says that auto-discovery takes place when "auto_discovery_key is
\* configured and token is empty", README.en.md:127 that the command line
\* "overrides all of the above".  With a key a given token never counts.
GivenTokenCounts ==
  pc = "running" /\ Effective("token") # Empty =>
    config["token"] = Effective("token")

\* What counts instead.
TokenOfPanel ==
  pc = "running" /\ config["auto_discovery_key"] # Empty =>
    config["token"] \in 1 .. panel
=============================================================================
