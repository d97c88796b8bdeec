--------------------------- MODULE StartupProofs ---------------------------
(* Proofs about Startup for every number of clients and every offer. *)
EXTENDS Startup, TLAPS

-----------------------------------------------------------------------------
(* Merging and validation. *)

Raw(c) ==
  /\ DOMAIN c = Setting
  /\ c["token"] \in {Empty, OwnToken}
  /\ c["endpoint"] \in {Empty, "http", "https", "wss", "malformed"}
  /\ c["auto_discovery_key"] \in {Empty, Key}
  /\ c["interval"] \in Nat
  /\ c["ignore_unsafe_cert"] \in BOOLEAN

Valid(c) ==
  /\ Raw(c)
  /\ c["endpoint"] \notin {"wss", "malformed"}
  /\ c["interval"] # 0

LEMMA OverrideRaw ==
  ASSUME NEW c, Raw(c), NEW source \in Source, NEW offer \in Offers
  PROVE  Raw(Override(c, source, offer))
<1> DEFINE d == Override(c, source, offer)
<1>0. /\ DOMAIN d = Setting
      /\ \A x \in Setting : d[x] = IF x \in Heeds(source, offer)
                                   THEN Meaning(source, offer, x) ELSE c[x]
  BY DEF Override
<1>1. /\ Heeds(source, offer) \subseteq Setting
      /\ \A x \in Heeds(source, offer) : offer[x] # Absent
  BY DEF Heeds
<1>2. /\ "token" \in Setting /\ "endpoint" \in Setting
      /\ "auto_discovery_key" \in Setting /\ "interval" \in Setting
      /\ "ignore_unsafe_cert" \in Setting
  BY DEF Setting
<1>3. /\ offer["token"] \in {Absent, Empty, OwnToken}
      /\ offer["endpoint"] \in {Absent, Empty, "http", "https", "wss", "malformed"}
      /\ offer["auto_discovery_key"] \in {Absent, Empty, Key}
      /\ offer["interval"] \in {Absent} \union Nat
  BY DEF Offers
<1> HIDE DEF d
<1>4. d["token"] \in {Empty, OwnToken}
  BY <1>0, <1>1, <1>2, <1>3 DEF Raw, Meaning
<1>5. d["endpoint"] \in {Empty, "http", "https", "wss", "malformed"}
  BY <1>0, <1>1, <1>2, <1>3 DEF Raw, Meaning
<1>6. d["auto_discovery_key"] \in {Empty, Key}
  BY <1>0, <1>1, <1>2, <1>3 DEF Raw, Meaning
<1>7. d["interval"] \in Nat
  BY <1>0, <1>1, <1>2, <1>3 DEF Raw, Meaning
<1>8. d["ignore_unsafe_cert"] \in BOOLEAN
  <2> DEFINE x == "ignore_unsafe_cert"
  <2>1. CASE x \in Heeds(source, offer)
    <3>1. d[x] = (offer[x] \in Truth[source])
      BY <1>0, <1>2, <2>1, Zenon DEF Meaning
    <3>2. CASE offer[x] \in Truth[source]
      <4>1. d[x] = TRUE
        BY <3>1, <3>2, Zenon
      <4>2. QED
        BY <4>1
    <3>3. CASE ~(offer[x] \in Truth[source])
      <4>1. (offer[x] \in Truth[source]) = FALSE
        BY <3>3
      <4>2. QED
        BY <3>1, <4>1, Zenon
    <3>4. QED
      BY <3>2, <3>3, Zenon
  <2>2. CASE x \notin Heeds(source, offer)
    <3>1. d[x] = c[x]
      BY <1>0, <1>2, <2>2, Zenon
    <3>2. QED
      BY <3>1, Zenon DEF Raw
  <2>3. QED
    BY <2>1, <2>2, Zenon
<1>9. QED
  BY <1>0, <1>4, <1>5, <1>6, <1>7, <1>8 DEF Raw, d

LEMMA MergedRaw ==
  ASSUME NEW given \in [Source -> Offers]
  PROVE  Raw(Merged(given))
<1>1. Raw(Default)
  BY DEF Raw, Default, Setting
<1>2. /\ "file" \in Source /\ "uci" \in Source
      /\ "env" \in Source /\ "cli" \in Source
  BY DEF Source
<1>3. Raw(LoadFromFile(Default, given))
  BY <1>1, <1>2, OverrideRaw DEF LoadFromFile
<1>4. Raw(LoadFromUci(LoadFromFile(Default, given), given))
  BY <1>2, <1>3, OverrideRaw DEF LoadFromUci
<1>5. Raw(LoadFromEnv(LoadFromUci(LoadFromFile(Default, given), given), given))
  BY <1>2, <1>4, OverrideRaw DEF LoadFromEnv
<1>6. QED
  BY <1>2, <1>5, OverrideRaw DEF ApplyCommandLine, Merged

LEMMA ValidateValid ==
  ASSUME NEW c, Raw(c)
  PROVE  Valid(Validate(c))
<1> DEFINE d == Validate(c)
<1>1. Default["interval"] = 1
  BY DEF Default, Setting
<1>2. /\ DOMAIN d = Setting
      /\ d["token"] = c["token"]
      /\ d["auto_discovery_key"] = c["auto_discovery_key"]
      /\ d["ignore_unsafe_cert"] = c["ignore_unsafe_cert"]
  BY DEF Raw, Validate, Setting
<1>3. d["endpoint"] = IF c["endpoint"] \in {"http", "https"}
                      THEN c["endpoint"] ELSE Empty
  BY DEF Raw, Validate, Setting
<1>4. d["interval"] = IF c["interval"] > 0 THEN c["interval"] ELSE 1
  BY <1>1 DEF Raw, Validate, Setting
<1> HIDE DEF d
<1>5. d["endpoint"] \in {Empty, "http", "https"} /\ d["endpoint"] \notin {"wss", "malformed"}
  BY <1>3, StartupAssumption
<1>6. QED
  BY <1>2, <1>3, <1>4, <1>5 DEF Raw, Valid, d

-----------------------------------------------------------------------------
(* The inductive invariant: what is known about the token, the answer of the *)
(* panel and the file at each point of main().                              *)

CheckedToken ==
  pc \in {"check", "running"} /\ config["auto_discovery_key"] # Empty =>
    /\ config["token"] \in {Empty} \union 1 .. panel
    /\ Usable(disk) /\ ~unread => disk = config["token"]

Saving ==
  pc \in {"save", "write"} =>
    /\ ~Usable(disk) \/ (unread /\ pc = "save")
    /\ answer \in {Empty} \union 1 .. panel

RunningToken == pc = "running" => config["token"] # Empty

\* Only a start with a key comes to discovery, and only it gets a token there.
Discovering == pc \in {"discover", "save", "write"} =>
                 config["auto_discovery_key"] # Empty

GivenToken ==
  pc \in {"check", "running"} /\ config["auto_discovery_key"] = Empty =>
    config["token"] \in {Empty, OwnToken}

DiskIssued == Usable(disk) => disk \in 1 .. panel

IInv ==
  /\ TypeOK
  /\ CheckedToken
  /\ Saving
  /\ RunningToken
  /\ Discovering
  /\ GivenToken
  /\ DiskIssued

LEMMA InitIInv == Init => IInv
<1> SUFFICES ASSUME Init PROVE IInv
  OBVIOUS
<1> USE StartupAssumption DEF Init
<1>1. Valid(Default)
  BY DEF Default, Setting, Raw, Valid
<1>2. TypeOK
  <2>1. settings \in [Source -> Offers]
    OBVIOUS
  <2>2. /\ DOMAIN config = Setting
        /\ config["token"] \in {Empty, OwnToken} \union Issued
        /\ config["endpoint"] \in {Empty, "http", "https"}
        /\ config["auto_discovery_key"] \in {Empty, Key}
        /\ config["interval"] \in Nat \ {0}
    BY <1>1 DEF Raw, Valid
  <2>3. config["ignore_unsafe_cert"] \in BOOLEAN
    BY <1>1 DEF Raw, Valid
  <2>4. panel \in 0 .. ClientMax
    OBVIOUS
  <2>5. QED
    BY <2>1, <2>2, <2>3, <2>4 DEF TypeOK
<1>3. QED
  BY <1>2 DEF IInv, CheckedToken, Saving, RunningToken, Discovering, GivenToken,
     DiskIssued, Usable

-----------------------------------------------------------------------------
(* Every step preserves the types. *)

\* What a step does to the configuration once it is merged: only its token.
LEMMA TokenType ==
  ASSUME TypeOK, NEW token \in {Empty, OwnToken} \union Issued,
         config' = [config EXCEPT !["token"] = token]
  PROVE  /\ config'["token"] = token
         /\ config'["auto_discovery_key"] = config["auto_discovery_key"]
         /\ DOMAIN config' = Setting
         /\ config'["token"] \in {Empty, OwnToken} \union Issued
         /\ config'["endpoint"] \in {Empty, "http", "https"}
         /\ config'["auto_discovery_key"] \in {Empty, Key}
         /\ config'["interval"] \in Nat \ {0}
         /\ config'["ignore_unsafe_cert"] \in BOOLEAN
<1>1. /\ "token" \in Setting /\ "endpoint" \in Setting
      /\ "auto_discovery_key" \in Setting /\ "interval" \in Setting
      /\ "ignore_unsafe_cert" \in Setting
  BY DEF Setting
<1>2. DOMAIN config = Setting
  BY DEF TypeOK
<1>3. /\ config'["token"] = token
      /\ config'["endpoint"] = config["endpoint"]
      /\ config'["auto_discovery_key"] = config["auto_discovery_key"]
      /\ config'["interval"] = config["interval"]
      /\ config'["ignore_unsafe_cert"] = config["ignore_unsafe_cert"]
      /\ DOMAIN config' = Setting
  BY <1>1, <1>2
<1>4. QED
  BY <1>3 DEF TypeOK

LEMMA ConfigureTypes ==
  ASSUME TypeOK, Configure
  PROVE  Valid(config')
<1>1. Raw(Merged(settings))
  BY MergedRaw DEF TypeOK
<1>2. QED
  BY <1>1, ValidateValid DEF Configure

LEMMA DefaultValid == Valid(Default)
  BY StartupAssumption DEF Default, Setting, Raw, Valid

LEMMA ValidTyped ==
  ASSUME NEW c, Valid(c)
  PROVE  /\ DOMAIN c = Setting
         /\ c["token"] \in {Empty, OwnToken} \union Issued
         /\ c["endpoint"] \in {Empty, "http", "https"}
         /\ c["auto_discovery_key"] \in {Empty, Key}
         /\ c["interval"] \in Nat \ {0}
         /\ c["ignore_unsafe_cert"] \in BOOLEAN
  BY DEF Raw, Valid

-----------------------------------------------------------------------------
LEMMA StepIInv == IInv /\ [Next]_vars => IInv'
<1> SUFFICES ASSUME IInv, [Next]_vars PROVE IInv'
  OBVIOUS
<1> USE StartupAssumption
<1>t. TypeOK
  BY DEF IInv
<1>i. Issued = 1 .. ClientMax /\ panel \in 0 .. ClientMax
  BY <1>t DEF Issued, TypeOK
<1> DEFINE Parts == /\ CheckedToken /\ Saving /\ RunningToken
                   /\ Discovering /\ GivenToken /\ DiskIssued
<1>p. Parts
  BY DEF IInv
<1>q. ASSUME TypeOK', Parts' PROVE IInv'
  BY <1>q DEF IInv
<1>1. CASE Configure
  <2>1. Valid(config')
    BY <1>1, <1>t, ConfigureTypes
  <2>2. TypeOK'
    BY <1>1, <1>t, <2>1, ValidTyped DEF Configure, TypeOK
  <2>3. /\ pc' = "check" => config'["auto_discovery_key"] = Empty
        /\ pc' = "discover" => config'["auto_discovery_key"] # Empty
        /\ pc' \in {"check", "discover"} /\ config'["token"] \in {Empty, OwnToken}
    BY <1>1, <2>1 DEF Configure, Valid, Raw
  <2>4. Parts'
    BY <1>1, <1>p, <2>3 DEF Configure, CheckedToken, Saving, RunningToken, Discovering, GivenToken,
      DiskIssued, Usable
  <2>5. QED
    BY <1>q, <2>2, <2>4
<1>2. CASE Reuse
  <2>1. config' = [config EXCEPT !["token"] = disk] /\ disk \in Issued
    BY <1>2 DEF Reuse, Usable
  <2>2. TypeOK'
    BY <1>2, <1>t, <2>1, TokenType DEF Reuse, TypeOK
  <2>3. /\ config'["token"] = disk
        /\ config'["auto_discovery_key"] = config["auto_discovery_key"]
    BY <1>t, <2>1, TokenType
  <2>4. Parts'
    BY <1>2, <1>p, <2>3 DEF Reuse, CheckedToken, Saving, RunningToken, Discovering, GivenToken,
      DiskIssued, Usable
  <2>5. QED
    BY <1>q, <2>2, <2>4
<1>3. CASE Register
  <2>0. config'["auto_discovery_key"] = config["auto_discovery_key"]
    BY <1>3, <1>t, TokenType DEF Register
  <2>1. /\ config' = [config EXCEPT !["token"] = Empty]
        /\ panel' = panel + 1 /\ panel' \in 1 .. ClientMax
        /\ answer' = panel'
    BY <1>3, <1>i DEF Register
  <2>2. TypeOK'
    BY <1>3, <1>t, <1>i, <2>1, TokenType DEF Register, TypeOK
  <2>3. Parts'
    BY <1>3, <1>p, <1>i, <2>0, <2>1 DEF Register, CheckedToken, Saving,
      RunningToken, Discovering, GivenToken,
      DiskIssued, Usable
  <2>4. QED
    BY <1>q, <2>2, <2>3
<1>4. CASE RegisterBlank
  <2>1. config' = [config EXCEPT !["token"] = Empty]
    BY <1>4 DEF RegisterBlank
  <2>2. TypeOK'
    BY <1>4, <1>t, <2>1, TokenType DEF RegisterBlank, TypeOK
  <2>0. config'["auto_discovery_key"] = config["auto_discovery_key"]
    BY <1>t, <2>1, TokenType
  <2>3. Parts'
    BY <1>4, <1>p, <2>0 DEF RegisterBlank, CheckedToken, Saving, RunningToken, Discovering, GivenToken,
      DiskIssued, Usable
  <2>4. QED
    BY <1>q, <2>2, <2>3
<1>5. CASE RegisterFails
  <2>1. config' = [config EXCEPT !["token"] = Empty]
    BY <1>5 DEF RegisterFails
  <2>2. panel' \in panel .. ClientMax
    BY <1>5, <1>i DEF RegisterFails
  <2>3. TypeOK'
    BY <1>5, <1>t, <1>i, <2>1, <2>2, TokenType DEF RegisterFails, TypeOK
  <2>4. /\ config'["token"] = Empty
        /\ config'["auto_discovery_key"] = config["auto_discovery_key"]
    BY <1>t, <2>1, TokenType
  <2>5. Parts'
    BY <1>5, <1>p, <1>i, <2>2, <2>4 DEF RegisterFails, CheckedToken, Saving,
      RunningToken, Discovering, GivenToken,
      DiskIssued, Usable
  <2>6. QED
    BY <1>q, <2>3, <2>5
<1>6. CASE OpenFile
  <2>1. TypeOK'
    BY <1>6, <1>t DEF OpenFile, TypeOK
  <2>2. Parts'
    BY <1>6, <1>p DEF OpenFile, CheckedToken, Saving, RunningToken, Discovering, GivenToken,
      DiskIssued, Usable
  <2>3. QED
    BY <1>q, <2>1, <2>2
<1>7. CASE OpenFails
  <2>1. /\ config' = [config EXCEPT !["token"] = answer]
        /\ answer \in {Empty, OwnToken} \union Issued
    BY <1>7, <1>t DEF OpenFails, TypeOK
  <2>2. TypeOK'
    BY <1>7, <1>t, <2>1, TokenType DEF OpenFails, TypeOK
  <2>3. /\ config'["token"] = answer
        /\ config'["auto_discovery_key"] = config["auto_discovery_key"]
    BY <1>t, <2>1, TokenType
  <2>4. Parts'
    BY <1>7, <1>p, <2>3 DEF OpenFails, CheckedToken, Saving, RunningToken, Discovering, GivenToken,
      DiskIssued, Usable
  <2>5. QED
    BY <1>q, <2>2, <2>4
<1>8. CASE WriteFile
  <2>1. /\ config' = [config EXCEPT !["token"] = answer]
        /\ answer \in {Empty, OwnToken} \union Issued
    BY <1>8, <1>t DEF WriteFile, TypeOK
  <2>2. TypeOK'
    BY <1>8, <1>t, <2>1, TokenType DEF WriteFile, TypeOK
  <2>3. /\ config'["token"] = answer
        /\ config'["auto_discovery_key"] = config["auto_discovery_key"]
    BY <1>t, <2>1, TokenType
  <2>4. Parts'
    BY <1>8, <1>p, <2>3 DEF WriteFile, CheckedToken, Saving, RunningToken, Discovering, GivenToken,
      DiskIssued, Usable
  <2>5. QED
    BY <1>q, <2>2, <2>4
<1>9. CASE Run
  <2>1. TypeOK'
    BY <1>9, <1>t DEF Run, TypeOK
  <2>2. Parts'
    BY <1>9, <1>p DEF Run, CheckedToken, Saving, RunningToken, Discovering, GivenToken,
      DiskIssued, Usable
  <2>3. QED
    BY <1>q, <2>1, <2>2
<1>10. CASE Leave
  <2>1. Valid(config')
    BY <1>10, DefaultValid DEF Leave
  <2>2. TypeOK'
    BY <1>10, <1>t, <2>1, ValidTyped DEF Leave, TypeOK
  <2>3. Parts'
    BY <1>10, <1>p DEF Leave, CheckedToken, Saving, RunningToken, Discovering, GivenToken,
      DiskIssued, Usable
  <2>4. QED
    BY <1>q, <2>2, <2>3
<1>11. CASE Reboot
  <2>1. TypeOK'
    BY <1>11, <1>t DEF Reboot, TypeOK
  <2>2. Parts'
    BY <1>11, <1>p DEF Reboot, CheckedToken, Saving, RunningToken, Discovering, GivenToken,
      DiskIssued, Usable
  <2>3. QED
    BY <1>q, <2>1, <2>2
<1>12. CASE Reconfigure
  <2>1. TypeOK'
    BY <1>12, <1>t DEF Reconfigure, TypeOK
  <2>2. Parts'
    BY <1>12, <1>p DEF Reconfigure, CheckedToken, Saving, RunningToken, Discovering, GivenToken,
      DiskIssued, Usable
  <2>3. QED
    BY <1>q, <2>1, <2>2
<1>13. CASE UNCHANGED vars
  <2>1. TypeOK'
    BY <1>13, <1>t DEF vars, TypeOK
  <2>2. Parts'
    BY <1>13, <1>p DEF vars, CheckedToken, Saving, RunningToken, Discovering, GivenToken,
      DiskIssued, Usable
  <2>3. QED
    BY <1>q, <2>1, <2>2
<1>14. CASE LoadFails
  <2>1. TypeOK'
    BY <1>14, <1>t DEF LoadFails, TypeOK
  <2>2. Parts'
    BY <1>14, <1>p DEF LoadFails, CheckedToken, Saving, RunningToken, Discovering,
      GivenToken, DiskIssued, Usable
  <2>3. QED
    BY <1>q, <2>1, <2>2
<1>15. QED
  BY <1>1, <1>2, <1>3, <1>4, <1>5, <1>6, <1>7, <1>8, <1>9, <1>10, <1>11,
    <1>12, <1>13, <1>14 DEF Next, GiveUp, Crash

LEMMA Invariance == Spec => []IInv
  BY InitIInv, StepIInv, PTL DEF Spec

-----------------------------------------------------------------------------
(* The properties. *)

\* main() goes on with validated settings only, whatever the sources offer.
THEOREM TypeCorrect == Spec => []TypeOK
<1>1. IInv => TypeOK
  BY DEF IInv
<1>2. QED
  BY <1>1, Invariance, PTL

\* An agent that runs with a token of the panel's uses the saved one if one is
\* saved that it could read, through every sequence of starts, failed reads,
\* crashes and reboots.
THEOREM SameIdentityKept == Spec => []SameIdentity
<1>1. IInv => SameIdentity
  BY StartupAssumption DEF IInv, SameIdentity, CheckedToken, GivenToken
<1>2. QED
  BY <1>1, Invariance, PTL

\* With a key the agent runs with a token the panel issued and never with one
\* it was given, whatever main.c:1037 says: autodiscovery_handle erases it.
THEOREM GivenTokenNeverCounts == Spec => []TokenOfPanel
<1>1. IInv => TokenOfPanel
  BY StartupAssumption DEF IInv, TokenOfPanel, CheckedToken, RunningToken
<1>2. QED
  BY <1>1, Invariance, PTL

\* No crash, and no step of a start that could read it, takes a saved identity
\* away.
THEOREM IdentityNeverLost == Spec => IdentityKept
<1> DEFINE Kept ==
      Usable(disk) =>
        \/ disk' = disk
        \/ disk' = None /\ pc = "off"
        \/ disk' = Torn /\ pc = "save" /\ unread
<1>1. IInv /\ [Next]_vars => [Kept]_vars
  <2> SUFFICES ASSUME IInv, Next PROVE Kept
    BY Zenon
  <2>1. /\ pc \in {"save", "write"} => ~Usable(disk) \/ unread
        /\ pc = "write" => ~Usable(disk)
    BY DEF IInv, Saving
  <2>2. QED
    BY <2>1 DEF Next, Configure, LoadFails, Reuse, Register, RegisterBlank, RegisterFails,
      OpenFile, OpenFails, WriteFile, Run, GiveUp, Crash, Leave, Reboot,
      Reconfigure
<1>2. QED
  BY <1>1, Invariance, PTL DEF Spec, IdentityKept

-----------------------------------------------------------------------------
(* Precedence: the four loaders, one over the other, give the setting of the *)
(* highest-ranking source.                                                   *)

LEMMA MergedValue ==
  ASSUME NEW given, NEW x \in Setting
  PROVE  Merged(given)[x] =
           IF x \in Heeds("cli", given["cli"])
           THEN Meaning("cli", given["cli"], x)
           ELSE IF x \in Heeds("env", given["env"])
           THEN Meaning("env", given["env"], x)
           ELSE IF x \in Heeds("uci", given["uci"])
           THEN Meaning("uci", given["uci"], x)
           ELSE IF x \in Heeds("file", given["file"])
           THEN Meaning("file", given["file"], x)
           ELSE Default[x]
  BY DEF Merged, ApplyCommandLine, LoadFromEnv, LoadFromUci, LoadFromFile,
    Override

LEMMA EffectiveValue ==
  ASSUME NEW x \in Setting
  PROVE  Merged(settings)[x] = Effective(x)
<1> DEFINE givers == {s \in Source : x \in Heeds(s, settings[s])}
           Top(s) == \A t \in givers : Rank[t] <= Rank[s]
           giver  == CHOOSE s \in givers : Top(s)
<1>1. /\ Rank["file"] = 1 /\ Rank["uci"] = 2
      /\ Rank["env"] = 3 /\ Rank["cli"] = 4
  BY DEF Rank
<1>2. \A s \in Source : s \in givers <=> x \in Heeds(s, settings[s])
  OBVIOUS
<1>3. givers \subseteq Source
  OBVIOUS
<1>4. Effective(x) = IF givers = {} THEN Default[x]
                     ELSE Meaning(giver, settings[giver], x)
  BY DEF Effective
<1>5. ASSUME NEW s \in givers, Top(s) PROVE giver = s
  <2>1. giver \in givers /\ Top(giver)
    BY <1>5
  <2> HIDE DEF giver
  <2>2. Rank[giver] <= Rank[s] /\ Rank[s] <= Rank[giver]
    BY <1>5, <2>1
  <2>3. QED
    BY <1>1, <1>3, <2>1, <2>2 DEF Source
<1> HIDE DEF givers, giver
<1>6. CASE "cli" \in givers
  <2>1. giver = "cli"
    BY <1>1, <1>3, <1>5, <1>6 DEF Source
  <2>2. QED
    BY <1>2, <1>4, <1>6, <2>1, MergedValue DEF Source
<1>7. CASE "cli" \notin givers /\ "env" \in givers
  <2>1. giver = "env"
    BY <1>1, <1>3, <1>5, <1>7 DEF Source
  <2>2. QED
    BY <1>2, <1>4, <1>7, <2>1, MergedValue DEF Source
<1>8. CASE "cli" \notin givers /\ "env" \notin givers /\ "uci" \in givers
  <2>1. giver = "uci"
    BY <1>1, <1>3, <1>5, <1>8 DEF Source
  <2>2. QED
    BY <1>2, <1>4, <1>8, <2>1, MergedValue DEF Source
<1>9. CASE givers = {"file"}
  <2>1. giver = "file"
    BY <1>1, <1>3, <1>5, <1>9 DEF Source
  <2>2. QED
    BY <1>2, <1>4, <1>9, <2>1, MergedValue DEF Source
<1>10. CASE givers = {}
  BY <1>2, <1>4, <1>10, MergedValue DEF Source
<1>11. QED
  BY <1>3, <1>6, <1>7, <1>8, <1>9, <1>10 DEF Source

\* A setting after validation, beside the one the sources give.
LEMMA ValidatedValue ==
  ASSUME settings \in [Source -> Offers],
         NEW x \in Setting
  PROVE  LET c == Validate(Merged(settings)) IN
         \/ c[x] = Effective(x)
         \/ x = "endpoint" /\ Effective(x) \in {"wss", "malformed"} /\ c[x] = Empty
         \/ x = "interval" /\ Effective(x) <= 0 /\ c[x] = Default[x]
<1> DEFINE m == Merged(settings)
<1>1. Raw(m)
  BY MergedRaw
<1>2. m[x] = Effective(x)
  BY EffectiveValue
<1> HIDE DEF m
<1>3. CASE x = "endpoint"
  BY <1>1, <1>2, <1>3, StartupAssumption DEF Raw, Validate, Setting, m
<1>4. CASE x = "interval"
  BY <1>1, <1>2, <1>4 DEF Raw, Validate, Setting, m
<1>5. CASE x \notin {"endpoint", "interval"}
  BY <1>1, <1>2, <1>5 DEF Raw, Validate, Setting, m
<1>6. QED
  BY <1>3, <1>4, <1>5

LEMMA StepPrecedence ==
  IInv /\ Discovering /\ Precedence /\ [Next]_vars
    => Discovering' /\ Precedence'
<1> SUFFICES ASSUME IInv, Discovering, Precedence, [Next]_vars
             PROVE  Discovering' /\ Precedence'
  OBVIOUS
<1>1. TypeOK
  BY DEF IInv
<1>2. CASE Configure
  <2>1. config' = Validate(Merged(settings)) /\ settings' = settings
    BY <1>2 DEF Configure
  <2>2. \A x \in Setting :
          \/ config'[x] = Effective(x)
          \/ x = "endpoint" /\ Effective(x) \in {"wss", "malformed"} /\ config'[x] = Empty
          \/ x = "interval" /\ Effective(x) <= 0 /\ config'[x] = Default[x]
    BY <1>1, <2>1, ValidatedValue DEF TypeOK
  <2>3. \A x \in Setting : Effective(x)' = Effective(x)
    BY <2>1 DEF Effective
  <2>4. Precedence'
    BY <2>2, <2>3 DEF Precedence
  <2>5. Discovering'
    BY <1>2 DEF Configure, Discovering
  <2>6. QED
    BY <2>4, <2>5
\* The steps within a start under a key change the token and stay under it.
<1>3. CASE pc \in {"discover", "save", "write"} /\ Next /\ ~LoadFails /\ pc' # "off"
  <2>1. PICK token \in {Empty, OwnToken} \union Issued :
          config' = [config EXCEPT !["token"] = token] \/ config' = config
    BY <1>1, <1>3 DEF TypeOK, Next, Configure, LoadFails, Reuse, Register, RegisterBlank,
      RegisterFails, OpenFile, OpenFails, WriteFile, Run, GiveUp, Crash, Leave,
      Reboot, Reconfigure, Usable
  <2>2. config'["auto_discovery_key"] = config["auto_discovery_key"]
    BY <1>1, <2>1, TokenType
  <2>3. pc' # "discover"
    BY <1>3 DEF Next, Configure, LoadFails, Reuse, Register, RegisterBlank,
      RegisterFails, OpenFile, OpenFails, WriteFile, Run, GiveUp, Crash, Leave,
      Reboot, Reconfigure
  <2>4. QED
    BY <1>3, <2>2, <2>3 DEF Discovering, Precedence
<1>4. CASE LoadFails \/ Run
  <2>1. /\ UNCHANGED <<settings, config>>
        /\ pc' = pc \/ (pc = "check" /\ pc' = "running")
    BY <1>4 DEF LoadFails, Run
  <2>2. \A x \in Setting : Effective(x)' = Effective(x)
    BY <2>1 DEF Effective
  <2>3. QED
    BY <2>1, <2>2 DEF Discovering, Precedence
<1>5. CASE pc' = "off"
  BY <1>5 DEF Discovering, Precedence
<1>6. CASE UNCHANGED vars
  <2>1. \A x \in Setting : Effective(x)' = Effective(x)
    BY <1>6 DEF Effective, vars
  <2>2. QED
    BY <1>6, <2>1 DEF Discovering, Precedence, vars
<1>7. QED
  BY <1>2, <1>3, <1>4, <1>5, <1>6 DEF Next, LoadFails, Reuse, Register, RegisterBlank,
    RegisterFails, OpenFile, OpenFails, WriteFile, GiveUp, Crash, Leave,
    Reboot, Reconfigure

\* The highest-ranking source that gives a setting decides it, for every
\* combination of offers.
THEOREM HighestSourceDecides == Spec => []Precedence
<1>1. Init => Discovering /\ Precedence
  BY DEF Init, Discovering, Precedence
<1>2. QED
  BY <1>1, Invariance, StepPrecedence, PTL DEF Spec
=============================================================================
