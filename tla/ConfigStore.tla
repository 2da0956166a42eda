----------------------------- MODULE ConfigStore -----------------------------
(***************************************************************************)
(* The configuration file: Load and Save of internal/config, and the       *)
(* commands `config init` and `config set`, which read the whole file,     *)
(* change one setting and write the whole file back.                       *)
(***************************************************************************)
EXTENDS Files, Integers

CONSTANTS
  Hours,          \* the values cache.whois_ttl_hours is set to
  DefaultHours,   \* 720
  Before,         \* the settings a configuration file may hold at first
  Requests        \* the <<key, value>> that `config set` is called with

ASSUME HoursAssumption == Hours \subseteq Int /\ DefaultHours \in Nat \ {0}

VARIABLES
  configFile,     \* config.yaml
  cfg,            \* the configuration each run holds in memory
  request,        \* what each run of `config set` was asked to change
  wanted,         \* history: the settings as every completed change left them
  lost            \* history: the settings of which a change may be lost

configVars == <<configFile, cfg, request, wanted, lost>>

Settings ==
  [license: BOOLEAN, geoip: BOOLEAN, whois: BOOLEAN, hours: Hours \cup {DefaultHours}]

ASSUME BeforeAssumption == Before \subseteq Settings

Default == [license |-> FALSE, geoip |-> TRUE, whois |-> TRUE, hours |-> DefaultHours]

Keys == DOMAIN Default

NoRequest == <<"none", FALSE>>

\* The settings a run has been asked to change.
Asked(p) == {request[p][1]} \cap Keys

\* The cache lifetime in force: zero and below stand for the default.
WHOISTTL(c) == IF c.hours <= 0 THEN DefaultHours ELSE c.hours

\* A key or a value that is not known is refused, before anything is written.
Valid(key, value) == key \in DOMAIN Default /\ [Default EXCEPT ![key] = value] \in Settings

ApplySet(c, key, value) == [c EXCEPT ![key] = value]

\* A missing file and an empty one both parse as the defaults.
Readable(file) == file # Garbled
Loaded(file) == IF file.is = "whole" THEN file.value ELSE Default

Saving == {"config.open", "config.write"}

\* No file yet, or a file as earlier changes have left it.
ConfigInit ==
  /\ \/ configFile = Absent /\ wanted = Default
     \/ wanted \in Before /\ configFile = Whole(wanted)
  /\ cfg = [p \in Runs |-> Default]
  /\ request = [p \in Runs |-> NoRequest]
  /\ lost = {}

\* What runs that save at the same time are asked to change may be lost, by
\* the later write; and everything, by a run that reads the file while it is
\* truncated.
StartSaving(p, c) ==
  /\ cfg' = [cfg EXCEPT ![p] = c]
  /\ Goto(p, "config.open")
  /\ LET others == {q \in Runs \ {p} : pc[q] \in Saving} IN
       lost' = IF configFile = Empty THEN Keys
               ELSE IF others = {} THEN lost
               ELSE lost \cup Asked(p)' \cup UNION {Asked(q) : q \in others}
  /\ UNCHANGED <<configFile, wanted>>

SetConfig(p, key, value) ==
  /\ pc[p] = "idle"
  /\ Readable(configFile) /\ Valid(key, value)
  /\ request' = [request EXCEPT ![p] = <<key, value>>]
  /\ StartSaving(p, ApplySet(Loaded(configFile), key, value))

RefuseSet(p, key, value) ==
  /\ pc[p] = "idle"
  /\ ~(Readable(configFile) /\ Valid(key, value))
  /\ Goto(p, "failed")
  /\ UNCHANGED configVars

\* Mutant of InitConfig: it writes over the file that is there.
InitConfigOver(p) ==
  /\ pc[p] = "idle"
  /\ UNCHANGED request
  /\ StartSaving(p, Default)

\* `config init` writes the defaults unless a file is there.
InitConfig(p) ==
  /\ pc[p] = "idle"
  /\ configFile = Absent
  /\ UNCHANGED request
  /\ StartSaving(p, Default)

KeepConfig(p) ==
  /\ pc[p] = "idle"
  /\ configFile # Absent
  /\ Goto(p, "ok")
  /\ UNCHANGED configVars

\* Save: the directories, then the file, which is empty until it is written.
TruncateConfig(p) ==
  /\ pc[p] = "config.open"
  /\ configFile' = Empty
  /\ Goto(p, "config.write")
  /\ UNCHANGED <<cfg, request, wanted, lost>>

\* The change that is written last is there again.
WriteConfig(p) ==
  /\ pc[p] = "config.write"
  /\ configFile' \in Written(configFile, cfg[p])
  /\ wanted' = IF request[p] = NoRequest THEN wanted
               ELSE ApplySet(wanted, request[p][1], request[p][2])
  /\ lost' = IF OtherAt(p, Saving) \/ ~Readable(configFile') THEN lost ELSE lost \ Asked(p)
  /\ Goto(p, "ok")
  /\ UNCHANGED <<cfg, request>>

\* A save that ends between its two steps leaves nothing, if nobody else has
\* written meanwhile.
CutShort(p) == lost' = IF pc[p] = "config.write" /\ configFile = Empty THEN Keys ELSE lost

\* The directories or the file cannot be opened, or nothing can be written.
SaveFails(p) ==
  /\ pc[p] \in Saving
  /\ CutShort(p)
  /\ Goto(p, "failed")
  /\ UNCHANGED <<configFile, cfg, request, wanted>>

KilledInConfig(p) ==
  /\ pc[p] \in Saving
  /\ Killed(p)
  /\ CutShort(p)
  /\ UNCHANGED <<configFile, cfg, request, wanted>>

ConfigStep(p) ==
  \/ \E r \in Requests : SetConfig(p, r[1], r[2]) \/ RefuseSet(p, r[1], r[2])
  \/ InitConfig(p) \/ KeepConfig(p)
  \/ TruncateConfig(p) \/ WriteConfig(p) \/ SaveFails(p)
  \/ KilledInConfig(p)

(***************************************************************************)
(* Properties                                                              *)
(***************************************************************************)
ConfigTypeOK ==
  /\ configFile \in FileOf(Settings)
  /\ cfg \in [Runs -> Settings]
  /\ DOMAIN request = Runs
  /\ \A p \in Runs : request[p] = NoRequest \/ Valid(request[p][1], request[p][2])
  /\ wanted \in Settings
  /\ lost \subseteq Keys

\* Between saves the file holds every change that was reported done, on top
\* of the defaults.  Of saves that overlap, only the settings they were asked
\* to change may be lost, and not the one that was written last; all is lost
\* only by a save cut short between the truncation and the write of
\* os.WriteFile, or by one that read the file in between; and only overlapping
\* saves can leave a file that does not parse.
SettingsKept ==
  ~(\E p \in Runs : pc[p] = "config.write") =>
    /\ lost = {} => Readable(configFile)
    /\ Readable(configFile) => \A key \in Keys \ lost : Loaded(configFile)[key] = wanted[key]
=============================================================================
