------------------------------ MODULE HomeDir ------------------------------
(***************************************************************************)
(* All commands at work on one home directory: `config init`, `config      *)
(* set`, `update-db` and `analyze`, each run any number of times, at the   *)
(* same time and killed at any moment.  The configuration decides whether  *)
(* an update has credentials and whether an analysis opens the databases   *)
(* and asks WHOIS servers; nothing else ties the commands together.        *)
(***************************************************************************)
EXTENDS ConfigStore, UpdateDB, WhoisCache, FiniteSets

CONSTANT AtOnce     \* bound: the runs alive at one time

VARIABLES
  settled,          \* history: the settings when each analysis read them
  caught            \* history: what it read of the WHOIS setting was not settled

vars == <<pc, configVars, updateVars, whoisVars, settled, caught>>

Init ==
  /\ pc = [p \in Runs |-> "idle"]
  /\ ConfigInit
  /\ UpdateInit
  /\ WhoisInit
  /\ settled = [p \in Runs |-> Default]
  /\ caught = [p \in Runs |-> FALSE]

Analysing == {"geoip", "geoip.open", "whois", "report"}

\* A configuration that does not parse ends every command that needs one.
NoConfig(p) ==
  /\ pc[p] = "idle"
  /\ ~Readable(configFile)
  /\ Goto(p, "failed")
  /\ UNCHANGED <<configVars, updateVars, whoisVars, settled, caught>>

Update(p) ==
  /\ Readable(configFile)
  /\ LET credentials == Loaded(configFile).license
     IN StartUpdate(p, credentials) \/ RefuseUpdate(p, credentials)
  /\ UNCHANGED <<configVars, whoisVars, settled, caught>>

Analyze(p) ==
  /\ pc[p] = "idle"
  /\ Readable(configFile)
  /\ cfg' = [cfg EXCEPT ![p] = Loaded(configFile)]
  /\ settled' = [settled EXCEPT ![p] = wanted]
  /\ caught' = [caught EXCEPT ![p] = configFile = Empty \/ "whois" \in lost]
  /\ Goto(p, "geoip")
  /\ UNCHANGED <<configFile, request, wanted, lost, updateVars, whoisVars>>

\* setupGeoIP; --no-enrich leaves both enrichments out.
SetupGeoIP(p, enrich) ==
  /\ pc[p] = "geoip"
  /\ Goto(p, IF ~enrich THEN "report" ELSE IF cfg[p].geoip THEN "geoip.open" ELSE "whois")
  /\ UNCHANGED <<configVars, updateVars, whoisVars, settled, caught>>

\* Mutant of RunWHOIS: the setting is not looked at.
RunWHOISUnasked(p) ==
  /\ pc[p] = "whois"
  /\ \E targets \in SUBSET IPs : StartLookups(p, targets, WHOISTTL(cfg[p]))
  /\ Goto(p, "whois.read")
  /\ UNCHANGED <<configVars, updateVars, settled, caught>>

\* runWHOIS, for whichever external hosts are among the top talkers.
RunWHOIS(p) ==
  /\ pc[p] = "whois"
  /\ cfg[p].whois
  /\ \E targets \in SUBSET IPs : StartLookups(p, targets, WHOISTTL(cfg[p]))
  /\ Goto(p, "whois.read")
  /\ UNCHANGED <<configVars, updateVars, settled, caught>>

\* The setting, or --no-whois.
SkipWHOIS(p) ==
  /\ pc[p] = "whois"
  /\ Goto(p, "report")
  /\ UNCHANGED <<configVars, updateVars, whoisVars, settled, caught>>

EndLookups(p) ==
  /\ pc[p] = "whois.read"
  /\ todo[p] = {}
  /\ Goto(p, "report")
  /\ UNCHANGED <<configVars, updateVars, whoisVars, settled, caught>>

\* The reports are written from what is in memory; then the run is over.
EndAnalysis(p) ==
  /\ pc[p] = "report"
  /\ CloseDatabases(p)
  /\ Goto(p, "ok")
  /\ UNCHANGED <<configVars, published, manifest, installed, temporary, inode, job, looked,
                 overlapped, together, whoisVars, settled, caught>>

KilledInAnalysis(p) ==
  /\ pc[p] \in Analysing
  /\ Killed(p)
  /\ UNCHANGED <<configVars, updateVars, whoisVars, settled, caught>>

MayStart(p) == pc[p] = "idle" => Cardinality({q \in Runs : Live(q)}) < AtOnce

Command(p) ==
  \/ ConfigStep(p) /\ UNCHANGED <<updateVars, whoisVars, settled, caught>>
  \/ UpdateStep(p) /\ UNCHANGED <<configVars, whoisVars, settled, caught>>
  \/ LookupStep(p) /\ UNCHANGED <<configVars, updateVars, settled, caught>>
  \/ NoConfig(p) \/ Update(p) \/ Analyze(p)
  \/ \E enrich \in BOOLEAN : SetupGeoIP(p, enrich)
  \/ OpenDatabase(p) /\ UNCHANGED <<configVars, whoisVars, settled, caught>>
  \/ RunWHOIS(p) \/ SkipWHOIS(p) \/ EndLookups(p) \/ EndAnalysis(p)
  \/ KilledInAnalysis(p)

Next ==
  \/ \E p \in Runs : MayStart(p) /\ Command(p)
  \/ Publish /\ UNCHANGED <<configVars, whoisVars, settled, caught>>
  \/ Tick /\ UNCHANGED <<configVars, updateVars, settled, caught>>

Spec == Init /\ [][Next]_vars

(***************************************************************************)
(* Properties                                                              *)
(***************************************************************************)
TypeOK ==
  /\ pc \in [Runs -> Ended \cup Saving \cup Updating \cup Analysing \cup Looking \cup {"idle"}]
  /\ settled \in [Runs -> Settings] /\ caught \in [Runs -> BOOLEAN]
  /\ ConfigTypeOK /\ UpdateTypeOK /\ WhoisTypeOK

\* WHOIS servers are asked about the hosts of a capture only if the settings
\* allowed it when the analysis read them.  The ways round it: an analysis
\* that reads the file while it is truncated or after a save was cut short
\* takes the defaults, which allow it, and overlapping saves may have lost the
\* change that forbade it.
NoUnaskedQueries ==
  \A p \in Runs : pc[p] = "whois.query" => settled[p].whois \/ caught[p]
=============================================================================
