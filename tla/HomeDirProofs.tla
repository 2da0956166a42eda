--------------------------- MODULE HomeDirProofs ---------------------------
(***************************************************************************)
(* The types of every variable of HomeDir, for any number of commands at   *)
(* once: the invariant that the other proofs start from.  Then, for any    *)
(* settings, settings are not lost, WHOIS servers are asked as settled and *)
(* records are fresh.  Last, for any editions, parts and versions,         *)
(* databases are installed whole and stay what they are while they are     *)
(* open, and the manifest is honest.                                       *)
(***************************************************************************)
EXTENDS HomeDir, TLAPS

-----------------------------------------------------------------------------
(* Types. *)

Steps == Ended \cup Saving \cup Updating \cup Analysing \cup Looking \cup {"idle"}

JobOf(n, v, f, c, e, s) ==
  [next |-> n, version |-> v, fd |-> f, copied |-> c, entries |-> e, since |-> s]

\* Each edition has inodes of its own.
NamesInv ==
  \A e \in Edition :
    /\ installed[e] \in (Runs \X {e}) \cup {NoFile}
    /\ temporary[e] \in (Runs \X {e}) \cup {NoFile}
    /\ \A p \in Runs : opened[p][e] \in (Runs \X {e}) \cup {NoFile}

RunTypes ==
  /\ pc \in [Runs -> Steps]
  /\ settled \in [Runs -> Settings]
  /\ caught \in [Runs -> BOOLEAN]

-----------------------------------------------------------------------------
(* Where a run stands says what it holds. *)

Fetching == {"update.download", "update.open"} \cup Copying

\* An analysis has not opened what it has not come to.
Unopened(p) ==
  \A i \in DOMAIN Editions : i > looked[p] => opened[p][Editions[i]] = NoFile

JobFits(p) ==
  /\ pc[p] = "idle" => job[p].next = 1 /\ \A e \in Edition : job[p].entries[e] = 0
  /\ pc[p] \in Fetching => job[p].next \in DOMAIN Editions
  /\ pc[p] \in {"update.truncate", "update.write"} => job[p].next = Len(Editions) + 1
  /\ pc[p] \in {"update.open"} \cup Copying => job[p].version # 0
  /\ pc[p] = "update.open" => job[p].copied = 0
  /\ pc[p] = "update.copy" => job[p].copied < Chunks
  /\ pc[p] = "update.rename" => job[p].copied = Chunks
  /\ pc[p] \in Copying => job[p].fd \in Runs \X {Current(p)}
  /\ pc[p] \in {"idle", "geoip"} => looked[p] = 0 /\ \A e \in Edition : opened[p][e] = NoFile
  /\ pc[p] = "geoip.open" => looked[p] < Len(Editions) /\ Unopened(p)

LookupFits(p) ==
  /\ pc[p] \in {"whois.query", "whois.truncate", "whois.write"} => todo[p] # {}
  /\ pc[p] \in {"whois.truncate", "whois.write"} => answer[p] # NoRecord
  /\ pc[p] \in Looking => lifetime[p] > 0
  /\ pc[p] \in {"idle", "geoip", "geoip.open", "whois"} => \A ip \in IPs : records[p][ip] = NoRecord

TypeInv ==
  /\ RunTypes /\ ConfigTypeOK /\ UpdateTypeOK /\ NamesInv /\ WhoisTypeOK
  /\ \A p \in Runs : JobFits(p) /\ LookupFits(p)

-----------------------------------------------------------------------------
(* Types. *)

\* What a read of the configuration yields, and what a write leaves, are settings.
LEMMA FilesOfSettings ==
  /\ Default \in Settings
  /\ Absent \in FileOf(Settings) /\ Empty \in FileOf(Settings)
  /\ \A f \in FileOf(Settings) : Readable(f) => Loaded(f) \in Settings
  /\ \A f \in FileOf(Settings), v \in Settings : Written(f, v) \subseteq FileOf(Settings)
PROOF
<1>1. Default \in Settings
  BY HoursAssumption DEF Default, Settings
<1>2. \A f \in FileOf(Settings) : Readable(f) => Loaded(f) \in Settings
  BY <1>1 DEF FileOf, Readable, Loaded, Absent, Empty, Garbled, Whole
<1> QED
  BY <1>1, <1>2 DEF FileOf, Written, Absent, Empty, Garbled, Whole

\* An accepted change keeps the settings typed, and its key is a real one.
LEMMA RequestsFit ==
  ASSUME NEW c \in Settings, NEW key, NEW value, Valid(key, value)
  PROVE  ApplySet(c, key, value) \in Settings /\ key # "none"
PROOF
<1>1. key \in {"license", "geoip", "whois", "hours"}
  BY DEF Valid, Default
<1> QED
  BY <1>1, FilesOfSettings DEF Valid, ApplySet, Settings, Default

\* Whatever a configuration command does, only settings may be lost.
LEMMA LostTyped ==
  ASSUME lost \subseteq Keys, NEW p \in Runs, ConfigStep(p)
  PROVE  lost' \subseteq Keys
PROOF
<1>1. ASSUME NEW c, StartSaving(p, c) PROVE lost' \subseteq Keys
  <2> DEFINE others == {q \in Runs \ {p} : pc[q] \in Saving}
  <2>1. UNION {Asked(q) : q \in others} \subseteq Keys /\ Asked(p)' \subseteq Keys
    BY DEF Asked
  <2>2. lost' = IF configFile = Empty THEN Keys
                ELSE IF others = {} THEN lost
                ELSE lost \cup Asked(p)' \cup UNION {Asked(q) : q \in others}
    BY <1>1 DEF StartSaving
  <2> QED
    BY <2>1, <2>2
<1>2. \A r \in Requests : SetConfig(p, r[1], r[2]) => \E c : StartSaving(p, c)
  BY DEF SetConfig
<1>3. InitConfig(p) => \E c : StartSaving(p, c)
  BY DEF InitConfig
<1>4. CutShort(p) => lost' \subseteq Keys
  BY DEF CutShort
<1>5. WriteConfig(p) => lost' \subseteq Keys
  BY DEF WriteConfig
<1> QED
  BY <1>1, <1>2, <1>3, <1>4, <1>5 DEF ConfigStep, RefuseSet, KeepConfig, TruncateConfig, SaveFails,
     KilledInConfig, configVars

\* A configuration command changes its place and the configuration only.
LEMMA ConfigTyped ==
  ASSUME TypeInv, NEW p \in Runs, ConfigStep(p), UNCHANGED <<updateVars, whoisVars, settled, caught>>
  PROVE  TypeInv'
PROOF
<1> USE DEF TypeInv, RunTypes
<1>0. lost' \subseteq Keys
  BY LostTyped DEF ConfigTypeOK
<1>1. /\ ConfigTypeOK'
      /\ pc[p] \in Saving \cup {"idle"}
      /\ \E s \in Saving \cup Ended : Goto(p, s)
  <2>1. ASSUME NEW r \in Requests, SetConfig(p, r[1], r[2]) PROVE <1>1!1 /\ <1>1!2 /\ <1>1!3
    BY <1>0, <2>1, FilesOfSettings, RequestsFit DEF SetConfig, StartSaving, ConfigTypeOK, Saving
  <2>2. ASSUME NEW r \in Requests, RefuseSet(p, r[1], r[2]) PROVE <1>1!1 /\ <1>1!2 /\ <1>1!3
    BY <1>0, <2>2 DEF RefuseSet, ConfigTypeOK, configVars, Ended
  <2>3. CASE InitConfig(p)
    BY <1>0, <2>3, FilesOfSettings DEF InitConfig, StartSaving, ConfigTypeOK, Saving
  <2>4. CASE KeepConfig(p)
    BY <2>4 DEF KeepConfig, ConfigTypeOK, configVars, Ended
  <2>5. CASE TruncateConfig(p)
    BY <2>5, FilesOfSettings DEF TruncateConfig, ConfigTypeOK, Saving
  <2>6. CASE WriteConfig(p)
    BY <1>0, <2>6, FilesOfSettings, RequestsFit DEF WriteConfig, ConfigTypeOK, Saving, Ended
  <2>7. CASE SaveFails(p)
    BY <1>0, <2>7 DEF SaveFails, ConfigTypeOK, Ended
  <2>8. CASE KilledInConfig(p)
    BY <1>0, <2>8 DEF KilledInConfig, Killed, ConfigTypeOK, Ended
  <2> QED
    BY <2>1, <2>2, <2>3, <2>4, <2>5, <2>6, <2>7, <2>8 DEF ConfigStep
<1>2. RunTypes'
  BY <1>1 DEF Goto, Steps
<1>3. UpdateTypeOK' /\ WhoisTypeOK'
  BY DEF UpdateTypeOK, WhoisTypeOK, updateVars, whoisVars
<1>4. ASSUME NEW q \in Runs PROVE JobFits(q)' /\ LookupFits(q)'
  <2>1. JobFits(q) /\ LookupFits(q)
    OBVIOUS
  <2>2. CASE q = p
    <3>1. pc'[q] \in Saving \cup Ended
      BY <1>1, <2>2 DEF Goto
    <3> QED
      BY <3>1 DEF JobFits, LookupFits, Fetching, Copying, Looking, Saving, Ended
  <2>3. CASE q # p
    <3>1. pc'[q] = pc[q]
      BY <1>1, <2>3 DEF Goto
    <3> QED
      BY <2>1, <3>1 DEF JobFits, Unopened, LookupFits, Current, updateVars, whoisVars
  <2> QED
    BY <2>2, <2>3
<1>5. NamesInv'
  BY DEF NamesInv, updateVars
<1> QED
  BY <1>1, <1>2, <1>3, <1>4, <1>5 DEF TypeInv

\* What the assumptions on the constants say of editions, parts and versions.
LEMMA UpdateFacts ==
  /\ Chunks \in Nat /\ Chunks > 0 /\ MaxVersion \in Nat /\ MaxVersion > 0
  /\ Len(Editions) \in Nat /\ Len(Editions) > 0 /\ DOMAIN Editions = 1..Len(Editions)
  /\ \A i \in DOMAIN Editions : Editions[i] \in Edition
  /\ \A e \in Edition : \E i \in DOMAIN Editions : e = Editions[i]
  /\ Blank \in [1..Chunks -> 0..MaxVersion]
  /\ NoFile \notin Inodes
PROOF
  BY ChunksAssumption, EditionsAssumption DEF Edition, Blank, NoFile, Inodes

\* What a read of the manifest yields, and what a write leaves, are manifests.
LEMMA FilesOfRecorded ==
  /\ Absent \in FileOf(Recorded) /\ Empty \in FileOf(Recorded)
  /\ \A f \in FileOf(Recorded) : f \notin {Absent, Empty, Garbled} => f.value \in Recorded
  /\ \A f \in FileOf(Recorded), v \in Recorded : Written(f, v) \subseteq FileOf(Recorded)
PROOF
  BY DEF FileOf, Written, Absent, Empty, Garbled, Whole

\* One field of a job changed.
LEMMA JobField ==
  ASSUME NEW j \in Job, NEW x
  PROVE  /\ [j EXCEPT !.next = x] = JobOf(x, j.version, j.fd, j.copied, j.entries, j.since)
         /\ [j EXCEPT !.version = x] = JobOf(j.next, x, j.fd, j.copied, j.entries, j.since)
         /\ [j EXCEPT !.fd = x] = JobOf(j.next, j.version, x, j.copied, j.entries, j.since)
         /\ [j EXCEPT !.copied = x] = JobOf(j.next, j.version, j.fd, x, j.entries, j.since)
         /\ [j EXCEPT !.entries = x] = JobOf(j.next, j.version, j.fd, j.copied, x, j.since)
         /\ [j EXCEPT !.since = x] = JobOf(j.next, j.version, j.fd, j.copied, j.entries, x)
PROOF
<1>1. [j EXCEPT !.next = x] = JobOf(x, j.version, j.fd, j.copied, j.entries, j.since)
  BY DEF Job, JobOf
<1>2. [j EXCEPT !.version = x] = JobOf(j.next, x, j.fd, j.copied, j.entries, j.since)
  BY DEF Job, JobOf
<1>3. [j EXCEPT !.fd = x] = JobOf(j.next, j.version, x, j.copied, j.entries, j.since)
  BY DEF Job, JobOf
<1>4. [j EXCEPT !.copied = x] = JobOf(j.next, j.version, j.fd, x, j.entries, j.since)
  BY DEF Job, JobOf
<1>5. [j EXCEPT !.entries = x] = JobOf(j.next, j.version, j.fd, j.copied, x, j.since)
  BY DEF Job, JobOf
<1>6. [j EXCEPT !.since = x] = JobOf(j.next, j.version, j.fd, j.copied, j.entries, x)
  BY DEF Job, JobOf
<1> QED
  BY <1>1, <1>2, <1>3, <1>4, <1>5, <1>6

\* The parts of a job.
LEMMA JobParts ==
  ASSUME NEW j \in Job
  PROVE  /\ j.next \in Nat /\ j.version \in 0..MaxVersion /\ j.fd \in Inodes \cup {NoFile}
         /\ j.copied \in Nat /\ j.entries \in Recorded /\ j.since \in Nat
PROOF
  BY DEF Job

\* A job when it starts.
LEMMA JobStarted ==
  ASSUME NEW j \in Job, NEW r \in Recorded, NEW v \in Nat
  PROVE  [j EXCEPT !.entries = r, !.since = v] = JobOf(j.next, j.version, j.fd, j.copied, r, v)
PROOF
<1> DEFINE k == [j EXCEPT !.entries = r]
<1>1. k = JobOf(j.next, j.version, j.fd, j.copied, r, j.since)
  BY JobField
<1>2. k \in Job
  BY <1>1, JobParts DEF JobOf, Job
<1>3. k.next = j.next /\ k.version = j.version /\ k.fd = j.fd /\ k.copied = j.copied /\ k.entries = r
  BY <1>1 DEF JobOf
<1> HIDE DEF k
<1>4. [k EXCEPT !.since = v] = JobOf(k.next, k.version, k.fd, k.copied, k.entries, v)
  BY <1>2, JobField
<1>5. [k EXCEPT !.since = v] = JobOf(j.next, j.version, j.fd, j.copied, r, v)
  BY <1>3, <1>4
<1> QED
  BY <1>5 DEF k

\* A job when it has an archive.
LEMMA JobDownloaded ==
  ASSUME NEW j \in Job, NEW v \in 0..MaxVersion
  PROVE  [j EXCEPT !.version = v, !.copied = 0] = JobOf(j.next, v, j.fd, 0, j.entries, j.since)
PROOF
<1> DEFINE k == [j EXCEPT !.version = v]
<1>1. k = JobOf(j.next, v, j.fd, j.copied, j.entries, j.since)
  BY JobField
<1>2. k \in Job
  BY <1>1, JobParts DEF JobOf, Job
<1>3. k.next = j.next /\ k.fd = j.fd /\ k.entries = j.entries /\ k.since = j.since /\ k.version = v
  BY <1>1 DEF JobOf
<1> HIDE DEF k
<1>4. [k EXCEPT !.copied = 0] = JobOf(k.next, k.version, k.fd, 0, k.entries, k.since)
  BY <1>2, JobField
<1>5. [k EXCEPT !.copied = 0] = JobOf(j.next, v, j.fd, 0, j.entries, j.since)
  BY <1>3, <1>4
<1> QED
  BY <1>5 DEF k

\* A job when it has installed what was in the archive.
LEMMA JobInstalled ==
  ASSUME NEW j \in Job, NEW e \in Edition
  PROVE  [j EXCEPT !.entries[e] = j.version, !.next = j.next + 1, !.fd = NoFile] =
           JobOf(j.next + 1, j.version, NoFile, j.copied, [j.entries EXCEPT ![e] = j.version], j.since)
PROOF
<1> DEFINE r == [j.entries EXCEPT ![e] = j.version]
           k == [j EXCEPT !.entries = r]
           l == [k EXCEPT !.next = j.next + 1]
<1>1. r \in Recorded
  BY JobParts DEF Recorded
<1> HIDE DEF r
<1>2. k = JobOf(j.next, j.version, j.fd, j.copied, r, j.since)
  BY JobField
<1>3. k \in Job
  BY <1>1, <1>2, JobParts DEF JobOf, Job
<1>4. /\ k.next = j.next /\ k.version = j.version /\ k.fd = j.fd /\ k.copied = j.copied
      /\ k.entries = r /\ k.since = j.since
  BY <1>2 DEF JobOf
<1> HIDE DEF k
<1>5. l = JobOf(j.next + 1, k.version, k.fd, k.copied, k.entries, k.since)
  BY <1>3, JobField
<1>6. l \in Job
  BY <1>1, <1>4, <1>5, JobParts DEF JobOf, Job
<1>7. /\ l.next = j.next + 1 /\ l.version = j.version /\ l.copied = j.copied
      /\ l.entries = r /\ l.since = j.since
  BY <1>4, <1>5 DEF JobOf
<1> HIDE DEF l
<1>8. [l EXCEPT !.fd = NoFile] = JobOf(l.next, l.version, NoFile, l.copied, l.entries, l.since)
  BY <1>6, JobField
<1>9. [l EXCEPT !.fd = NoFile] = JobOf(j.next + 1, j.version, NoFile, j.copied, r, j.since)
  BY <1>7, <1>8
<1> QED
  BY <1>9 DEF l, k, r

\* What the steps of an update do to its job.
JobStep(p, j) ==
  /\ job'[p] = j /\ j \in Job
  /\ \A q \in Runs \ {p} : job'[q] = job[q]
  /\ job' \in [Runs -> Job]

\* Every step of an update that touches a job, written out field by field.
LEMMA JobSteps ==
  ASSUME UpdateTypeOK, NEW p \in Runs
  PROVE  LET j == job[p] IN
    /\ \A credentials \in BOOLEAN : StartUpdate(p, credentials) =>
         JobStep(p, JobOf(j.next, j.version, j.fd, j.copied,
                          IF manifest = Absent THEN j.entries ELSE manifest.value, published))
    /\ Download(p) => JobStep(p, JobOf(j.next, published, j.fd, 0, j.entries, j.since))
    /\ Current(p) \in Edition /\ OpenTemporary(p) =>
         JobStep(p, JobOf(j.next, j.version, Target(p), j.copied, j.entries, j.since))
    /\ CopyPart(p) => JobStep(p, JobOf(j.next, j.version, j.fd, j.copied + 1, j.entries, j.since))
    /\ Current(p) \in Edition /\ Install(p) =>
         JobStep(p, JobOf(j.next + 1, j.version, NoFile, j.copied,
                          [j.entries EXCEPT ![Current(p)] = j.version], j.since))
PROOF
<1> DEFINE j == job[p]
<1>1. j \in Job /\ job \in [Runs -> Job]
  BY DEF UpdateTypeOK
<1>2. published \in 1..MaxVersion
  BY DEF UpdateTypeOK
<1>3. published \in 0..MaxVersion /\ published \in Nat
  BY <1>2, UpdateFacts
<1>4. ASSUME NEW k \in Job, job' = [job EXCEPT ![p] = k]
      PROVE  JobStep(p, k)
  BY <1>1, <1>4 DEF JobStep
<1>5. ASSUME NEW credentials \in BOOLEAN, StartUpdate(p, credentials)
      PROVE  JobStep(p, JobOf(j.next, j.version, j.fd, j.copied,
                       IF manifest = Absent THEN j.entries ELSE manifest.value, published))
  <2> DEFINE r == IF manifest = Absent THEN j.entries ELSE manifest.value
             k == JobOf(j.next, j.version, j.fd, j.copied, r, published)
  <2>1. r \in Recorded
    BY <1>1, <1>5, JobParts, FilesOfRecorded DEF StartUpdate, UpdateTypeOK
  <2>2. job' = [job EXCEPT ![p] = [j EXCEPT !.entries = r, !.since = published]]
    BY <1>1, <1>5 DEF StartUpdate
  <2>3. [j EXCEPT !.entries = r, !.since = published] = k
    BY <1>1, <1>3, <2>1, JobStarted
  <2>4. k \in Job
    BY <1>1, <1>3, <2>1, JobParts DEF JobOf, Job
  <2> QED
    BY <1>4, <2>2, <2>3, <2>4
<1>6. ASSUME Download(p)
      PROVE  JobStep(p, JobOf(j.next, published, j.fd, 0, j.entries, j.since))
  <2> DEFINE k == JobOf(j.next, published, j.fd, 0, j.entries, j.since)
  <2>1. job' = [job EXCEPT ![p] = [j EXCEPT !.version = published, !.copied = 0]]
    BY <1>1, <1>6 DEF Download
  <2>2. [j EXCEPT !.version = published, !.copied = 0] = k
    BY <1>1, <1>3, JobDownloaded
  <2>3. k \in Job
    BY <1>1, <1>3, JobParts DEF JobOf, Job
  <2> QED
    BY <1>4, <2>1, <2>2, <2>3
<1>7. ASSUME Current(p) \in Edition, OpenTemporary(p)
      PROVE  JobStep(p, JobOf(j.next, j.version, Target(p), j.copied, j.entries, j.since))
  <2> DEFINE k == JobOf(j.next, j.version, Target(p), j.copied, j.entries, j.since)
  <2>1. Target(p) \in Inodes
    BY <1>7 DEF Target, Inodes, UpdateTypeOK
  <2>2. job' = [job EXCEPT ![p] = [j EXCEPT !.fd = Target(p)]]
    BY <1>1, <1>7 DEF OpenTemporary
  <2>3. [j EXCEPT !.fd = Target(p)] = k
    BY <1>1, JobField
  <2>4. k \in Job
    BY <1>1, <2>1, JobParts DEF JobOf, Job
  <2> QED
    BY <1>4, <2>2, <2>3, <2>4
<1>8. ASSUME CopyPart(p)
      PROVE  JobStep(p, JobOf(j.next, j.version, j.fd, j.copied + 1, j.entries, j.since))
  <2> DEFINE k == JobOf(j.next, j.version, j.fd, j.copied + 1, j.entries, j.since)
  <2>1. job' = [job EXCEPT ![p] = [j EXCEPT !.copied = j.copied + 1]]
    BY <1>1, <1>8 DEF CopyPart
  <2>2. [j EXCEPT !.copied = j.copied + 1] = k
    BY <1>1, JobField
  <2>3. k \in Job
    BY <1>1, JobParts DEF JobOf, Job
  <2> QED
    BY <1>4, <2>1, <2>2, <2>3
<1>9. ASSUME Current(p) \in Edition, Install(p)
      PROVE  JobStep(p, JobOf(j.next + 1, j.version, NoFile, j.copied,
                       [j.entries EXCEPT ![Current(p)] = j.version], j.since))
  <2> DEFINE r == [j.entries EXCEPT ![Current(p)] = j.version]
             k == JobOf(j.next + 1, j.version, NoFile, j.copied, r, j.since)
  <2>1. r \in Recorded
    BY <1>1, <1>9, JobParts DEF Recorded
  <2>2. job' = [job EXCEPT ![p] = [j EXCEPT !.entries[Current(p)] = j.version,
                                           !.next = j.next + 1, !.fd = NoFile]]
    BY <1>1, <1>9 DEF Install
  <2>3. [j EXCEPT !.entries[Current(p)] = j.version, !.next = j.next + 1, !.fd = NoFile] = k
    BY <1>1, <1>9, JobInstalled
  <2>4. k \in Job
    BY <1>1, <2>1, JobParts DEF JobOf, Job
  <2> QED
    BY <1>4, <2>2, <2>3, <2>4
<1> QED
  BY <1>5, <1>6, <1>7, <1>8, <1>9

\* A step of an update keeps its variables typed, moves its run on within the
\* update or ends it, and leaves its job right for its place.
UpdateFits(p) ==
  /\ UpdateTypeOK' /\ NamesInv'
  /\ \E s \in Updating \cup Ended : Goto(p, s)
  /\ JobFits(p)'
  /\ \A q \in Runs \ {p} : job'[q] = job[q]
  /\ UNCHANGED <<opened, looked>>

\* An update that gives up leaves everything typed.
LEMMA GiveUpTyped ==
  ASSUME TypeInv, NEW p \in Runs, pc[p] \in Updating, pc' = [pc EXCEPT ![p] = "failed"] \/ Goto(p, "dead"),
         UNCHANGED <<published, manifest, installed, inode, job, opened, looked, overlapped, together>>,
         temporary' = temporary \/ \E e \in Edition : temporary' = [temporary EXCEPT ![e] = NoFile]
  PROVE  UpdateFits(p)
PROOF
<1>1. UpdateTypeOK'
  BY DEF TypeInv, UpdateTypeOK
<1>2. NamesInv'
  BY DEF TypeInv, UpdateTypeOK, NamesInv
<1>3. /\ \E s \in Updating \cup Ended : Goto(p, s)
      /\ pc'[p] \in Ended
  BY DEF TypeInv, RunTypes, Goto, Ended
<1>4. JobFits(p)'
  BY <1>3 DEF JobFits, Fetching, Copying, Ended
<1> QED
  BY <1>1, <1>2, <1>3, <1>4 DEF UpdateFits

\* So does every other step of an update.
LEMMA UpdateStepTyped ==
  ASSUME TypeInv, NEW p \in Runs, UpdateStep(p)
  PROVE  UpdateFits(p)
PROOF
<1>0. /\ pc \in [Runs -> Steps] /\ UpdateTypeOK /\ NamesInv /\ JobFits(p)
      /\ job[p] \in Job
  BY DEF TypeInv, RunTypes, UpdateTypeOK
<1>a. pc[p] \in Fetching => job[p].next \in DOMAIN Editions /\ Current(p) \in Edition
  BY <1>0, UpdateFacts DEF JobFits, Current, Edition
<1>1. CASE Download(p)
  <2>1. /\ JobStep(p, JobOf(job[p].next, published, job[p].fd, 0, job[p].entries, job[p].since))
        /\ pc'[p] = "update.open" /\ Goto(p, "update.open")
    BY <1>0, <1>1, JobSteps DEF Download, Goto
  <2>2. UpdateTypeOK' /\ NamesInv'
    BY <1>0, <1>1, <2>1 DEF Download, UpdateTypeOK, JobStep, NamesInv
  <2>3. job'[p].next \in DOMAIN Editions /\ job'[p].version = published /\ job'[p].copied = 0
    BY <1>1, <1>a, <2>1 DEF Download, JobStep, JobOf, Fetching
  <2>4. published # 0
    BY <1>0, UpdateFacts DEF UpdateTypeOK
  <2>5. JobFits(p)'
    BY <2>1, <2>3, <2>4 DEF JobFits, Fetching, Copying
  <2> QED
    BY <1>1, <2>1, <2>2, <2>5 DEF Download, Updating, UpdateFits, JobStep
<1>2. CASE NoArchive(p)
  BY <1>2, GiveUpTyped DEF NoArchive, GiveUp, Goto, Updating
<1>3. CASE OpenTemporary(p)
  <2>1. Current(p) \in Edition
    BY <1>3, <1>a DEF OpenTemporary, Fetching
  <2>2. /\ JobStep(p, JobOf(job[p].next, job[p].version, Target(p), job[p].copied, job[p].entries, job[p].since))
        /\ pc'[p] = "update.copy" /\ Goto(p, "update.copy")
    BY <1>0, <1>3, <2>1, JobSteps DEF OpenTemporary, Goto
  <2>3. Target(p) \in Runs \X {Current(p)} /\ Target(p) \in Inodes
    BY <1>0, <2>1 DEF Target, NamesInv, Inodes
  <2>4. UpdateTypeOK'
    BY <1>0, <1>3, <2>1, <2>2, <2>3, UpdateFacts DEF OpenTemporary, UpdateTypeOK, JobStep
  <2>5. NamesInv'
    BY <1>0, <1>3, <2>1, <2>3 DEF OpenTemporary, UpdateTypeOK, NamesInv
  <2>6. /\ job'[p].next = job[p].next /\ job'[p].version = job[p].version
        /\ job'[p].copied = job[p].copied /\ job'[p].fd = Target(p)
    BY <2>2 DEF JobStep, JobOf
  <2>7. Current(p)' = Current(p)
    BY <2>6 DEF Current
  <2>8. job[p].next \in DOMAIN Editions /\ job[p].version # 0 /\ job[p].copied = 0
    BY <1>0, <1>3, <1>a DEF OpenTemporary, JobFits, Fetching
  <2>9. JobFits(p)'
    BY <2>2, <2>3, <2>6, <2>7, <2>8, UpdateFacts DEF JobFits, Fetching, Copying
  <2> QED
    BY <1>3, <2>2, <2>4, <2>5, <2>9 DEF OpenTemporary, Updating, UpdateFits, JobStep
<1>4. CASE CopyPart(p)
  <2> DEFINE k == job[p].copied + 1
  <2>1. /\ JobStep(p, JobOf(job[p].next, job[p].version, job[p].fd, k, job[p].entries, job[p].since))
        /\ pc'[p] = IF k = Chunks THEN "update.rename" ELSE "update.copy"
        /\ Goto(p, IF k = Chunks THEN "update.rename" ELSE "update.copy")
    BY <1>0, <1>4, JobSteps DEF CopyPart, Goto
  <2>2. /\ job[p].next \in DOMAIN Editions /\ job[p].version # 0 /\ job[p].copied < Chunks
        /\ job[p].fd \in Runs \X {Current(p)} /\ Current(p) \in Edition
    BY <1>0, <1>4, <1>a DEF CopyPart, JobFits, Fetching, Copying
  <2>3. /\ k \in 1..Chunks /\ job[p].fd \in Inodes /\ job[p].version \in 0..MaxVersion
    BY <1>0, <2>2, JobParts, UpdateFacts DEF Inodes
  <2>4. UpdateTypeOK' /\ NamesInv'
    BY <1>0, <1>4, <2>1, <2>3 DEF CopyPart, UpdateTypeOK, JobStep, NamesInv
  <2>5. /\ job'[p].next = job[p].next /\ job'[p].version = job[p].version
        /\ job'[p].copied = k /\ job'[p].fd = job[p].fd
    BY <2>1 DEF JobStep, JobOf
  <2>6. Current(p)' = Current(p)
    BY <2>5 DEF Current
  <2>7. JobFits(p)'
    BY <2>1, <2>2, <2>3, <2>5, <2>6, UpdateFacts DEF JobFits, Fetching, Copying
  <2> QED
    BY <1>4, <2>1, <2>4, <2>7 DEF CopyPart, Updating, UpdateFits, JobStep
<1>5. CASE CopyFails(p)
  BY <1>5, <1>a, GiveUpTyped DEF CopyFails, GiveUp, Goto, Updating, Copying, Fetching
<1>6. CASE Install(p)
  <2>1. /\ Current(p) \in Edition
        /\ job[p].next \in DOMAIN Editions
    BY <1>6, <1>a DEF Install, Fetching, Copying
  <2>2. /\ JobStep(p, JobOf(job[p].next + 1, job[p].version, NoFile, job[p].copied,
                            [job[p].entries EXCEPT ![Current(p)] = job[p].version], job[p].since))
        /\ pc'[p] = IF job[p].next = Len(Editions) THEN "update.truncate" ELSE "update.download"
        /\ Goto(p, IF job[p].next = Len(Editions) THEN "update.truncate" ELSE "update.download")
    BY <1>0, <1>6, <2>1, JobSteps DEF Install, Goto
  <2>3. UpdateTypeOK' /\ NamesInv'
    BY <1>0, <1>6, <2>1, <2>2 DEF Install, UpdateTypeOK, JobStep, NamesInv
  <2>4. job'[p].next = job[p].next + 1
    BY <2>2 DEF JobStep, JobOf
  <2>5. JobFits(p)'
    BY <2>1, <2>2, <2>4, UpdateFacts DEF JobFits, Fetching, Copying
  <2> QED
    BY <1>6, <2>2, <2>3, <2>5 DEF Install, Updating, UpdateFits, JobStep
<1>7. CASE InstallFails(p)
  BY <1>7, GiveUpTyped DEF InstallFails, GiveUp, Goto, Updating
<1>8. CASE TruncateManifest(p)
  <2>1. /\ pc'[p] = "update.write" /\ Goto(p, "update.write")
        /\ job[p].next = Len(Editions) + 1
    BY <1>0, <1>8 DEF TruncateManifest, Goto, JobFits
  <2>2. UpdateTypeOK' /\ NamesInv'
    BY <1>0, <1>8, FilesOfRecorded DEF TruncateManifest, UpdateTypeOK, NamesInv
  <2>3. JobFits(p)'
    BY <1>8, <2>1 DEF TruncateManifest, JobFits, Fetching, Copying
  <2> QED
    BY <1>8, <2>1, <2>2, <2>3 DEF TruncateManifest, Updating, UpdateFits
<1>9. CASE WriteManifest(p)
  <2>1. pc'[p] = "ok" /\ Goto(p, "ok")
    BY <1>0, <1>9 DEF WriteManifest, Goto
  <2>2. manifest' \in FileOf(Recorded)
    BY <1>0, <1>9, FilesOfRecorded, JobParts DEF WriteManifest, UpdateTypeOK
  <2>3. UpdateTypeOK' /\ NamesInv'
    BY <1>0, <1>9, <2>2 DEF WriteManifest, UpdateTypeOK, NamesInv
  <2>4. JobFits(p)'
    BY <2>1 DEF JobFits, Fetching, Copying
  <2> QED
    BY <1>9, <2>1, <2>3, <2>4 DEF WriteManifest, Ended, UpdateFits
<1>10. CASE SaveManifestFails(p)
  BY <1>10, GiveUpTyped DEF SaveManifestFails, GiveUp, Goto, Updating
<1>11. CASE KilledInUpdate(p)
  BY <1>11, GiveUpTyped DEF KilledInUpdate, Killed, updateVars
<1> QED
  BY <1>1, <1>2, <1>3, <1>4, <1>5, <1>6, <1>7, <1>8, <1>9, <1>10, <1>11 DEF UpdateStep

\* A run whose part of the variables is left alone still fits.
LEMMA OthersFit ==
  ASSUME TypeInv, NEW q \in Runs, pc'[q] = pc[q], job'[q] = job[q], opened'[q] = opened[q],
         looked'[q] = looked[q], todo'[q] = todo[q], answer'[q] = answer[q], lifetime'[q] = lifetime[q], records'[q] = records[q]
  PROVE  JobFits(q)' /\ LookupFits(q)'
PROOF
  BY DEF TypeInv, JobFits, Unopened, LookupFits, Current

\* A step of an update preserves all types.
LEMMA UpdateTyped ==
  ASSUME TypeInv, NEW p \in Runs, UpdateFits(p),
         UNCHANGED <<configVars, whoisVars, settled, caught>>
  PROVE  TypeInv'
PROOF
<1>1. /\ RunTypes' /\ \A q \in Runs \ {p} : pc'[q] = pc[q]
      /\ pc'[p] \in Updating \cup Ended
  BY DEF TypeInv, RunTypes, UpdateFits, Goto, Steps
<1>2. ConfigTypeOK' /\ WhoisTypeOK'
  BY DEF TypeInv, ConfigTypeOK, WhoisTypeOK, configVars, whoisVars
<1>3. LookupFits(p)'
  BY <1>1 DEF LookupFits, Updating, Ended, Looking
<1>4. ASSUME NEW q \in Runs \ {p} PROVE JobFits(q)' /\ LookupFits(q)'
  BY <1>1, OthersFit DEF UpdateFits, whoisVars
<1> QED
  BY <1>1, <1>2, <1>3, <1>4 DEF TypeInv, UpdateFits

\* Starting an update preserves all types.
LEMMA StartTyped ==
  ASSUME TypeInv, NEW p \in Runs, Update(p)
  PROVE  TypeInv'
PROOF
<1>0. /\ pc \in [Runs -> Steps] /\ UpdateTypeOK /\ NamesInv /\ JobFits(p)
      /\ job[p] \in Job
  BY DEF TypeInv, RunTypes, UpdateTypeOK
<1> DEFINE credentials == Loaded(configFile).license
<1>1. credentials \in BOOLEAN
  BY FilesOfSettings DEF Update, TypeInv, ConfigTypeOK, Settings
<1>2. ASSUME StartUpdate(p, credentials) PROVE UpdateFits(p)
  <2>1. /\ JobStep(p, JobOf(job[p].next, job[p].version, job[p].fd, job[p].copied,
                            IF manifest = Absent THEN job[p].entries ELSE manifest.value, published))
        /\ pc'[p] = "update.download" /\ Goto(p, "update.download")
    BY <1>0, <1>1, <1>2, JobSteps DEF StartUpdate, Goto
  <2>2. UpdateTypeOK' /\ NamesInv'
    BY <1>0, <1>2, <2>1 DEF StartUpdate, UpdateTypeOK, NamesInv, JobStep
  <2>3. job'[p].next = 1
    BY <1>0, <1>2, <2>1 DEF StartUpdate, JobFits, JobStep, JobOf
  <2>4. JobFits(p)'
    BY <2>1, <2>3, UpdateFacts DEF JobFits, Fetching, Copying
  <2> QED
    BY <1>2, <2>1, <2>2, <2>4 DEF StartUpdate, Updating, UpdateFits, JobStep
<1>3. ASSUME RefuseUpdate(p, credentials) PROVE UpdateFits(p)
  <2>1. pc'[p] = "failed" /\ Goto(p, "failed")
    BY <1>0, <1>3 DEF RefuseUpdate, Goto
  <2>2. UpdateTypeOK' /\ NamesInv'
    BY <1>0, <1>3 DEF RefuseUpdate, UpdateTypeOK, NamesInv, updateVars
  <2>3. JobFits(p)'
    BY <2>1 DEF JobFits, Fetching, Copying
  <2> QED
    BY <1>3, <2>1, <2>2, <2>3 DEF RefuseUpdate, updateVars, Ended, UpdateFits
<1> QED
  BY <1>2, <1>3, UpdateTyped DEF Update

\* What a read of a cache file yields, and what a write leaves, are records.
LEMMA FilesOfRecord ==
  /\ Absent \in FileOf(Record) /\ Empty \in FileOf(Record)
  /\ \A f \in FileOf(Record) : f.is = "whole" => f.value \in Record
  /\ \A f \in FileOf(Record), v \in Record : Written(f, v) \subseteq FileOf(Record)
PROOF
  BY DEF FileOf, Written, Absent, Empty, Garbled, Whole

\* A record taken or brought at a time is one that an analysis may keep.
LEMMA KeptTyped ==
  ASSUME NEW r \in Record, NEW t \in 0..MaxTime
  PROVE  [record |-> r, since |-> t] \in Kept
PROOF
  BY DEF Kept

\* A lookup moves its run on within the lookups or ends it, and what it holds
\* is right for its place.
LookupTypesFit(p) ==
  /\ WhoisTypeOK'
  /\ pc' = pc \/ \E s \in Looking \cup {"dead"} : Goto(p, s)
  /\ LookupFits(p)'
  /\ \A q \in Runs \ {p} : /\ todo'[q] = todo[q] /\ answer'[q] = answer[q]
                           /\ lifetime'[q] = lifetime[q] /\ records'[q] = records[q]

\* Every step of a lookup leaves the cache and what the run holds typed.
LEMMA LookupStepTyped ==
  ASSUME TypeInv, NEW p \in Runs, LookupStep(p)
  PROVE  LookupTypesFit(p)
PROOF
<1>0. /\ pc \in [Runs -> Steps] /\ WhoisTypeOK /\ LookupFits(p)
  BY DEF TypeInv, RunTypes
<1>a. todo[p] # {} => Address(p) \in todo[p] /\ Address(p) \in IPs
  BY <1>0 DEF Address, WhoisTypeOK
<1>b. pc[p] \in Looking => lifetime[p] > 0
  BY <1>0 DEF LookupFits
<1>1. CASE ReadCache(p)
  <2> DEFINE ip == Address(p)
  <2>1. ip \in IPs
    BY <1>1, <1>a DEF ReadCache
  <2>2. CASE Hit(ip, lifetime[p]) /\ Have(p, ip, cache[ip].value, now)
             /\ todo' = [todo EXCEPT ![p] = @ \ {ip}] /\ UNCHANGED pc
    <3>1. cache[ip].value \in Record
      BY <1>0, <2>1, <2>2, FilesOfRecord DEF WhoisTypeOK, Hit
    <3>2. [record |-> cache[ip].value, since |-> now] \in Kept
      BY <1>0, <3>1, KeptTyped DEF WhoisTypeOK
    <3>3. WhoisTypeOK'
      BY <1>0, <1>1, <2>1, <2>2, <3>2 DEF ReadCache, Have, WhoisTypeOK
    <3>4. LookupFits(p)'
      BY <1>0, <1>1, <1>b, <2>2 DEF ReadCache, LookupFits, Looking
    <3> QED
      BY <1>0, <1>1, <2>2, <3>3, <3>4 DEF ReadCache, Have, WhoisTypeOK, LookupTypesFit
  <2>3. CASE Goto(p, "whois.query") /\ UNCHANGED <<todo, records>>
    <3>1. pc'[p] = "whois.query"
      BY <1>0, <2>3 DEF Goto
    <3>2. WhoisTypeOK'
      BY <1>0, <1>1, <2>3 DEF ReadCache, WhoisTypeOK
    <3>3. LookupFits(p)'
      BY <1>1, <1>b, <2>3, <3>1 DEF ReadCache, LookupFits, Looking
    <3> QED
      BY <1>1, <2>3, <3>2, <3>3 DEF ReadCache, LookupTypesFit, Looking
  <2> QED
    BY <1>1, <2>2, <2>3 DEF ReadCache
<1>2. CASE Query(p)
  <2>1. PICK registry \in Registries : answer' = [answer EXCEPT ![p] = [registry |-> registry, at |-> now]]
    BY <1>2 DEF Query
  <2>2. [registry |-> registry, at |-> now] \in Record
    BY <1>0 DEF WhoisTypeOK, Record
  <2>3. pc'[p] = "whois.truncate" /\ Goto(p, "whois.truncate")
    BY <1>0, <1>2 DEF Query, Goto
  <2>4. WhoisTypeOK'
    BY <1>0, <1>2, <2>1, <2>2 DEF Query, WhoisTypeOK
  <2>5. answer'[p] = [registry |-> registry, at |-> now]
    BY <1>0, <2>1 DEF WhoisTypeOK
  <2>6. answer'[p] # NoRecord
    BY <2>5 DEF NoRecord
  <2>7. LookupFits(p)'
    BY <1>0, <1>2, <1>b, <2>3, <2>6 DEF Query, LookupFits, Looking
  <2> QED
    BY <1>0, <1>2, <2>1, <2>3, <2>4, <2>7 DEF Query, LookupTypesFit, Looking, WhoisTypeOK
<1>3. CASE QueryFails(p)
  <2>1. pc'[p] = "whois.read" /\ Goto(p, "whois.read")
    BY <1>0, <1>3 DEF QueryFails, Goto
  <2>2. WhoisTypeOK'
    BY <1>0, <1>3 DEF QueryFails, WhoisTypeOK
  <2>3. LookupFits(p)'
    BY <1>3, <1>b, <2>1 DEF QueryFails, LookupFits, Looking
  <2> QED
    BY <1>0, <1>3, <2>1, <2>2, <2>3 DEF QueryFails, LookupTypesFit, Looking, WhoisTypeOK
<1>4. CASE TruncateCache(p)
  <2>1. pc'[p] = "whois.write" /\ Goto(p, "whois.write")
    BY <1>0, <1>4 DEF TruncateCache, Goto
  <2>2. Address(p) \in IPs
    BY <1>0, <1>4, <1>a DEF TruncateCache, LookupFits
  <2>3. WhoisTypeOK'
    BY <1>0, <1>4, <2>2, FilesOfRecord DEF TruncateCache, WhoisTypeOK
  <2>4. LookupFits(p)'
    BY <1>0, <1>4, <1>b, <2>1 DEF TruncateCache, LookupFits, Looking
  <2> QED
    BY <1>4, <2>1, <2>3, <2>4 DEF TruncateCache, LookupTypesFit, Looking
<1>5. ASSUME Return(p), pc[p] \in {"whois.truncate", "whois.write"},
             cache' \in [IPs -> FileOf(Record)]
      PROVE  LookupTypesFit(p)
  <2>1. pc'[p] = "whois.read" /\ Goto(p, "whois.read")
    BY <1>0, <1>5 DEF Return, Goto
  <2>2. Address(p) \in IPs /\ answer[p] \in Record
    BY <1>0, <1>5, <1>a DEF LookupFits, WhoisTypeOK
  <2>3. answer[p].at \in 0..MaxTime
    BY <2>2 DEF Record
  <2>4. [record |-> answer[p], since |-> answer[p].at] \in Kept
    BY <2>2, <2>3, KeptTyped
  <2>5. WhoisTypeOK'
    BY <1>0, <1>5, <2>2, <2>4 DEF Return, Have, WhoisTypeOK
  <2>6. LookupFits(p)'
    BY <1>0, <1>5, <1>b, <2>1 DEF Return, LookupFits, Looking
  <2> QED
    BY <1>0, <1>5, <2>1, <2>5, <2>6 DEF Return, Have, LookupTypesFit, Looking, WhoisTypeOK
<1>6. CASE WriteCache(p)
  <2>1. PICK file \in Written(cache[Address(p)], answer[p]) :
          cache' = [cache EXCEPT ![Address(p)] = file]
    BY <1>6 DEF WriteCache
  <2>2. Address(p) \in IPs /\ answer[p] \in Record
    BY <1>0, <1>6, <1>a DEF WriteCache, LookupFits, WhoisTypeOK
  <2>3. cache' \in [IPs -> FileOf(Record)]
    BY <1>0, <2>1, <2>2, FilesOfRecord DEF WhoisTypeOK
  <2> QED
    BY <1>5, <1>6, <2>3 DEF WriteCache
<1>7. CASE CacheFails(p)
  BY <1>0, <1>5, <1>7 DEF CacheFails, WhoisTypeOK
<1>8. CASE KilledInLookup(p)
  <2>1. pc'[p] = "dead" /\ Goto(p, "dead")
    BY <1>0, <1>8 DEF KilledInLookup, Killed, Goto
  <2>2. WhoisTypeOK' /\ LookupFits(p)'
    BY <1>0, <1>8, <2>1 DEF KilledInLookup, whoisVars, WhoisTypeOK, LookupFits, Looking
  <2> QED
    BY <1>8, <2>1, <2>2 DEF KilledInLookup, whoisVars, LookupTypesFit
<1> QED
  BY <1>1, <1>2, <1>3, <1>4, <1>6, <1>7, <1>8 DEF LookupStep

\* A step of a lookup preserves all types.
LEMMA LookupTyped ==
  ASSUME TypeInv, NEW p \in Runs, LookupStep(p), UNCHANGED <<configVars, updateVars, settled, caught>>
  PROVE  TypeInv'
PROOF
<1>0. LookupTypesFit(p) /\ pc[p] \in Looking
  BY LookupStepTyped DEF LookupStep, ReadCache, Query, QueryFails, TruncateCache, WriteCache,
     CacheFails, KilledInLookup, Looking
<1>1. /\ RunTypes' /\ \A q \in Runs \ {p} : pc'[q] = pc[q]
      /\ pc'[p] \in Looking \cup {"dead"}
  BY <1>0 DEF TypeInv, RunTypes, LookupTypesFit, Goto, Steps, Ended
<1>2. ConfigTypeOK' /\ UpdateTypeOK' /\ NamesInv'
  BY DEF TypeInv, ConfigTypeOK, UpdateTypeOK, NamesInv, configVars, updateVars
<1>3. JobFits(p)'
  BY <1>1 DEF JobFits, Fetching, Copying, Looking
<1>4. ASSUME NEW q \in Runs \ {p} PROVE JobFits(q)' /\ LookupFits(q)'
  BY <1>0, <1>1, OthersFit DEF LookupTypesFit, updateVars
<1> QED
  BY <1>0, <1>1, <1>2, <1>3, <1>4 DEF TypeInv, LookupTypesFit

\* The lifetime in force is positive, whatever the setting.
LEMMA LifetimeForce ==
  ASSUME NEW c \in Settings
  PROVE  WHOISTTL(c) \in Int /\ WHOISTTL(c) > 0
PROOF
<1>1. c.hours \in Hours \cup {DefaultHours}
  BY DEF Settings
<1>2. DefaultHours \in Int /\ DefaultHours > 0
  BY HoursAssumption
<1>3. \A h \in Hours \cup {DefaultHours} : h \in Int
  BY <1>2, HoursAssumption
<1>4. c.hours \in Int
  BY <1>1, <1>3
<1> QED
  BY <1>2, <1>4 DEF WHOISTTL

\* The steps of an analysis between its lookups, and a command that finds no
\* configuration it can read.
LEMMA AnalysisTyped ==
  ASSUME TypeInv, NEW p \in Runs,
         \/ NoConfig(p) \/ Analyze(p)
         \/ \E enrich \in BOOLEAN : SetupGeoIP(p, enrich)
         \/ OpenDatabase(p) /\ UNCHANGED <<configVars, whoisVars, settled, caught>>
         \/ RunWHOIS(p) \/ SkipWHOIS(p) \/ EndLookups(p) \/ EndAnalysis(p)
         \/ KilledInAnalysis(p)
  PROVE  TypeInv'
PROOF
<1>0. /\ RunTypes /\ ConfigTypeOK /\ UpdateTypeOK /\ NamesInv /\ WhoisTypeOK
      /\ JobFits(p) /\ LookupFits(p) /\ pc \in [Runs -> Steps]
  BY DEF TypeInv, RunTypes
<1>1. ASSUME NEW s \in Steps \ (Fetching \cup {"update.truncate", "update.write", "idle"}
                               \cup Looking), Goto(p, s),
             RunTypes' /\ ConfigTypeOK' /\ UpdateTypeOK' /\ NamesInv' /\ WhoisTypeOK',
             s = "geoip" => looked'[p] = 0 /\ \A e \in Edition : opened'[p][e] = NoFile,
             s = "geoip.open" => looked'[p] < Len(Editions) /\ Unopened(p)',
             s \in {"geoip", "geoip.open", "whois"} => \A ip \in IPs : records'[p][ip] = NoRecord,
             UNCHANGED <<job, whoisVars>>,
             \A q \in Runs \ {p} : opened'[q] = opened[q] /\ looked'[q] = looked[q]
      PROVE  TypeInv'
  <2>1. pc'[p] = s /\ \A q \in Runs \ {p} : pc'[q] = pc[q]
    BY <1>0, <1>1 DEF Goto
  <2>2. JobFits(p)' /\ LookupFits(p)'
    BY <1>1, <2>1 DEF JobFits, LookupFits, Fetching, Copying, Looking
  <2>3. ASSUME NEW q \in Runs \ {p} PROVE JobFits(q)' /\ LookupFits(q)'
    BY <1>1, <2>1, OthersFit DEF whoisVars
  <2> QED
    BY <1>1, <2>2, <2>3 DEF TypeInv
<1>2. ASSUME NEW s \in {"whois", "report", "ok", "failed", "dead", "geoip", "geoip.open"}
      PROVE  s \in Steps \ (Fetching \cup {"update.truncate", "update.write", "idle"} \cup Looking)
  BY DEF Steps, Fetching, Copying, Looking, Analysing, Ended
<1>3. CASE NoConfig(p)
  <2>1. RunTypes' /\ ConfigTypeOK' /\ UpdateTypeOK' /\ NamesInv' /\ WhoisTypeOK'
    BY <1>0, <1>3 DEF NoConfig, Goto, RunTypes, ConfigTypeOK, UpdateTypeOK, NamesInv, WhoisTypeOK,
       configVars, updateVars, whoisVars, Steps, Ended
  <2> QED
    BY <1>1, <1>2, <1>3, <2>1 DEF NoConfig, updateVars
<1>4. CASE Analyze(p)
  <2>1. ConfigTypeOK' /\ settled' \in [Runs -> Settings]
    BY <1>0, <1>4, FilesOfSettings DEF Analyze, ConfigTypeOK, RunTypes
  <2>2. caught' \in [Runs -> BOOLEAN]
    BY <1>0, <1>4 DEF Analyze, RunTypes
  <2>3. pc' \in [Runs -> Steps]
    BY <1>0, <1>4 DEF Analyze, Goto, Steps, Analysing
  <2>4. UpdateTypeOK' /\ NamesInv' /\ WhoisTypeOK'
    BY <1>0, <1>4 DEF Analyze, UpdateTypeOK, NamesInv, WhoisTypeOK, updateVars, whoisVars
  <2>5. RunTypes'
    BY <2>1, <2>2, <2>3 DEF RunTypes
  <2>6. /\ looked'[p] = 0 /\ \A e \in Edition : opened'[p][e] = NoFile
        /\ \A ip \in IPs : records'[p][ip] = NoRecord
    BY <1>0, <1>4 DEF Analyze, JobFits, LookupFits, updateVars, whoisVars
  <2> QED
    BY <1>1, <1>2, <1>4, <2>1, <2>4, <2>5, <2>6 DEF Analyze, updateVars
<1>5. ASSUME NEW enrich \in BOOLEAN, SetupGeoIP(p, enrich) PROVE TypeInv'
  <2>1. PICK s \in {"report", "geoip.open", "whois"} : Goto(p, s)
    BY <1>5 DEF SetupGeoIP
  <2>2. /\ ConfigTypeOK' /\ UpdateTypeOK' /\ NamesInv' /\ WhoisTypeOK'
    BY <1>0, <1>5 DEF SetupGeoIP, UpdateTypeOK, NamesInv, ConfigTypeOK, WhoisTypeOK, configVars,
       updateVars, whoisVars
  <2>3. RunTypes'
    BY <1>0, <1>5, <2>1 DEF SetupGeoIP, Goto, RunTypes, Steps, Analysing
  <2>4. /\ \A ip \in IPs : records'[p][ip] = NoRecord
        /\ looked[p] = 0 /\ \A e \in Edition : opened[p][e] = NoFile
    BY <1>0, <1>5 DEF SetupGeoIP, LookupFits, JobFits, whoisVars
  <2>5. looked'[p] < Len(Editions) /\ Unopened(p)'
    BY <1>5, <2>4, UpdateFacts DEF SetupGeoIP, Unopened, updateVars
  <2> QED
    BY <1>1, <1>2, <1>5, <2>1, <2>2, <2>3, <2>4, <2>5 DEF SetupGeoIP, updateVars
<1>11. CASE OpenDatabase(p) /\ UNCHANGED <<configVars, whoisVars, settled, caught>>
  <2> DEFINE e == Editions[looked[p] + 1]
  <2>1. /\ looked[p] \in 0..Len(Editions) /\ looked[p] < Len(Editions) /\ Unopened(p)
        /\ e \in Edition
        /\ \A ip \in IPs : records[p][ip] = NoRecord
    <3>1. pc[p] = "geoip.open" /\ looked[p] \in 0..Len(Editions)
      BY <1>0, <1>11 DEF OpenDatabase, UpdateTypeOK
    <3>2. looked[p] < Len(Editions) /\ Unopened(p)
      BY <1>0, <3>1 DEF JobFits
    <3>3. looked[p] + 1 \in DOMAIN Editions
      BY <3>1, <3>2, UpdateFacts
    <3> QED
      BY <1>0, <3>1, <3>2, <3>3, UpdateFacts DEF LookupFits
  <2>2. /\ ConfigTypeOK' /\ WhoisTypeOK' /\ \A ip \in IPs : records'[p][ip] = NoRecord
    BY <1>0, <1>11, <2>1 DEF ConfigTypeOK, WhoisTypeOK, configVars, whoisVars
  <2>3. CASE /\ opened' = [opened EXCEPT ![p][e] = installed[e]]
             /\ looked' = [looked EXCEPT ![p] = @ + 1]
             /\ Goto(p, IF looked'[p] = Len(Editions) THEN "whois" ELSE "geoip.open")
    <3>1. /\ looked'[p] = looked[p] + 1 /\ looked' \in [Runs -> 0..Len(Editions)]
          /\ \A q \in Runs \ {p} : looked'[q] = looked[q] /\ opened'[q] = opened[q]
      BY <1>0, <2>1, <2>3, UpdateFacts DEF UpdateTypeOK
    <3>2. opened' \in [Runs -> [Edition -> Inodes \cup {NoFile}]]
      BY <1>0, <2>1, <2>3 DEF UpdateTypeOK
    <3>3. UpdateTypeOK'
      BY <1>0, <1>11, <3>1, <3>2 DEF OpenDatabase, UpdateTypeOK
    <3>4. \A f \in Edition : opened'[p][f] = IF f = e THEN installed[e] ELSE opened[p][f]
      BY <1>0, <2>1, <2>3 DEF UpdateTypeOK
    <3>5. NamesInv'
      BY <1>0, <1>11, <2>1, <3>1, <3>4 DEF OpenDatabase, NamesInv
    <3>6. PICK s \in {"whois", "geoip.open"} :
            Goto(p, s) /\ (s = "geoip.open" => looked'[p] # Len(Editions))
      BY <2>3
    <3>7. RunTypes'
      BY <1>0, <1>11, <3>6 DEF Goto, RunTypes, Steps, Analysing
    <3>8. ASSUME s = "geoip.open" PROVE looked'[p] < Len(Editions) /\ Unopened(p)'
      <4>1. looked'[p] < Len(Editions)
        BY <2>1, <3>1, <3>6, <3>8, UpdateFacts
      <4>2. ASSUME NEW i \in DOMAIN Editions, i > looked[p] + 1 PROVE opened'[p][Editions[i]] = NoFile
        <5>1. looked[p] + 1 \in DOMAIN Editions /\ i # looked[p] + 1 /\ i > looked[p]
          BY <2>1, <4>2, UpdateFacts
        <5>2. Editions[i] # e
          BY <5>1, EditionsAssumption
        <5>3. opened[p][Editions[i]] = NoFile
          BY <2>1, <5>1 DEF Unopened
        <5> QED
          BY <3>4, <5>2, <5>3, UpdateFacts
      <4> QED
        BY <3>1, <4>1, <4>2 DEF Unopened
    <3> QED
      BY <1>1, <1>2, <1>11, <2>2, <3>1, <3>3, <3>5, <3>6, <3>7, <3>8 DEF OpenDatabase
  <2>4. CASE CloseDatabases(p) /\ Goto(p, "whois") /\ UNCHANGED looked
    <3>1. UpdateTypeOK' /\ NamesInv' /\ \A q \in Runs \ {p} : opened'[q] = opened[q]
      BY <1>0, <1>11, <2>4 DEF OpenDatabase, CloseDatabases, UpdateTypeOK, NamesInv
    <3>2. RunTypes'
      BY <1>0, <1>11, <2>4 DEF Goto, RunTypes, Steps, Analysing
    <3> QED
      BY <1>1, <1>2, <1>11, <2>2, <2>4, <3>1, <3>2 DEF OpenDatabase
  <2> QED
    BY <1>11, <2>3, <2>4 DEF OpenDatabase
<1>6. CASE RunWHOIS(p)
  <2>1. PICK targets \in SUBSET IPs : StartLookups(p, targets, WHOISTTL(cfg[p]))
    BY <1>6 DEF RunWHOIS
  <2>2. WHOISTTL(cfg[p]) \in Int /\ WHOISTTL(cfg[p]) > 0
    BY <1>0, LifetimeForce DEF ConfigTypeOK
  <2>3. WhoisTypeOK' /\ lifetime'[p] > 0
    BY <1>0, <2>1, <2>2 DEF StartLookups, WhoisTypeOK
  <2>4. /\ RunTypes' /\ ConfigTypeOK' /\ UpdateTypeOK' /\ NamesInv'
        /\ pc'[p] = "whois.read" /\ \A q \in Runs \ {p} : pc'[q] = pc[q]
    BY <1>0, <1>6 DEF RunWHOIS, Goto, RunTypes, ConfigTypeOK, UpdateTypeOK, NamesInv, configVars,
       updateVars, Steps, Looking
  <2>5. JobFits(p)' /\ LookupFits(p)'
    BY <2>3, <2>4 DEF JobFits, LookupFits, Fetching, Copying, Looking
  <2>6. \A q \in Runs \ {p} : /\ todo'[q] = todo[q] /\ answer'[q] = answer[q]
                              /\ lifetime'[q] = lifetime[q] /\ records'[q] = records[q]
    BY <1>0, <2>1 DEF StartLookups, WhoisTypeOK
  <2>7. ASSUME NEW q \in Runs \ {p} PROVE JobFits(q)' /\ LookupFits(q)'
    BY <1>6, <2>4, <2>6, OthersFit DEF RunWHOIS, updateVars
  <2> QED
    BY <2>3, <2>4, <2>5, <2>7 DEF TypeInv
<1>7. CASE SkipWHOIS(p)
  <2>1. RunTypes' /\ ConfigTypeOK' /\ UpdateTypeOK' /\ NamesInv' /\ WhoisTypeOK'
    BY <1>0, <1>7 DEF SkipWHOIS, Goto, RunTypes, ConfigTypeOK, UpdateTypeOK, NamesInv, WhoisTypeOK,
       configVars, updateVars, whoisVars, Steps, Analysing
  <2> QED
    BY <1>1, <1>2, <1>7, <2>1 DEF SkipWHOIS, updateVars
<1>8. CASE EndLookups(p)
  <2>1. RunTypes' /\ ConfigTypeOK' /\ UpdateTypeOK' /\ NamesInv' /\ WhoisTypeOK'
    BY <1>0, <1>8 DEF EndLookups, Goto, RunTypes, ConfigTypeOK, UpdateTypeOK, NamesInv, WhoisTypeOK,
       configVars, updateVars, whoisVars, Steps, Analysing
  <2> QED
    BY <1>1, <1>2, <1>8, <2>1 DEF EndLookups, updateVars
<1>9. CASE EndAnalysis(p)
  <2>1. UpdateTypeOK' /\ NamesInv' /\ \A q \in Runs \ {p} : opened'[q] = opened[q]
    BY <1>0, <1>9 DEF EndAnalysis, CloseDatabases, UpdateTypeOK, NamesInv
  <2>2. RunTypes' /\ ConfigTypeOK' /\ WhoisTypeOK'
    BY <1>0, <1>9 DEF EndAnalysis, Goto, RunTypes, ConfigTypeOK, WhoisTypeOK, configVars, whoisVars,
       Steps, Ended
  <2> QED
    BY <1>1, <1>2, <1>9, <2>1, <2>2 DEF EndAnalysis
<1>10. CASE KilledInAnalysis(p)
  <2>1. RunTypes' /\ ConfigTypeOK' /\ UpdateTypeOK' /\ NamesInv' /\ WhoisTypeOK'
    BY <1>0, <1>10 DEF KilledInAnalysis, Killed, Goto, RunTypes, ConfigTypeOK, UpdateTypeOK, NamesInv,
       WhoisTypeOK, configVars, updateVars, whoisVars, Steps, Ended
  <2> QED
    BY <1>1, <1>2, <1>10, <2>1 DEF KilledInAnalysis, Killed, updateVars
<1> QED
  BY <1>3, <1>4, <1>5, <1>6, <1>7, <1>8, <1>9, <1>10, <1>11

\* What happens outside the commands.
LEMMA OutsideTyped ==
  ASSUME TypeInv,
         \/ Publish /\ UNCHANGED <<configVars, whoisVars, settled, caught>>
         \/ Tick /\ UNCHANGED <<configVars, updateVars, settled, caught>>
         \/ UNCHANGED vars
  PROVE  TypeInv'
PROOF
<1>1. RunTypes' /\ ConfigTypeOK' /\ NamesInv'
  BY DEF TypeInv, RunTypes, ConfigTypeOK, NamesInv, Publish, Tick, vars, configVars, updateVars
<1>2. UpdateTypeOK'
  BY UpdateFacts DEF TypeInv, UpdateTypeOK, Publish, Tick, vars, updateVars
<1>3. WhoisTypeOK'
  BY TimeAssumption DEF TypeInv, WhoisTypeOK, Publish, Tick, vars, whoisVars
<1>4. \A q \in Runs : JobFits(q)' /\ LookupFits(q)'
  BY OthersFit DEF Publish, Tick, vars, updateVars, whoisVars
<1> QED
  BY <1>1, <1>2, <1>3, <1>4 DEF TypeInv

\* The types hold at first.
LEMMA TypeInvInitially == Init => TypeInv
PROOF
<1> SUFFICES ASSUME Init PROVE TypeInv
  OBVIOUS
<1> USE DEF Init
<1>1. RunTypes
  BY FilesOfSettings DEF RunTypes, Steps
<1>2. ConfigTypeOK
  BY FilesOfSettings, BeforeAssumption DEF ConfigInit, ConfigTypeOK, FileOf
<1>3. \A e \in Edition : 0 \in 0..MaxVersion
  BY UpdateFacts
<1>4. Idle \in Job /\ Idle.next = 1 /\ \A e \in Edition : Idle.entries[e] = 0
  BY <1>3, UpdateFacts DEF Idle, Job, Recorded
<1>5. UpdateTypeOK
  <2>1. published \in 1..MaxVersion /\ inode \in [Inodes -> [1..Chunks -> 0..MaxVersion]]
    BY UpdateFacts DEF UpdateInit
  <2>2. job \in [Runs -> Job]
    BY <1>4 DEF UpdateInit
  <2> QED
    BY <2>1, <2>2, FilesOfRecorded DEF UpdateInit, UpdateTypeOK
<1>6. NamesInv
  BY DEF UpdateInit, NamesInv
<1>7. WhoisTypeOK
  BY TimeAssumption, FilesOfRecord DEF WhoisInit, WhoisTypeOK
<1>8. ASSUME NEW q \in Runs PROVE JobFits(q) /\ LookupFits(q)
  BY <1>4 DEF JobFits, LookupFits, UpdateInit, WhoisInit, Fetching, Copying, Looking
<1> QED
  BY <1>1, <1>2, <1>5, <1>6, <1>7, <1>8 DEF TypeInv

\* Every step preserves them.
LEMMA TypeInvPreserved == TypeInv /\ [Next]_vars => TypeInv'
PROOF
<1> SUFFICES ASSUME TypeInv, [Next]_vars PROVE TypeInv'
  OBVIOUS
<1>1. ASSUME NEW p \in Runs, Command(p) PROVE TypeInv'
  <2>1. CASE UpdateStep(p) /\ UNCHANGED <<configVars, whoisVars, settled, caught>>
    BY <2>1, UpdateStepTyped, UpdateTyped
  <2> QED
    BY <1>1, <2>1, ConfigTyped, LookupTyped, StartTyped, AnalysisTyped DEF Command
<1> QED
  BY <1>1, OutsideTyped DEF Next

\* Whatever the editions, settings, addresses and runs, and however many runs
\* are alive, every variable has the type TypeOK gives it.
THEOREM Typed == Spec => []TypeOK
PROOF
<1>1. TypeInv => TypeOK
  BY DEF TypeInv, TypeOK, RunTypes, Steps
<1> QED
  BY <1>1, TypeInvInitially, TypeInvPreserved, PTL DEF Spec

-----------------------------------------------------------------------------
(* Where a run is taken by each part of a command. *)

Moves(p, from, to) ==
  /\ pc[p] \in from /\ pc'[p] \in to
  /\ \A q \in Runs \ {p} : pc'[q] = pc[q]

\* A configuration command stays a configuration command, or ends.
LEMMA ConfigMoves ==
  ASSUME TypeInv, NEW p \in Runs, ConfigStep(p)
  PROVE  Moves(p, Saving \cup {"idle"}, Saving \cup Ended)
PROOF
<1>1. pc \in [Runs -> Steps]
  BY DEF TypeInv, RunTypes
<1>2. \A s : Goto(p, s) => pc'[p] = s /\ \A q \in Runs \ {p} : pc'[q] = pc[q]
  BY <1>1 DEF Goto
<1> QED
  BY <1>2 DEF ConfigStep, SetConfig, RefuseSet, StartSaving, InitConfig, KeepConfig, TruncateConfig,
     WriteConfig, SaveFails, KilledInConfig, Killed, Moves, Saving, Ended

\* An update stays an update, or ends.
LEMMA UpdateMoves ==
  ASSUME TypeInv, NEW p \in Runs
  PROVE  /\ UpdateStep(p) => Moves(p, Updating, Updating \cup Ended)
         /\ Update(p) => Moves(p, {"idle"}, Updating \cup Ended)
PROOF
<1>1. pc \in [Runs -> Steps]
  BY DEF TypeInv, RunTypes
<1>2. \A s : Goto(p, s) => pc'[p] = s /\ \A q \in Runs \ {p} : pc'[q] = pc[q]
  BY <1>1 DEF Goto
<1>3. UpdateStep(p) => pc[p] \in Updating
  BY DEF UpdateStep, Download, NoArchive, OpenTemporary, CopyPart, CopyFails, Install, InstallFails,
     TruncateManifest, WriteManifest, SaveManifestFails, KilledInUpdate, Updating
<1>4. UpdateStep(p) => Moves(p, Updating, Updating \cup Ended)
  BY <1>2, <1>3, UpdateStepTyped DEF UpdateFits, Moves
<1>5. Update(p) => Moves(p, {"idle"}, Updating \cup Ended)
  BY <1>2 DEF Update, StartUpdate, RefuseUpdate, Moves, Updating, Ended
<1> QED
  BY <1>4, <1>5

\* A lookup goes on, or ends with its analysis.
LEMMA LookupMoves ==
  ASSUME TypeInv, NEW p \in Runs, LookupStep(p)
  PROVE  Moves(p, Looking, Looking \cup Ended)
PROOF
<1>1. pc \in [Runs -> Steps]
  BY DEF TypeInv, RunTypes
<1>2. \A s : Goto(p, s) => pc'[p] = s /\ \A q \in Runs \ {p} : pc'[q] = pc[q]
  BY <1>1 DEF Goto
<1>3. pc[p] \in Looking
  BY DEF LookupStep, ReadCache, Query, QueryFails, TruncateCache, WriteCache, CacheFails,
     KilledInLookup, Looking
<1> QED
  BY <1>2, <1>3, LookupStepTyped DEF LookupTypesFit, Moves, Ended

\* Where the steps of an analysis and a failed command lead.
LEMMA AnalysisMoves ==
  ASSUME TypeInv, NEW p \in Runs
  PROVE  /\ NoConfig(p) => Moves(p, {"idle"}, Ended)
         /\ Analyze(p) => Moves(p, {"idle"}, {"geoip"})
         /\ \A enrich \in BOOLEAN : SetupGeoIP(p, enrich) => Moves(p, {"geoip"}, {"geoip.open", "whois", "report"})
         /\ OpenDatabase(p) => Moves(p, {"geoip.open"}, {"geoip.open", "whois"})
         /\ RunWHOIS(p) => Moves(p, {"whois"}, {"whois.read"})
         /\ SkipWHOIS(p) => Moves(p, {"whois"}, {"report"})
         /\ EndLookups(p) => Moves(p, Looking, {"report"})
         /\ EndAnalysis(p) => Moves(p, {"report"}, Ended)
         /\ KilledInAnalysis(p) => Moves(p, Analysing, Ended)
PROOF
<1>1. pc \in [Runs -> Steps]
  BY DEF TypeInv, RunTypes
<1>2. \A s : Goto(p, s) => pc'[p] = s /\ \A q \in Runs \ {p} : pc'[q] = pc[q]
  BY <1>1 DEF Goto
<1> QED
  BY <1>2 DEF NoConfig, Analyze, SetupGeoIP, OpenDatabase, RunWHOIS, SkipWHOIS, EndLookups, EndAnalysis,
     KilledInAnalysis, Killed, Moves, Looking, Ended, Analysing

-----------------------------------------------------------------------------
(* Settings.  A run that is about to save carries, of every setting that   *)
(* is not lost, what the changes done so far have left of it; what two     *)
(* runs that save at once were asked for is lost; and a file that somebody *)
(* is about to write is empty, or written over by somebody else.           *)

Carries(p) ==
  /\ \/ request[p] = NoRequest /\ cfg[p] = Default
     \/ request[p][1] \in Keys /\ cfg[p][request[p][1]] = request[p][2]
  /\ \A key \in Keys \ (lost \cup Asked(p)) : cfg[p][key] = wanted[key]

\* What the file holds, whenever it is not empty.
Held ==
  configFile # Empty =>
    /\ lost = {} => Readable(configFile)
    /\ Readable(configFile) => \A key \in Keys \ lost : Loaded(configFile)[key] = wanted[key]

SavingInv ==
  /\ \A p \in Runs : pc[p] = "idle" => request[p] = NoRequest
  /\ \A p \in Runs : pc[p] \in Saving => Carries(p)
  /\ \A p, q \in Runs : p # q /\ pc[p] \in Saving /\ pc[q] \in Saving => Asked(p) \cup Asked(q) \subseteq lost
  /\ \A p \in Runs : pc[p] = "config.write" => configFile \in {Empty, Whole(cfg[p])} \/ lost # {}
  /\ configFile = Empty => lost = Keys \/ \E p \in Runs : pc[p] = "config.write"
  /\ Held

\* What an analysis acts on is what it read, and what it read was settled.
AskingInv ==
  \A p \in Runs :
    /\ pc[p] \in {"geoip", "geoip.open", "whois"} \cup Looking
         => cfg[p].whois = settled[p].whois \/ caught[p]
    /\ pc[p] \in Looking => cfg[p].whois

-----------------------------------------------------------------------------
(* Settings. *)

\* The keys of settings, and what changing one of them does.
LEMMA KeysOfSettings ==
  /\ Keys = {"license", "geoip", "whois", "hours"} /\ "none" \notin Keys
  /\ \A c \in Settings : DOMAIN c = Keys
  /\ \A c \in Settings : \A value : \A key, other \in Keys :
       ApplySet(c, key, value)[other] = IF other = key THEN value ELSE c[other]
PROOF
<1>1. Keys = {"license", "geoip", "whois", "hours"}
  BY DEF Keys, Default
<1>2. \A c \in Settings : DOMAIN c = Keys
  BY <1>1 DEF Settings
<1>3. ASSUME NEW c \in Settings, NEW value, NEW key \in Keys, NEW other \in Keys
      PROVE  ApplySet(c, key, value)[other] = IF other = key THEN value ELSE c[other]
  <2>1. c = [k \in Keys |-> c[k]]
    BY <1>1 DEF Settings
  <2> QED
    BY <2>1 DEF ApplySet
<1> QED
  BY <1>1, <1>2, <1>3

\* What a run was asked for is a setting, or nothing.
LEMMA AskedFits ==
  ASSUME ConfigTypeOK, NEW p \in Runs
  PROVE  /\ Asked(p) \subseteq Keys
         /\ request[p] = NoRequest => Asked(p) = {}
         /\ request[p][1] \in Keys => Asked(p) = {request[p][1]}
         /\ request[p] # NoRequest => request[p][1] \in Keys
PROOF
<1>1. request[p] # NoRequest => request[p][1] \in Keys
  BY DEF ConfigTypeOK, Valid, Keys
<1>2. request[p] = NoRequest => request[p][1] = "none"
  BY DEF NoRequest
<1>3. request[p][1] \notin Keys => Asked(p) = {}
  BY DEF Asked
<1>4. request[p][1] \in Keys => Asked(p) = {request[p][1]}
  BY DEF Asked
<1>5. Asked(p) \subseteq Keys
  BY DEF Asked
<1> QED
  BY <1>1, <1>2, <1>3, <1>4, <1>5, KeysOfSettings

\* The invariant of saving holds at first.
LEMMA SavingInitially == Init => SavingInv
PROOF
<1> SUFFICES ASSUME Init PROVE SavingInv
  OBVIOUS
<1>1. \A p \in Runs : pc[p] = "idle" /\ request[p] = NoRequest
  BY DEF Init, ConfigInit
<1>2. Readable(configFile) /\ Loaded(configFile) = wanted /\ configFile # Empty
  BY DEF Init, ConfigInit, Readable, Loaded, Absent, Garbled, Whole, Empty
<1> QED
  BY <1>1, <1>2 DEF SavingInv, Saving, Held

\* What an unchanged file holds is not affected by more being lost.
LEMMA HeldStill ==
  ASSUME Held, lost \subseteq lost', UNCHANGED <<configFile, wanted>>
  PROVE  Held'
PROOF
  BY DEF Held

\* Nor is what a run carries.
LEMMA CarriesStill ==
  ASSUME NEW p \in Runs, Carries(p), lost \subseteq lost', UNCHANGED wanted,
         cfg'[p] = cfg[p], request'[p] = request[p]
  PROVE  Carries(p)'
PROOF
  BY DEF Carries, Asked

\* A command that goes on to save has applied its change to what it read.
LEMMA SavingStarts ==
  ASSUME TypeInv, SavingInv, NEW p \in Runs, pc[p] = "idle", NEW c, StartSaving(p, c),
         Readable(configFile),
         \/ request' = request /\ c = Default /\ configFile = Absent
         \/ \E r \in Requests : /\ Valid(r[1], r[2])
                                /\ request' = [request EXCEPT ![p] = <<r[1], r[2]>>]
                                /\ c = ApplySet(Loaded(configFile), r[1], r[2])
  PROVE  SavingInv'
PROOF
<1>0. /\ pc \in [Runs -> Steps] /\ DOMAIN request = Runs /\ cfg \in [Runs -> Settings]
      /\ configFile \in FileOf(Settings) /\ lost \subseteq Keys
      /\ request[p] = NoRequest
  BY DEF TypeInv, RunTypes, ConfigTypeOK, SavingInv
<1>1. /\ pc'[p] = "config.open" /\ \A q \in Runs \ {p} : pc'[q] = pc[q]
      /\ cfg'[p] = c /\ \A q \in Runs \ {p} : cfg'[q] = cfg[q]
      /\ wanted' = wanted /\ configFile' = configFile
  BY <1>0 DEF StartSaving, Goto
<1>2. \A q \in Runs \ {p} : request'[q] = request[q] /\ Asked(q)' = Asked(q)
  BY <1>0 DEF Asked
<1>3. \A q \in Runs : Asked(q) \subseteq Keys /\ Asked(q)' \subseteq Keys
  BY DEF Asked
<1>4. /\ configFile = Empty => lost' = Keys
      /\ lost \subseteq lost'
      /\ \A q \in Runs \ {p} : pc[q] \in Saving => Asked(p)' \cup Asked(q) \subseteq lost'
  <2> DEFINE others == {q \in Runs \ {p} : pc[q] \in Saving}
  <2>1. lost' = IF configFile = Empty THEN Keys
                ELSE IF others = {} THEN lost ELSE lost \cup Asked(p)' \cup UNION {Asked(q) : q \in others}
    BY DEF StartSaving
  <2>2. CASE configFile = Empty
    BY <1>0, <1>3, <2>1, <2>2
  <2>3. CASE configFile # Empty
    <3>1. ASSUME NEW q \in Runs \ {p}, pc[q] \in Saving
          PROVE  Asked(p)' \cup Asked(q) \subseteq lost'
      <4>1. q \in others
        BY <3>1
      <4>2. Asked(q) \subseteq UNION {Asked(r) : r \in others}
        BY <4>1
      <4> QED
        BY <2>1, <2>3, <4>1, <4>2
    <3> QED
      BY <2>1, <2>3, <3>1
  <2> QED
    BY <2>2, <2>3
<1>5. \A q \in Runs : pc'[q] = "idle" => request'[q] = NoRequest
  BY <1>1, <1>2 DEF SavingInv
<1>6. Carries(p)'
  <2>1. CASE request' = request /\ c = Default /\ configFile = Absent
    <3>1. \A key \in Keys \ lost : Default[key] = wanted[key]
      BY <2>1 DEF SavingInv, Held, Readable, Loaded, Absent, Empty, Garbled
    <3> QED
      BY <1>0, <1>1, <1>4, <2>1, <3>1 DEF Carries
  <2>2. ASSUME NEW r \in Requests, Valid(r[1], r[2]),
               request' = [request EXCEPT ![p] = <<r[1], r[2]>>],
               c = ApplySet(Loaded(configFile), r[1], r[2])
        PROVE  Carries(p)'
    <3>1. r[1] \in Keys /\ Loaded(configFile) \in Settings
      BY <1>0, <2>2, FilesOfSettings DEF Valid, Keys
    <3>2. request'[p][1] = r[1] /\ request'[p][2] = r[2]
      BY <1>0, <2>2
    <3>3. Asked(p)' = {r[1]}
      BY <3>1, <3>2 DEF Asked
    <3>4. ASSUME NEW key \in Keys \ (lost' \cup {r[1]}) PROVE c[key] = wanted[key]
      <4>1. c[key] = Loaded(configFile)[key]
        BY <2>2, <3>1, <3>4, KeysOfSettings
      <4>2. configFile # Empty /\ key \in Keys \ lost
        BY <1>4, <3>4
      <4>3. Loaded(configFile)[key] = wanted[key]
        BY <4>2 DEF SavingInv, Held
      <4> QED
        BY <4>1, <4>3
    <3>5. c[r[1]] = r[2]
      BY <2>2, <3>1, KeysOfSettings
    <3> QED
      BY <1>1, <3>1, <3>2, <3>3, <3>4, <3>5 DEF Carries
  <2> QED
    BY <2>1, <2>2
<1>7. ASSUME NEW q \in Runs, pc'[q] \in Saving PROVE Carries(q)'
  <2>1. CASE q = p
    BY <1>6, <2>1
  <2>2. CASE q # p
    <3>1. Carries(q)
      BY <1>1, <1>7, <2>2 DEF SavingInv
    <3> QED
      BY <1>1, <1>2, <1>4, <2>2, <3>1, CarriesStill
  <2> QED
    BY <2>1, <2>2
<1>8. \A a, b \in Runs : a # b /\ pc'[a] \in Saving /\ pc'[b] \in Saving => Asked(a)' \cup Asked(b)' \subseteq lost'
  BY <1>1, <1>2, <1>4 DEF SavingInv
<1>9. \A q \in Runs : pc'[q] = "config.write" => configFile' \in {Empty, Whole(cfg'[q])} \/ lost' # {}
  BY <1>1, <1>4 DEF SavingInv
<1>10. configFile' = Empty => lost' = Keys
  BY <1>1, <1>4
<1>11. Held'
  BY <1>1, <1>4, HeldStill DEF SavingInv
<1> QED
  BY <1>5, <1>7, <1>8, <1>9, <1>10, <1>11 DEF SavingInv

\* A step that does not save.
LEMMA SavingElsewhere ==
  ASSUME SavingInv, NEW p \in Runs, Moves(p, Steps \ Saving, Steps \ (Saving \cup {"idle"})),
         UNCHANGED <<configFile, request, wanted, lost>>,
         \A q \in Runs \ {p} : cfg'[q] = cfg[q]
  PROVE  SavingInv'
PROOF
<1>1. /\ p \in Runs /\ pc[p] \notin Saving /\ pc'[p] \notin Saving \cup {"idle"}
      /\ \A q \in Runs \ {p} : pc'[q] = pc[q]
  BY DEF Moves
<1>2. \A q \in Runs : Asked(q)' = Asked(q)
  BY DEF Asked
<1>3. \A q \in Runs : pc'[q] \in Saving => Carries(q)'
  BY <1>1, CarriesStill DEF SavingInv
<1>4. Held'
  BY HeldStill DEF SavingInv
<1>5. \A q \in Runs : pc[q] = "config.write" <=> pc'[q] = "config.write"
  BY <1>1 DEF Saving
<1>6. \A q \in Runs : pc'[q] = "config.write" => configFile' \in {Empty, Whole(cfg'[q])} \/ lost' # {}
  BY <1>1 DEF SavingInv, Saving
<1>7. \A q \in Runs : pc'[q] = "idle" => request'[q] = NoRequest
  BY <1>1 DEF SavingInv
<1> QED
  BY <1>1, <1>2, <1>3, <1>4, <1>5, <1>6, <1>7 DEF SavingInv

\* A step that leaves the configuration and every run's place alone.
LEMMA SavingUntouched ==
  ASSUME SavingInv, pc' = pc, UNCHANGED configVars
  PROVE  SavingInv'
PROOF
  BY DEF SavingInv, Held, Carries, Asked, configVars

\* A save that leaves its two steps without the write.
LEMMA SavingEnds ==
  ASSUME TypeInv, SavingInv, NEW p \in Runs, pc[p] \in Saving, Moves(p, Saving, Ended), CutShort(p),
         UNCHANGED <<configFile, cfg, request, wanted>>
  PROVE  SavingInv'
PROOF
<1>1. /\ pc'[p] \notin Saving \cup {"idle"} /\ \A q \in Runs \ {p} : pc'[q] = pc[q]
      /\ lost \subseteq Keys
  BY DEF Moves, Saving, Ended, TypeInv, ConfigTypeOK
<1>2. lost \subseteq lost'
  BY <1>1 DEF CutShort
<1>3. \A q \in Runs : Asked(q)' = Asked(q)
  BY DEF Asked
<1>4. \A q \in Runs : pc'[q] \in Saving => Carries(q)'
  BY <1>1, <1>2, CarriesStill DEF SavingInv
<1>5. Held'
  BY <1>2, HeldStill DEF SavingInv
<1>6. configFile' = Empty => lost' = Keys \/ \E q \in Runs : pc'[q] = "config.write"
  <2>1. CASE pc[p] = "config.write"
    BY <2>1 DEF CutShort
  <2>2. CASE pc[p] # "config.write"
    BY <1>1, <2>2 DEF SavingInv, CutShort
  <2> QED
    BY <2>1, <2>2
<1>7. \A q \in Runs : pc'[q] = "config.write" => configFile' \in {Empty, Whole(cfg'[q])} \/ lost' # {}
  BY <1>1, <1>2 DEF SavingInv, Saving
<1>8. \A q \in Runs : pc'[q] = "idle" => request'[q] = NoRequest
  BY <1>1 DEF SavingInv
<1> QED
  BY <1>1, <1>2, <1>3, <1>4, <1>5, <1>6, <1>7, <1>8 DEF SavingInv

\* A write brings back what it was asked for, unless another is to follow.
LEMMA SavingWrites ==
  ASSUME TypeInv, SavingInv, NEW p \in Runs, WriteConfig(p)
  PROVE  SavingInv'
PROOF
<1>0. /\ pc \in [Runs -> Steps] /\ ConfigTypeOK /\ cfg \in [Runs -> Settings] /\ wanted \in Settings
  BY DEF TypeInv, RunTypes, ConfigTypeOK
<1>1. /\ pc[p] = "config.write" /\ pc'[p] = "ok" /\ \A q \in Runs \ {p} : pc'[q] = pc[q]
      /\ configFile' \in Written(configFile, cfg[p])
      /\ UNCHANGED <<cfg, request>>
      /\ lost' = IF OtherAt(p, Saving) \/ ~Readable(configFile') THEN lost ELSE lost \ Asked(p)
  BY <1>0 DEF WriteConfig, Goto
<1>2. \A q \in Runs : Asked(q)' = Asked(q)
  BY <1>1 DEF Asked
<1>3. pc[p] \in Saving /\ Carries(p)
  BY <1>1 DEF SavingInv, Saving
<1>4. /\ \A key \in Keys \ Asked(p) : wanted'[key] = wanted[key]
      /\ \A key \in Asked(p) : cfg[p][key] = wanted'[key]
  <2>1. CASE request[p] = NoRequest
    BY <1>0, <2>1, AskedFits DEF WriteConfig
  <2>2. CASE request[p] # NoRequest
    <3>1. request[p][1] \in Keys /\ Asked(p) = {request[p][1]}
      BY <1>0, <2>2, AskedFits
    <3>2. wanted' = ApplySet(wanted, request[p][1], request[p][2])
      BY <2>2 DEF WriteConfig
    <3>3. cfg[p][request[p][1]] = request[p][2]
      BY <1>3, <2>2 DEF Carries
    <3> QED
      BY <1>0, <3>1, <3>2, <3>3, KeysOfSettings
  <2> QED
    BY <2>1, <2>2
<1>5. \A key \in Keys \ lost' : cfg[p][key] = wanted'[key]
  BY <1>1, <1>3, <1>4 DEF Carries
<1>6. /\ configFile' # Empty
      /\ configFile' = Whole(cfg[p]) \/ (configFile' = Garbled /\ configFile \notin {Empty, Whole(cfg[p])})
  BY <1>1 DEF Written, Whole, Garbled, Empty
<1>7. Held'
  <2>1. CASE configFile' = Whole(cfg[p])
    <3>1. Readable(configFile') /\ Loaded(configFile') = cfg[p]
      BY <2>1 DEF Readable, Loaded, Whole, Garbled
    <3> QED
      BY <1>5, <3>1 DEF Held
  <2>2. CASE configFile' = Garbled /\ configFile \notin {Empty, Whole(cfg[p])}
    <3>1. lost # {}
      BY <1>1, <2>2 DEF SavingInv
    <3>2. ~Readable(configFile') /\ lost' = lost
      BY <1>1, <2>2 DEF Readable
    <3> QED
      BY <3>1, <3>2 DEF Held
  <2> QED
    BY <1>6, <2>1, <2>2
<1>8. ASSUME NEW q \in Runs, pc'[q] \in Saving
      PROVE  /\ q # p /\ pc[q] \in Saving /\ lost' = lost /\ Asked(p) \cup Asked(q) \subseteq lost
             /\ Carries(q)'
  <2>1. q # p /\ pc[q] \in Saving
    BY <1>1, <1>8 DEF Saving
  <2>2. lost' = lost
    BY <1>1, <2>1 DEF OtherAt
  <2>3. Asked(p) \cup Asked(q) \subseteq lost
    BY <1>3, <2>1 DEF SavingInv
  <2>4. Carries(q)
    BY <2>1 DEF SavingInv
  <2>5. Carries(q)'
    BY <1>1, <1>2, <1>4, <2>2, <2>3, <2>4 DEF Carries
  <2> QED
    BY <2>1, <2>2, <2>3, <2>5
<1>9. ASSUME NEW q \in Runs, pc'[q] = "config.write"
      PROVE  configFile' \in {Empty, Whole(cfg'[q])} \/ lost' # {}
  <2>1. SUFFICES ASSUME lost = {} PROVE configFile' = Whole(cfg[q])
    BY <1>1, <1>8, <1>9 DEF Saving
  <2>2. q # p /\ Asked(p) = {} /\ Asked(q) = {} /\ pc[q] \in Saving
    BY <1>8, <1>9, <2>1 DEF Saving
  <2>3. request[p] = NoRequest /\ request[q] = NoRequest
    BY <1>0, <2>2, AskedFits
  <2>4. request[p][1] \notin Keys /\ request[q][1] \notin Keys
    BY <1>0, <2>2, AskedFits
  <2>5. cfg[p] = Default /\ cfg[q] = Default
    BY <1>3, <2>2, <2>4 DEF SavingInv, Carries
  <2>6. configFile \in {Empty, Whole(cfg[p])}
    BY <1>1, <2>1 DEF SavingInv
  <2> QED
    BY <1>6, <2>5, <2>6
<1>10. \A q \in Runs : pc'[q] = "idle" => request'[q] = NoRequest
  BY <1>1 DEF SavingInv
<1> QED
  BY <1>1, <1>2, <1>6, <1>7, <1>8, <1>9, <1>10 DEF SavingInv

\* Every step of a configuration command keeps the invariant of saving.
LEMMA SavingConfig ==
  ASSUME TypeInv, SavingInv, NEW p \in Runs, ConfigStep(p)
  PROVE  SavingInv'
PROOF
<1>0. /\ pc \in [Runs -> Steps] /\ cfg \in [Runs -> Settings]
      /\ Moves(p, Saving \cup {"idle"}, Saving \cup Ended)
  BY ConfigMoves DEF TypeInv, RunTypes, ConfigTypeOK
<1>1. ASSUME NEW r \in Requests, SetConfig(p, r[1], r[2]) PROVE SavingInv'
  BY <1>1, SavingStarts DEF SetConfig
<1>2. ASSUME NEW r \in Requests, RefuseSet(p, r[1], r[2]) PROVE SavingInv'
  BY <1>0, <1>2, SavingElsewhere DEF RefuseSet, configVars, Goto, Moves, Saving, Ended, Steps
<1>3. CASE InitConfig(p)
  <2>1. Readable(configFile)
    BY <1>3 DEF InitConfig, Readable, Absent, Garbled
  <2> QED
    BY <1>3, <2>1, SavingStarts DEF InitConfig
<1>4. CASE KeepConfig(p)
  BY <1>0, <1>4, SavingElsewhere DEF KeepConfig, configVars, Goto, Moves, Saving, Ended, Steps
<1>5. CASE TruncateConfig(p)
  <2>1. /\ pc[p] = "config.open" /\ pc'[p] = "config.write" /\ configFile' = Empty
        /\ \A q \in Runs \ {p} : pc'[q] = pc[q]
        /\ UNCHANGED <<cfg, request, wanted, lost>>
    BY <1>0, <1>5 DEF TruncateConfig, Goto
  <2>2. \A q \in Runs : (pc'[q] \in Saving <=> pc[q] \in Saving) /\ Asked(q)' = Asked(q)
    BY <2>1 DEF Saving, Asked
  <2>3. \A q \in Runs : pc'[q] \in Saving => Carries(q)'
    BY <2>1, <2>2, CarriesStill DEF SavingInv
  <2>4. Held'
    BY <2>1 DEF Held
  <2> QED
    BY <2>1, <2>2, <2>3, <2>4 DEF SavingInv
<1>6. CASE WriteConfig(p)
  BY <1>6, SavingWrites
<1>7. CASE SaveFails(p)
  BY <1>0, <1>7, SavingEnds DEF SaveFails, Goto, Moves, Ended
<1>8. CASE KilledInConfig(p)
  BY <1>0, <1>8, SavingEnds DEF KilledInConfig, Killed, Goto, Moves, Ended
<1> QED
  BY <1>1, <1>2, <1>3, <1>4, <1>5, <1>6, <1>7, <1>8 DEF ConfigStep

\* Every step keeps the invariant of saving.
LEMMA SavingPreserved == TypeInv /\ SavingInv /\ [Next]_vars => SavingInv'
PROOF
<1> SUFFICES ASSUME TypeInv, SavingInv, [Next]_vars PROVE SavingInv'
  OBVIOUS
<1>1. ASSUME NEW p \in Runs, Command(p) PROVE SavingInv'
  <2>1. CASE ConfigStep(p)
    BY <2>1, SavingConfig
  <2>2. ASSUME Moves(p, Updating \cup Looking \cup Analysing \cup {"idle"},
                        Updating \cup Looking \cup Analysing \cup Ended),
               UNCHANGED <<configFile, request, wanted, lost>>,
               \A q \in Runs \ {p} : cfg'[q] = cfg[q]
        PROVE  SavingInv'
    <3>1. Moves(p, Steps \ Saving, Steps \ (Saving \cup {"idle"}))
      BY <2>2 DEF Moves, Steps, Saving, Updating, Looking, Analysing, Ended
    <3> QED
      BY <2>2, <3>1, SavingElsewhere
  <2>3. CASE UpdateStep(p) /\ UNCHANGED configVars
    BY <2>2, <2>3, UpdateMoves DEF configVars, Moves
  <2>4. CASE LookupStep(p) /\ UNCHANGED configVars
    BY <2>2, <2>4, LookupMoves DEF configVars, Moves
  <2>5. CASE Update(p)
    BY <2>2, <2>5, UpdateMoves DEF Update, configVars, Moves
  <2>6. CASE NoConfig(p)
    BY <2>2, <2>6, AnalysisMoves DEF NoConfig, configVars, Moves
  <2>7. CASE Analyze(p)
    <3>1. \A q \in Runs \ {p} : cfg'[q] = cfg[q]
      BY <2>7 DEF Analyze, TypeInv, ConfigTypeOK
    <3> QED
      BY <2>2, <2>7, <3>1, AnalysisMoves DEF Analyze, Moves, Analysing
  <2>8. ASSUME NEW enrich \in BOOLEAN, SetupGeoIP(p, enrich) PROVE SavingInv'
    BY <2>2, <2>8, AnalysisMoves DEF SetupGeoIP, configVars, Moves, Analysing
  <2>14. CASE OpenDatabase(p) /\ UNCHANGED configVars
    BY <2>2, <2>14, AnalysisMoves DEF configVars, Moves, Analysing
  <2>9. CASE RunWHOIS(p)
    BY <2>2, <2>9, AnalysisMoves DEF RunWHOIS, configVars, Moves, Analysing, Looking
  <2>10. CASE SkipWHOIS(p)
    BY <2>2, <2>10, AnalysisMoves DEF SkipWHOIS, configVars, Moves, Analysing
  <2>11. CASE EndLookups(p)
    BY <2>2, <2>11, AnalysisMoves DEF EndLookups, configVars, Moves, Analysing
  <2>12. CASE EndAnalysis(p)
    BY <2>2, <2>12, AnalysisMoves DEF EndAnalysis, configVars, Moves, Analysing
  <2>13. CASE KilledInAnalysis(p)
    BY <2>2, <2>13, AnalysisMoves DEF KilledInAnalysis, configVars, Moves
  <2> QED
    BY <1>1, <2>1, <2>3, <2>4, <2>5, <2>6, <2>7, <2>8, <2>9, <2>10, <2>11, <2>12, <2>13, <2>14 DEF Command
<1>2. CASE Publish /\ UNCHANGED configVars
  BY <1>2, SavingUntouched DEF Publish
<1>3. CASE Tick /\ UNCHANGED configVars
  BY <1>3, SavingUntouched DEF Tick
<1>4. CASE UNCHANGED vars
  BY <1>4, SavingUntouched DEF vars
<1> QED
  BY <1>1, <1>2, <1>3, <1>4 DEF Next

\* However many runs change settings, analyse and update at once: between
\* saves the configuration file holds all that was reported done, but what
\* overlapping saves were asked to change; the last of these is there, and
\* only a save cut short, or one that read what another had truncated, loses
\* more.
THEOREM KeepsSettings == Spec => []SettingsKept
PROOF
<1>1. SavingInv => SettingsKept
  BY DEF SavingInv, Held, SettingsKept, Readable, Empty, Garbled
<1> QED
  BY <1>1, TypeInvInitially, TypeInvPreserved, SavingInitially, SavingPreserved, PTL DEF Spec

-----------------------------------------------------------------------------
(* What an analysis acts on. *)

\* The invariant of asking holds at first.
LEMMA AskingInitially == Init => AskingInv
PROOF
  BY DEF Init, AskingInv, Looking

\* Only an analysis has anything to show for what it read.
LEMMA AskingElsewhere ==
  ASSUME AskingInv, NEW p \in Runs, Moves(p, Steps, Steps \ ({"geoip", "geoip.open", "whois"} \cup Looking)),
         \A q \in Runs \ {p} : /\ cfg'[q] = cfg[q]
                               /\ settled'[q] = settled[q] /\ caught'[q] = caught[q]
  PROVE  AskingInv'
PROOF
  BY DEF Moves, AskingInv

\* An analysis that goes on acts on what it has read.
LEMMA AskingGoesOn ==
  ASSUME AskingInv, NEW p \in Runs, UNCHANGED <<cfg, settled, caught>>,
         \/ Moves(p, Looking, Looking \cup Ended)
         \/ Moves(p, {"geoip", "geoip.open", "whois"}, {"geoip.open", "whois", "report"})
         \/ Moves(p, {"whois"}, {"whois.read"}) /\ cfg[p].whois
  PROVE  AskingInv'
PROOF
<1>1. \A s \in Ended \cup {"report", "geoip.open", "whois"} : s \notin Looking
  BY DEF Ended, Looking
<1>2. \A s \in Ended \cup {"report"} : s \notin {"geoip", "geoip.open", "whois"}
  BY DEF Ended
<1>3. "whois.read" \in Looking /\ "whois" \notin Ended \cup Looking /\ "geoip" \notin Ended \cup Looking
  BY DEF Ended, Looking
<1>4. CASE Moves(p, Looking, Looking \cup Ended)
  BY <1>1, <1>2, <1>4 DEF Moves, AskingInv
<1>5. CASE Moves(p, {"geoip", "geoip.open", "whois"}, {"geoip.open", "whois", "report"})
  BY <1>1, <1>2, <1>5 DEF Moves, AskingInv
<1>6. CASE Moves(p, {"whois"}, {"whois.read"}) /\ cfg[p].whois
  BY <1>3, <1>6 DEF Moves, AskingInv
<1> QED
  BY <1>4, <1>5, <1>6

\* What an analysis reads is settled, or it is caught.
LEMMA AskingAnalyze ==
  ASSUME TypeInv, SavingInv, AskingInv, NEW p \in Runs, Analyze(p)
  PROVE  AskingInv'
PROOF
<1>1. /\ pc[p] = "idle" /\ pc'[p] = "geoip" /\ \A q \in Runs \ {p} : pc'[q] = pc[q]
  BY AnalysisMoves DEF Moves
<1>2. /\ cfg'[p] = Loaded(configFile) /\ settled'[p] = wanted
      /\ caught'[p] = (configFile = Empty \/ "whois" \in lost)
      /\ \A q \in Runs \ {p} : /\ cfg'[q] = cfg[q]
                               /\ settled'[q] = settled[q] /\ caught'[q] = caught[q]
  BY DEF Analyze, TypeInv, RunTypes, ConfigTypeOK
<1>3. ~caught'[p] => Loaded(configFile)["whois"] = wanted["whois"]
  BY <1>2, KeysOfSettings DEF SavingInv, Held, Analyze
<1>4. cfg'[p].whois = settled'[p].whois \/ caught'[p]
  BY <1>2, <1>3
<1>5. pc'[p] \notin Looking
  BY <1>1 DEF Looking
<1> QED
  BY <1>1, <1>2, <1>4, <1>5 DEF AskingInv

\* Every step keeps the invariant of asking.
LEMMA AskingPreserved == TypeInv /\ SavingInv /\ AskingInv /\ [Next]_vars => AskingInv'
PROOF
<1> SUFFICES ASSUME TypeInv, SavingInv, AskingInv, [Next]_vars PROVE AskingInv'
  OBVIOUS
<1>1. ASSUME NEW p \in Runs, Command(p) PROVE AskingInv'
  <2>1. ASSUME pc[p] \in Steps,
               Moves(p, {pc[p]}, Saving \cup Updating \cup Ended \cup {"report"}),
               \A q \in Runs \ {p} : cfg'[q] = cfg[q], UNCHANGED <<settled, caught>>
        PROVE  AskingInv'
    <3>1. \A s \in Saving \cup Updating \cup Ended \cup {"report"} :
            s \in Steps \ ({"geoip", "geoip.open", "whois"} \cup Looking)
      BY DEF Steps, Saving, Updating, Looking, Ended, Analysing
    <3>2. Moves(p, Steps, Steps \ ({"geoip", "geoip.open", "whois"} \cup Looking))
      BY <2>1, <3>1 DEF Moves
    <3> QED
      BY <2>1, <3>2, AskingElsewhere
  <2>0. pc[p] \in Steps /\ cfg \in [Runs -> Settings]
    BY DEF TypeInv, RunTypes, ConfigTypeOK
  <2>2. CASE ConfigStep(p) /\ UNCHANGED <<settled, caught>>
    <3>1. \A q \in Runs \ {p} : cfg'[q] = cfg[q]
      BY <2>0, <2>2 DEF ConfigStep, SetConfig, RefuseSet, StartSaving, InitConfig, KeepConfig,
         TruncateConfig, WriteConfig, SaveFails, KilledInConfig, configVars
    <3> QED
      BY <2>0, <2>1, <2>2, <3>1, ConfigMoves DEF Moves
  <2>3. CASE UpdateStep(p) /\ UNCHANGED <<configVars, settled, caught>>
    BY <2>0, <2>1, <2>3, UpdateMoves DEF configVars, Moves
  <2>4. CASE LookupStep(p) /\ UNCHANGED <<configVars, settled, caught>>
    BY <2>4, LookupMoves, AskingGoesOn DEF configVars
  <2>5. CASE Update(p)
    BY <2>0, <2>1, <2>5, UpdateMoves DEF Update, configVars, Moves
  <2>6. CASE NoConfig(p)
    BY <2>0, <2>1, <2>6, AnalysisMoves DEF NoConfig, configVars, Moves
  <2>7. CASE Analyze(p)
    BY <2>7, AskingAnalyze
  <2>8. ASSUME NEW enrich \in BOOLEAN, SetupGeoIP(p, enrich) PROVE AskingInv'
    BY <2>8, AnalysisMoves, AskingGoesOn DEF SetupGeoIP, configVars, Moves
  <2>14. CASE OpenDatabase(p) /\ UNCHANGED <<configVars, settled, caught>>
    BY <2>14, AnalysisMoves, AskingGoesOn DEF configVars, Moves
  <2>9. CASE RunWHOIS(p)
    BY <2>9, AnalysisMoves, AskingGoesOn DEF RunWHOIS, configVars
  <2>10. CASE SkipWHOIS(p)
    BY <2>10, AnalysisMoves, AskingGoesOn DEF SkipWHOIS, configVars, Moves
  <2>11. CASE EndLookups(p)
    BY <2>0, <2>1, <2>11, AnalysisMoves DEF EndLookups, configVars, Moves
  <2>12. CASE EndAnalysis(p)
    BY <2>0, <2>1, <2>12, AnalysisMoves DEF EndAnalysis, configVars, Moves
  <2>13. CASE KilledInAnalysis(p)
    BY <2>0, <2>1, <2>13, AnalysisMoves DEF KilledInAnalysis, configVars, Moves
  <2> QED
    BY <1>1, <2>2, <2>3, <2>4, <2>5, <2>6, <2>7, <2>8, <2>9, <2>10, <2>11, <2>12, <2>13, <2>14 DEF Command
<1>2. ASSUME UNCHANGED <<pc, configVars, settled, caught>> PROVE AskingInv'
  BY <1>2 DEF AskingInv, configVars
<1> QED
  BY <1>1, <1>2 DEF Next, Publish, Tick, vars

\* An analysis that asks a WHOIS server acts on settings that allowed it when
\* it read them, or read a file that was empty or had lost that setting to a
\* save cut short or to one that overlapped: whatever else runs, there is no
\* other way.
THEOREM AsksAsSettled == Spec => []NoUnaskedQueries
PROOF
<1>1. AskingInv => NoUnaskedQueries
  BY DEF AskingInv, NoUnaskedQueries, Looking
<1> QED
  BY <1>1, TypeInvInitially, TypeInvPreserved, SavingInitially, SavingPreserved, AskingInitially,
     AskingPreserved, PTL DEF Spec

-----------------------------------------------------------------------------
(* The age of records. *)

\* A step that leaves records and lifetimes alone.
LEMMA FreshUntouched ==
  ASSUME FreshRecords, UNCHANGED <<records, lifetime>>
  PROVE  FreshRecords'
PROOF
  BY DEF FreshRecords

\* A record brought by a query is of age 0.
LEMMA FreshReturn ==
  ASSUME TypeInv, FreshRecords, NEW p \in Runs, Return(p), pc[p] \in {"whois.truncate", "whois.write"}
  PROVE  FreshRecords'
PROOF
<1>1. /\ records \in [Runs -> [IPs -> Kept \cup {NoRecord}]]
      /\ answer[p] \in Record /\ lifetime[p] > 0 /\ lifetime[p] \in Int
      /\ Address(p) \in IPs
  BY DEF TypeInv, WhoisTypeOK, LookupFits, Address, Looking
<1>2. answer[p].at \in Int
  BY <1>1, TimeAssumption DEF Record
<1>3. /\ records' = [records EXCEPT ![p][Address(p)] = [record |-> answer[p], since |-> answer[p].at]]
      /\ lifetime' = lifetime
  BY DEF Return, Have
<1>4. answer[p].at - answer[p].at <= lifetime[p]
  BY <1>1, <1>2
<1> QED
  BY <1>1, <1>3, <1>4 DEF FreshRecords

\* No step gives a run a record past its lifetime.
LEMMA FreshPreserved == TypeInv /\ FreshRecords /\ [Next]_vars => FreshRecords'
PROOF
<1> SUFFICES ASSUME TypeInv, FreshRecords, [Next]_vars PROVE FreshRecords'
  OBVIOUS
<1>0. /\ records \in [Runs -> [IPs -> Kept \cup {NoRecord}]]
      /\ lifetime \in [Runs -> Int] /\ todo \in [Runs -> SUBSET IPs]
      /\ cache \in [IPs -> FileOf(Record)] /\ now \in 0..MaxTime
  BY DEF TypeInv, WhoisTypeOK
<1>1. ASSUME NEW p \in Runs, LookupStep(p) PROVE FreshRecords'
  <2>1. CASE ReadCache(p)
    <3> DEFINE ip == Address(p)
    <3>1. CASE Hit(ip, lifetime[p]) /\ Have(p, ip, cache[ip].value, now) /\ UNCHANGED lifetime
      <4>1. lifetime[p] > 0 /\ ip \in IPs
        BY <1>0, <2>1 DEF ReadCache, TypeInv, LookupFits, Looking, Address
      <4>2. now - cache[ip].value.at <= lifetime[p]
        BY <3>1, <4>1 DEF Hit
      <4>3. records' = [records EXCEPT ![p][ip] = [record |-> cache[ip].value, since |-> now]]
        BY <3>1 DEF Have
      <4> QED
        BY <1>0, <3>1, <4>1, <4>2, <4>3 DEF FreshRecords
    <3>2. CASE UNCHANGED <<records, lifetime>>
      BY <3>2, FreshUntouched
    <3> QED
      BY <2>1, <3>1, <3>2 DEF ReadCache
  <2>2. CASE WriteCache(p)
    BY <2>2, FreshReturn DEF WriteCache
  <2>3. CASE CacheFails(p)
    BY <2>3, FreshReturn DEF CacheFails
  <2> QED
    BY <1>1, <2>1, <2>2, <2>3, FreshUntouched DEF LookupStep, Query, QueryFails, TruncateCache,
       KilledInLookup, whoisVars
<1>2. ASSUME NEW p \in Runs, RunWHOIS(p) PROVE FreshRecords'
  <2>1. \A ip \in IPs : records[p][ip] = NoRecord
    BY <1>2 DEF RunWHOIS, TypeInv, LookupFits
  <2>2. records' = records /\ \A q \in Runs \ {p} : lifetime'[q] = lifetime[q]
    BY <1>0, <1>2 DEF RunWHOIS, StartLookups
  <2> QED
    BY <2>1, <2>2 DEF FreshRecords
<1>3. ASSUME NEW p \in Runs, Command(p) PROVE FreshRecords'
  BY <1>1, <1>2, <1>3, FreshUntouched DEF Command, NoConfig, Update, Analyze, SetupGeoIP, SkipWHOIS,
     OpenDatabase, EndLookups, EndAnalysis, KilledInAnalysis, whoisVars
<1> QED
  BY <1>3, FreshUntouched DEF Next, Publish, Tick, vars, whoisVars

\* For any lifetime that may be set, any addresses and any number of analyses
\* rewriting each other's cache files, none is given a record past its TTL.
THEOREM GivesFreshRecords == Spec => []FreshRecords
PROOF
<1>1. Init => FreshRecords
  BY DEF Init, WhoisInit, FreshRecords
<1> QED
  BY <1>1, TypeInvInitially, TypeInvPreserved, FreshPreserved, PTL DEF Spec

-----------------------------------------------------------------------------
(* Databases.  An inode is written by the runs that copy it; it is         *)
(* installed or opened only afterwards, and its name for copying is gone   *)
(* by then.                                                                *)

Copies(p, e) == pc[p] \in Copying /\ Current(p) = e

\* A copy that no other update has come across.
Private(p, e) == Copies(p, e) /\ (e \notin overlapped \/ p \notin together)

\* The run q has not created a file for the i-th edition.
NotYet(q, i) == job[q].next < i \/ (job[q].next = i /\ pc[q] \notin Copying \cup Ended)

\* Nobody but its maker brings an inode into use.
UnusedInv ==
  \A q \in Runs, i \in DOMAIN Editions : NotYet(q, i) =>
    LET n == <<q, Editions[i]>> e == Editions[i] IN
      /\ installed[e] # n /\ temporary[e] # n
      /\ \A p \in Runs : opened[p][e] # n

CopyingInv ==
  \A e \in Edition :
    /\ \A p \in Runs : Private(p, e) =>
         /\ \A q \in Runs : Copies(q, e) => q = p
         /\ temporary[e] = job[p].fd
         /\ \A k \in 1..job[p].copied : inode[job[p].fd][k] = job[p].version
    /\ temporary[e] # NoFile =>
         installed[e] # temporary[e] /\ \A p \in Runs : opened[p][e] # temporary[e]

\* While a run updates that has met no other update, there is none.
AloneInv ==
  \A p \in Runs \ together, q \in Runs : pc[p] \in Updating /\ pc[q] \in Updating => q = p

DatabaseInv == AloneInv /\ UnusedInv /\ CopyingInv /\ InstalledWhole

-----------------------------------------------------------------------------
(* Versions. *)

\* What an update that has met no other has found and done by now: what it
\* has installed is no older than what the server offered when it began, and
\* is what it remembers.
Progress(p) ==
  LET j == job[p] IN
    /\ j.since <= published
    /\ pc[p] \in {"update.open"} \cup Copying => j.since <= j.version /\ j.version <= published
    /\ \A i \in DOMAIN Editions : i < j.next =>
         LET v == Version(installed[Editions[i]]) IN j.entries[Editions[i]] = v /\ j.since <= v
    /\ pc[p] = "update.write" => manifest = Empty

\* As long as no two have met, an update remembers nothing newer than what is
\* there, and what it has not come to is no newer than when it began.
Modest(p) ==
  /\ \A e \in Edition : job[p].entries[e] <= Version(installed[e])
  /\ \A i \in DOMAIN Editions : i >= job[p].next => Version(installed[Editions[i]]) <= job[p].since

VersionInv ==
  /\ \A p \in Runs \ together : pc[p] \in Updating => Progress(p)
  /\ together = {} =>
       /\ \A e \in Edition : Version(installed[e]) <= published
       /\ manifest.is = "whole" => \A e \in Edition : manifest.value[e] <= Version(installed[e])
       /\ \A p \in Runs : pc[p] \in Updating => Modest(p)

-----------------------------------------------------------------------------
(* Databases. *)

\* What each kind of step does to the databases, seen from outside: p is the
\* run that takes it, and it is not copying afterwards.
DatabasesElsewhere(p) ==
  /\ pc'[p] \notin Copying
  /\ \A q \in Runs \ {p} : pc'[q] = pc[q] /\ job'[q] = job[q]
  /\ UNCHANGED <<installed, temporary, inode, overlapped>> /\ together \subseteq together'
  /\ \A q \in Runs, e \in Edition : opened'[q][e] \in {opened[q][e], installed[e], NoFile}

\* The copies of the other runs go on as they were.
LEMMA CopiesElsewhere ==
  ASSUME NEW p \in Runs, \A q \in Runs \ {p} : pc'[q] = pc[q] /\ job'[q] = job[q]
  PROVE  \A q \in Runs \ {p}, e \in Edition : Copies(q, e)' = Copies(q, e)
PROOF
  BY DEF Copies, Current

\* Such a step keeps the invariant of copying and what is installed.
LEMMA CopyingElsewhere ==
  ASSUME TypeInv, CopyingInv, InstalledWhole, NEW p \in Runs, DatabasesElsewhere(p)
  PROVE  CopyingInv' /\ InstalledWhole'
PROOF
<1>1. /\ \A q \in Runs, e \in Edition : Copies(q, e)' => q # p /\ Copies(q, e)
      /\ \A q \in Runs \ {p} : job'[q] = job[q]
  BY CopiesElsewhere DEF DatabasesElsewhere, Copies
<1>4. \A q \in Runs, e \in Edition : Private(q, e)' => q # p /\ Private(q, e)
  BY <1>1 DEF Private, DatabasesElsewhere
<1>2. InstalledWhole'
  BY DEF InstalledWhole, DatabasesElsewhere, Version
<1>3. CopyingInv'
  BY <1>1, <1>4 DEF CopyingInv, DatabasesElsewhere
<1> QED
  BY <1>2, <1>3

\* The file a run creates for its edition is nobody's yet, and the one it
\* finds under the temporary name is not in use either.
LEMMA TargetUnused ==
  ASSUME TypeInv, UnusedInv, CopyingInv, NEW p \in Runs, pc[p] = "update.open"
  PROVE  LET e == Current(p) IN
    /\ e \in Edition
    /\ Target(p) \in Runs \X {e} /\ Target(p) \in Inodes /\ Target(p) # NoFile
    /\ installed[e] # Target(p) /\ \A q \in Runs : opened[q][e] # Target(p)
PROOF
<1> DEFINE i == job[p].next
           e == Current(p)
<1>1. i \in DOMAIN Editions /\ e \in Edition /\ e = Editions[i]
  BY UpdateFacts DEF TypeInv, JobFits, Fetching, Current, Edition
<1>2. /\ Target(p) \in Runs \X {e} /\ Target(p) \in Inodes
  BY <1>1 DEF TypeInv, NamesInv, Target, Inodes
<1>3. Target(p) # NoFile
  BY <1>2, UpdateFacts
<1>4. CASE temporary[e] # NoFile
  BY <1>1, <1>2, <1>3, <1>4 DEF CopyingInv, Target
<1>5. CASE temporary[e] = NoFile
  <2>1. NotYet(p, i)
    BY DEF NotYet, Copying, Ended
  <2>2. Target(p) = <<p, Editions[i]>>
    BY <1>1, <1>5 DEF Target
  <2> QED
    BY <1>1, <1>2, <1>3, <2>1, <2>2 DEF UnusedInv
<1> QED
  BY <1>1, <1>2, <1>3, <1>4, <1>5

\* Opening the temporary file keeps them: what it truncates is not in use.
LEMMA DatabaseOpenTemporary ==
  ASSUME TypeInv, DatabaseInv, NEW p \in Runs, OpenTemporary(p)
  PROVE  CopyingInv' /\ InstalledWhole'
PROOF
<1> DEFINE c == Current(p)
           n == Target(p)
<1>1. /\ pc[p] = "update.open" /\ job[p].next \in DOMAIN Editions /\ c \in Edition
      /\ job[p].copied = 0
      /\ UpdateTypeOK /\ NamesInv /\ pc \in [Runs -> Steps]
      /\ AloneInv /\ UnusedInv /\ CopyingInv /\ InstalledWhole
  BY UpdateFacts DEF OpenTemporary, TypeInv, RunTypes, JobFits, Fetching, Current, Edition, DatabaseInv
<1>2. /\ JobStep(p, JobOf(job[p].next, job[p].version, n, job[p].copied, job[p].entries, job[p].since))
      /\ pc'[p] = "update.copy" /\ \A q \in Runs \ {p} : pc'[q] = pc[q]
  BY <1>1, JobSteps DEF OpenTemporary, Goto
<1>3. /\ job'[p].fd = n /\ job'[p].copied = 0 /\ Current(p)' = c
      /\ \A q \in Runs \ {p} : job'[q] = job[q]
  BY <1>1, <1>2 DEF JobStep, JobOf, Current
<1>4. /\ n \in Runs \X {c} /\ n \in Inodes
      /\ installed[c] # n /\ \A q \in Runs : opened[q][c] # n
  BY <1>1, TargetUnused
<1>5. /\ temporary' = [temporary EXCEPT ![c] = n]
      /\ inode' = [inode EXCEPT ![n] = Blank]
      /\ installed' = installed /\ opened' = opened /\ together' = together
      /\ overlapped' = overlapped \cup
           {e \in {c} : \E q \in Runs \ {p} : pc[q] \in Copying /\ Current(q) = e}
  BY DEF OpenTemporary
<1>6. \A q \in Runs, e \in Edition : Copies(q, e)' => (q = p /\ e = c) \/ (q # p /\ Copies(q, e))
  BY <1>2, <1>3, CopiesElsewhere DEF Copies
<1>7. ASSUME NEW e \in Edition, e # c
      PROVE  /\ temporary'[e] = temporary[e]
             /\ installed[e] # n
             /\ \A q \in Runs : Copies(q, e) => job[q].fd # n /\ job[q].fd \in Inodes
  <2>1. \A q \in Runs : Copies(q, e) => job[q].fd \in Runs \X {e}
    BY DEF TypeInv, JobFits, Copies
  <2>2. n \notin Runs \X {e}
    BY <1>4, <1>7
  <2>3. installed[e] # n
    BY <1>1, <1>4, <2>2, UpdateFacts DEF NamesInv
  <2> QED
    BY <1>1, <1>5, <1>7, <2>1, <2>2, <2>3 DEF UpdateTypeOK, Inodes
<1>8. temporary'[c] = n
  BY <1>1, <1>5 DEF UpdateTypeOK
<1>9. ASSUME NEW e \in Edition \ overlapped', installed'[e] # NoFile PROVE Version(installed[e])' # 0
  <2>1. installed[e] \in Inodes /\ installed[e] # n /\ e \notin overlapped
    BY <1>1, <1>4, <1>5, <1>7, <1>9 DEF UpdateTypeOK
  <2>2. inode'[installed[e]] = inode[installed[e]]
    BY <1>1, <1>5, <2>1 DEF UpdateTypeOK
  <2>3. Version(installed[e])' = Version(installed[e])
    BY <1>5, <2>2 DEF Version
  <2> QED
    BY <1>1, <1>5, <1>9, <2>1, <2>3 DEF InstalledWhole
<1>11. ASSUME NEW q \in Runs, NEW e \in Edition, Private(q, e)'
       PROVE  \/ q = p /\ e = c /\ \A r \in Runs \ {p} : ~Copies(r, c)
              \/ q # p /\ e # c /\ Private(q, e)
  <2>1. \A r \in Runs : Copies(r, c) => r = p \/ (r \in together /\ p \in together /\ c \in overlapped')
    BY <1>1, <1>5 DEF AloneInv, Copies, Copying, Updating
  <2>2. Copies(q, e)' /\ (e \notin overlapped' \/ q \notin together)
    BY <1>5, <1>11 DEF Private
  <2>3. CASE q = p /\ e = c
    BY <2>1, <2>2, <2>3
  <2>4. CASE q # p /\ Copies(q, e)
    <3>1. e # c
      BY <2>1, <2>2, <2>4
    <3> QED
      BY <1>5, <2>2, <2>4, <3>1 DEF Private
  <2> QED
    BY <1>6, <2>2, <2>3, <2>4
<1>10. ASSUME NEW e \in Edition
       PROVE  /\ \A a \in Runs : Private(a, e)' =>
                   /\ \A b \in Runs : Copies(b, e)' => b = a
                   /\ temporary'[e] = job'[a].fd
                   /\ \A k \in 1..job'[a].copied : inode'[job'[a].fd][k] = job'[a].version
              /\ temporary'[e] # NoFile =>
                   installed'[e] # temporary'[e] /\ \A a \in Runs : opened'[a][e] # temporary'[e]
  <2>1. CASE e = c
    BY <1>3, <1>4, <1>5, <1>6, <1>8, <1>11, <2>1
  <2>2. CASE e # c
    <3>1. ASSUME NEW a \in Runs, Private(a, e), a # p
          PROVE  inode'[job'[a].fd] = inode[job[a].fd] /\ job'[a] = job[a]
      BY <1>1, <1>3, <1>5, <1>7, <2>2, <3>1 DEF UpdateTypeOK, Private
    <3>2. ASSUME NEW a \in Runs, Private(a, e)' PROVE a # p /\ Private(a, e)
      BY <1>11, <2>2, <3>2
    <3>3. \A b \in Runs : Copies(b, e)' => Copies(b, e)
      BY <1>6, <2>2
    <3> QED
      BY <1>1, <1>5, <1>7, <2>2, <3>1, <3>2, <3>3 DEF CopyingInv
  <2> QED
    BY <2>1, <2>2
<1> QED
  BY <1>9, <1>10 DEF CopyingInv, InstalledWhole

\* A part is written to a file that is not in use.
LEMMA PartUnused ==
  ASSUME TypeInv, CopyingInv, NEW p \in Runs, CopyPart(p)
  PROVE  LET c == Current(p) n == job[p].fd IN
    /\ c \in Edition /\ n \in Runs \X {c} /\ n \in Inodes /\ Copies(p, c)
    /\ Private(p, c) =>
         /\ \A q \in Runs \ {p} : ~Copies(q, c)
         /\ temporary[c] = n
         /\ installed[c] # n /\ \A q \in Runs : opened[q][c] # n
PROOF
<1> DEFINE c == Current(p)
           n == job[p].fd
<1>1. c \in Edition /\ n \in Runs \X {c} /\ n \in Inodes /\ n # NoFile /\ Copies(p, c)
  <2>1. pc[p] = "update.copy" /\ JobFits(p)
    BY DEF CopyPart, TypeInv
  <2>2. c \in Edition /\ n \in Runs \X {c} /\ Copies(p, c)
    BY <2>1, UpdateFacts DEF JobFits, Fetching, Copying, Current, Edition, Copies
  <2>3. n \in Inodes
    BY <2>2 DEF Inodes
  <2> QED
    BY <2>2, <2>3, UpdateFacts
<1>2. ASSUME Private(p, c)
      PROVE  /\ \A q \in Runs \ {p} : ~Copies(q, c)
             /\ temporary[c] = n
             /\ installed[c] # n /\ \A q \in Runs : opened[q][c] # n
  BY <1>1, <1>2 DEF CopyingInv
<1> QED
  BY <1>1, <1>2

\* Copying a part keeps them.
LEMMA DatabaseCopyPart ==
  ASSUME TypeInv, CopyingInv, InstalledWhole, NEW p \in Runs, CopyPart(p)
  PROVE  CopyingInv' /\ InstalledWhole'
PROOF
<1> DEFINE c == Current(p)
           n == job[p].fd
           k == job[p].copied + 1
<1>1. /\ c \in Edition /\ n \in Runs \X {c} /\ n \in Inodes /\ Copies(p, c)
      /\ UpdateTypeOK /\ NamesInv /\ pc \in [Runs -> Steps]
  BY PartUnused DEF CopyPart, TypeInv, RunTypes, Copies, Copying
<1>2. /\ JobStep(p, JobOf(job[p].next, job[p].version, n, k, job[p].entries, job[p].since))
      /\ pc'[p] \in Copying /\ \A q \in Runs \ {p} : pc'[q] = pc[q]
  BY <1>1, JobSteps DEF CopyPart, Goto, Copying
<1>3. /\ job'[p].fd = n /\ job'[p].copied = k /\ job'[p].version = job[p].version /\ Current(p)' = c
      /\ \A q \in Runs \ {p} : job'[q] = job[q]
  BY <1>1, <1>2 DEF JobStep, JobOf, Current
<1>4. /\ inode' = [inode EXCEPT ![n][k] = job[p].version]
      /\ UNCHANGED <<installed, temporary, opened, overlapped, together>>
  BY DEF CopyPart
<1>5. \A q \in Runs, e \in Edition : Copies(q, e)' => Copies(q, e) /\ (q = p => e = c)
  BY <1>1, <1>2, <1>3, CopiesElsewhere DEF Copies
<1>11. \A q \in Runs, e \in Edition : Private(q, e)' => Private(q, e) /\ (e = c => q = p)
  BY <1>1, <1>4, <1>5 DEF Private, CopyingInv
<1>6. ASSUME NEW e \in Edition, e # c
      PROVE  /\ installed[e] # n
             /\ \A q \in Runs : Copies(q, e) => q # p /\ job[q].fd # n /\ job[q].fd \in Inodes
  <2>1. \A q \in Runs : Copies(q, e) => job[q].fd \in Runs \X {e} /\ q # p
    BY <1>6 DEF TypeInv, JobFits, Copies
  <2>2. n \notin Runs \X {e}
    BY <1>1, <1>6
  <2>3. installed[e] # n
    BY <1>1, <2>2, UpdateFacts DEF NamesInv
  <2> QED
    BY <1>1, <1>6, <2>1, <2>2, <2>3 DEF Inodes
<1>7. Private(p, c) =>
        /\ \A q \in Runs \ {p} : ~Copies(q, c)
        /\ temporary[c] = n
        /\ installed[c] # n /\ \A q \in Runs : opened[q][c] # n
  BY PartUnused
<1>8. \A m \in Inodes : m # n => inode'[m] = inode[m]
  BY <1>1, <1>4 DEF UpdateTypeOK
<1>9. ASSUME NEW e \in Edition \ overlapped, installed[e] # NoFile PROVE Version(installed[e])' # 0
  <2>1. installed[e] \in Inodes /\ installed[e] # n
    BY <1>1, <1>6, <1>7, <1>9 DEF UpdateTypeOK, Private
  <2>2. Version(installed[e])' = Version(installed[e])
    BY <1>4, <1>8, <2>1 DEF Version
  <2> QED
    BY <1>9, <2>2 DEF InstalledWhole
<1>10. ASSUME NEW e \in Edition
       PROVE  /\ \A a \in Runs : Private(a, e)' =>
                   /\ \A b \in Runs : Copies(b, e)' => b = a
                   /\ temporary'[e] = job'[a].fd
                   /\ \A l \in 1..job'[a].copied : inode'[job'[a].fd][l] = job'[a].version
              /\ temporary'[e] # NoFile =>
                   installed'[e] # temporary'[e] /\ \A a \in Runs : opened'[a][e] # temporary'[e]
  <2>0. /\ \A a \in Runs : Private(a, e)' => \A b \in Runs : Copies(b, e)' => b = a
        /\ temporary'[e] # NoFile =>
             installed'[e] # temporary'[e] /\ \A a \in Runs : opened'[a][e] # temporary'[e]
    BY <1>4, <1>5, <1>11 DEF CopyingInv
  <2>1. CASE e = c
    <3> SUFFICES ASSUME Private(p, c)
                 PROVE  /\ temporary'[c] = job'[p].fd
                        /\ \A l \in 1..job'[p].copied : inode'[job'[p].fd][l] = job'[p].version
      BY <1>11, <2>0, <2>1
    <3>1. \A l \in 1..job[p].copied : inode[n][l] = job[p].version
      BY <1>1 DEF CopyingInv
    <3>2. k \in 1..Chunks /\ job[p].copied \in Nat
      BY <1>1, JobParts, UpdateFacts DEF CopyPart, TypeInv, JobFits, UpdateTypeOK
    <3>3. \A l \in 1..k : l = k \/ l \in 1..job[p].copied
      BY <3>2
    <3>4. \A l \in 1..k : l \in 1..Chunks
      BY <3>2, UpdateFacts
    <3>5. inode[n] \in [1..Chunks -> 0..MaxVersion]
      BY <1>1 DEF UpdateTypeOK
    <3>6. inode'[n] = [inode[n] EXCEPT ![k] = job[p].version]
      BY <1>1, <1>4 DEF UpdateTypeOK
    <3>7. \A l \in 1..k : inode'[n][l] = job[p].version
      BY <3>1, <3>3, <3>4, <3>5, <3>6
    <3> QED
      BY <1>3, <1>4, <1>7, <3>7
  <2>2. CASE e # c
    <3>1. ASSUME NEW a \in Runs, Private(a, e)'
          PROVE  inode'[job'[a].fd] = inode[job[a].fd] /\ job'[a] = job[a] /\ Private(a, e)
      <4>1. Private(a, e) /\ Copies(a, e)
        BY <1>11, <3>1 DEF Private
      <4> QED
        BY <1>3, <1>6, <1>8, <2>2, <4>1
    <3> QED
      BY <1>4, <2>0, <3>1 DEF CopyingInv
  <2> QED
    BY <2>1, <2>2
<1> QED
  BY <1>4, <1>9, <1>10 DEF CopyingInv, InstalledWhole

\* The temporary file goes, and with it the copy.
LEMMA DatabaseCopyFails ==
  ASSUME TypeInv, CopyingInv, InstalledWhole, NEW p \in Runs, CopyFails(p)
  PROVE  CopyingInv' /\ InstalledWhole'
PROOF
<1> DEFINE c == Current(p)
<1>1. /\ c \in Edition /\ Copies(p, c) /\ UpdateTypeOK /\ pc \in [Runs -> Steps]
  BY UpdateFacts DEF CopyFails, TypeInv, RunTypes, JobFits, Fetching, Copying, Current, Edition, Copies
<1>2. /\ pc'[p] = "failed" /\ \A q \in Runs \ {p} : pc'[q] = pc[q]
      /\ UNCHANGED <<installed, inode, opened, overlapped, together, job>>
      /\ temporary' = [temporary EXCEPT ![c] = NoFile]
  BY <1>1 DEF CopyFails, GiveUp, Goto
<1>3. \A q \in Runs, e \in Edition : Copies(q, e)' => q # p /\ Copies(q, e)
  BY <1>2, CopiesElsewhere DEF Copies, Copying
<1>4. InstalledWhole'
  BY <1>2 DEF InstalledWhole, Version
<1>5. ASSUME NEW e \in Edition
      PROVE  /\ \A a \in Runs : Private(a, e)' => Private(a, e) /\ e # c
             /\ e # c => temporary'[e] = temporary[e]
             /\ temporary'[c] = NoFile
  <2>1. \A a \in Runs : Private(a, e)' => a # p /\ Private(a, e)
    BY <1>2, <1>3 DEF Private
  <2> QED
    BY <1>1, <1>2, <2>1 DEF CopyingInv, UpdateTypeOK
<1> QED
  BY <1>2, <1>3, <1>4, <1>5 DEF CopyingInv

\* What is renamed into place is whole, if no other update came across it, or
\* if the update has met no other: that mends what others have torn.
LEMMA DatabaseInstall ==
  ASSUME TypeInv, DatabaseInv, NEW p \in Runs, Install(p)
  PROVE  CopyingInv' /\ InstalledWhole'
PROOF
<1> DEFINE c == Current(p)
           n == temporary[c]
<1>1. /\ c \in Edition /\ Copies(p, c) /\ UpdateTypeOK /\ pc \in [Runs -> Steps]
      /\ job[p].version # 0 /\ job[p].copied = Chunks
      /\ AloneInv /\ CopyingInv /\ InstalledWhole
  BY UpdateFacts DEF Install, TypeInv, RunTypes, JobFits, Fetching, Copying, Current, Edition, Copies,
     DatabaseInv
<1>2. /\ pc'[p] \notin Copying /\ \A q \in Runs \ {p} : pc'[q] = pc[q] /\ job'[q] = job[q]
      /\ UNCHANGED <<inode, opened, together>>
      /\ overlapped' = IF p \in together THEN overlapped ELSE overlapped \ {c}
      /\ installed' = [installed EXCEPT ![c] = n]
      /\ temporary' = [temporary EXCEPT ![c] = NoFile]
      /\ n # NoFile
  BY <1>1 DEF Install, Goto, Copying, UpdateTypeOK
<1>3. \A q \in Runs, e \in Edition : Copies(q, e)' => q # p /\ Copies(q, e)
  BY <1>2, CopiesElsewhere DEF Copies
<1>4. Private(p, c) => Version(n) # 0
  <2>1. ASSUME Private(p, c) PROVE \A k \in 1..Chunks : inode[n][k] = job[p].version
    BY <1>1, <2>1 DEF CopyingInv
  <2>2. 1 \in 1..Chunks
    BY UpdateFacts
  <2> QED
    BY <1>1, <1>2, <2>1, <2>2 DEF Version
<1>9. c \notin overlapped' => Private(p, c)
  BY <1>1, <1>2 DEF Private
<1>5. ASSUME NEW e \in Edition \ overlapped', installed'[e] # NoFile PROVE Version(installed[e])' # 0
  <2>1. e # c => installed'[e] = installed[e] /\ e \notin overlapped
    BY <1>1, <1>2, <1>5 DEF UpdateTypeOK
  <2>2. installed'[c] = n
    BY <1>1, <1>2 DEF UpdateTypeOK
  <2>3. Version(installed[e])' = IF e = c THEN Version(n) ELSE Version(installed[e])
    BY <1>2, <2>1, <2>2 DEF Version
  <2> QED
    BY <1>1, <1>4, <1>5, <1>9, <2>1, <2>3 DEF InstalledWhole
<1>10. ASSUME NEW a \in Runs, NEW e \in Edition, Private(a, e)'
       PROVE  a # p /\ Private(a, e) /\ e # c
  <2>1. a # p /\ Copies(a, e)
    BY <1>3, <1>10 DEF Private
  <2>2. p \in together
    BY <1>1, <2>1 DEF AloneInv, Copies, Copying, Updating
  <2>3. Private(a, e)
    BY <1>2, <1>10, <2>1, <2>2 DEF Private
  <2> QED
    BY <1>1, <2>1, <2>3 DEF CopyingInv
<1>6. ASSUME NEW e \in Edition
      PROVE  /\ e # c => temporary'[e] = temporary[e] /\ installed'[e] = installed[e]
             /\ temporary'[c] = NoFile
  BY <1>1, <1>2 DEF UpdateTypeOK
<1>8. ASSUME NEW e \in Edition
      PROVE  /\ \A a \in Runs : Private(a, e)' =>
                  /\ \A b \in Runs : Copies(b, e)' => b = a
                  /\ temporary'[e] = job'[a].fd
                  /\ \A k \in 1..job'[a].copied : inode'[job'[a].fd][k] = job'[a].version
             /\ temporary'[e] # NoFile =>
                  installed'[e] # temporary'[e] /\ \A a \in Runs : opened'[a][e] # temporary'[e]
  BY <1>1, <1>2, <1>3, <1>6, <1>10 DEF CopyingInv
<1> QED
  BY <1>5, <1>8 DEF CopyingInv, InstalledWhole

\* The steps of an update other than the four above leave the names and the
\* contents of the databases alone.
LEMMA DatabaseOtherSteps ==
  ASSUME TypeInv, NEW p \in Runs,
         \/ Update(p) /\ pc[p] = "idle"
         \/ UpdateStep(p) /\ ~OpenTemporary(p) /\ ~CopyPart(p) /\ ~CopyFails(p) /\ ~Install(p)
  PROVE  DatabasesElsewhere(p)
PROOF
<1>1. /\ pc \in [Runs -> Steps] /\ UpdateTypeOK
  BY DEF TypeInv, RunTypes
<1>2. \A s : Goto(p, s) => pc'[p] = s /\ \A q \in Runs \ {p} : pc'[q] = pc[q]
  BY <1>1 DEF Goto
<1>3. \A q \in Runs \ {p} : job'[q] = job[q]
  BY <1>1, UpdateStepTyped DEF Update, StartUpdate, RefuseUpdate, updateVars, UpdateFits, UpdateTypeOK
<1>4. UNCHANGED <<installed, temporary, inode, overlapped, opened>> /\ together \subseteq together'
  BY DEF Update, StartUpdate, RefuseUpdate, UpdateStep, Download, NoArchive, InstallFails,
     TruncateManifest, WriteManifest, SaveManifestFails, KilledInUpdate, GiveUp, updateVars
<1>5. /\ pc'[p] \notin Copying /\ \A q \in Runs \ {p} : pc'[q] = pc[q]
  BY <1>2 DEF Update, StartUpdate, RefuseUpdate, UpdateStep, Download, NoArchive, InstallFails,
     TruncateManifest, WriteManifest, SaveManifestFails, KilledInUpdate, Killed, GiveUp, Copying
<1> QED
  BY <1>3, <1>4, <1>5 DEF DatabasesElsewhere

\* So do all other commands, but for the databases an analysis opens and closes.
LEMMA DatabaseOtherCommands ==
  ASSUME TypeInv, NEW p \in Runs, Command(p), ~UpdateStep(p)
  PROVE  DatabasesElsewhere(p)
PROOF
<1>0. UpdateTypeOK
  BY DEF TypeInv
<1>1. CASE ConfigStep(p) /\ UNCHANGED updateVars
  BY <1>1, ConfigMoves DEF Moves, DatabasesElsewhere, updateVars, Saving, Ended, Copying
<1>2. CASE LookupStep(p) /\ UNCHANGED updateVars
  BY <1>2, LookupMoves DEF Moves, DatabasesElsewhere, updateVars, Looking, Ended, Copying
<1>3. CASE Update(p)
  BY <1>3, UpdateMoves, DatabaseOtherSteps DEF Moves
<1>4. CASE NoConfig(p)
  BY <1>4, AnalysisMoves DEF NoConfig, Moves, DatabasesElsewhere, updateVars, Ended, Copying
<1>5. CASE Analyze(p)
  BY <1>5, AnalysisMoves DEF Analyze, Moves, DatabasesElsewhere, updateVars, Copying
<1>6. ASSUME NEW enrich \in BOOLEAN, SetupGeoIP(p, enrich) PROVE DatabasesElsewhere(p)
  BY <1>6, AnalysisMoves DEF SetupGeoIP, Moves, DatabasesElsewhere, updateVars, Copying
<1>12. CASE OpenDatabase(p)
  <2> DEFINE f == Editions[looked[p] + 1]
  <2>1. \/ opened' = [opened EXCEPT ![p][f] = installed[f]]
        \/ opened' = [opened EXCEPT ![p] = [e \in Edition |-> NoFile]]
    BY <1>12 DEF OpenDatabase, CloseDatabases
  <2>2. \A q \in Runs, e \in Edition : opened'[q][e] \in {opened[q][e], installed[e], NoFile}
    BY <1>0, <2>1 DEF UpdateTypeOK
  <2> QED
    BY <1>12, <2>2, AnalysisMoves DEF OpenDatabase, Moves, DatabasesElsewhere, Copying
<1>7. CASE RunWHOIS(p)
  BY <1>7, AnalysisMoves DEF RunWHOIS, Moves, DatabasesElsewhere, updateVars, Copying
<1>8. CASE SkipWHOIS(p)
  BY <1>8, AnalysisMoves DEF SkipWHOIS, Moves, DatabasesElsewhere, updateVars, Copying
<1>9. CASE EndLookups(p)
  BY <1>9, AnalysisMoves DEF EndLookups, Moves, DatabasesElsewhere, updateVars, Copying
<1>10. CASE EndAnalysis(p)
  <2>1. \A q \in Runs, e \in Edition : opened'[q][e] \in {opened[q][e], installed[e], NoFile}
    BY <1>0, <1>10 DEF EndAnalysis, CloseDatabases, UpdateTypeOK
  <2> QED
    BY <1>10, <2>1, AnalysisMoves DEF EndAnalysis, Moves, DatabasesElsewhere, Ended, Copying
<1>11. CASE KilledInAnalysis(p)
  BY <1>11, AnalysisMoves DEF KilledInAnalysis, Moves, DatabasesElsewhere, updateVars, Ended, Copying
<1> QED
  BY <1>1, <1>2, <1>3, <1>4, <1>5, <1>6, <1>7, <1>8, <1>9, <1>10, <1>11, <1>12 DEF Command

\* Files that do not exist yet are not created by anyone but their maker.
LEMMA UnusedKept ==
  ASSUME UnusedInv, NEW p \in Runs,
         \A q \in Runs, i \in DOMAIN Editions : NotYet(q, i)' =>
           NotYet(q, i) /\ (Editions[i] = Current(p) /\ q = p => temporary'[Editions[i]] # <<q, Editions[i]>>),
         \A e \in Edition :
           /\ installed'[e] \in {installed[e], temporary[e]}
           /\ temporary'[e] \in {temporary[e], NoFile} \/ (e = Current(p) /\ temporary'[e] = <<p, e>>)
           /\ \A q \in Runs : opened'[q][e] \in {opened[q][e], installed[e], NoFile}
  PROVE  UnusedInv'
PROOF
<1> SUFFICES ASSUME NEW q \in Runs, NEW i \in DOMAIN Editions, NotYet(q, i)'
             PROVE  LET n == <<q, Editions[i]>> e == Editions[i] IN
                      /\ installed'[e] # n /\ temporary'[e] # n
                      /\ \A a \in Runs : opened'[a][e] # n
  BY DEF UnusedInv
<1> DEFINE e == Editions[i]
           n == <<q, e>>
<1>1. e \in Edition /\ n # NoFile
  BY DEF Edition, NoFile
<1>2. installed[e] # n /\ temporary[e] # n /\ \A a \in Runs : opened[a][e] # n
  BY DEF UnusedInv
<1>3. temporary'[e] # n
  <2>1. q = p \/ <<p, e>> # n
    OBVIOUS
  <2>2. q = p /\ e = Current(p) => temporary'[e] # n
    OBVIOUS
  <2>3. temporary'[e] \in {temporary[e], NoFile} \/ (e = Current(p) /\ temporary'[e] = <<p, e>>)
    BY <1>1
  <2> QED
    BY <1>1, <1>2, <2>1, <2>2, <2>3
<1> QED
  BY <1>1, <1>2, <1>3

\* A step that leaves the names alone creates no file ahead of its maker.
LEMMA UnusedElsewhere ==
  ASSUME TypeInv, UnusedInv, NEW p \in Runs, DatabasesElsewhere(p),
         job'[p].next = job[p].next, pc'[p] \in Copying \cup Ended \/ pc[p] \notin Copying \cup Ended
  PROVE  UnusedInv'
PROOF
<1>1. \A q \in Runs, i \in DOMAIN Editions : NotYet(q, i)' => NotYet(q, i)
  BY DEF NotYet, DatabasesElsewhere
<1>2. \A q \in Runs, i \in DOMAIN Editions :
        NotYet(q, i) => temporary'[Editions[i]] # <<q, Editions[i]>>
  BY DEF UnusedInv, DatabasesElsewhere
<1> QED
  BY <1>1, <1>2, UnusedKept DEF DatabasesElsewhere

\* No step of an update creates a file ahead of its maker.
LEMMA UnusedUpdateStep ==
  ASSUME TypeInv, UnusedInv, NEW p \in Runs, UpdateStep(p)
  PROVE  UnusedInv'
PROOF
<1>0. /\ UpdateTypeOK /\ pc \in [Runs -> Steps]
      /\ Moves(p, Updating, Updating \cup Ended)
      /\ pc[p] \in Fetching => job[p].next \in DOMAIN Editions /\ Current(p) \in Edition
      /\ \A q \in Runs \ {p} : job'[q] = job[q]
      /\ opened' = opened
  BY UpdateMoves, UpdateStepTyped, UpdateFacts DEF TypeInv, RunTypes, JobFits, Current, Edition, UpdateFits
<1>1. ASSUME NEW q \in Runs \ {p}, NEW i \in DOMAIN Editions PROVE NotYet(q, i)' => NotYet(q, i)
  BY <1>0 DEF NotYet, Moves
<1>8. \A q \in Runs, e \in Edition : <<q, e>> # NoFile
  BY DEF NoFile
<1>2. CASE OpenTemporary(p)
  <2>1. Current(p) \in Edition /\ job[p].next \in DOMAIN Editions /\ pc[p] = "update.open"
    BY <1>0, <1>2 DEF OpenTemporary, Fetching
  <2>2. /\ JobStep(p, JobOf(job[p].next, job[p].version, Target(p), job[p].copied, job[p].entries, job[p].since))
        /\ pc'[p] = "update.copy"
    BY <1>0, <1>2, <2>1, JobSteps DEF OpenTemporary, Goto
  <2>3. job'[p].next = job[p].next
    BY <2>2 DEF JobStep, JobOf
  <2>4. \A i \in DOMAIN Editions : NotYet(p, i)' => NotYet(p, i) /\ Editions[i] # Current(p)
    <3>1. \A i \in DOMAIN Editions : NotYet(p, i)' => job[p].next < i
      BY <2>2, <2>3 DEF NotYet, Copying
    <3>2. \A i \in DOMAIN Editions : job[p].next < i => i # job[p].next
      BY <2>1, UpdateFacts
    <3> QED
      BY <2>1, <3>1, <3>2, EditionsAssumption DEF NotYet, Current
  <2>5. temporary' = [temporary EXCEPT ![Current(p)] = Target(p)] /\ installed' = installed
    BY <1>2 DEF OpenTemporary
  <2>6. Target(p) \in {temporary[Current(p)], <<p, Current(p)>>}
    BY DEF Target
  <2>7. \A e \in Edition : \/ temporary'[e] = temporary[e]
                           \/ e = Current(p) /\ temporary'[e] = <<p, e>>
    BY <1>0, <2>5, <2>6 DEF UpdateTypeOK
  <2> QED
    BY <1>0, <1>1, <2>4, <2>5, <2>7, UnusedKept
<1>3. CASE CopyPart(p)
  <2>1. /\ JobStep(p, JobOf(job[p].next, job[p].version, job[p].fd, job[p].copied + 1, job[p].entries, job[p].since))
        /\ pc'[p] \in Copying
    BY <1>0, <1>3, JobSteps DEF CopyPart, Goto, Copying
  <2>2. job'[p].next = job[p].next
    BY <2>1 DEF JobStep, JobOf
  <2>3. \A i \in DOMAIN Editions : NotYet(p, i)' => NotYet(p, i)
    BY <2>1, <2>2 DEF NotYet
  <2>4. \A q \in Runs, i \in DOMAIN Editions : NotYet(q, i) => temporary'[Editions[i]] # <<q, Editions[i]>>
    BY <1>3 DEF CopyPart, UnusedInv
  <2>5. UNCHANGED <<installed, temporary, opened>>
    BY <1>3 DEF CopyPart
  <2> QED
    BY <1>1, <2>3, <2>4, <2>5, UnusedKept
<1>4. CASE CopyFails(p)
  <2>1. pc'[p] \in Ended /\ job' = job /\ installed' = installed /\ Current(p) \in Edition
    BY <1>0, <1>4 DEF CopyFails, GiveUp, Goto, Ended, Fetching, Copying
  <2>2. \A i \in DOMAIN Editions : NotYet(p, i)' => NotYet(p, i)
    BY <2>1 DEF NotYet
  <2>3. \A e \in Edition : temporary'[e] \in {temporary[e], NoFile}
    BY <1>0, <1>4, <2>1 DEF CopyFails, UpdateTypeOK
  <2>4. \A q \in Runs, i \in DOMAIN Editions : NotYet(q, i) => temporary'[Editions[i]] # <<q, Editions[i]>>
    BY <1>8, <2>3 DEF UnusedInv, Edition
  <2> QED
    BY <1>0, <1>1, <2>1, <2>2, <2>3, <2>4, UnusedKept
<1>5. CASE Install(p)
  <2>1. Current(p) \in Edition /\ job[p].next \in DOMAIN Editions
    BY <1>0, <1>5 DEF Install, Fetching, Copying
  <2>2. JobStep(p, JobOf(job[p].next + 1, job[p].version, NoFile, job[p].copied,
                         [job[p].entries EXCEPT ![Current(p)] = job[p].version], job[p].since))
    BY <1>0, <1>5, <2>1, JobSteps
  <2>3. job'[p].next = job[p].next + 1
    BY <2>2 DEF JobStep, JobOf
  <2>4. \A i \in DOMAIN Editions : NotYet(p, i)' => NotYet(p, i)
    BY <2>1, <2>3, UpdateFacts DEF NotYet
  <2>5. \A e \in Edition : /\ installed'[e] \in {installed[e], temporary[e]}
                           /\ temporary'[e] \in {temporary[e], NoFile}
    BY <1>0, <1>5, <2>1 DEF Install, UpdateTypeOK
  <2>6. \A q \in Runs, i \in DOMAIN Editions : NotYet(q, i) => temporary'[Editions[i]] # <<q, Editions[i]>>
    BY <1>8, <2>5 DEF UnusedInv, Edition
  <2> QED
    BY <1>0, <1>1, <2>4, <2>5, <2>6, UnusedKept
<1>6. CASE Download(p)
  <2>1. JobStep(p, JobOf(job[p].next, published, job[p].fd, 0, job[p].entries, job[p].since))
    BY <1>0, <1>6, JobSteps
  <2>2. job'[p].next = job[p].next
    BY <2>1 DEF JobStep, JobOf
  <2>3. pc[p] \notin Copying \cup Ended /\ ~OpenTemporary(p) /\ ~CopyPart(p) /\ ~CopyFails(p) /\ ~Install(p)
    BY <1>6 DEF Download, OpenTemporary, CopyPart, CopyFails, Install, Copying, Ended
  <2> QED
    BY <2>2, <2>3, DatabaseOtherSteps, UnusedElsewhere
<1>7. CASE ~(OpenTemporary(p) \/ CopyPart(p) \/ CopyFails(p) \/ Install(p) \/ Download(p))
  <2>1. job' = job
    BY <1>7 DEF UpdateStep, NoArchive, InstallFails, TruncateManifest, WriteManifest,
       SaveManifestFails, KilledInUpdate, GiveUp, updateVars
  <2>2. pc'[p] \in Copying \cup Ended \/ pc[p] \notin Copying \cup Ended
    BY <1>0, <1>7 DEF UpdateStep, NoArchive, InstallFails, TruncateManifest, WriteManifest,
       SaveManifestFails, KilledInUpdate, Killed, GiveUp, Goto, Copying, Ended
  <2> QED
    BY <1>7, <2>1, <2>2, DatabaseOtherSteps, UnusedElsewhere
<1> QED
  BY <1>2, <1>3, <1>4, <1>5, <1>6, <1>7

\* The invariant of the databases holds at first.
LEMMA DatabaseInitially == Init => DatabaseInv
PROOF
<1> SUFFICES ASSUME Init PROVE DatabaseInv
  OBVIOUS
<1>1. \A e \in Edition : /\ installed[e] = NoFile /\ temporary[e] = NoFile
                         /\ \A p \in Runs : opened[p][e] = NoFile /\ ~Copies(p, e)
  BY DEF Init, UpdateInit, Copies, Copying
<1>2. UnusedInv
  <2>1. \A q \in Runs, e \in Edition : <<q, e>> # NoFile
    BY DEF NoFile
  <2> QED
    BY <1>1, <2>1 DEF UnusedInv, Edition
<1> QED
  BY <1>1, <1>2 DEF DatabaseInv, CopyingInv, Private, AloneInv, InstalledWhole, Init, Updating

\* Updates that are alive at once have met.
LEMMA AlonePreserved == TypeInv /\ AloneInv /\ [Next]_vars => AloneInv'
PROOF
<1> SUFFICES ASSUME TypeInv, AloneInv, [Next]_vars PROVE AloneInv'
  OBVIOUS
<1>1. ASSUME NEW p \in Runs, \A q \in Runs \ {p} : pc'[q] = pc[q], together \subseteq together',
             pc'[p] \in Updating => pc[p] \in Updating
      PROVE  AloneInv'
  BY <1>1 DEF AloneInv
<1>2. ASSUME NEW p \in Runs, UpdateStep(p) PROVE AloneInv'
  <2>1. together' = together
    BY <1>2 DEF UpdateStep, Download, NoArchive, OpenTemporary, CopyPart, CopyFails, Install, InstallFails,
       TruncateManifest, WriteManifest, SaveManifestFails, KilledInUpdate, GiveUp, updateVars
  <2> QED
    BY <1>1, <1>2, <2>1, UpdateMoves DEF Moves
<1>3. ASSUME NEW p \in Runs, StartUpdate(p, Loaded(configFile).license) PROVE AloneInv'
  <2> DEFINE others == {q \in Runs \ {p} : pc[q] \in Updating}
  <2>1. /\ \A q \in Runs \ {p} : pc'[q] = pc[q]
        /\ together' = IF others = {} THEN together ELSE together \cup others \cup {p}
    BY <1>3 DEF StartUpdate, Goto, TypeInv, RunTypes
  <2>2. \A q \in Runs \ {p} : pc'[q] \in Updating => q \in others
    BY <2>1
  <2> QED
    BY <2>1, <2>2 DEF AloneInv
<1>4. ASSUME NEW p \in Runs, Command(p), ~UpdateStep(p), ~(Update(p) /\ pc'[p] \in Updating)
      PROVE  AloneInv'
  <2>1. \A s \in Saving \cup Looking \cup Analysing \cup Ended : s \notin Updating
    BY DEF Saving, Looking, Analysing, Ended, Updating
  <2>2. pc'[p] \notin Updating
    BY <1>4, <2>1, ConfigMoves, LookupMoves, AnalysisMoves DEF Command, Moves, Analysing, Looking
  <2> QED
    BY <1>1, <1>4, <2>2, DatabaseOtherCommands DEF DatabasesElsewhere
<1>5. ASSUME NEW p \in Runs, Update(p), pc'[p] \in Updating PROVE AloneInv'
  <2>1. ~RefuseUpdate(p, Loaded(configFile).license)
    BY <1>5 DEF RefuseUpdate, Goto, TypeInv, RunTypes, Updating
  <2> QED
    BY <1>3, <1>5, <2>1 DEF Update
<1>6. ASSUME UNCHANGED <<pc, together>> PROVE AloneInv'
  BY <1>6 DEF AloneInv
<1>7. ASSUME NEW p \in Runs, Command(p) PROVE AloneInv'
  BY <1>2, <1>4, <1>5, <1>7
<1> QED
  BY <1>6, <1>7 DEF Next, Publish, Tick, vars, updateVars

\* Every step keeps the invariant of the databases.
LEMMA DatabasePreserved == TypeInv /\ DatabaseInv /\ [Next]_vars => DatabaseInv'
PROOF
<1> SUFFICES ASSUME TypeInv, DatabaseInv, [Next]_vars PROVE DatabaseInv'
  OBVIOUS
<1>0. AloneInv' /\ UnusedInv /\ CopyingInv /\ InstalledWhole
  BY AlonePreserved DEF DatabaseInv
<1> SUFFICES (UnusedInv /\ CopyingInv /\ InstalledWhole)'
  BY <1>0 DEF DatabaseInv
<1>1. ASSUME NEW p \in Runs, UpdateStep(p) PROVE (UnusedInv /\ CopyingInv /\ InstalledWhole)'
  <2>1. CASE OpenTemporary(p)
    BY <1>0, <1>1, <2>1, UnusedUpdateStep, DatabaseOpenTemporary
  <2>2. CASE CopyPart(p)
    BY <1>0, <1>1, <2>2, UnusedUpdateStep, DatabaseCopyPart
  <2>3. CASE CopyFails(p)
    BY <1>0, <1>1, <2>3, UnusedUpdateStep, DatabaseCopyFails
  <2>4. CASE Install(p)
    BY <1>0, <1>1, <2>4, UnusedUpdateStep, DatabaseInstall
  <2>5. CASE ~OpenTemporary(p) /\ ~CopyPart(p) /\ ~CopyFails(p) /\ ~Install(p)
    BY <1>0, <1>1, <2>5, UnusedUpdateStep, DatabaseOtherSteps, CopyingElsewhere
  <2> QED
    BY <2>1, <2>2, <2>3, <2>4, <2>5
<1>2. ASSUME NEW p \in Runs, Command(p), ~UpdateStep(p)
      PROVE  (UnusedInv /\ CopyingInv /\ InstalledWhole)'
  <2>1. DatabasesElsewhere(p)
    BY <1>2, DatabaseOtherCommands
  <2>2. job'[p].next = job[p].next
    <3>1. ASSUME StartUpdate(p, Loaded(configFile).license), Readable(configFile)
          PROVE  job'[p].next = job[p].next
      <4>1. Loaded(configFile).license \in BOOLEAN
        BY <3>1, FilesOfSettings DEF TypeInv, ConfigTypeOK, Settings
      <4>2. JobStep(p, JobOf(job[p].next, job[p].version, job[p].fd, job[p].copied,
                            IF manifest = Absent THEN job[p].entries ELSE manifest.value, published))
        BY <3>1, <4>1, JobSteps DEF TypeInv
      <4> QED
        BY <4>2 DEF JobStep, JobOf
    <3> QED
      BY <1>2, <3>1 DEF Command, Update, RefuseUpdate, NoConfig, Analyze, SetupGeoIP,
         OpenDatabase, RunWHOIS, SkipWHOIS, EndLookups, EndAnalysis, KilledInAnalysis, updateVars
  <2>3. pc[p] \notin Copying \cup Ended
    <3>1. \A s \in Saving \cup Looking \cup Analysing \cup {"idle"} : s \notin Copying \cup Ended
      BY DEF Saving, Looking, Analysing, Copying, Ended
    <3> QED
      BY <1>2, <3>1, ConfigMoves, LookupMoves, UpdateMoves, AnalysisMoves
         DEF Command, Moves, Analysing
  <2> QED
    BY <1>0, <2>1, <2>2, <2>3, UnusedElsewhere, CopyingElsewhere
<1>3. ASSUME UNCHANGED <<pc, installed, temporary, inode, job, opened, overlapped, together>>
      PROVE  (UnusedInv /\ CopyingInv /\ InstalledWhole)'
  <2>1. /\ \A q \in Runs, e \in Edition : Copies(q, e)' = Copies(q, e)
        /\ \A q \in Runs, i \in DOMAIN Editions : NotYet(q, i)' = NotYet(q, i)
    BY <1>3 DEF Copies, Current, NotYet
  <2> QED
    BY <1>0, <1>3, <2>1 DEF UnusedInv, CopyingInv, Private, InstalledWhole, Version
<1> QED
  BY <1>1, <1>2, <1>3 DEF Next, Publish, Tick, vars, updateVars

\* For any editions in any number of parts, and however many updates fail, are
\* killed or run at once: a database that is installed is one whole version,
\* unless two updates have copied its edition at the same time, and then again
\* as soon as an update that is alone has installed it.
THEOREM InstallsWhole == Spec => []InstalledWhole
PROOF
<1>1. DatabaseInv => InstalledWhole
  BY DEF DatabaseInv
<1> QED
  BY <1>1, TypeInvInitially, TypeInvPreserved, DatabaseInitially, DatabasePreserved, PTL DEF Spec

\* Nothing writes to an inode that is installed or that an analysis has open,
\* but an update that copied its edition at the same time as another.
LEMMA InUseUntouched ==
  ASSUME TypeInv, DatabaseInv, NEW p \in Runs, UpdateStep(p),
         NEW e \in Edition, e \notin overlapped' \/ p \notin together, NEW n, n # NoFile,
         n = installed[e] \/ \E q \in Runs : n = opened[q][e]
  PROVE  inode'[n] = inode[n]
PROOF
<1>0. /\ UpdateTypeOK /\ NamesInv /\ n \in Inodes /\ n \in Runs \X {e}
  BY DEF TypeInv, NamesInv, UpdateTypeOK
<1>1. CASE OpenTemporary(p)
  <2>1. Current(p) \in Edition /\ pc[p] = "update.open"
    BY <1>1, UpdateFacts DEF OpenTemporary, TypeInv, JobFits, Fetching, Current, Edition
  <2>2. Target(p) \in Runs \X {Current(p)}
    BY <1>0, <2>1 DEF Target, NamesInv
  <2>3. n # Target(p)
    BY <1>0, <2>1, <2>2, TargetUnused DEF DatabaseInv
  <2>4. inode' = [inode EXCEPT ![Target(p)] = Blank]
    BY <1>1 DEF OpenTemporary
  <2> QED
    BY <1>0, <2>3, <2>4 DEF UpdateTypeOK
<1>2. CASE CopyPart(p)
  <2>1. n # job[p].fd
    <3>1. overlapped' = overlapped
      BY <1>2 DEF CopyPart
    <3>2. e = Current(p) => Private(p, e)
      BY <1>2, <3>1, PartUnused DEF Private, DatabaseInv
    <3>3. job[p].fd \in Runs \X {Current(p)}
      BY <1>2, PartUnused DEF DatabaseInv
    <3> QED
      BY <1>0, <1>2, <3>2, <3>3, PartUnused DEF DatabaseInv
  <2>2. inode' = [inode EXCEPT ![job[p].fd][job[p].copied + 1] = job[p].version]
    BY <1>2 DEF CopyPart
  <2> QED
    BY <1>0, <2>1, <2>2 DEF UpdateTypeOK
<1>3. CASE ~OpenTemporary(p) /\ ~CopyPart(p)
  BY <1>3 DEF UpdateStep, Download, NoArchive, CopyFails, Install, InstallFails, TruncateManifest,
     WriteManifest, SaveManifestFails, KilledInUpdate, GiveUp, updateVars
<1> QED
  BY <1>1, <1>2, <1>3

Steady ==
  \A p \in Runs, e \in Edition :
    opened[p][e] # NoFile /\ opened'[p][e] # NoFile
      => /\ opened'[p][e] = opened[p][e]
         /\ inode'[opened[p][e]] # inode[opened[p][e]] => e \in overlapped'

\* Every step leaves what is open as it is.
LEMMA SteadyStep == TypeInv /\ DatabaseInv /\ [Next]_vars => Steady
PROOF
<1> SUFFICES ASSUME TypeInv, DatabaseInv, [Next]_vars PROVE Steady
  OBVIOUS
<1>1. ASSUME NEW p \in Runs, UpdateStep(p) PROVE Steady
  <2>1. opened' = opened
    BY <1>1, UpdateStepTyped DEF UpdateFits
  <2>2. ASSUME NEW q \in Runs, NEW e \in Edition, opened[q][e] # NoFile, e \notin overlapped'
        PROVE  inode'[opened[q][e]] = inode[opened[q][e]]
    BY <1>1, <2>2, InUseUntouched
  <2> QED
    BY <2>1, <2>2 DEF Steady
<1>2. ASSUME NEW p \in Runs, OpenDatabase(p) PROVE Steady
  <2> DEFINE f == Editions[looked[p] + 1]
  <2>1. /\ opened \in [Runs -> [Edition -> Inodes \cup {NoFile}]] /\ inode' = inode
        /\ f \in Edition /\ opened[p][f] = NoFile
    <3>1. looked[p] \in Nat /\ looked[p] < Len(Editions) /\ Unopened(p)
      BY <1>2, UpdateFacts DEF OpenDatabase, TypeInv, JobFits, UpdateTypeOK
    <3>2. looked[p] + 1 \in DOMAIN Editions /\ looked[p] + 1 > looked[p]
      BY <3>1, UpdateFacts
    <3> QED
      BY <1>2, <3>1, <3>2, UpdateFacts DEF OpenDatabase, Unopened, TypeInv, UpdateTypeOK
  <2>2. \/ opened' = [opened EXCEPT ![p][f] = installed[f]]
        \/ opened' = [opened EXCEPT ![p] = [e \in Edition |-> NoFile]]
    BY <1>2 DEF OpenDatabase, CloseDatabases
  <2>3. \A q \in Runs, e \in Edition :
          opened[q][e] # NoFile => opened'[q][e] \in {opened[q][e], NoFile}
    BY <2>1, <2>2
  <2> QED
    BY <2>1, <2>3 DEF Steady
<1>3. ASSUME NEW p \in Runs, EndAnalysis(p) PROVE Steady
  <2>1. \A e \in Edition : opened'[p][e] = NoFile
    BY <1>3 DEF EndAnalysis, CloseDatabases, TypeInv, UpdateTypeOK
  <2>2. inode' = inode /\ \A q \in Runs \ {p} : opened'[q] = opened[q]
    BY <1>3 DEF EndAnalysis, CloseDatabases, TypeInv, UpdateTypeOK
  <2> QED
    BY <2>1, <2>2 DEF Steady
<1>4. ASSUME UNCHANGED <<opened, inode>> PROVE Steady
  BY <1>4 DEF Steady
<1>5. ASSUME NEW p \in Runs, Command(p) PROVE Steady
  BY <1>1, <1>2, <1>3, <1>4, <1>5 DEF Command, NoConfig, Update, StartUpdate, RefuseUpdate, Analyze,
     SetupGeoIP, RunWHOIS, SkipWHOIS, EndLookups, KilledInAnalysis, updateVars
<1> QED
  BY <1>4, <1>5 DEF Next, Publish, Tick, vars, updateVars

\* What an analysis has open stays the file it opened, for any number of
\* updates that install over it meanwhile, and its contents stay what they are
\* unless two of them have copied that edition at the same time.
THEOREM KeepsOpened == Spec => OpenedStaysSame
PROOF
<1>1. TypeInv /\ DatabaseInv /\ [Next]_vars => [Steady]_<<pc, updateVars>>
  BY SteadyStep
<1>2. OpenedStaysSame <=> [][Steady]_<<pc, updateVars>>
  BY PTL DEF OpenedStaysSame, Steady
<1> QED
  BY <1>1, <1>2, TypeInvInitially, TypeInvPreserved, DatabaseInitially, DatabasePreserved, PTL DEF Spec

-----------------------------------------------------------------------------
(* Versions. *)

\* Versions are numbers.
LEMMA VersionTyped ==
  ASSUME TypeInv
  PROVE  /\ published \in Nat
         /\ \A e \in Edition : Version(installed[e]) \in Nat
         /\ \A p \in Runs : /\ job[p].version \in Nat /\ job[p].since \in Nat /\ job[p].next \in Nat
                            /\ \A e \in Edition : job[p].entries[e] \in Nat
         /\ \A e \in Edition : manifest.is = "whole" => manifest.value[e] \in Nat
         /\ \A i \in DOMAIN Editions : i \in Nat /\ Editions[i] \in Edition
PROOF
<1>1. published \in Nat
  BY UpdateFacts DEF TypeInv, UpdateTypeOK
<1>2. ASSUME NEW e \in Edition PROVE Version(installed[e]) \in Nat
  <2>1. installed[e] \in Inodes \/ installed[e] = NoFile
    BY DEF TypeInv, UpdateTypeOK
  <2>2. ASSUME installed[e] \in Inodes PROVE inode[installed[e]][1] \in Nat
    <3>1. inode[installed[e]] \in [1..Chunks -> 0..MaxVersion] /\ 1 \in 1..Chunks
      BY <2>2, UpdateFacts DEF TypeInv, UpdateTypeOK
    <3> QED
      BY <3>1, UpdateFacts
  <2> QED
    BY <2>1, <2>2 DEF Version
<1>3. \A p \in Runs : job[p] \in Job
  BY DEF TypeInv, UpdateTypeOK
<1>4. \A r \in Recorded, e \in Edition : r[e] \in Nat
  BY UpdateFacts DEF Recorded
<1>5. \A v \in 0..MaxVersion : v \in Nat
  BY UpdateFacts
<1>6. \A p \in Runs : /\ job[p].version \in Nat /\ job[p].since \in Nat /\ job[p].next \in Nat
                      /\ job[p].entries \in Recorded
  BY <1>3, <1>5, JobParts
<1>7. manifest.is = "whole" => manifest.value \in Recorded
  <2>1. manifest \in FileOf(Recorded)
    BY DEF TypeInv, UpdateTypeOK
  <2>2. manifest.is = "whole" => manifest \notin {Absent, Empty, Garbled}
    BY DEF Absent, Empty, Garbled
  <2> QED
    BY <2>1, <2>2, FilesOfRecorded
<1>8. \A i \in DOMAIN Editions : i \in Nat /\ Editions[i] \in Edition
  BY UpdateFacts
<1> QED
  BY <1>1, <1>2, <1>4, <1>6, <1>7, <1>8

\* The invariant of versions holds at first.
LEMMA VersionInitially == Init => VersionInv
PROOF
<1> SUFFICES ASSUME Init PROVE VersionInv
  OBVIOUS
<1>1. \A e \in Edition : Version(installed[e]) = 0
  BY DEF Init, UpdateInit, Version
<1> QED
  BY <1>1 DEF Init, UpdateInit, VersionInv, Updating, Absent

\* Nothing that a run remembers of its progress is touched.
LEMMA ProgressKept ==
  ASSUME NEW q \in Runs, pc'[q] = pc[q], job'[q] = job[q], published' = published,
         \A e \in Edition : Version(installed[e])' = Version(installed[e]),
         pc[q] = "update.write" => manifest' = manifest
  PROVE  (Progress(q) => Progress(q)') /\ (Modest(q) => Modest(q)')
PROOF
<1>1. \A i \in DOMAIN Editions : Editions[i] \in Edition
  BY UpdateFacts
<1>2. Progress(q) => Progress(q)'
  BY <1>1 DEF Progress
<1>3. Modest(q) => Modest(q)'
  BY <1>1 DEF Modest
<1> QED
  BY <1>2, <1>3

\* A step that neither updates nor publishes.
LEMMA VersionElsewhere ==
  ASSUME TypeInv, VersionInv, NEW p \in Runs, Moves(p, Steps, Steps \ Updating),
         \A q \in Runs \ {p} : job'[q] = job[q],
         UNCHANGED <<published, manifest, together>>,
         \A e \in Edition : Version(installed[e])' = Version(installed[e])
  PROVE  VersionInv'
PROOF
<1>1. ASSUME NEW q \in Runs, pc'[q] \in Updating
      PROVE  /\ q # p /\ pc[q] \in Updating /\ pc'[q] = pc[q]
             /\ Progress(q) => Progress(q)'
             /\ Modest(q) => Modest(q)'
  <2>1. q # p /\ pc[q] \in Updating /\ pc'[q] = pc[q]
    BY <1>1 DEF Moves
  <2> QED
    BY <2>1, ProgressKept
<1> QED
  BY <1>1 DEF VersionInv

\* An update begins with nothing newer behind it than the server offers.
LEMMA VersionStarts ==
  ASSUME TypeInv, VersionInv, NEW p \in Runs, Update(p), pc'[p] \in Updating
  PROVE  VersionInv'
PROOF
<1> DEFINE credentials == Loaded(configFile).license
           r == IF manifest = Absent THEN job[p].entries ELSE manifest.value
           others == {q \in Runs \ {p} : pc[q] \in Updating}
<1>0. credentials \in BOOLEAN /\ UpdateTypeOK /\ pc \in [Runs -> Steps]
  BY FilesOfSettings DEF Update, TypeInv, RunTypes, ConfigTypeOK, Settings
<1>1. /\ StartUpdate(p, credentials) /\ pc[p] = "idle"
      /\ \A q \in Runs \ {p} : pc'[q] = pc[q]
      /\ pc'[p] = "update.download"
  BY <1>0, UpdateMoves DEF Update, RefuseUpdate, StartUpdate, Goto, Updating, Moves
<1>2. /\ JobStep(p, JobOf(job[p].next, job[p].version, job[p].fd, job[p].copied, r, published))
  BY <1>0, <1>1, JobSteps
<1>3. /\ job'[p].next = job[p].next /\ job'[p].entries = r /\ job'[p].since = published
      /\ \A q \in Runs \ {p} : job'[q] = job[q]
  BY <1>2 DEF JobStep, JobOf
<1>4. job[p].next = 1 /\ \A e \in Edition : job[p].entries[e] = 0
  BY <1>1 DEF TypeInv, JobFits
<1>5. /\ UNCHANGED <<published, manifest, installed, inode>>
      /\ together' = IF others = {} THEN together ELSE together \cup others \cup {p}
      /\ manifest \notin {Empty, Garbled}
  BY <1>1 DEF StartUpdate
<1>6. \A e \in Edition : Version(installed[e])' = Version(installed[e])
  BY <1>5 DEF Version
<1>7. \A q \in Runs \ together' : pc'[q] \in Updating => q = p
  BY <1>1, <1>5
<1>8. Progress(p)'
  <2>1. \A i \in DOMAIN Editions : ~(i < 1)
    BY UpdateFacts
  <2>2. published <= published
    BY VersionTyped
  <2> QED
    BY <1>1, <1>3, <1>4, <1>5, <2>1, <2>2 DEF Progress, Copying
<1>9. ASSUME together' = {}
      PROVE  /\ \A e \in Edition : Version(installed[e])' <= published'
             /\ manifest'.is = "whole" => \A e \in Edition : manifest'.value[e] <= Version(installed[e])'
             /\ \A q \in Runs : pc'[q] \in Updating => Modest(q)'
  <2>1. together = {}
    BY <1>5, <1>9
  <2>2. /\ \A e \in Edition : Version(installed[e]) <= published
        /\ manifest.is = "whole" => \A e \in Edition : manifest.value[e] <= Version(installed[e])
    BY <2>1 DEF VersionInv
  <2>3. \A e \in Edition : r[e] <= Version(installed[e])
    <3>1. CASE manifest = Absent
      BY <1>4, <3>1, VersionTyped
    <3>2. CASE manifest # Absent
      <4>1. manifest.is = "whole"
        BY <1>0, <1>5, <3>2 DEF UpdateTypeOK, FileOf, Whole
      <4> QED
        BY <2>2, <3>2, <4>1
    <3> QED
      BY <3>1, <3>2
  <2>4. Modest(p)'
    BY <1>3, <1>6, <2>2, <2>3, VersionTyped DEF Modest
  <2> QED
    BY <1>5, <1>6, <1>7, <1>9, <2>2, <2>4
<1> QED
  BY <1>7, <1>8, <1>9 DEF VersionInv

\* What is installed keeps its version in every step but Install of an update
\* that has met no other.
LEMMA VersionKept ==
  ASSUME TypeInv, DatabaseInv, NEW p \in Runs \ together, UpdateStep(p), ~Install(p),
         NEW e \in Edition
  PROVE  Version(installed[e])' = Version(installed[e])
PROOF
<1>1. installed' = installed
  BY DEF UpdateStep, Download, NoArchive, OpenTemporary, CopyPart, CopyFails, InstallFails,
     TruncateManifest, WriteManifest, SaveManifestFails, KilledInUpdate, GiveUp, updateVars
<1>2. installed[e] # NoFile => inode'[installed[e]] = inode[installed[e]]
  BY InUseUntouched
<1> QED
  BY <1>1, <1>2 DEF Version

\* An update that has met no other goes on, with its progress kept up.
LEMMA VersionGoesOn ==
  ASSUME TypeInv, AloneInv, VersionInv, NEW p \in Runs \ together, pc[p] \in Updating,
         \A q \in Runs \ {p} : pc'[q] = pc[q], together' = together,
         pc'[p] \in Updating => Progress(p)',
         together = {} =>
           /\ \A e \in Edition : Version(installed[e])' <= published'
           /\ manifest'.is = "whole" => \A e \in Edition : manifest'.value[e] <= Version(installed[e])'
           /\ pc'[p] \in Updating => Modest(p)'
  PROVE  VersionInv'
PROOF
<1>1. \A q \in Runs \ {p} : pc'[q] \notin Updating
  BY DEF AloneInv
<1> QED
  BY <1>1 DEF VersionInv

\* Every step of an update keeps the invariant of versions.
LEMMA VersionUpdateStep ==
  ASSUME TypeInv, DatabaseInv, VersionInv, NEW p \in Runs, UpdateStep(p)
  PROVE  VersionInv'
PROOF
<1>0. /\ UpdateTypeOK /\ pc \in [Runs -> Steps] /\ JobFits(p) /\ AloneInv
      /\ pc[p] \in Updating /\ \A q \in Runs \ {p} : pc'[q] = pc[q] /\ job'[q] = job[q]
      /\ pc[p] \in Fetching => job[p].next \in DOMAIN Editions /\ Current(p) \in Edition
      /\ \A i \in DOMAIN Editions : Editions[i] \in Edition
  BY UpdateMoves, UpdateStepTyped, UpdateFacts DEF TypeInv, RunTypes, JobFits, Current, Edition, UpdateFits,
     Moves, DatabaseInv
<1>1. together' = together
  BY DEF UpdateStep, Download, NoArchive, OpenTemporary, CopyPart, CopyFails, Install, InstallFails,
     TruncateManifest, WriteManifest, SaveManifestFails, KilledInUpdate, GiveUp, updateVars
<1> SUFFICES ASSUME p \notin together PROVE VersionInv'
  <2>1. ASSUME p \in together PROVE VersionInv'
    <3>1. \A q \in Runs \ together : pc'[q] \notin Updating
      BY <1>0, <2>1 DEF AloneInv
    <3> QED
      BY <1>1, <2>1, <3>1 DEF VersionInv
  <2> QED
    BY <2>1
<1>2. /\ Progress(p)
      /\ together = {} =>
           /\ \A e \in Edition : Version(installed[e]) <= published
           /\ manifest.is = "whole" => \A e \in Edition : manifest.value[e] <= Version(installed[e])
           /\ Modest(p)
  BY <1>0 DEF VersionInv
<1>3. ASSUME pc'[p] \in Updating => Progress(p)', ~Install(p), UNCHANGED <<published, manifest>>,
             job'[p].next = job[p].next, job'[p].entries = job[p].entries, job'[p].since = job[p].since
      PROVE  VersionInv'
  <2>1. \A e \in Edition : Version(installed[e])' = Version(installed[e])
    BY <1>3, VersionKept
  <2>2. Modest(p) => Modest(p)'
    BY <1>0, <1>3, <2>1 DEF Modest
  <2> QED
    BY <1>0, <1>1, <1>2, <1>3, <2>1, <2>2, VersionGoesOn
<1>4. ~Install(p) => \A e \in Edition : Version(installed[e])' = Version(installed[e])
  BY VersionKept
<1>5. CASE Download(p)
  <2>1. /\ JobStep(p, JobOf(job[p].next, published, job[p].fd, 0, job[p].entries, job[p].since))
        /\ pc'[p] = "update.open"
    BY <1>0, <1>5, JobSteps DEF Download, Goto
  <2>2. /\ job'[p].next = job[p].next /\ job'[p].version = published
        /\ job'[p].entries = job[p].entries /\ job'[p].since = job[p].since
    BY <2>1 DEF JobStep, JobOf
  <2>3. UNCHANGED <<published, manifest>> /\ ~Install(p)
    BY <1>5 DEF Download, Install
  <2>4. Progress(p)'
    BY <1>0, <1>2, <1>4, <2>1, <2>2, <2>3, VersionTyped DEF Progress
  <2> QED
    BY <1>3, <2>2, <2>3, <2>4
<1>6. CASE OpenTemporary(p)
  <2>1. /\ JobStep(p, JobOf(job[p].next, job[p].version, Target(p), job[p].copied, job[p].entries, job[p].since))
        /\ pc[p] = "update.open" /\ pc'[p] = "update.copy"
    BY <1>0, <1>6, JobSteps DEF OpenTemporary, Goto, Fetching
  <2>2. /\ job'[p].next = job[p].next /\ job'[p].version = job[p].version
        /\ job'[p].entries = job[p].entries /\ job'[p].since = job[p].since
    BY <2>1 DEF JobStep, JobOf
  <2>3. UNCHANGED <<published, manifest>> /\ ~Install(p)
    BY <1>6 DEF OpenTemporary, Install
  <2>4. Progress(p)'
    BY <1>0, <1>2, <1>4, <2>1, <2>2, <2>3 DEF Progress
  <2> QED
    BY <1>3, <2>2, <2>3, <2>4
<1>7. CASE CopyPart(p)
  <2>1. /\ JobStep(p, JobOf(job[p].next, job[p].version, job[p].fd, job[p].copied + 1, job[p].entries, job[p].since))
        /\ pc[p] \in Copying /\ pc'[p] \in Copying
    BY <1>0, <1>7, JobSteps DEF CopyPart, Goto, Copying
  <2>2. /\ job'[p].next = job[p].next /\ job'[p].version = job[p].version
        /\ job'[p].entries = job[p].entries /\ job'[p].since = job[p].since
    BY <2>1 DEF JobStep, JobOf
  <2>3. UNCHANGED <<published, manifest>> /\ ~Install(p)
    BY <1>7 DEF CopyPart, Install
  <2>4. Progress(p)'
    BY <1>0, <1>2, <1>4, <2>1, <2>2, <2>3 DEF Progress, Copying
  <2> QED
    BY <1>3, <2>2, <2>3, <2>4
<1>8. CASE Install(p)
  <2>0. PICK c \in Edition : c = Current(p)
    BY <1>0, <1>8 DEF Install, Fetching, Copying
  <2> DEFINE n == temporary[c]
             m == job[p].next
             v == job[p].version
  <2>1. /\ pc[p] = "update.rename" /\ m \in DOMAIN Editions /\ c = Editions[m] /\ c = Current(p)
        /\ v # 0 /\ job[p].copied = Chunks
    BY <1>0, <1>8, <2>0 DEF Install, JobFits, Fetching, Copying, Current
  <2>2. /\ JobStep(p, JobOf(m + 1, v, NoFile, job[p].copied,
                            [job[p].entries EXCEPT ![c] = v], job[p].since))
        /\ pc'[p] \in {"update.truncate", "update.download"}
    BY <1>0, <1>8, <2>1, JobSteps DEF Install, Goto
  <2>3. /\ job'[p].next = m + 1 /\ job'[p].since = job[p].since
        /\ job'[p].entries = [job[p].entries EXCEPT ![c] = v]
    BY <2>2 DEF JobStep, JobOf
  <2>4. /\ UNCHANGED <<published, manifest, inode>> /\ n # NoFile
        /\ installed' = [installed EXCEPT ![c] = n]
    BY <1>8, <2>1 DEF Install
  <2>5. Version(n) = v
    <3>1. Copies(p, c)
      BY <2>1 DEF Copies, Copying
    <3>2. \A k \in 1..Chunks : inode[n][k] = v
      BY <2>1, <3>1 DEF DatabaseInv, CopyingInv, Private
    <3>3. 1 \in 1..Chunks
      BY UpdateFacts
    <3> QED
      BY <2>1, <2>4, <3>2, <3>3 DEF Version
  <2>6. /\ Version(installed[c])' = v
        /\ \A e \in Edition \ {c} : Version(installed[e])' = Version(installed[e])
    <3>1. installed'[c] = n /\ \A e \in Edition \ {c} : installed'[e] = installed[e]
      BY <1>0, <2>1, <2>4 DEF UpdateTypeOK
    <3>2. Version(installed[c])' = Version(n)
      BY <2>4, <3>1 DEF Version
    <3>3. ASSUME NEW e \in Edition \ {c} PROVE Version(installed[e])' = Version(installed[e])
      BY <2>4, <3>1 DEF Version
    <3> QED
      BY <2>5, <3>2, <3>3
  <2>7. /\ job[p].since <= v /\ v <= published /\ job[p].since <= published
        /\ v \in Nat /\ published \in Nat /\ job[p].since \in Nat /\ m \in Nat
    <3>1. v \in Nat /\ published \in Nat /\ job[p].since \in Nat /\ m \in Nat
      BY VersionTyped
    <3>2. job[p].since <= v /\ v <= published /\ job[p].since <= published
      BY <1>2, <2>1 DEF Progress, Copying
    <3> QED
      BY <3>1, <3>2
  <2>9. /\ job'[p].entries[c] = v
        /\ \A e \in Edition \ {c} : job'[p].entries[e] = job[p].entries[e]
    <3>1. job[p].entries \in [Edition -> 0..MaxVersion]
      BY <1>0, JobParts DEF UpdateTypeOK, Recorded
    <3> QED
      BY <2>1, <2>3, <3>1
  <2>11. ASSUME NEW i \in DOMAIN Editions, i # m
         PROVE  /\ (i < m + 1 => i < m) /\ (i >= m + 1 => i >= m)
                /\ Version(installed[Editions[i]])' = Version(installed[Editions[i]])
                /\ job'[p].entries[Editions[i]] = job[p].entries[Editions[i]]
    <3>1. Editions[i] # c /\ Editions[i] \in Edition
      BY <1>0, <2>1, <2>11, EditionsAssumption
    <3> QED
      BY <2>6, <2>7, <2>9, <2>11, <3>1, VersionTyped
  <2>12. Progress(p)'
    <3>1. ASSUME NEW i \in DOMAIN Editions, i < m + 1
          PROVE  /\ job'[p].entries[Editions[i]] = Version(installed[Editions[i]])'
                 /\ job[p].since <= Version(installed[Editions[i]])'
      <4>1. CASE i = m
        BY <2>1, <2>6, <2>7, <2>9, <4>1
      <4>2. CASE i # m
        BY <1>2, <2>11, <3>1, <4>2 DEF Progress
      <4> QED
        BY <4>1, <4>2
    <3> QED
      BY <2>2, <2>3, <2>4, <2>7, <3>1 DEF Progress, Copying
  <2>13. ASSUME together = {}
         PROVE  /\ \A e \in Edition : Version(installed[e])' <= published
                /\ manifest.is = "whole" => \A e \in Edition : manifest.value[e] <= Version(installed[e])'
                /\ Modest(p)'
    <3>1. /\ \A e \in Edition : Version(installed[e]) <= published
          /\ manifest.is = "whole" => \A e \in Edition : manifest.value[e] <= Version(installed[e])
          /\ Modest(p)
      BY <1>2, <2>13
    <3>2. Version(installed[c]) <= v
      <4>0. m >= m
        BY <2>7
      <4>1. Version(installed[c]) <= job[p].since
        BY <2>1, <3>1, <4>0 DEF Modest
      <4> QED
        BY <2>1, <2>7, <4>1, VersionTyped
    <3>3. ASSUME NEW e \in Edition
          PROVE  /\ Version(installed[e])' <= published
                 /\ manifest.is = "whole" => manifest.value[e] <= Version(installed[e])'
                 /\ job'[p].entries[e] <= Version(installed[e])'
      <4>1. CASE e = c
        <5>1. Version(installed[e])' = v /\ job'[p].entries[e] = v
          BY <2>6, <2>9, <4>1
        <5>2. ASSUME manifest.is = "whole" PROVE manifest.value[e] <= v
          <6>1. /\ manifest.value[e] <= Version(installed[e]) /\ Version(installed[e]) <= v
                /\ manifest.value[e] \in Nat /\ Version(installed[e]) \in Nat
            BY <3>1, <3>2, <4>1, <5>2, VersionTyped
          <6> QED
            BY <2>7, <6>1
        <5> QED
          BY <2>7, <5>1, <5>2
      <4>2. CASE e # c
        <5>1. Version(installed[e])' = Version(installed[e]) /\ job'[p].entries[e] = job[p].entries[e]
          BY <2>6, <2>9, <4>2
        <5> QED
          BY <3>1, <5>1 DEF Modest
      <4> QED
        BY <4>1, <4>2
    <3>4. ASSUME NEW i \in DOMAIN Editions, i >= m + 1
          PROVE  Version(installed[Editions[i]])' <= job[p].since
      <4>1. i # m
        BY <2>7, <3>4
      <4> QED
        BY <2>11, <3>1, <3>4, <4>1 DEF Modest
    <3>5. Modest(p)'
      BY <2>3, <3>3, <3>4 DEF Modest
    <3> QED
      BY <3>3, <3>5
  <2> QED
    BY <1>0, <1>1, <2>4, <2>12, <2>13, VersionGoesOn
<1>9. CASE TruncateManifest(p)
  <2>1. /\ pc[p] = "update.truncate" /\ pc'[p] = "update.write"
        /\ manifest' = Empty /\ UNCHANGED <<published, job>> /\ ~Install(p)
    BY <1>0, <1>9 DEF TruncateManifest, Goto, Install
  <2>2. Progress(p)' /\ (Modest(p) => Modest(p)')
    BY <1>0, <1>2, <1>4, <2>1 DEF Progress, Modest, Copying
  <2>3. manifest'.is # "whole"
    BY <2>1 DEF Empty
  <2> QED
    BY <1>0, <1>1, <1>2, <1>4, <2>1, <2>2, <2>3, VersionGoesOn
<1>10. CASE WriteManifest(p)
  <2>1. /\ pc[p] = "update.write" /\ pc'[p] = "ok"
        /\ manifest' \in Written(manifest, job[p].entries) /\ UNCHANGED published /\ ~Install(p)
    BY <1>0, <1>10 DEF WriteManifest, Goto, Install
  <2>2. manifest' = Whole(job[p].entries)
    BY <1>2, <2>1 DEF Progress, Written
  <2>3. manifest'.value = job[p].entries
    BY <2>2 DEF Whole
  <2>4. pc'[p] \notin Updating
    BY <2>1 DEF Updating
  <2> QED
    BY <1>0, <1>1, <1>2, <1>4, <2>1, <2>3, <2>4, VersionGoesOn DEF Modest
<1>11. CASE NoArchive(p) \/ CopyFails(p) \/ InstallFails(p) \/ SaveManifestFails(p) \/ KilledInUpdate(p)
  <2>1. /\ pc'[p] \notin Updating /\ UNCHANGED <<published, manifest, installed, inode>>
    BY <1>0, <1>11 DEF NoArchive, CopyFails, InstallFails, SaveManifestFails, KilledInUpdate, Killed,
       GiveUp, Goto, updateVars, Updating
  <2>2. \A e \in Edition : Version(installed[e])' = Version(installed[e])
    BY <2>1 DEF Version
  <2> QED
    BY <1>0, <1>1, <1>2, <2>1, <2>2, VersionGoesOn
<1> QED
  BY <1>5, <1>6, <1>7, <1>8, <1>9, <1>10, <1>11 DEF UpdateStep

\* Every step keeps the invariant of versions.
LEMMA VersionPreserved == TypeInv /\ DatabaseInv /\ VersionInv /\ [Next]_vars => VersionInv'
PROOF
<1> SUFFICES ASSUME TypeInv, DatabaseInv, VersionInv, [Next]_vars PROVE VersionInv'
  OBVIOUS
<1>1. ASSUME NEW p \in Runs, Command(p), ~UpdateStep(p) PROVE VersionInv'
  <2>1. CASE pc'[p] \in Updating /\ Update(p)
    BY <2>1, VersionStarts
  <2>2. CASE ~(pc'[p] \in Updating /\ Update(p))
    <3>1. DatabasesElsewhere(p) /\ \A e \in Edition : Version(installed[e])' = Version(installed[e])
      BY <1>1, DatabaseOtherCommands DEF DatabasesElsewhere, Version
    <3>2. pc'[p] \notin Updating /\ UNCHANGED <<published, manifest, together>>
      <4>1. \A s \in Saving \cup Looking \cup Analysing \cup Ended : s \notin Updating
        BY DEF Saving, Looking, Analysing, Ended, Updating
      <4>2. pc'[p] \notin Updating
        BY <1>1, <2>2, <4>1, ConfigMoves, LookupMoves, AnalysisMoves DEF Command, Moves, Analysing, Looking
      <4>3. Update(p) => UNCHANGED <<published, manifest, together>>
        <5>1. StartUpdate(p, Loaded(configFile).license) => pc'[p] = "update.download"
          BY DEF StartUpdate, Goto, TypeInv, RunTypes
        <5> QED
          BY <2>2, <5>1 DEF Update, RefuseUpdate, updateVars, Updating
      <4> QED
        BY <1>1, <4>2, <4>3 DEF Command, NoConfig, Analyze, SetupGeoIP, RunWHOIS, SkipWHOIS, EndLookups,
           OpenDatabase, EndAnalysis, KilledInAnalysis, updateVars
    <3>3. Moves(p, Steps, Steps \ Updating)
      <4>1. pc[p] \in Steps /\ pc'[p] \in Steps
        BY TypeInvPreserved DEF TypeInv, RunTypes
      <4> QED
        BY <3>1, <3>2, <4>1 DEF Moves, DatabasesElsewhere
    <3> QED
      BY <3>1, <3>2, <3>3, VersionElsewhere DEF DatabasesElsewhere
  <2> QED
    BY <2>1, <2>2
<1>2. CASE Publish
  <2>1. /\ published' = published + 1
        /\ UNCHANGED <<pc, manifest, installed, inode, job, together>>
    BY <1>2 DEF Publish
  <2>2. \A e \in Edition : Version(installed[e])' = Version(installed[e])
    BY <2>1 DEF Version
  <2>3. ASSUME NEW x \in Nat, x <= published PROVE x <= published'
    BY <2>1, <2>3, VersionTyped
  <2>4. ASSUME NEW q \in Runs PROVE (Progress(q) => Progress(q)') /\ (Modest(q) => Modest(q)')
    BY <2>1, <2>2, <2>3, VersionTyped DEF Progress, Modest
  <2> QED
    BY <2>1, <2>2, <2>3, <2>4, VersionTyped DEF VersionInv
<1>3. ASSUME UNCHANGED <<pc, updateVars>> PROVE VersionInv'
  BY <1>3 DEF VersionInv, Progress, Modest, Version, updateVars
<1>4. ASSUME NEW p \in Runs, Command(p) PROVE VersionInv'
  BY <1>1, <1>4, VersionUpdateStep
<1> QED
  BY <1>2, <1>3, <1>4 DEF Next, Tick, vars

\* However updates fail, are killed and follow each other: as long as no two
\* have been alive at once, the manifest claims nothing newer than what is
\* installed, for any editions and any number of versions.
THEOREM ManifestHonest == Spec => []ManifestNotAhead
PROOF
<1>1. VersionInv => ManifestNotAhead
  BY DEF VersionInv, ManifestNotAhead
<1> QED
  BY <1>1, TypeInvInitially, TypeInvPreserved, DatabaseInitially, DatabasePreserved, VersionInitially,
     VersionPreserved, PTL DEF Spec

Finished ==
  \A p \in Runs \ together :
    pc[p] = "update.write" /\ pc'[p] = "ok"
      => \A e \in Edition :
           /\ Version(installed[e]) >= job[p].since
           /\ manifest'.value[e] = Version(installed[e])

\* Every step that ends an update in success leaves what it promises.
LEMMA FinishedStep == TypeInv /\ VersionInv /\ [Next]_vars => Finished
PROOF
<1> SUFFICES ASSUME TypeInv, VersionInv, [Next]_vars,
                    NEW p \in Runs \ together, pc[p] = "update.write", pc'[p] = "ok",
                    NEW e \in Edition
             PROVE  Version(installed[e]) >= job[p].since /\ manifest'.value[e] = Version(installed[e])
  BY DEF Finished
<1>1. PICK q \in Runs : Command(q)
  BY DEF Next, Publish, Tick, vars
<1>2. q = p /\ UpdateStep(p)
  <2>1. ASSUME q # p PROVE FALSE
    <3>1. Moves(q, Steps, Steps) \/ pc' = pc
      BY <1>1, ConfigMoves, UpdateMoves, LookupMoves, AnalysisMoves DEF Command, Moves, Steps, Analysing,
         Looking, Updating, Saving, Ended
    <3> QED
      BY <2>1, <3>1 DEF Moves
  <2>2. "update.write" \notin Saving \cup Looking \cup Analysing \cup {"idle"}
    BY DEF Saving, Looking, Analysing
  <2> QED
    BY <1>1, <2>1, <2>2, ConfigMoves, UpdateMoves, LookupMoves, AnalysisMoves DEF Command, Moves,
       Analysing, Looking
<1>3. WriteManifest(p)
  BY <1>2 DEF UpdateStep, Download, NoArchive, OpenTemporary, CopyPart, CopyFails, Install, InstallFails,
     TruncateManifest, SaveManifestFails, KilledInUpdate, Killed, GiveUp, Goto, TypeInv, RunTypes
<1>4. Progress(p) /\ job[p].next = Len(Editions) + 1
  BY <1>3 DEF WriteManifest, VersionInv, Updating, TypeInv, JobFits
<1>5. PICK i \in DOMAIN Editions : e = Editions[i]
  BY UpdateFacts
<1>6. i < job[p].next
  BY <1>4, UpdateFacts
<1>7. job[p].entries[e] = Version(installed[e]) /\ job[p].since <= Version(installed[e])
  BY <1>4, <1>5, <1>6 DEF Progress
<1>8. manifest' = Whole(job[p].entries)
  BY <1>3, <1>4 DEF WriteManifest, Progress, Written
<1>9. manifest'.value = job[p].entries
  BY <1>8 DEF Whole
<1> QED
  BY <1>7, <1>9, VersionTyped

\* An update that was alone and reports success leaves, for any editions and
\* whatever earlier updates left behind, what the server offered when it began
\* or something newer, and a manifest that says so.
THEOREM LeavesCurrent == Spec => SuccessMeansCurrent
PROOF
<1>1. TypeInv /\ VersionInv /\ [Next]_vars => [Finished]_<<pc, updateVars>>
  BY FinishedStep
<1>2. SuccessMeansCurrent <=> [][Finished]_<<pc, updateVars>>
  BY PTL DEF SuccessMeansCurrent, Finished
<1> QED
  BY <1>1, <1>2, TypeInvInitially, TypeInvPreserved, DatabaseInitially, DatabasePreserved,
     VersionInitially, VersionPreserved, PTL DEF Spec
=============================================================================
