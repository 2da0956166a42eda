------------------------------ MODULE UpdateDB ------------------------------
(***************************************************************************)
(* The GeoLite2 databases: internal/enrich/updatedb installs them, one     *)
(* edition after the other, each through a temporary file that is renamed  *)
(* into place, and then rewrites the manifest; internal/enrich/geoip opens *)
(* what is installed for the length of an analysis.                        *)
(*                                                                         *)
(* A database file is an inode with Chunks parts (io.Copy writes it part   *)
(* by part); a part holds the version it was copied from, 0 for nothing.   *)
(* Names refer to inodes, and an open file stays what it is when the name  *)
(* moves on.                                                               *)
(***************************************************************************)
EXTENDS Files, Naturals, Sequences

CONSTANTS
  Editions,     \* the sequence of editions, in the order they are updated
  Chunks,       \* the number of parts of a database
  MaxVersion    \* bound: the versions MaxMind publishes

ASSUME ChunksAssumption == Chunks \in Nat \ {0} /\ MaxVersion \in Nat \ {0}
ASSUME EditionsAssumption ==
  /\ Editions \in Seq({Editions[i] : i \in DOMAIN Editions}) /\ Len(Editions) > 0
  /\ \A i, j \in DOMAIN Editions : Editions[i] = Editions[j] => i = j

VARIABLES
  published,    \* the version the download server offers
  manifest,     \* manifest.json: the version recorded for each edition
  installed,    \* <edition>.mmdb: an inode, or none
  temporary,    \* <edition>.mmdb.tmp: an inode, or none
  inode,        \* the contents of every inode
  job,          \* what each update holds in memory
  opened,       \* the databases each analysis has open
  looked,       \* how many databases each analysis has looked for
  overlapped,   \* history: the editions last copied by two updates at one time
  together      \* history: the updates that were alive at the same time as another

updateVars ==
  <<published, manifest, installed, temporary, inode, job, opened, looked, overlapped, together>>

Edition == {Editions[i] : i \in DOMAIN Editions}
Inodes  == Runs \X Edition       \* an update creates at most one file per edition
NoFile  == <<>>
Blank   == [k \in 1..Chunks |-> 0]

Recorded == [Edition -> 0..MaxVersion]    \* what a manifest says; 0: no entry

Idle == [next |-> 1, version |-> 0, fd |-> NoFile, copied |-> 0,
         entries |-> [e \in Edition |-> 0], since |-> 0]

UpdateInit ==
  /\ published = 1
  /\ manifest = Absent
  /\ installed = [e \in Edition |-> NoFile]
  /\ temporary = [e \in Edition |-> NoFile]
  /\ inode = [n \in Inodes |-> Blank]
  /\ job = [p \in Runs |-> Idle]
  /\ opened = [p \in Runs |-> [e \in Edition |-> NoFile]]
  /\ overlapped = {}
  /\ looked = [p \in Runs |-> 0]
  /\ together = {}

Updating == {"update.download", "update.open", "update.copy", "update.rename",
             "update.truncate", "update.write"}
Copying  == {"update.copy", "update.rename"}

Current(p) == Editions[job[p].next]

Version(n) == IF n # NoFile /\ inode[n][1] # 0 /\ \A k \in 1..Chunks : inode[n][k] = inode[n][1]
              THEN inode[n][1] ELSE 0

\* MaxMind publishes a new version.
Publish ==
  /\ published < MaxVersion
  /\ published' = published + 1
  /\ UNCHANGED <<pc, manifest, installed, temporary, inode, job, opened, looked, overlapped, together>>

\* Without credentials, or with a manifest that does not parse, an update
\* ends before it does anything.
RefuseUpdate(p, credentials) ==
  /\ pc[p] = "idle"
  /\ ~credentials \/ manifest \in {Empty, Garbled}
  /\ Goto(p, "failed")
  /\ UNCHANGED updateVars

StartUpdate(p, credentials) ==
  /\ pc[p] = "idle"
  /\ credentials
  /\ manifest \notin {Empty, Garbled}
  /\ job' = [job EXCEPT ![p].entries = IF manifest = Absent THEN @ ELSE manifest.value,
                        ![p].since = published]
  /\ LET others == {q \in Runs \ {p} : pc[q] \in Updating}
     IN  together' = IF others = {} THEN together ELSE together \cup others \cup {p}
  /\ Goto(p, "update.download")
  /\ UNCHANGED <<published, manifest, installed, temporary, inode, opened, looked, overlapped>>

Download(p) ==
  /\ pc[p] = "update.download"
  /\ job' = [job EXCEPT ![p].version = published, ![p].copied = 0]
  /\ Goto(p, "update.open")
  /\ UNCHANGED <<published, manifest, installed, temporary, inode, opened, looked, overlapped, together>>

\* No answer, an answer other than 200, a body cut short, an archive that
\* does not unpack or holds no database: the update gives up where it is.
GiveUp(p) ==
  /\ Goto(p, "failed")
  /\ UNCHANGED <<published, manifest, installed, inode, job, opened, looked, overlapped, together>>

\* Mutant of NoArchive: the edition is left out and recorded all the same.
NoArchiveRecorded(p) ==
  /\ pc[p] = "update.download"
  /\ job' = [job EXCEPT ![p].entries[Current(p)] = published, ![p].next = @ + 1]
  /\ Goto(p, IF job[p].next = Len(Editions) THEN "update.truncate" ELSE "update.download")
  /\ UNCHANGED <<published, manifest, installed, temporary, inode, opened, looked, overlapped, together>>

\* Mutant of NoArchive: the edition is left out and the update goes on.
NoArchivePassed(p) ==
  /\ pc[p] = "update.download"
  /\ job' = [job EXCEPT ![p].next = @ + 1]
  /\ Goto(p, IF job[p].next = Len(Editions) THEN "update.truncate" ELSE "update.download")
  /\ UNCHANGED <<published, manifest, installed, temporary, inode, opened, looked, overlapped, together>>

NoArchive(p) ==
  /\ pc[p] \in {"update.download", "update.open"}
  /\ UNCHANGED temporary
  /\ GiveUp(p)

\* Mutant of Target: the installed file is written in place.
TargetInPlace(p) == LET e == Current(p) IN IF installed[e] # NoFile THEN installed[e] ELSE <<p, e>>

\* The file the update writes: the temporary one if it exists, whoever made it.
Target(p) == LET e == Current(p) IN IF temporary[e] # NoFile THEN temporary[e] ELSE <<p, e>>

OpenTemporary(p) ==
  /\ pc[p] = "update.open"
  /\ LET n == Target(p) IN
       /\ temporary' = [temporary EXCEPT ![Current(p)] = n]
       /\ inode' = [inode EXCEPT ![n] = Blank]
       /\ job' = [job EXCEPT ![p].fd = n]
  /\ overlapped' = overlapped \cup
       {e \in {Current(p)} : \E q \in Runs \ {p} : pc[q] \in Copying /\ Current(q) = e}
  /\ Goto(p, "update.copy")
  /\ UNCHANGED <<published, manifest, installed, opened, looked, together>>

CopyPart(p) ==
  /\ pc[p] = "update.copy"
  /\ LET k == job[p].copied + 1 IN
       /\ inode' = [inode EXCEPT ![job[p].fd][k] = job[p].version]
       /\ job' = [job EXCEPT ![p].copied = k]
       /\ Goto(p, IF k = Chunks THEN "update.rename" ELSE "update.copy")
  /\ UNCHANGED <<published, manifest, installed, temporary, opened, looked, overlapped, together>>

\* Mutant of CopyFails: the error is dropped and the file installed.
CopyFailsUnnoticed(p) ==
  /\ pc[p] = "update.copy"
  /\ Goto(p, "update.rename")
  /\ UNCHANGED updateVars

\* The archive ends too early or the disk is full: the temporary file is
\* removed, by its name.
CopyFails(p) ==
  /\ pc[p] = "update.copy"
  /\ temporary' = [temporary EXCEPT ![Current(p)] = NoFile]
  /\ GiveUp(p)

Install(p) ==
  /\ pc[p] = "update.rename"
  /\ LET e == Current(p) IN
       /\ temporary[e] # NoFile
       /\ installed' = [installed EXCEPT ![e] = temporary[e]]
       /\ temporary' = [temporary EXCEPT ![e] = NoFile]
       /\ job' = [job EXCEPT ![p].entries[e] = job[p].version, ![p].next = @ + 1, ![p].fd = NoFile]
       /\ overlapped' = IF p \in together THEN overlapped ELSE overlapped \ {e}
  /\ Goto(p, IF job[p].next = Len(Editions) THEN "update.truncate" ELSE "update.download")
  /\ UNCHANGED <<published, manifest, inode, opened, looked, together>>

\* Another update has renamed or removed the file meanwhile, or the rename
\* fails for a reason of the file system's own.
InstallFails(p) ==
  /\ pc[p] = "update.rename"
  /\ UNCHANGED temporary
  /\ GiveUp(p)

TruncateManifest(p) ==
  /\ pc[p] = "update.truncate"
  /\ manifest' = Empty
  /\ Goto(p, "update.write")
  /\ UNCHANGED <<published, installed, temporary, inode, job, opened, looked, overlapped, together>>

WriteManifest(p) ==
  /\ pc[p] = "update.write"
  /\ manifest' \in Written(manifest, job[p].entries)
  /\ Goto(p, "ok")
  /\ UNCHANGED <<published, installed, temporary, inode, job, opened, looked, overlapped, together>>

SaveManifestFails(p) ==
  /\ pc[p] \in {"update.truncate", "update.write"}
  /\ UNCHANGED temporary
  /\ GiveUp(p)

KilledInUpdate(p) == pc[p] \in Updating /\ Killed(p) /\ UNCHANGED updateVars

(***************************************************************************)
(* The reader: an analysis opens one database after the other, each as it  *)
(* is installed when its turn comes, or not at all if there is none.  A    *)
(* file that is not whole is refused, or read as it is; one refusal and    *)
(* the analysis goes on with no database at all.                           *)
(***************************************************************************)
CloseDatabases(p) == opened' = [opened EXCEPT ![p] = [e \in Edition |-> NoFile]]

OpenDatabase(p) ==
  /\ pc[p] = "geoip.open"
  /\ LET e == Editions[looked[p] + 1] IN
       \/ /\ opened' = [opened EXCEPT ![p][e] = installed[e]]
          /\ looked' = [looked EXCEPT ![p] = @ + 1]
          /\ Goto(p, IF looked'[p] = Len(Editions) THEN "whois" ELSE "geoip.open")
       \/ /\ installed[e] # NoFile /\ Version(installed[e]) = 0
          /\ CloseDatabases(p)
          /\ Goto(p, "whois")
          /\ UNCHANGED looked
  /\ UNCHANGED <<published, manifest, installed, temporary, inode, job, overlapped, together>>

UpdateStep(p) ==
  \/ Download(p) \/ NoArchive(p) \/ OpenTemporary(p)
  \/ CopyPart(p) \/ CopyFails(p) \/ Install(p) \/ InstallFails(p)
  \/ TruncateManifest(p) \/ WriteManifest(p) \/ SaveManifestFails(p)
  \/ KilledInUpdate(p)

(***************************************************************************)
(* Properties                                                              *)
(***************************************************************************)
Job == [next: Nat, version: 0..MaxVersion, fd: Inodes \cup {NoFile}, copied: Nat,
        entries: Recorded, since: Nat]

UpdateTypeOK ==
  /\ published \in 1..MaxVersion
  /\ manifest \in FileOf(Recorded)
  /\ installed \in [Edition -> Inodes \cup {NoFile}]
  /\ temporary \in [Edition -> Inodes \cup {NoFile}]
  /\ inode \in [Inodes -> [1..Chunks -> 0..MaxVersion]]
  /\ job \in [Runs -> Job]
  /\ opened \in [Runs -> [Edition -> Inodes \cup {NoFile}]]
  /\ looked \in [Runs -> 0..Len(Editions)]
  /\ overlapped \subseteq Edition
  /\ together \subseteq Runs

\* Whatever fails and whoever is killed, an installed database is one whole
\* version: only two updates copying the same edition at once can tear it,
\* for they share the name of the temporary file.  The next update that is
\* alone and gets as far as to install the edition has mended it, whatever
\* they left behind.
InstalledWhole ==
  \A e \in Edition \ overlapped : installed[e] # NoFile => Version(installed[e]) # 0

\* A database an analysis has open stays the file that was opened, however
\* many updates install new versions under its name meanwhile, and what is in
\* it stays the same -- unless two updates have copied that edition at one
\* time.  They share the temporary file: one renames it, an analysis opens it,
\* and the other goes on writing what is open.
OpenedStaysSame ==
  [][\A p \in Runs, e \in Edition :
       opened[p][e] # NoFile /\ opened'[p][e] # NoFile
         => /\ opened'[p][e] = opened[p][e]
            /\ inode'[opened[p][e]] # inode[opened[p][e]] => e \in overlapped'
    ]_<<pc, updateVars>>

\* The manifest never claims a version newer than what is installed, unless
\* updates have run at the same time.  It may lag behind: an update that
\* fails at the second edition has installed the first and records neither.
ManifestNotAhead ==
  together = {} /\ manifest.is = "whole"
    => \A e \in Edition : manifest.value[e] <= Version(installed[e])

\* An update that was alone and reports success leaves nothing older than
\* what the server offered when it began, and a manifest that says what is
\* installed -- whatever earlier updates left behind when they failed, were
\* killed or wrote over each other.
SuccessMeansCurrent ==
  [][\A p \in Runs \ together :
       pc[p] = "update.write" /\ pc'[p] = "ok"
         => \A e \in Edition :
              /\ Version(installed[e]) >= job[p].since
              /\ manifest'.value[e] = Version(installed[e])
    ]_<<pc, updateVars>>
=============================================================================
