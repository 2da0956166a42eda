------------------------------ MODULE Analysis ------------------------------
(***************************************************************************)
(* One run of `pcapdigger analyze`, from the finished tables to the files: *)
(* runAnalyze and what it calls, in the order it calls them.  Everything   *)
(* that can fail may fail; the first failure ends the run.                 *)
(***************************************************************************)
EXTENDS Report

CONSTANTS
  Captures,       \* the finished tables that a capture may lead to
  Commands,       \* the options and settings a run may be given
  DefaultLimit    \* 50: the WHOIS lookups of a run when no limit is given

\* A flag's value is cut at its commas; numbers may be given as any integer.
ASSUME CommandsAssumption ==
  \A c \in Commands :
    /\ c.formats \in Seq(STRING) /\ c.reports \in Seq(STRING)
    /\ c.topN \in Int /\ c.whoisLimit \in Int

\* A capture has finitely many hosts and flows, none without a packet, and
\* lists of events; a host has a list of ports, both have what was counted
\* for them, and the tables know the ends of every flow.
ASSUME CapturesAssumption ==
  \A r \in Captures :
    /\ IsFiniteSet(DOMAIN r.hosts) /\ DOMAIN r.hosts \subseteq Int
    /\ IsFiniteSet(r.flows) /\ (r.meta.packets = 0 => r.flows = {})
    /\ {r.meta.first, r.meta.last} \subseteq Int
    /\ \A f \in r.flows :
         /\ {f.a, f.b} \subseteq DOMAIN r.hosts
         /\ {f.bytesAB, f.bytesBA} \subseteq Nat /\ {f.first, f.last} \subseteq Int
    /\ \A events \in {r.arp, r.dns, r.creds, r.malformed} : events \in Seq(ToSet(events))
    /\ \A e \in ToSet(r.arp) : e.time \in Int
    /\ \A ip \in DOMAIN r.hosts :
         /\ r.hosts[ip].bytes \in Nat /\ r.hosts[ip].private \in BOOLEAN
         /\ r.hosts[ip].ports \in Seq(ToSet(r.hosts[ip].ports))

ASSUME LimitsAssumption ==
  /\ DefaultLimit \in Nat /\ DefaultTop \in Nat
  /\ Limits.burst \in Nat \ {0} /\ Limits.burstWindow \in Nat
  /\ Buckets \in Nat \ {0} /\ Second \in Nat \ {0}

VARIABLES
  step,       \* where runAnalyze stands
  result,     \* the tables of the capture
  opts,       \* analyzeOptions, and the settings that the run looks at
  iocs,       \* the indicators loaded
  detected,   \* Run's slice while it is filled
  pass,       \* the passes that have been made
  findings,   \* Run's slice, sorted
  summary,
  geo,        \* the addresses the opened databases know
  targets,    \* the addresses still to look up
  asked,      \* history: those looked up
  whois,      \* those with a record
  report,
  at,         \* renderReports: the format, the report and the file it is at
  written,    \* the list of files it returns
  files       \* the output directory

enrichVars == <<geo, targets, asked, whois>>
renderVars == <<at, written, files>>
vars == <<step, result, opts, iocs, detected, pass, findings, summary, enrichVars, report, renderVars>>

Formats == <<"json", "csv", "markdown">>      \* allFormats
Reports == <<"network", "security", "executive">>

\* What each writer leaves in the output directory, in this order.
FilesOf(format, kind) ==
  IF format # "csv" THEN << <<format, kind>> >>
  ELSE LET tables == CASE kind = "network"   -> <<"hosts", "flows", "protocols", "top-ports">>
                       [] kind = "security"  -> <<"findings", "flagged-hosts">>
                       [] kind = "executive" -> <<"summary", "top-findings">>
       IN  [i \in DOMAIN tables |-> <<format, kind, tables[i]>>]

DiagramFile == <<"svg", "flow-diagram">>

FileNames ==
  {DiagramFile} \union
    UNION {ToSet(FilesOf(Formats[i], Reports[j])) : i \in DOMAIN Formats, j \in DOMAIN Reports}

\* expandList: "all", alone, stands for everything; aliases are resolved and
\* empty parts dropped.
ExpandList(parts, all, alias) ==
  IF parts \in {<<>>, <<"">>, <<"all">>} THEN all
  ELSE LET named == [i \in DOMAIN parts |-> IF parts[i] \in DOMAIN alias THEN alias[parts[i]] ELSE parts[i]]
       IN  Those(named, ToSet(named) \ {""})

formats == ExpandList(opts.formats, Formats, [md |-> "markdown"])
reports == ExpandList(opts.reports, Reports, <<>>)

\* The output directory may hold the files of an earlier run.
Init ==
  /\ step = "start"
  /\ result \in Captures
  /\ opts \in Commands
  /\ iocs = {} /\ detected = <<>> /\ pass = 0 /\ findings = <<>>
  /\ summary = <<>>
  /\ geo = {} /\ targets = <<>> /\ asked = <<>> /\ whois = {}
  /\ report = <<>>
  /\ at = <<1, 1, 1>> /\ written = <<>>
  /\ files \in {[n \in FileNames |-> old] : old \in {"absent", "old"}}

Failed == step' = "failed"

\* The configuration, the output directory, the capture, the decryption
\* secrets, each packet, the blocklist.
CannotRead ==
  /\ step \in {"start", "capture", "iocs"}
  /\ Failed
  /\ UNCHANGED <<result, opts, iocs, detected, pass, findings, summary, enrichVars, report, renderVars>>

Prepare ==
  /\ step = "start"
  /\ step' = "capture"
  /\ UNCHANGED <<result, opts, iocs, detected, pass, findings, summary, enrichVars, report, renderVars>>

Compute ==
  /\ step = "capture"
  /\ summary' \in Summaries(result, opts.topN)
  /\ step' = "iocs"
  /\ UNCHANGED <<result, opts, iocs, detected, pass, findings, enrichVars, report, renderVars>>

LoadIOCs ==
  /\ step = "iocs"
  /\ iocs' = opts.iocs
  /\ step' = "detect"
  /\ UNCHANGED <<result, opts, detected, pass, findings, summary, enrichVars, report, renderVars>>

RunPass ==
  LET passes == Passes(result, iocs) IN
  /\ step = "detect"
  /\ pass < Len(passes)
  /\ \E order \in Orders(passes[pass + 1]) : detected' = detected \o order
  /\ pass' = pass + 1
  /\ UNCHANGED <<step, result, opts, iocs, findings, summary, enrichVars, report, renderVars>>

Sort ==
  /\ step = "detect"
  /\ pass = Len(Passes(result, iocs))
  /\ findings' = SortFindings(detected)
  /\ step' = "geoip"
  /\ UNCHANGED <<result, opts, iocs, detected, pass, summary, enrichVars, report, renderVars>>

\* With no database, with none that opens, or with one that knows some hosts.
SetupGeoIP ==
  /\ step = "geoip"
  /\ geo' \in IF opts.enrich /\ opts.geoip THEN {{}, DOMAIN result.hosts} ELSE {{}}
  /\ step' = "whois"
  /\ UNCHANGED <<result, opts, iocs, detected, pass, findings, summary, targets, asked, whois,
                 report, renderVars>>

\* Mutant of Targets: the limit comes before private addresses are left out.
TargetsCutFirst(talkers, limit) ==
  LET busiest  == FirstOf(talkers, limit)
      external == Those(busiest, {t \in ToSet(busiest) : ~t.private})
  IN  [i \in DOMAIN external |-> external[i].ip]

Targets(talkers, limit) ==
  LET external == FirstOf(Those(talkers, {t \in ToSet(talkers) : ~t.private}), limit)
  IN  [i \in DOMAIN external |-> external[i].ip]

Limit == IF opts.whoisLimit <= 0 THEN DefaultLimit ELSE opts.whoisLimit

Whois == opts.enrich /\ opts.whois

RunWHOIS ==
  /\ step = "whois"
  /\ targets' = IF Whois THEN Targets(summary.talkers, Limit) ELSE <<>>
  /\ step' = "lookup"
  /\ UNCHANGED <<result, opts, iocs, detected, pass, findings, summary, geo, asked, whois,
                 report, renderVars>>

\* A lookup that fails leaves its host without a record.
LookUp ==
  /\ step = "lookup"
  /\ targets # <<>>
  /\ whois' \in {whois, whois \union {Head(targets)}}
  /\ asked' = Append(asked, Head(targets))
  /\ targets' = Tail(targets)
  /\ UNCHANGED <<step, result, opts, iocs, detected, pass, findings, summary, geo, report, renderVars>>

BuildReport ==
  /\ step = "lookup"
  /\ targets = <<>>
  /\ report' \in Build(result, summary, findings, geo, whois)
  /\ step' = IF opts.diagram THEN "diagram" ELSE "render"
  /\ UNCHANGED <<result, opts, iocs, detected, pass, findings, summary, enrichVars, renderVars>>

\* os.WriteFile and os.Create: written whole, cut short, or not opened.
Write(name) == files' = [files EXCEPT ![name] = "new"]
WriteFails(name) == files' \in {files, [files EXCEPT ![name] = "torn"]}

WriteDiagram ==
  /\ step = "diagram"
  /\ \/ Write(DiagramFile) /\ step' = "render" /\ report' = [report EXCEPT !.diagram = TRUE]
     \/ WriteFails(DiagramFile) /\ Failed /\ UNCHANGED report
  /\ UNCHANGED <<result, opts, iocs, detected, pass, findings, summary, enrichVars, at, written>>

Format == formats[at[1]]
Kind   == reports[at[2]]

\* renderReports looks a name up when its turn comes.
Unknown ==
  /\ step = "render"
  /\ at[1] <= Len(formats)
  /\ \/ Format \notin ToSet(Formats)
     \/ at[2] <= Len(reports) /\ Kind \notin ToSet(Reports)
  /\ Failed
  /\ UNCHANGED <<result, opts, iocs, detected, pass, findings, summary, enrichVars, report, renderVars>>

Rendering ==
  /\ step = "render"
  /\ at[1] <= Len(formats) /\ Format \in ToSet(Formats)
  /\ at[2] <= Len(reports) /\ Kind \in ToSet(Reports)

File == FilesOf(Format, Kind)[at[3]]

\* On to the next file of the writer at hand, which returns after its last.
Proceed ==
  LET names == FilesOf(Format, Kind) IN
  IF at[3] < Len(names) THEN at' = [at EXCEPT ![3] = @ + 1] /\ UNCHANGED written
  ELSE at' = <<at[1], at[2] + 1, 1>> /\ written' = written \o names

WriteReport ==
  /\ Rendering
  /\ Write(File)
  /\ Proceed
  /\ UNCHANGED <<step, result, opts, iocs, detected, pass, findings, summary, enrichVars, report>>

\* Mutant of WriteReportFails: the error is passed over.
WriteReportFailsQuietly ==
  /\ Rendering
  /\ WriteFails(File)
  /\ Proceed
  /\ UNCHANGED <<step, result, opts, iocs, detected, pass, findings, summary, enrichVars, report>>

WriteReportFails ==
  /\ Rendering
  /\ WriteFails(File)
  /\ Failed
  /\ UNCHANGED <<result, opts, iocs, detected, pass, findings, summary, enrichVars, report, at, written>>

NextFormat ==
  /\ step = "render"
  /\ at[1] <= Len(formats) /\ Format \in ToSet(Formats) /\ at[2] > Len(reports)
  /\ at' = <<at[1] + 1, 1, 1>>
  /\ UNCHANGED <<step, result, opts, iocs, detected, pass, findings, summary, enrichVars, report,
                 written, files>>

\* "Analysis complete", and the list of files.
Finish ==
  /\ step = "render"
  /\ at[1] > Len(formats)
  /\ step' = "ok"
  /\ UNCHANGED <<result, opts, iocs, detected, pass, findings, summary, enrichVars, report, renderVars>>

Next ==
  \/ CannotRead \/ Prepare \/ Compute \/ LoadIOCs \/ RunPass \/ Sort
  \/ SetupGeoIP \/ RunWHOIS \/ LookUp \/ BuildReport
  \/ WriteDiagram \/ Unknown \/ WriteReport \/ WriteReportFails \/ NextFormat \/ Finish

Spec == Init /\ [][Next]_vars

(***************************************************************************)
(* Properties                                                              *)
(***************************************************************************)
Sorted == step \notin {"start", "capture", "iocs", "detect"} /\ (step = "failed" => findings # <<>>)
Built  == report # <<>>

\* sortFindings puts the most severe first, loses none, and keeps the order
\* in which those of one severity were found.
FindingsRanked ==
  Sorted => LET rank(s) == Those(detected, {f \in ToSet(detected) : f.severity = s})
            IN  findings = rank(Critical) \o rank(High) \o rank(Medium) \o rank(Low) \o rank(Info)

\* An ARP burst is reported just when some window, both edges included,
\* holds enough announcements, with the largest number any window holds,
\* although maxBurst goes over the times only once.
BurstIsLargest ==
  Sorted =>
    \A ip \in {e.ip : e \in ToSet(result.arp)} :
      LET times == Announced(result, ip)
          within(t) == Cardinality({k \in DOMAIN times : times[k] \in t..(t + Limits.burstWindow)})
          most == Max({0} \union {within(times[k]) : k \in DOMAIN times})
      IN  Those(findings, {f \in ToSet(findings) : f.kind = "arp burst" /\ f.hosts = <<ip>>})
            = If(most >= Limits.burst, Finding(Medium, "arp burst", most, <<ip>>))

\* A number on a host of the inventory is that of a finding that names it,
\* and every finding that names it is there; the security view lists exactly
\* the hosts of the inventory that some finding names.
FlaggedAgree ==
  Built =>
    /\ \A i \in DOMAIN report.hosts :
         ToSet(report.hosts[i].findings)
           = {n \in DOMAIN report.findings : report.hosts[i].ip \in ToSet(report.findings[n].hosts)}
    /\ {h.ip : h \in ToSet(SecurityView(report).flagged)}
         = DOMAIN result.hosts \intersect
             UNION {ToSet(report.findings[n].hosts) : n \in DOMAIN report.findings}

\* No finding is worse than the overall risk, only a capture without any
\* above Info is called minimal, and what an executive is shown is the worst.
RiskCoversFindings ==
  Built =>
    LET grade == [Minimal |-> Info, Low |-> Low, Medium |-> Medium, High |-> High, Critical |-> Critical]
        risk  == grade[report.risk.overall]
        top   == ExecutiveView(report).top
    IN  /\ \A i \in DOMAIN report.findings : report.findings[i].severity <= risk
        /\ risk = Info <=> \A i \in DOMAIN report.findings : report.findings[i].severity = Info
        /\ \A i \in DOMAIN report.findings, j \in DOMAIN top :
             i > Len(top) => report.findings[i].severity <= top[j].severity

\* Every byte of every flow is in one row of the application mix and in one
\* bucket of the timeline, and the buckets come in order, each once.
TotalsAgree ==
  Built =>
    LET total(rows) == SumFunction([i \in DOMAIN rows |-> rows[i].bytes])
        line == report.summary.timeline
    IN  /\ total(report.summary.apps) = Sum(result.flows, Bytes)
        /\ total(line) = Sum(result.flows, Bytes)
        /\ \A i, j \in DOMAIN line : i < j => line[i].name < line[j].name

\* The diagram says that hosts are left out just when a host of the drawn
\* flows (the first MaxFlows of the report's table) has no box, and draws a
\* line for every one of these flows whose ends both have one.  A host of
\* other flows only gets neither a box nor a note (svg.go:32).
DiagramHonest ==
  Built =>
    LET d == Diagram(report)
        placed == DOMAIN d.colors
        drawn == ToSet(DrawnFlows(report))
    IN  /\ d.note <=> \E f \in drawn : ~({f.a, f.b} \subseteq placed)
        /\ {d.lines[i].flow : i \in DOMAIN d.lines} = {f \in drawn : {f.a, f.b} \subseteq placed}

\* WHOIS is asked about external hosts only and about no more than the limit
\* allows; the busiest come first, and none of the talkers is passed over
\* for want of room while there is some.
WhoisBudget ==
  step \in {"diagram", "render", "ok"} =>
    LET external == {t \in ToSet(summary.talkers) : ~t.private} IN
    /\ Len(asked) <= Limit
    /\ ToSet(asked) \subseteq {t.ip : t \in external}
    /\ \A i, j \in DOMAIN asked : i < j => result.hosts[asked[i]].bytes >= result.hosts[asked[j]].bytes
    /\ Whois /\ Len(asked) < Limit => {t.ip : t \in external} \subseteq ToSet(asked)

\* A run that reports success has written every file it was asked for, all
\* from one report, and lists those of the reports; no run leaves more than
\* one torn file, and only one that failed leaves any.
FilesTellTheTruth ==
  /\ step = "ok" =>
       LET wanted == UNION {ToSet(FilesOf(formats[i], reports[j])) : i \in DOMAIN formats, j \in DOMAIN reports}
       IN  /\ ToSet(written) = wanted
           /\ {n \in FileNames : files[n] = "new"}
                = wanted \union IF opts.diagram THEN {DiagramFile} ELSE {}
  /\ Cardinality({n \in FileNames : files[n] = "torn"}) <= IF step = "failed" THEN 1 ELSE 0
=============================================================================
