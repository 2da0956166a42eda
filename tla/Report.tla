------------------------------- MODULE Report -------------------------------
(***************************************************************************)
(* The report of internal/report/model, its three views, and the flow      *)
(* diagram of internal/diagram, as functions of the finished tables r, a   *)
(* summary and the sorted findings.  Addresses are numbers, and their      *)
(* order is that of the strings.                                           *)
(***************************************************************************)
EXTENDS Detectors, Summary

CONSTANTS
  TopFindings,   \* 5: the findings an executive is shown
  MaxNodes,      \* maxNodesPerSide
  MaxFlows       \* maxFlowsDrawn

ASSUME ReportAssumption == TopFindings \in Nat /\ MaxNodes \in Nat /\ MaxFlows \in Nat

-----------------------------------------------------------------------------
(* build.go *)

Count(findings, severity) == Cardinality({i \in DOMAIN findings : findings[i].severity = severity})

\* Mutant of Score: findings of low severity do not count.
ScoreHigh(findings) == 40 * Count(findings, Critical) + 15 * Count(findings, High)

Score(findings) ==
  LET sum == 40 * Count(findings, Critical) + 15 * Count(findings, High)
               + 5 * Count(findings, Medium) + Count(findings, Low)
  IN  IF sum > 100 THEN 100 ELSE sum

Overall(findings) ==
  LET score == Score(findings)
      any(severity) == Count(findings, severity) > 0
  IN  IF any(Critical) \/ score >= 70 THEN "Critical"
      ELSE IF any(High) \/ score >= 40 THEN "High"
      ELSE IF any(Medium) \/ score >= 15 THEN "Medium"
      ELSE IF score > 0 THEN "Low" ELSE "Minimal"

FirstOf(s, n) == SubSeq(s, 1, IF Len(s) > n THEN n ELSE Len(s))

RiskAssessment(findings) ==
  [overall |-> Overall(findings), score |-> Score(findings),
   counts |-> [s \in Severities |-> Count(findings, s)],
   top |-> FirstOf([i \in DOMAIN findings |-> i], TopFindings)]

\* Mutant of FindingIds: counted from zero.
FindingIdsFromZero(findings, ip) ==
  FlattenSeq([i \in DOMAIN findings |->
    LET named == Those(findings[i].hosts, {ip})
    IN  [k \in DOMAIN named |-> i - 1]])

\* The numbers of the findings that name a host, as often as they name it.
FindingIds(findings, ip) ==
  FlattenSeq([i \in DOMAIN findings |->
    LET named == Those(findings[i].hosts, {ip})
    IN  [k \in DOMAIN named |-> i]])

\* hostView: with what the databases and the WHOIS servers know of it.
HostView(r, ip, geo, whois) ==
  [ip |-> ip, private |-> r.hosts[ip].private, bytes |-> r.hosts[ip].bytes,
   geo |-> ip \in geo, whois |-> ip \in whois, findings |-> <<>>]

\* The reports that Build may make: flows with equal bytes come in any order.
Build(r, summary, findings, geo, whois) ==
  LET ips == Ascending(DOMAIN r.hosts)
      inventory == [i \in DOMAIN ips |->
        [HostView(r, ips[i], geo, whois) EXCEPT !.findings = FindingIds(findings, ips[i])]]
      talkers == [i \in DOMAIN summary.talkers |-> HostView(r, summary.talkers[i].ip, geo, whois)]
  IN  {[hosts |-> inventory, talkers |-> talkers, flows |-> flows, findings |-> findings,
        risk |-> RiskAssessment(findings), summary |-> summary, diagram |-> FALSE] :
       flows \in Tables(r.flows, [f \in r.flows |-> Bytes(f)], Cardinality(r.flows))}

-----------------------------------------------------------------------------
(* views.go *)

NetworkView(report) ==
  [hosts |-> report.hosts, talkers |-> report.talkers, flows |-> report.flows,
   summary |-> report.summary, diagram |-> report.diagram]

SecurityView(report) ==
  [findings |-> report.findings, risk |-> report.risk, diagram |-> report.diagram,
   flagged |-> Those(report.hosts, {h \in ToSet(report.hosts) : h.findings # <<>>})]

ExecutiveView(report) ==
  [hosts |-> Len(report.hosts), external |-> Len(SelectSeq(report.hosts, LAMBDA h : ~h.private)),
   risk |-> report.risk,
   top |-> [i \in DOMAIN report.risk.top |-> report.findings[report.risk.top[i]]]]

-----------------------------------------------------------------------------
(* svg.go *)

DrawnFlows(report) == FirstOf(report.flows, MaxFlows)

\* The hosts of one kind at the ends of the flows to draw, by address.
Involved(report, private) ==
  Those(report.hosts, {h \in ToSet(report.hosts) :
    h.private = private /\ \E f \in ToSet(DrawnFlows(report)) : h.ip \in {f.a, f.b}})

\* Internal hosts on the left and external ones on the right; if all are of
\* one kind, half of them on either side.
Columns(report) ==
  LET left  == Involved(report, TRUE)
      right == Involved(report, FALSE)
      halves(hosts) == LET mid == (Len(hosts) + 1) \div 2
                       IN  <<SubSeq(hosts, 1, mid), SubSeq(hosts, mid + 1, Len(hosts))>>
  IN  IF right = <<>> /\ Len(left) > 1 THEN halves(left)
      ELSE IF left = <<>> /\ Len(right) > 1 THEN halves(right)
      ELSE <<left, right>>

\* The worst finding that names a host gives its box the color; Low has none.
Color(report, ip) ==
  Max({0} \union {report.findings[i].severity :
                    i \in {j \in DOMAIN report.findings : ip \in ToSet(report.findings[j].hosts)}})

\* A flow is dashed when a finding names its two hosts first, in any order.
Flagged(report, f) ==
  \E i \in DOMAIN report.findings :
    LET hosts == report.findings[i].hosts
    IN  Len(hosts) >= 2 /\ {hosts[1], hosts[2]} = {f.a, f.b}

\* Mutant of TooMany: hosts are counted before they are split in halves.
TooManyUnsplit(report) ==
  Len(Involved(report, TRUE)) > MaxNodes \/ Len(Involved(report, FALSE)) > MaxNodes

TooMany(report) == \E side \in 1..2 : Len(Columns(report)[side]) > MaxNodes

\* Generate: the boxes, the lines between them and the note that some are left out.
Diagram(report) ==
  LET boxes == [side \in 1..2 |-> FirstOf(Columns(report)[side], MaxNodes)]
      placed == {boxes[1][i].ip : i \in DOMAIN boxes[1]} \union {boxes[2][i].ip : i \in DOMAIN boxes[2]}
      lines == Those(DrawnFlows(report), {f \in ToSet(DrawnFlows(report)) : {f.a, f.b} \subseteq placed})
  IN  [boxes |-> boxes, note |-> TooMany(report),
       lines |-> [i \in DOMAIN lines |-> [flow |-> lines[i], flagged |-> Flagged(report, lines[i])]],
       colors |-> [ip \in placed |-> Color(report, ip)]]
=============================================================================
