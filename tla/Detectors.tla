----------------------------- MODULE Detectors -----------------------------
(***************************************************************************)
(* The detectors of internal/security, as functions of the finished tables *)
(* r of a capture:                                                         *)
(*   r.hosts  addresses to [private, ports, bytes, packets]                *)
(*   r.flows  a set of flow records, a their initiator's address           *)
(*   r.arp, r.dns, r.creds, r.malformed  event records in capture order    *)
(* Addresses and names are numbers; iocs is a set of both.                 *)
(*                                                                         *)
(* A detector makes one or more passes.  A pass is a set of sequences of   *)
(* findings: one for each entry of the map the code ranges over, in no     *)
(* order, or a single one where it ranges over a slice.                    *)
(***************************************************************************)
EXTENDS Integers, FiniteSets, SequencesExt

CONSTANTS
  Limits,       \* the thresholds: a record with the fields used below
  RiskyPorts    \* riskyPorts: the severity of each port listed

Info     == 0
Low      == 1
Medium   == 2
High     == 3
Critical == 4
Severities == Info..Critical

ASSUME PortsAssumption == \A p \in DOMAIN RiskyPorts : RiskyPorts[p] \in Severities

\* About tells apart the findings of one kind: a flow, a port, a name.
Finding(severity, kind, about, hosts) ==
  [severity |-> severity, kind |-> kind, about |-> about, hosts |-> hosts]

If(condition, finding) == IF condition THEN <<finding>> ELSE <<>>

\* The elements of s that are in T, in their order.
Those(s, T) == FlattenSeq([i \in DOMAIN s |-> If(s[i] \in T, s[i])])

\* One entry of a map in a pass with at most one finding.
Each(findings) == {<<f>> : f \in findings}

Icmp(f) == f.protocol \in {"ICMP", "ICMPv6"}

Max2(a, b) == IF a >= b THEN a ELSE b

-----------------------------------------------------------------------------
(* scan.go *)

HalfOpen(r) == {f \in r.flows : f.protocol = "TCP" /\ f.syn /\ ~f.synack}

VerticalScans(r) ==
  Each({Finding(High, "vertical scan", 0, <<f.a, f.b>>) :
    f \in {g \in HalfOpen(r) : Cardinality({h.portB : h \in
      {x \in HalfOpen(r) : x.a = g.a /\ x.b = g.b}}) >= Limits.vertical}})

HorizontalScans(r) ==
  Each({Finding(High, "horizontal scan", f.portB, <<f.a>>) :
    f \in {g \in HalfOpen(r) : Cardinality({h.b : h \in
      {x \in HalfOpen(r) : x.a = g.a /\ x.portB = g.portB}}) >= Limits.horizontal}})

IcmpSweeps(r) ==
  LET pings == {f \in r.flows : Icmp(f)} IN
  Each({Finding(Medium, "icmp sweep", 0, <<f.a>>) :
    f \in {g \in pings : Cardinality({h.b : h \in {x \in pings : x.a = g.a}}) >= Limits.sweep}})

-----------------------------------------------------------------------------
(* arp.go *)

\* An event captured without an Ethernet header has no MAC; it always has an
\* address (builder.go:259).
Claims(r) == {e \in ToSet(r.arp) : e.mac # "none"}

ArpConflicts(r) ==
  LET macs(ip) == {e.mac : e \in {x \in Claims(r) : x.ip = ip}} IN
  Each({Finding(High, "arp conflict", 0, <<ip>>) :
    ip \in {e.ip : e \in {x \in Claims(r) : Cardinality(macs(x.ip)) >= 2}}})

\* The times of an address's gratuitous announcements, sorted.
Announced(r, ip) ==
  LET events == Those(r.arp, {e \in ToSet(r.arp) : e.gratuitous /\ e.ip = ip})
      upTo(t) == Cardinality({i \in DOMAIN events : events[i].time <= t})
  IN  [k \in DOMAIN events |-> Min({t \in {e.time : e \in ToSet(events)} : upTo(t) >= k})]

\* Mutant of Outside: the window leaves out its far edge.
OutsideOpen(duration, window) == duration >= window

Outside(duration, window) == duration > window

\* The window's near end i follows its far end j; best is the widest so far.
MaxBurst(sorted, window) ==
  LET sweep[j \in 0..Len(sorted)] ==
        IF j = 0 THEN [i |-> 1, best |-> 0]
        ELSE LET p == sweep[j - 1]
                 i == CHOOSE k \in p.i..j : /\ ~Outside(sorted[j] - sorted[k], window)
                                            /\ \A l \in p.i..(k - 1) : Outside(sorted[j] - sorted[l], window)
             IN  [i |-> i, best |-> Max2(p.best, j - i + 1)]
  IN  sweep[Len(sorted)].best

ArpBursts(r) ==
  LET burst(ip) == MaxBurst(Announced(r, ip), Limits.burstWindow) IN
  Each({Finding(Medium, "arp burst", burst(ip), <<ip>>) :
    ip \in {e.ip : e \in {x \in ToSet(r.arp) : x.gratuitous /\ burst(x.ip) >= Limits.burst}}})

-----------------------------------------------------------------------------
(* creds.go, tls.go *)

Credentials(r) ==
  {[i \in DOMAIN r.creds |->
      LET c == r.creds[i]
          severity == IF c.password THEN Critical ELSE IF c.username THEN High ELSE Medium
      IN  Finding(severity, "credential", i, <<c.src, c.dst>>)]}

WeakTls(r) ==
  {LET t == CHOOSE t \in f.tls : TRUE
       found(condition, severity, kind) == If(condition, Finding(severity, kind, f, <<f.a, f.b>>))
   IN  found(t.version \in {"SSLv3", "TLS 1.0", "TLS 1.1"}, High, "legacy tls") \o found(t.weak, Medium, "weak cipher")
         \o found("expired" \in t.cert, High, "expired")
         \o found("not yet valid" \in t.cert, Medium, "not yet valid")
         \o found("self-signed" \in t.cert, Medium, "self-signed")
         \o found("mismatch" \in t.cert, High, "mismatch") :
   f \in {g \in r.flows : g.tls # {}}}

-----------------------------------------------------------------------------
(* dns.go *)

QueriesOf(r, src, test(_)) == Len(SelectSeq(r.dns, LAMBDA q : q.src = src /\ test(q)))

DnsTunnels(r) ==
  Each({Finding(High, "dns tunnel", 0, <<src>>) :
    src \in {q.src : q \in {x \in ToSet(r.dns) :
      QueriesOf(r, x.src, LAMBDA y : y.encoded) >= Limits.tunnel}}})

NxFloods(r) ==
  Each({Finding(Medium, "nxdomain flood", 0, <<src>>) :
    src \in {q.src : q \in {x \in ToSet(r.dns) :
      QueriesOf(r, x.src, LAMBDA y : y.nx) >= Limits.nxdomain}}})

-----------------------------------------------------------------------------
(* exfil.go, beacon.go *)

Outbound(r, f) ==
  f.a \in DOMAIN r.hosts /\ f.b \in DOMAIN r.hosts /\ r.hosts[f.a].private /\ ~r.hosts[f.b].private

Exfiltrations(r) ==
  {If(/\ Outbound(r, f)
      /\ f.bytesAB >= Limits.exfilBytes
      /\ f.bytesAB >= Limits.exfilRatio * Max2(f.bytesBA, 1),
      Finding(High, "exfiltration", f, <<f.a, f.b>>))
     \o If(Icmp(f) /\ f.bytesAB + f.bytesBA > Limits.icmpBytes * (f.packetsAB + f.packetsBA),
           Finding(Medium, "icmp channel", f, <<f.a, f.b>>)) : f \in r.flows}

LargeAnswers(r) ==
  {FlattenSeq([i \in DOMAIN r.dns |->
     If(r.dns[i].answer > Limits.answerBytes,
        Finding(Medium, "large answer", i, <<r.dns[i].src, r.dns[i].dst>>))])}

\* IntervalStats, of the gaps between A's packets that observeInterval keeps,
\* the positive ones: the count, the mean and the variance of Welford's method
\* as fractions, so that comparing them needs no roots.
Regular(gaps) ==
  LET positive == SelectSeq(gaps, LAMBDA d : d > 0)
      n  == Len(positive)
      s  == FoldLeft(LAMBDA x, d : x + d, 0, positive)
      s2 == FoldLeft(LAMBDA x, d : x + d * d, 0, positive)
  IN  /\ n >= Max2(Limits.beaconCount, 2)
      /\ Limits.beaconMin * n <= s /\ s <= Limits.beaconMax * n
      /\ 10000 * n * (n * s2 - s * s) <= Limits.beaconCoV * Limits.beaconCoV * s * s * (n - 1)

Beacons(r) ==
  Each({Finding(Medium, "beacon", f, <<f.a, f.b>>) :
    f \in {g \in r.flows : Outbound(r, g) /\ Regular(g.gaps)}})

-----------------------------------------------------------------------------
(* malformed.go *)

Malformed(r) == Each({Finding(Low, "malformed", reason, <<>>) : reason \in ToSet(r.malformed)})

\* The switch: of the flags of a flow only the first counts.
FlagOf(f) ==
  IF "NULL" \in f.stealth THEN "NULL" ELSE IF "FIN" \in f.stealth THEN "FIN"
  ELSE IF "XMAS" \in f.stealth THEN "XMAS" ELSE "none"

StealthScans(r, flag) ==
  Each({Finding(High, "stealth scan", flag, <<f.a>>) :
    f \in {g \in r.flows : g.protocol = "TCP" /\ FlagOf(g) = flag}})

-----------------------------------------------------------------------------
(* ioc.go, ports.go *)

IocHosts(r, iocs) ==
  Each({Finding(Critical, "ioc host", ip, <<ip>>) : ip \in DOMAIN r.hosts \intersect iocs})

\* Each name once, for the host that asked first.
IocNames(r, iocs) ==
  {FlattenSeq([i \in DOMAIN r.dns |->
     If(r.dns[i].name \in iocs /\ \A j \in 1..(i - 1) : r.dns[j].name # r.dns[i].name,
        Finding(Critical, "ioc name", r.dns[i].name, <<r.dns[i].src>>))])}

ExposedPorts(r) ==
  {LET risky == Those(r.hosts[ip].ports, DOMAIN RiskyPorts)
   IN  [i \in DOMAIN risky |-> Finding(RiskyPorts[risky[i]], "exposed port", risky[i], <<ip>>)] :
   ip \in DOMAIN r.hosts}

-----------------------------------------------------------------------------
(* model.go *)

\* AllDetectors, pass by pass.
Passes(r, iocs) ==
  <<VerticalScans(r), HorizontalScans(r), IcmpSweeps(r),
    ArpConflicts(r), ArpBursts(r), Credentials(r), WeakTls(r),
    DnsTunnels(r), NxFloods(r), Exfiltrations(r), LargeAnswers(r), Beacons(r),
    Malformed(r), StealthScans(r, "NULL"), StealthScans(r, "FIN"), StealthScans(r, "XMAS"),
    IocHosts(r, iocs), IocNames(r, iocs), ExposedPorts(r)>>

\* The orders in which a pass may append its findings.
Orders(pass) == {FlattenSeq(order) : order \in SetToSeqs(pass \ {<<>>})}

\* Mutant of MovesPast: past its equals, too.
MovesPastEquals(f, g) == g.severity <= f.severity

MovesPast(f, g) == g.severity < f.severity

\* The insertion sort moves a finding left as long as it can.
Place(sorted, f) ==
  CHOOSE k \in 1..(Len(sorted) + 1) :
    /\ \A j \in k..Len(sorted) : MovesPast(f, sorted[j])
    /\ k = 1 \/ ~MovesPast(f, sorted[k - 1])

SortFindings(findings) ==
  LET sorted[n \in 0..Len(findings)] ==
        IF n = 0 THEN <<>>
        ELSE InsertAt(sorted[n - 1], Place(sorted[n - 1], findings[n]), findings[n])
  IN  sorted[Len(findings)]
=============================================================================
