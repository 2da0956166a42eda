----------------------------- MODULE MCAnalysis -----------------------------
(***************************************************************************)
(* A few small captures, and the ways to run an analysis of each.  Hosts   *)
(* below 10 are private; host tables are added up from the flows, as the   *)
(* builder does.                                                           *)
(***************************************************************************)
EXTENDS Analysis

MCLimits ==
  [vertical |-> 2, horizontal |-> 2, sweep |-> 2, burst |-> 3, burstWindow |-> 2,
   tunnel |-> 2, nxdomain |-> 2, exfilBytes |-> 10, exfilRatio |-> 3, answerBytes |-> 5,
   icmpBytes |-> 5, beaconCount |-> 2, beaconMin |-> 1, beaconMax |-> 9, beaconCoV |-> 15]

MCRiskyPorts == [p \in {21, 23, 31337} |-> IF p = 21 THEN Low ELSE IF p = 23 THEN Medium ELSE High]

Tcp ==
  [protocol |-> "TCP", app |-> "", a |-> 1, b |-> 2, portB |-> 80,
   packetsAB |-> 1, packetsBA |-> 0, bytesAB |-> 1, bytesBA |-> 0, first |-> 0, last |-> 0,
   syn |-> FALSE, synack |-> FALSE, stealth |-> {}, tls |-> {}, gaps |-> <<>>]

Ping(a, b, bytes) == [Tcp EXCEPT !.protocol = "ICMP", !.a = a, !.b = b, !.portB = 0, !.bytesAB = bytes]
Syn(a, b, port)   == [Tcp EXCEPT !.a = a, !.b = b, !.portB = port, !.syn = TRUE]
Data(a, b, bytes) == [Tcp EXCEPT !.a = a, !.b = b, !.syn = TRUE, !.synack = TRUE, !.bytesAB = bytes]
Announce(ip, mac, time) == [ip |-> ip, mac |-> mac, time |-> time, gratuitous |-> TRUE]
Query(src, name) == [src |-> src, dst |-> 9, name |-> name, encoded |-> FALSE, nx |-> FALSE, answer |-> 1]

HostsOf(flows) ==
  [ip \in UNION {{f.a, f.b} : f \in flows} |->
     LET of(x) == IF x.a = x.b THEN 2 * Bytes(x) ELSE Bytes(x)
     IN  [private |-> ip < 10,
          bytes   |-> Sum({f \in flows : ip \in {f.a, f.b}}, of),
          ports   |-> Ascending({f.portB : f \in {g \in flows : g.b = ip /\ g.protocol = "TCP"}})]]

Capture(flows) ==
  [hosts |-> HostsOf(flows), flows |-> flows, arp |-> <<>>, dns |-> <<>>, creds |-> <<>>, malformed |-> <<>>,
   proto |-> [p \in {f.protocol : f \in flows} |->
                [packets |-> Sum({f \in flows : f.protocol = p}, Packets),
                 bytes |-> Sum({f \in flows : f.protocol = p}, Bytes)]],
   meta |-> [packets |-> Sum(flows, Packets), first |-> 0,
             last |-> Max({0} \union {f.last : f \in flows})]]

\* One host tries another's ports, and sends it what no TCP sends; a third
\* exposes two risky ports.
Scans == Capture({Syn(1, 2, 21), Syn(1, 2, 23), [Syn(1, 3, 23) EXCEPT !.bytesAB = 2],
                  [Data(2, 3, 3) EXCEPT !.stealth = {"FIN", "NULL"}, !.portB = 31337]})

\* A large and regular transfer out over weak TLS, the same to two hosts,
\* credentials sent in the clear, and at the end, behind the last bucket of
\* the timeline, a flow that is short.
Outward ==
  [Capture({[Data(1, 11, 12) EXCEPT !.app = "TLS", !.gaps = <<3, 3, -1, 3>>, !.last = 8,
               !.tls = {[version |-> "TLS 1.0", weak |-> TRUE, sni |-> 101, cert |-> {"expired", "mismatch"}]}],
            [Data(1, 12, 12) EXCEPT !.app = "HTTP", !.portB = 23, !.bytesBA = 9, !.gaps = <<1, 8>>, !.last = 9],
            [Data(1, 13, 6) EXCEPT !.app = "TLS", !.first = 11, !.last = 11,
               !.tls = {[version |-> "TLS 1.3", weak |-> FALSE, sni |-> 0, cert |-> {}]}]})
   EXCEPT !.creds = <<[src |-> 1, dst |-> 12, username |-> TRUE, password |-> FALSE],
                      [src |-> 1, dst |-> 12, username |-> TRUE, password |-> TRUE]>>]

\* Announcements one window apart, one without a MAC, two claims to one
\* address, names asked for more than once, pings to two hosts.
Local ==
  [Capture({Ping(1, 2, 9), Ping(1, 3, 2)})
   EXCEPT !.arp = <<Announce(4, "m", 3), Announce(4, "n", 1), Announce(4, "m", 6), Announce(4, "m", 2),
                    Announce(5, "m", 2), Announce(5, "none", 9), [Announce(5, "m", 3) EXCEPT !.gratuitous = FALSE]>>,
          !.dns = <<Query(1, 101), [Query(2, 101) EXCEPT !.nx = TRUE],
                    [Query(2, 102) EXCEPT !.nx = TRUE, !.encoded = TRUE],
                    [Query(2, 103) EXCEPT !.encoded = TRUE, !.answer = 6]>>,
          !.malformed = <<"short">>]

\* More hosts than fit, all of one kind; a host that talks to itself.
Crowd == Capture({Data(1, 2, 5), Data(3, 4, 4), Data(5, 1, 3), Data(2, 2, 2)})

\* Nothing but packets that cannot be read.
Broken == [Capture({}) EXCEPT !.malformed = <<"short", "snaplen", "short">>]

MCCaptures == {Capture({}), Broken, Scans, Outward, Local, Crowd}

Usual == [formats |-> <<"all">>, reports |-> <<"all">>, topN |-> 0, whoisLimit |-> 0, diagram |-> TRUE,
          enrich |-> TRUE, geoip |-> TRUE, whois |-> TRUE, iocs |-> {}]

MCCommands ==
  {Usual,
   [Usual EXCEPT !.formats = <<"md", "json">>, !.reports = <<"executive">>, !.topN = 2, !.whoisLimit = 1,
                 !.iocs = {2, 101, 12, 104}],
   [Usual EXCEPT !.formats = <<"csv">>, !.reports = <<"security", "", "security">>, !.topN = 3, !.whoisLimit = 2,
                 !.diagram = FALSE, !.geoip = FALSE],
   [Usual EXCEPT !.formats = <<"json", "xml">>, !.reports = <<"security", "summary">>, !.enrich = FALSE],
   [Usual EXCEPT !.formats = <<"json", "xml">>, !.reports = <<"security">>, !.whois = FALSE]}
=============================================================================
