----------------------------- MODULE FlowTable -----------------------------
(***************************************************************************)
(* The host inventory and the flow table (internal/flow/builder.go): what   *)
(* Builder.Add makes of each packet of the capture, in whatever order the   *)
(* packets come, and what Result returns.                                   *)
(*                                                                         *)
(* A packet is a record of what its decoded layers say, and of two things   *)
(* the wire does not say: which connection of its endpoints it belongs to   *)
(* (conn) and which endpoint is that connection's client (client).          *)
(***************************************************************************)
EXTENDS Integers, Sequences, FiniteSets, Functions

CONSTANTS
  Packets,      \* the packets the capture may hold, each any number of times
  MaxPackets,   \* bound: packets in the capture
  Decrypting    \* EnableTLSDecryption was given keys

Protos == {"TCP", "UDP", "ICMP", "ARP", "OTHER"}
Kinds  == {"arp", "dns", "cred", "malformed"}

\* An endpoint is <<ip, port>>; ip 0 stands for a packet without an IP layer.
MaxPort  == 65535
Endpoint == Nat \X (0..MaxPort)
Ip(e)    == e[1]
Port(e)  == e[2]

\* What a packet says; answers are the <<ip, name>> of a DNS answer.
Packet ==
  [proto : Protos, src : Endpoint, dst : Endpoint, flags : STRING, len : Nat, ts : Nat,
   payload : STRING, names : SUBSET STRING, answers : SUBSET (Nat \X STRING), malformed : Nat,
   conn : Nat, client : Endpoint]

ASSUME BoundAssumption   == MaxPackets \in Nat
ASSUME PacketsAssumption == Packets \subseteq Packet

VARIABLES
  meta,         \* Result.Meta: packets, bytes, first and last timestamp
  tally,        \* Result.ProtoPackets, ProtoBytes
  events,       \* how many ARP, DNS, credential and malformed events were recorded
  hosts,        \* Result.Hosts, by ip
  flows,        \* Result.Flows, by key
  pendingNames, \* Builder.pendingNames, by ip
  tlsConns,     \* Builder.tlsConns: the connection whose payload started each
  sent,         \* history: packets from the first to the second endpoint
  mixed         \* history: a payload was fed to another connection's state

tables == <<meta, tally, events, hosts, flows, pendingNames, tlsConns>>
vars == <<tables, sent, mixed>>

Init ==
  /\ meta = [packets |-> 0, bytes |-> 0, first |-> 0, last |-> 0]
  /\ tally = [p \in Protos |-> [packets |-> 0, bytes |-> 0]]
  /\ events = [k \in Kinds |-> 0]
  /\ hosts = [ip \in {} |-> {}]
  /\ flows = [k \in {} |-> {}]
  /\ pendingNames = [ip \in {} |-> {}]
  /\ tlsConns = [k \in {} |-> 0]
  /\ sent = [e \in {} |-> 0]
  /\ mixed = FALSE

-----------------------------------------------------------------------------
(* Helpers of the code *)

Lower(a, b)  == IF a <= b THEN a ELSE b
Higher(a, b) == IF a >= b THEN a ELSE b
At(f, x, default) == IF x \in DOMAIN f THEN f[x] ELSE default
With(f, x, y) == [z \in DOMAIN f \union {x} |-> IF z = x THEN y ELSE f[z]]

\* flowKey: endpoints in a fixed total order (the code's is alphabetical), so
\* that both directions share a key.
Before(a, b) == Ip(a) < Ip(b) \/ (Ip(a) = Ip(b) /\ Port(a) <= Port(b))
FlowKey(proto, a, b) == IF Before(a, b) THEN <<proto, a, b>> ELSE <<proto, b, a>>

\* Mutant of Seen: only the end of the span moves.
SeenLater(h, ts) == [h EXCEPT !.last = Higher(@, ts)]

Seen(h, ts) == [h EXCEPT !.first = Lower(@, ts), !.last = Higher(@, ts)]

\* Builder.host: the record for ip, made or refreshed by a packet at ts.
Host(table, ip, ts) ==
  LET h == At(table, ip, [bytesOut |-> 0, bytesIn |-> 0, packetsOut |-> 0, packetsIn |-> 0,
                          names |-> {}, ports |-> {}, first |-> ts, last |-> ts])
  IN  With(table, ip, [Seen(h, ts) EXCEPT !.names = @ \union At(pendingNames, ip, {})])

Sends(h, p)    == [h EXCEPT !.bytesOut = @ + p.len, !.packetsOut = @ + 1]
Receives(h, p) == [h EXCEPT !.bytesIn = @ + p.len, !.packetsIn = @ + 1]

\* The two host() calls and the counters that follow them.
CountHosts(p) ==
  LET both == Host(Host(hosts, Ip(p.src), p.ts), Ip(p.dst), p.ts)
      out  == [both EXCEPT ![Ip(p.src)] = Sends(@, p)]
  IN  [out EXCEPT ![Ip(p.dst)] = Receives(@, p)]

\* Mutant of AddPort: port 0 is not left out.
AddAnyPort(table, e) == [table EXCEPT ![Ip(e)].ports = @ \union {Port(e)}]

AddPort(table, e) ==
  IF Port(e) > 0 THEN [table EXCEPT ![Ip(e)].ports = @ \union {Port(e)}] ELSE table

\* The switch on a new flow's first packet: which side is the server.
AttributePort(table, p) ==
  CASE p.proto = "TCP" /\ p.flags = "SA"           -> AddPort(table, p.src)
    [] p.proto = "TCP" /\ p.flags \notin {"S", "SA"} -> table
    [] OTHER                                       -> AddPort(table, p.dst)

NewFlow(p) ==
  [a |-> p.src, b |-> p.dst, packetsAB |-> 0, packetsBA |-> 0, bytesAB |-> 0, bytesBA |-> 0,
   first |-> p.ts, last |-> p.ts, flags |-> {}, hello |-> FALSE, cert |-> FALSE]

\* Mutants of IsSideA: one half of the comparison dropped.
SideByIp(f, e)   == Ip(e) = Ip(f.a)
SideByPort(f, e) == Port(e) = Port(f.a)

IsSideA(f, e) == Ip(e) = Ip(f.a) /\ Port(e) = Port(f.a)

\* updateFlow.
Count(f, p) ==
  LET g == [f EXCEPT !.last = Higher(@, p.ts),
                     !.flags = IF p.proto = "TCP" THEN @ \union {p.flags} ELSE @] IN
  IF IsSideA(f, p.src)
  THEN [g EXCEPT !.packetsAB = @ + 1, !.bytesAB = @ + p.len]
  ELSE [g EXCEPT !.packetsBA = @ + 1, !.bytesBA = @ + p.len]

\* inspectTCPPayload on TLS: a ClientHello makes a new TLSInfo, a certificate
\* completes the one there is.
Inspect(f, p) ==
  CASE p.payload = "hello" -> [f EXCEPT !.hello = TRUE, !.cert = FALSE]
    [] p.payload = "cert"  -> [f EXCEPT !.cert = TRUE]
    [] OTHER               -> f

\* What a payload teaches about names: SNI and HTTP Host name the destination
\* (addHostname), DNS answers name any address (addHostnameFor).
LearnDirectly(table, p) ==
  IF p.names = {} THEN table ELSE [table EXCEPT ![Ip(p.dst)].names = @ \union p.names]

\* Mutant of LearnAnswers: answers wait for the next packet of the address.
LearnLater(table, p) == table

LearnAnswers(table, p) ==
  [ip \in DOMAIN table |->
     [table[ip] EXCEPT !.names = @ \union {n[2] : n \in {m \in p.answers : m[1] = ip}}]]

-----------------------------------------------------------------------------
\* What Add does for every packet: totals and the protocol mix.
Observe(p) ==
  /\ meta.packets < MaxPackets
  /\ meta' = [packets |-> meta.packets + 1, bytes |-> meta.bytes + p.len,
              first |-> IF meta.packets = 0 THEN p.ts ELSE Lower(meta.first, p.ts),
              last |-> Higher(meta.last, p.ts)]
  /\ tally' = [tally EXCEPT ![p.proto].packets = @ + 1, ![p.proto].bytes = @ + p.len]

\* Add on a packet without an IP layer: handleARP if it is ARP, then return.
AddNonIp(p) ==
  /\ Ip(p.src) = 0
  /\ Observe(p)
  /\ events' = [events EXCEPT !["arp"] = @ + (IF p.proto = "ARP" THEN 1 ELSE 0),
                              !["malformed"] = @ + p.malformed]
  /\ UNCHANGED <<hosts, flows, pendingNames, tlsConns, sent, mixed>>

\* Add on an IP packet.
AddIp(p) ==
  LET key   == FlowKey(p.proto, p.src, p.dst)
      isNew == key \notin DOMAIN flows
      f     == At(flows, key, NewFlow(p))
      count == CountHosts(p)
      base  == IF isNew THEN AttributePort(count, p) ELSE count
      \* maybeStartTLS and feedTLS
      feeds  == Decrypting /\ p.proto = "TCP" /\ p.payload # "none"
      starts == feeds /\ IsSideA(f, p.src) /\ p.payload \in {"hello", "serverHello", "cert"}
                /\ key \notin DOMAIN tlsConns
  IN
  /\ Ip(p.src) # 0
  /\ Observe(p)
  /\ flows' = With(flows, key, Inspect(Count(f, p), p))
  /\ hosts' = LearnAnswers(LearnDirectly(base, p), p)
  /\ pendingNames' =
       [ip \in DOMAIN pendingNames \union {n[1] : n \in p.answers} |->
          At(pendingNames, ip, {}) \union {n[2] : n \in {m \in p.answers : m[1] = ip}}]
  /\ events' = [events EXCEPT !["dns"] = @ + (IF p.payload = "dns" THEN 1 ELSE 0),
                              !["cred"] = @ + (IF p.payload = "login" THEN 1 ELSE 0),
                              !["malformed"] = @ + p.malformed]
  /\ tlsConns' = IF starts THEN With(tlsConns, key, p.conn) ELSE tlsConns
  /\ mixed' = (mixed \/ (feeds /\ key \in DOMAIN tlsConns /\ tlsConns[key] # p.conn))
  /\ sent' = With(sent, <<p.proto, p.src, p.dst>>, At(sent, <<p.proto, p.src, p.dst>>, 0) + 1)

Add == \E p \in Packets : AddNonIp(p) \/ AddIp(p)

\* The capture has ended and Result is called.
Result == meta.packets = MaxPackets /\ UNCHANGED vars

Next == Add \/ Result

Spec == Init /\ [][Next]_vars

-----------------------------------------------------------------------------
(* Properties *)

\* The types of the tables; a port is recorded only where there is one.
TypeOK ==
  /\ \A ip \in DOMAIN hosts :
       /\ hosts[ip].ports \subseteq 1..MaxPort
       /\ {hosts[ip].bytesOut, hosts[ip].bytesIn, hosts[ip].packetsOut, hosts[ip].packetsIn} \subseteq Nat
  /\ \A k \in DOMAIN flows :
       /\ {flows[k].packetsAB, flows[k].packetsBA, flows[k].bytesAB, flows[k].bytesBA} \subseteq Nat
       /\ k = FlowKey(k[1], flows[k].a, flows[k].b)
       /\ {Ip(flows[k].a), Ip(flows[k].b)} \subseteq DOMAIN hosts
  /\ DOMAIN tlsConns \subseteq DOMAIN flows
  /\ mixed \in BOOLEAN

\* What each flow carried from an address, and to it.
Outgoing(ip) == [k \in DOMAIN flows |->
  (IF Ip(flows[k].a) = ip THEN flows[k].bytesAB ELSE 0) + (IF Ip(flows[k].b) = ip THEN flows[k].bytesBA ELSE 0)]
Incoming(ip) == [k \in DOMAIN flows |->
  (IF Ip(flows[k].b) = ip THEN flows[k].bytesAB ELSE 0) + (IF Ip(flows[k].a) = ip THEN flows[k].bytesBA ELSE 0)]

\* The three books the builder keeps agree: what a host sent and received is
\* what its flows carried from and to it, and the protocol mix adds up to the
\* totals of the capture (Add, updateFlow, tallyProtoMix).
BooksBalance ==
  /\ \A ip \in DOMAIN hosts : /\ hosts[ip].bytesOut = SumFunction(Outgoing(ip))
                             /\ hosts[ip].bytesIn  = SumFunction(Incoming(ip))
  /\ meta.packets = SumFunction([q \in Protos |-> tally[q].packets])
  /\ meta.bytes   = SumFunction([q \in Protos |-> tally[q].bytes])

\* Both directions of a conversation land in one flow and are told apart, on a
\* loopback capture too, where both ends have one address (IsSideA, flowKey).
DirectionCounts ==
  \A c \in DOMAIN sent :
    LET k == FlowKey(c[1], c[2], c[3]) IN
    /\ k \in DOMAIN flows
    /\ c[2] = flows[k].a => flows[k].packetsAB = sent[c]
    /\ c[2] # flows[k].a => flows[k].packetsBA = sent[c]

\* A name learned for an address is on its host record whichever of the two
\* came first (host, addHostnameFor): "regardless of processing order".
NamesApplied ==
  \A ip \in DOMAIN hosts \intersect DOMAIN pendingNames : pendingNames[ip] \subseteq hosts[ip].names

\* Timestamps out of order never make a flow stick out of the time its hosts
\* were seen in, nor a host out of the capture (Add, host, flow).
SpansNest ==
  /\ \A ip \in DOMAIN hosts : meta.first <= hosts[ip].first /\ hosts[ip].last <= meta.last
  /\ \A k \in DOMAIN flows : \A ip \in {Ip(flows[k].a), Ip(flows[k].b)} :
       /\ hosts[ip].first <= flows[k].first
       /\ flows[k].first <= flows[k].last
       /\ flows[k].last <= hosts[ip].last

\* Tracking starts with the payload of the side that opened the connection,
\* "its initiator's" (tlsreassembly.go:140).
TrackedFromClient ==
  \A k \in DOMAIN tlsConns : \A p \in Packets : p.conn = tlsConns[k] => flows[k].a = p.client

\* Payloads "get reassembled per-connection" (builder.go:28): none reaches the
\* state of an earlier connection between the same endpoints.
ConnectionsNotMixed == ~mixed
=============================================================================
