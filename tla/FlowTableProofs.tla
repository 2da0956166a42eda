-------------------------- MODULE FlowTableProofs --------------------------
(***************************************************************************)
(* Proofs about FlowTable for every set of packets and every capture made   *)
(* of them.                                                                 *)
(***************************************************************************)
EXTENDS FlowTable, DataLemmas

\* The named assumption of FlowTable on what a packet says.
PacketsOK == Packets \subseteq Packet

\* The assumption under the name the lemmas use.
LEMMA PacketsHold == PacketsOK
BY PacketsAssumption DEF PacketsOK

-----------------------------------------------------------------------------
(* Types *)

HostRecord ==
  [bytesOut : Nat, bytesIn : Nat, packetsOut : Nat, packetsIn : Nat,
   names : SUBSET STRING, ports : SUBSET (1..MaxPort), first : Nat, last : Nat]

FlowRecord ==
  [a : Endpoint, b : Endpoint, packetsAB : Nat, packetsBA : Nat, bytesAB : Nat, bytesBA : Nat,
   first : Nat, last : Nat, flags : SUBSET STRING, hello : BOOLEAN, cert : BOOLEAN]

Keys == Protos \X Endpoint \X Endpoint

\* The tables are tables; a flow's key is that of its ends, both of them hosts.
Shape ==
  /\ hosts \in [DOMAIN hosts -> HostRecord] /\ DOMAIN hosts \subseteq Nat
  /\ flows \in [DOMAIN flows -> FlowRecord] /\ DOMAIN flows \subseteq Keys
  /\ \A k \in DOMAIN flows : /\ k = FlowKey(k[1], flows[k].a, flows[k].b)
                             /\ Ip(flows[k].a) \in DOMAIN hosts /\ Ip(flows[k].b) \in DOMAIN hosts
  /\ pendingNames \in [DOMAIN pendingNames -> SUBSET STRING]
  /\ DOMAIN tlsConns \subseteq DOMAIN flows
  /\ mixed \in BOOLEAN
  /\ meta \in [packets : Nat, bytes : Nat, first : Nat, last : Nat]

-----------------------------------------------------------------------------
(* Tables, endpoints and keys *)

\* An entry more, or a new value of one.
LEMMA WithIs ==
  ASSUME NEW f, NEW x, NEW y
  PROVE  /\ DOMAIN With(f, x, y) = DOMAIN f \cup {x}
         /\ With(f, x, y)[x] = y
         /\ \A z \in DOMAIN f : z # x => With(f, x, y)[z] = f[z]
BY DEF With

\* An endpoint is an address and a port.
LEMMA EndpointIs ==
  ASSUME NEW e \in Endpoint
  PROVE  e = <<Ip(e), Port(e)>> /\ Ip(e) \in Nat /\ Port(e) \in 0..MaxPort
BY DEF Endpoint, Ip, Port

\* Both directions of a conversation have one key, and only they (flowKey).
LEMMA KeyOfBoth ==
  ASSUME NEW q, NEW a \in Endpoint, NEW b \in Endpoint
  PROVE  /\ FlowKey(q, a, b) = FlowKey(q, b, a)
         /\ FlowKey(q, a, b) = <<q, a, b>> \/ FlowKey(q, a, b) = <<q, b, a>>
<1>1. CASE Before(a, b) /\ Before(b, a)
  <2>1. Ip(a) = Ip(b) /\ Port(a) = Port(b)
    BY <1>1, EndpointIs DEF Before
  <2>2. a = b
    BY <2>1, EndpointIs
  <2> QED BY <2>2 DEF FlowKey
<1>2. CASE ~Before(a, b) \/ ~Before(b, a)
  <2>1. Before(a, b) \/ Before(b, a)
    BY EndpointIs DEF Before
  <2> QED BY <1>2, <2>1 DEF FlowKey
<1> QED BY <1>1, <1>2

\* Two conversations of one key are between the same two ends.
LEMMA KeyEnds ==
  ASSUME NEW q, NEW r, NEW a \in Endpoint, NEW b \in Endpoint, NEW c \in Endpoint, NEW d \in Endpoint,
         FlowKey(q, a, b) = FlowKey(r, c, d)
  PROVE  q = r /\ \/ a = c /\ b = d
                  \/ a = d /\ b = c
<1>1. FlowKey(q, a, b) = <<q, a, b>> \/ FlowKey(q, a, b) = <<q, b, a>>
  BY KeyOfBoth
<1>2. FlowKey(r, c, d) = <<r, c, d>> \/ FlowKey(r, c, d) = <<r, d, c>>
  BY KeyOfBoth
<1> QED BY <1>1, <1>2

\* A packet's fields, and the key it is filed under.
LEMMA PacketIs ==
  ASSUME PacketsOK, NEW p \in Packets
  PROVE  /\ p.src \in Endpoint /\ p.dst \in Endpoint /\ p.proto \in Protos
         /\ Ip(p.src) \in Nat /\ Ip(p.dst) \in Nat
         /\ p.ts \in Nat /\ p.len \in Nat
         /\ p.names \in SUBSET STRING /\ p.answers \in SUBSET (Nat \X STRING)
         /\ p.flags \in STRING
         /\ FlowKey(p.proto, p.src, p.dst) \in Keys
<1>1. p \in Packet
  BY DEF PacketsOK
<1>2. /\ p.src \in Endpoint /\ p.dst \in Endpoint /\ p.proto \in Protos
      /\ p.ts \in Nat /\ p.len \in Nat
      /\ p.names \in SUBSET STRING /\ p.answers \in SUBSET (Nat \X STRING)
      /\ p.flags \in STRING
  BY <1>1 DEF Packet
<1>3. FlowKey(p.proto, p.src, p.dst) \in Keys
  BY <1>2, KeyOfBoth DEF Keys
<1> QED BY <1>2, <1>3, EndpointIs

-----------------------------------------------------------------------------
(* The host records after a packet *)

\* The names a packet's DNS answers give to an address.
Learned(p, ip) == {n[2] : n \in {m \in p.answers : m[1] = ip}}

\* Builder.host: one record is made or refreshed, the others are left alone.
LEMMA HostIs ==
  ASSUME NEW table, table \in [DOMAIN table -> HostRecord], DOMAIN table \subseteq Nat,
         NEW ip \in Nat, NEW ts \in Nat, pendingNames \in [DOMAIN pendingNames -> SUBSET STRING]
  PROVE  LET new == Host(table, ip, ts)
         IN  /\ DOMAIN new = DOMAIN table \cup {ip}
             /\ new \in [DOMAIN new -> HostRecord]
             /\ \A i \in DOMAIN table : i # ip => new[i] = table[i]
             /\ new[ip].first <= ts /\ ts <= new[ip].last
             /\ At(pendingNames, ip, {}) \subseteq new[ip].names
             /\ ip \in DOMAIN table =>
                  /\ new[ip].first <= table[ip].first /\ table[ip].last <= new[ip].last
                  /\ table[ip].names \subseteq new[ip].names
                  /\ new[ip].first = table[ip].first \/ new[ip].first = ts
                  /\ new[ip].last = table[ip].last \/ new[ip].last = ts
             /\ ip \notin DOMAIN table => new[ip].first = ts /\ new[ip].last = ts
             /\ new[ip].bytesOut = IF ip \in DOMAIN table THEN table[ip].bytesOut ELSE 0
             /\ new[ip].bytesIn = IF ip \in DOMAIN table THEN table[ip].bytesIn ELSE 0
<1> DEFINE h == At(table, ip, [bytesOut |-> 0, bytesIn |-> 0, packetsOut |-> 0, packetsIn |-> 0,
                               names |-> {}, ports |-> {}, first |-> ts, last |-> ts])
           g == [Seen(h, ts) EXCEPT !.names = @ \cup At(pendingNames, ip, {})]
           new == Host(table, ip, ts)
<1>1. h \in HostRecord
  <2>1. CASE ip \in DOMAIN table
    BY <2>1 DEF At
  <2>2. CASE ip \notin DOMAIN table
    BY <2>2 DEF At, HostRecord
  <2> QED BY <2>1, <2>2
<1>2. /\ ip \in DOMAIN table => h = table[ip]
      /\ ip \notin DOMAIN table => h.first = ts /\ h.last = ts /\ h.bytesOut = 0 /\ h.bytesIn = 0
  BY DEF At
<1>3. At(pendingNames, ip, {}) \in SUBSET STRING
  BY DEF At
<1> HIDE DEF h
<1>4. /\ g \in HostRecord
      /\ g.first = Lower(h.first, ts) /\ g.last = Higher(h.last, ts)
      /\ g.names = h.names \cup At(pendingNames, ip, {})
      /\ g.bytesOut = h.bytesOut /\ g.bytesIn = h.bytesIn
  <2>1. Lower(h.first, ts) \in Nat /\ Higher(h.last, ts) \in Nat
    BY <1>1 DEF Lower, Higher, HostRecord
  <2>2. h.names \cup At(pendingNames, ip, {}) \in SUBSET STRING
    BY <1>1, <1>3 DEF HostRecord
  <2> QED BY <1>1, <2>1, <2>2 DEF Seen, HostRecord
<1>5. /\ g.first <= ts /\ ts <= g.last /\ g.first <= h.first /\ h.last <= g.last
      /\ g.first = h.first \/ g.first = ts
      /\ g.last = h.last \/ g.last = ts
  BY <1>1, <1>4 DEF Lower, Higher, HostRecord
<1>6. new = With(table, ip, g)
  BY DEF Host, h
<1> HIDE DEF g
<1>7. /\ DOMAIN new = DOMAIN table \cup {ip} /\ new[ip] = g
      /\ \A i \in DOMAIN table : i # ip => new[i] = table[i]
  <2>1. /\ DOMAIN With(table, ip, g) = DOMAIN table \cup {ip} /\ With(table, ip, g)[ip] = g
        /\ \A i \in DOMAIN table : i # ip => With(table, ip, g)[i] = table[i]
    BY DEF With
  <2> HIDE DEF new
  <2> QED BY <1>6, <2>1
<1>8. new \in [DOMAIN new -> HostRecord]
  <2>1. new = [i \in DOMAIN new |-> new[i]]
    BY <1>6 DEF With
  <2>2. \A i \in DOMAIN new : new[i] \in HostRecord
    BY <1>4, <1>7
  <2> QED BY <2>1, <2>2
<1> QED BY <1>2, <1>4, <1>5, <1>7, <1>8

\* What the packet p makes of the host records: those of its ends cover its
\* time, and every record has the names known for its address.
HostsAfter(p) ==
  /\ DOMAIN hosts' = DOMAIN hosts \cup {Ip(p.src), Ip(p.dst)}
  /\ hosts' \in [DOMAIN hosts' -> HostRecord]
  /\ \A ip \in DOMAIN hosts :
       /\ hosts'[ip].first <= hosts[ip].first /\ hosts[ip].last <= hosts'[ip].last
       /\ hosts[ip].names \subseteq hosts'[ip].names
  /\ \A ip \in DOMAIN hosts' : Learned(p, ip) \subseteq hosts'[ip].names
  /\ \A ip \in DOMAIN hosts : /\ hosts'[ip].first = hosts[ip].first \/ hosts'[ip].first = p.ts
                              /\ hosts'[ip].last = hosts[ip].last \/ hosts'[ip].last = p.ts
  /\ \A ip \in {Ip(p.src), Ip(p.dst)} :
       /\ hosts'[ip].first <= p.ts /\ p.ts <= hosts'[ip].last
       /\ At(pendingNames, ip, {}) \subseteq hosts'[ip].names
       /\ ip \notin DOMAIN hosts => hosts'[ip].first = p.ts /\ hosts'[ip].last = p.ts

\* What the host records say an address sent, and what it received.
SentBy(ip)  == IF ip \in DOMAIN hosts THEN hosts[ip].bytesOut ELSE 0
GotBy(ip)   == IF ip \in DOMAIN hosts THEN hosts[ip].bytesIn ELSE 0

\* The packet p adds its length to the bytes of its two ends.
BytesAfter(p) ==
  \A ip \in DOMAIN hosts' :
    /\ hosts'[ip].bytesOut = SentBy(ip) + (IF ip = Ip(p.src) THEN p.len ELSE 0)
    /\ hosts'[ip].bytesIn  = GotBy(ip) + (IF ip = Ip(p.dst) THEN p.len ELSE 0)

\* A table in which each record has the times and at least the names of another's.
Extends(t, u) ==
  /\ DOMAIN t = DOMAIN u
  /\ t \in [DOMAIN t -> HostRecord]
  /\ \A ip \in DOMAIN t : /\ t[ip].first = u[ip].first /\ t[ip].last = u[ip].last
                          /\ u[ip].names \subseteq t[ip].names

\* One in which each record has the bytes of the other's, too.
Keeps(t, u) ==
  Extends(t, u) /\ \A ip \in DOMAIN t : t[ip].bytesOut = u[ip].bytesOut /\ t[ip].bytesIn = u[ip].bytesIn

\* More in a record's counters (Sends, Receives) leaves its times alone.
LEMMA Counted ==
  ASSUME PacketsOK, NEW p \in Packets, NEW h \in HostRecord, NEW g, g = Sends(h, p) \/ g = Receives(h, p)
  PROVE  /\ g \in HostRecord /\ g.first = h.first /\ g.last = h.last /\ g.names = h.names
         /\ g = Sends(h, p) => g.bytesOut = h.bytesOut + p.len /\ g.bytesIn = h.bytesIn
         /\ g = Receives(h, p) => g.bytesIn = h.bytesIn + p.len /\ g.bytesOut = h.bytesOut
<1>1. p.len \in Nat
  BY PacketIs
<1>2. \A m, n \in Nat : m + n \in Nat
  OBVIOUS
<1>3. /\ h.bytesOut + p.len \in Nat /\ h.packetsOut + 1 \in Nat
      /\ h.bytesIn + p.len \in Nat /\ h.packetsIn + 1 \in Nat
  BY <1>1, <1>2 DEF HostRecord
<1>4. ASSUME g = Sends(h, p)
      PROVE  /\ g \in HostRecord /\ g.first = h.first /\ g.last = h.last /\ g.names = h.names
             /\ g.bytesOut = h.bytesOut + p.len /\ g.bytesIn = h.bytesIn
  BY <1>3, <1>4 DEF Sends, HostRecord
<1>5. ASSUME g = Receives(h, p)
      PROVE  /\ g \in HostRecord /\ g.first = h.first /\ g.last = h.last /\ g.names = h.names
             /\ g.bytesIn = h.bytesIn + p.len /\ g.bytesOut = h.bytesOut
  BY <1>3, <1>5 DEF Receives, HostRecord
<1> QED BY <1>4, <1>5

\* So do more names ...
LEMMA NewNames ==
  ASSUME NEW h \in HostRecord, NEW more \in SUBSET STRING
  PROVE  LET g == [h EXCEPT !.names = @ \cup more]
         IN  /\ g \in HostRecord /\ g.first = h.first /\ g.last = h.last /\ g.names = h.names \cup more
             /\ g.bytesOut = h.bytesOut /\ g.bytesIn = h.bytesIn
<1>1. h.names \cup more \in SUBSET STRING
  BY DEF HostRecord
<1> QED BY <1>1 DEF HostRecord

\* ... and one port more (AddPort).
LEMMA NewPort ==
  ASSUME NEW h \in HostRecord, NEW e \in Endpoint, Port(e) > 0
  PROVE  LET g == [h EXCEPT !.ports = @ \cup {Port(e)}]
         IN  /\ g \in HostRecord /\ g.first = h.first /\ g.last = h.last /\ g.names = h.names
             /\ g.bytesOut = h.bytesOut /\ g.bytesIn = h.bytesIn
<1>1. Port(e) \in 1..MaxPort
  <2>1. MaxPort \in Nat
    BY DEF MaxPort
  <2> QED BY <2>1, EndpointIs
<1>2. h.ports \cup {Port(e)} \in SUBSET (1..MaxPort)
  BY <1>1 DEF HostRecord
<1> QED BY <1>2 DEF HostRecord

\* Replacing the record of one host by such a one.
LEMMA Replaced ==
  ASSUME NEW u, u \in [DOMAIN u -> HostRecord], NEW ip \in DOMAIN u, NEW g \in HostRecord,
         g.first = u[ip].first, g.last = u[ip].last, u[ip].names \subseteq g.names
  PROVE  /\ Extends([u EXCEPT ![ip] = g], u)
         /\ g.bytesOut = u[ip].bytesOut /\ g.bytesIn = u[ip].bytesIn => Keeps([u EXCEPT ![ip] = g], u)
BY DEF Extends, Keeps

\* Both are transitive ...
LEMMA ExtendsTwice ==
  ASSUME NEW t, NEW u, NEW v, Extends(t, u), Extends(u, v)
  PROVE  Extends(t, v) /\ (Keeps(t, u) /\ Keeps(u, v) => Keeps(t, v))
BY DEF Extends, Keeps

\* ... and reflexive.
LEMMA ExtendsItself ==
  ASSUME NEW t, t \in [DOMAIN t -> HostRecord]
  PROVE  Extends(t, t) /\ Keeps(t, t)
BY DEF Extends, Keeps

\* The two host() calls (Builder.Add): both ends have records that cover the
\* packet's time and have the names known for them.
LEMMA TwoHosts ==
  ASSUME Shape, PacketsOK, NEW p \in Packets
  PROVE  LET two == Host(Host(hosts, Ip(p.src), p.ts), Ip(p.dst), p.ts)
         IN  /\ DOMAIN two = DOMAIN hosts \cup {Ip(p.src), Ip(p.dst)}
             /\ two \in [DOMAIN two -> HostRecord]
             /\ \A ip \in DOMAIN hosts :
                  /\ two[ip].first <= hosts[ip].first /\ hosts[ip].last <= two[ip].last
                  /\ hosts[ip].names \subseteq two[ip].names
             /\ \A ip \in DOMAIN hosts : /\ two[ip].first = hosts[ip].first \/ two[ip].first = p.ts
                                         /\ two[ip].last = hosts[ip].last \/ two[ip].last = p.ts
             /\ \A ip \in {Ip(p.src), Ip(p.dst)} :
                  /\ two[ip].first <= p.ts /\ p.ts <= two[ip].last
                  /\ At(pendingNames, ip, {}) \subseteq two[ip].names
                  /\ ip \notin DOMAIN hosts => two[ip].first = p.ts /\ two[ip].last = p.ts
             /\ \A ip \in DOMAIN two : two[ip].bytesOut = SentBy(ip) /\ two[ip].bytesIn = GotBy(ip)
<1> DEFINE s == Ip(p.src)
           d == Ip(p.dst)
           one == Host(hosts, s, p.ts)
           two == Host(one, d, p.ts)
<1>1. s \in Nat /\ d \in Nat /\ p.ts \in Nat
  BY PacketIs
<1>2. pendingNames \in [DOMAIN pendingNames -> SUBSET STRING]
      /\ hosts \in [DOMAIN hosts -> HostRecord] /\ DOMAIN hosts \subseteq Nat
  BY DEF Shape
<1> HIDE DEF s, d
<1>3. /\ DOMAIN one = DOMAIN hosts \cup {s}
      /\ one \in [DOMAIN one -> HostRecord]
      /\ \A i \in DOMAIN hosts : i # s => one[i] = hosts[i]
      /\ one[s].first <= p.ts /\ p.ts <= one[s].last
      /\ At(pendingNames, s, {}) \subseteq one[s].names
      /\ s \in DOMAIN hosts =>
           /\ one[s].first <= hosts[s].first /\ hosts[s].last <= one[s].last
           /\ hosts[s].names \subseteq one[s].names
           /\ one[s].first = hosts[s].first \/ one[s].first = p.ts
           /\ one[s].last = hosts[s].last \/ one[s].last = p.ts
      /\ s \notin DOMAIN hosts => one[s].first = p.ts /\ one[s].last = p.ts
      /\ one[s].bytesOut = IF s \in DOMAIN hosts THEN hosts[s].bytesOut ELSE 0
      /\ one[s].bytesIn = IF s \in DOMAIN hosts THEN hosts[s].bytesIn ELSE 0
  BY <1>1, <1>2, HostIs
<1> HIDE DEF one
<1>4. DOMAIN one \subseteq Nat
  BY <1>1, <1>2, <1>3
<1>5. /\ DOMAIN two = DOMAIN one \cup {d}
      /\ two \in [DOMAIN two -> HostRecord]
      /\ \A i \in DOMAIN one : i # d => two[i] = one[i]
      /\ two[d].first <= p.ts /\ p.ts <= two[d].last
      /\ At(pendingNames, d, {}) \subseteq two[d].names
      /\ d \in DOMAIN one =>
           /\ two[d].first <= one[d].first /\ one[d].last <= two[d].last
           /\ one[d].names \subseteq two[d].names
           /\ two[d].first = one[d].first \/ two[d].first = p.ts
           /\ two[d].last = one[d].last \/ two[d].last = p.ts
      /\ d \notin DOMAIN one => two[d].first = p.ts /\ two[d].last = p.ts
      /\ two[d].bytesOut = IF d \in DOMAIN one THEN one[d].bytesOut ELSE 0
      /\ two[d].bytesIn = IF d \in DOMAIN one THEN one[d].bytesIn ELSE 0
  BY <1>1, <1>2, <1>3, <1>4, HostIs
<1> HIDE DEF two
<1>6. /\ \A i \in DOMAIN hosts : hosts[i].first \in Nat /\ hosts[i].last \in Nat
      /\ \A i \in DOMAIN one : one[i].first \in Nat /\ one[i].last \in Nat
      /\ \A i \in DOMAIN two : two[i].first \in Nat /\ two[i].last \in Nat
  BY <1>2, <1>3, <1>5 DEF HostRecord
<1>7. ASSUME NEW ip \in DOMAIN hosts
      PROVE  /\ two[ip].first <= hosts[ip].first /\ hosts[ip].last <= two[ip].last
             /\ hosts[ip].names \subseteq two[ip].names
  <2>1. /\ one[ip].first <= hosts[ip].first /\ hosts[ip].last <= one[ip].last
        /\ hosts[ip].names \subseteq one[ip].names
    BY <1>3, <1>6
  <2>2. /\ two[ip].first <= one[ip].first /\ one[ip].last <= two[ip].last
        /\ one[ip].names \subseteq two[ip].names
    BY <1>3, <1>5, <1>6
  <2>3. ip \in DOMAIN one /\ ip \in DOMAIN two
    BY <1>3, <1>5
  <2> QED BY <1>6, <2>1, <2>2, <2>3
<1>8. ASSUME NEW ip \in DOMAIN hosts
      PROVE  /\ two[ip].first = hosts[ip].first \/ two[ip].first = p.ts
             /\ two[ip].last = hosts[ip].last \/ two[ip].last = p.ts
  BY <1>3, <1>5
<1>9. ASSUME NEW ip \in {s, d}
      PROVE  /\ two[ip].first <= p.ts /\ p.ts <= two[ip].last
             /\ At(pendingNames, ip, {}) \subseteq two[ip].names
             /\ ip \notin DOMAIN hosts => two[ip].first = p.ts /\ two[ip].last = p.ts
  <2>1. CASE ip # d
    BY <1>3, <1>5, <2>1
  <2>2. CASE ip = d /\ d \notin DOMAIN one
    BY <1>3, <1>5, <2>2
  <2>3. CASE ip = d /\ d \in DOMAIN one
    <3>1. d \notin DOMAIN hosts => d = s
      BY <1>3, <2>3
    <3>2. d \notin DOMAIN hosts => one[d].first = p.ts /\ one[d].last = p.ts
      BY <1>3, <3>1
    <3>3. d \notin DOMAIN hosts => two[d].first = p.ts /\ two[d].last = p.ts
      BY <1>5, <2>3, <3>2
    <3> QED BY <1>5, <2>3, <3>3
  <2> QED BY <2>1, <2>2, <2>3
<1>10. ASSUME NEW ip \in DOMAIN two
       PROVE  two[ip].bytesOut = SentBy(ip) /\ two[ip].bytesIn = GotBy(ip)
  <2>1. \A i \in DOMAIN one : one[i].bytesOut = SentBy(i) /\ one[i].bytesIn = GotBy(i)
    BY <1>3 DEF SentBy, GotBy
  <2>2. \A i \in DOMAIN hosts : i \in DOMAIN one
    BY <1>3
  <2> QED BY <1>5, <2>1, <2>2 DEF SentBy, GotBy
<1> QED BY <1>3, <1>5, <1>7, <1>8, <1>9, <1>10 DEF one, two, s, d

\* From the counters to the names: nothing else moves a host's times.
LEMMA HostsNow ==
  ASSUME Shape, PacketsOK, NEW p \in Packets, AddIp(p)
  PROVE  HostsAfter(p) /\ BytesAfter(p)
<1> DEFINE two == Host(Host(hosts, Ip(p.src), p.ts), Ip(p.dst), p.ts)
           out == [two EXCEPT ![Ip(p.src)] = Sends(@, p)]
           count == CountHosts(p)
           key == FlowKey(p.proto, p.src, p.dst)
           base == IF key \notin DOMAIN flows THEN AttributePort(count, p) ELSE count
           direct == LearnDirectly(base, p)
<1>1. /\ DOMAIN two = DOMAIN hosts \cup {Ip(p.src), Ip(p.dst)}
      /\ two \in [DOMAIN two -> HostRecord]
  BY TwoHosts
<1> HIDE DEF two
<1>2. Extends(out, two)
  <2>1. two[Ip(p.src)] \in HostRecord
    BY <1>1
  <2> DEFINE g == Sends(two[Ip(p.src)], p)
  <2>2. g \in HostRecord /\ g.first = two[Ip(p.src)].first /\ g.last = two[Ip(p.src)].last
        /\ g.names = two[Ip(p.src)].names
    BY <2>1, Counted
  <2> HIDE DEF g
  <2>3. Extends([two EXCEPT ![Ip(p.src)] = g], two)
    BY <1>1, <2>2, Replaced
  <2> QED BY <2>3 DEF g
<1>3. count = [out EXCEPT ![Ip(p.dst)] = Receives(@, p)]
  BY DEF CountHosts, two
<1> HIDE DEF out, count
<1>4. Extends(count, two)
  <2>1. out[Ip(p.dst)] \in HostRecord /\ Ip(p.dst) \in DOMAIN out /\ out \in [DOMAIN out -> HostRecord]
    BY <1>1, <1>2 DEF Extends
  <2> DEFINE g == Receives(out[Ip(p.dst)], p)
  <2>2. g \in HostRecord /\ g.first = out[Ip(p.dst)].first /\ g.last = out[Ip(p.dst)].last
        /\ g.names = out[Ip(p.dst)].names
    BY <2>1, Counted
  <2> HIDE DEF g
  <2>3. Extends([out EXCEPT ![Ip(p.dst)] = g], out)
    BY <2>1, <2>2, Replaced
  <2> QED BY <1>2, <1>3, <2>3, ExtendsTwice DEF g
<1>5. \A e \in {p.src, p.dst} : Keeps(AddPort(count, e), count)
  <2> SUFFICES ASSUME NEW e \in {p.src, p.dst} PROVE Keeps(AddPort(count, e), count)
    OBVIOUS
  <2>1. e \in Endpoint /\ Ip(e) \in DOMAIN count /\ count \in [DOMAIN count -> HostRecord]
    BY <1>1, <1>4, PacketIs DEF Extends
  <2>2. CASE Port(e) > 0
    <3> DEFINE g == [count[Ip(e)] EXCEPT !.ports = @ \cup {Port(e)}]
    <3>1. g \in HostRecord /\ g.first = count[Ip(e)].first /\ g.last = count[Ip(e)].last
          /\ g.names = count[Ip(e)].names
          /\ g.bytesOut = count[Ip(e)].bytesOut /\ g.bytesIn = count[Ip(e)].bytesIn
      BY <2>1, <2>2, NewPort
    <3>2. AddPort(count, e) = [count EXCEPT ![Ip(e)] = g]
      BY <2>2 DEF AddPort
    <3> HIDE DEF g
    <3>3. Keeps([count EXCEPT ![Ip(e)] = g], count)
      BY <2>1, <3>1, Replaced
    <3> QED BY <3>2, <3>3
  <2>3. CASE ~(Port(e) > 0)
    BY <2>1, <2>3, ExtendsItself DEF AddPort
  <2> QED BY <2>2, <2>3
<1>6. Extends(base, two) /\ Keeps(base, count)
  <2>1. AttributePort(count, p) = count \/ \E e \in {p.src, p.dst} : AttributePort(count, p) = AddPort(count, e)
    BY DEF AttributePort
  <2>2. count \in [DOMAIN count -> HostRecord]
    BY <1>4 DEF Extends
  <2>3. Keeps(base, count)
    BY <1>5, <2>1, <2>2, ExtendsItself
  <2> QED BY <1>4, <2>3, ExtendsTwice DEF Keeps
<1> HIDE DEF base
<1>7. Extends(direct, two) /\ Keeps(direct, count)
  <2>1. Ip(p.dst) \in DOMAIN base /\ base \in [DOMAIN base -> HostRecord] /\ base[Ip(p.dst)] \in HostRecord
    BY <1>1, <1>6 DEF Extends
  <2> DEFINE g == [base[Ip(p.dst)] EXCEPT !.names = @ \cup p.names]
  <2>2. g \in HostRecord /\ g.first = base[Ip(p.dst)].first /\ g.last = base[Ip(p.dst)].last
        /\ g.names = base[Ip(p.dst)].names \cup p.names
        /\ g.bytesOut = base[Ip(p.dst)].bytesOut /\ g.bytesIn = base[Ip(p.dst)].bytesIn
    BY <2>1, PacketIs, NewNames
  <2>3. direct = base \/ direct = [base EXCEPT ![Ip(p.dst)] = g]
    BY DEF LearnDirectly
  <2> HIDE DEF g, direct
  <2>4. Keeps(direct, base)
    BY <2>1, <2>2, <2>3, Replaced, ExtendsItself
  <2> QED BY <1>6, <2>4, ExtendsTwice DEF Keeps
<1>8. hosts' = LearnAnswers(direct, p)
  BY DEF AddIp, direct, base, count
<1> HIDE DEF direct
<1>9. /\ DOMAIN hosts' = DOMAIN two
      /\ hosts' \in [DOMAIN hosts' -> HostRecord]
      /\ \A ip \in DOMAIN two : /\ hosts'[ip].first = two[ip].first /\ hosts'[ip].last = two[ip].last
                               /\ two[ip].names \subseteq hosts'[ip].names
                               /\ Learned(p, ip) \subseteq hosts'[ip].names
      /\ \A ip \in DOMAIN two : /\ hosts'[ip].bytesOut = count[ip].bytesOut
                               /\ hosts'[ip].bytesIn = count[ip].bytesIn
  <2>1. hosts' = [ip \in DOMAIN direct |-> [direct[ip] EXCEPT !.names = @ \cup Learned(p, ip)]]
    BY <1>8 DEF LearnAnswers, Learned
  <2>2. ASSUME NEW ip \in DOMAIN direct
        PROVE  LET g == [direct[ip] EXCEPT !.names = @ \cup Learned(p, ip)]
               IN  /\ g \in HostRecord /\ g.first = direct[ip].first /\ g.last = direct[ip].last
                   /\ g.names = direct[ip].names \cup Learned(p, ip)
                   /\ g.bytesOut = direct[ip].bytesOut /\ g.bytesIn = direct[ip].bytesIn
    <3>1. direct[ip] \in HostRecord
      BY <1>7 DEF Extends
    <3>2. Learned(p, ip) \in SUBSET STRING
      BY PacketIs DEF Learned
    <3> QED BY <3>1, <3>2, NewNames
  <2>3. DOMAIN hosts' = DOMAIN direct /\ hosts' \in [DOMAIN hosts' -> HostRecord]
    BY <2>1, <2>2
  <2> QED BY <1>7, <2>1, <2>2, <2>3 DEF Extends, Keeps
<1>10. /\ \A ip \in DOMAIN hosts :
            /\ two[ip].first <= hosts[ip].first /\ hosts[ip].last <= two[ip].last
            /\ hosts[ip].names \subseteq two[ip].names
       /\ \A ip \in DOMAIN hosts : /\ two[ip].first = hosts[ip].first \/ two[ip].first = p.ts
                                   /\ two[ip].last = hosts[ip].last \/ two[ip].last = p.ts
       /\ \A ip \in {Ip(p.src), Ip(p.dst)} :
            /\ two[ip].first <= p.ts /\ p.ts <= two[ip].last
            /\ At(pendingNames, ip, {}) \subseteq two[ip].names
            /\ ip \notin DOMAIN hosts => two[ip].first = p.ts /\ two[ip].last = p.ts
  BY TwoHosts DEF two
<1>11. ASSUME NEW ip \in DOMAIN two
       PROVE  /\ count[ip].bytesOut = SentBy(ip) + (IF ip = Ip(p.src) THEN p.len ELSE 0)
              /\ count[ip].bytesIn  = GotBy(ip) + (IF ip = Ip(p.dst) THEN p.len ELSE 0)
  <2>1. two[ip].bytesOut = SentBy(ip) /\ two[ip].bytesIn = GotBy(ip)
    BY TwoHosts DEF two
  <2>2. two[ip].bytesOut \in Nat /\ two[ip].bytesIn \in Nat /\ p.len \in Nat
    BY <1>1, PacketIs DEF HostRecord
  <2>3. out[ip] = IF ip = Ip(p.src) THEN Sends(two[ip], p) ELSE two[ip]
    BY <1>1 DEF out
  <2>4. /\ out[ip].bytesOut = two[ip].bytesOut + (IF ip = Ip(p.src) THEN p.len ELSE 0)
        /\ out[ip].bytesIn = two[ip].bytesIn
    BY <1>1, <2>2, <2>3, Counted
  <2>5. out[ip] \in HostRecord /\ ip \in DOMAIN out
    BY <1>2 DEF Extends
  <2>6. count[ip] = IF ip = Ip(p.dst) THEN Receives(out[ip], p) ELSE out[ip]
    BY <1>3, <2>5
  <2>7. /\ count[ip].bytesIn = out[ip].bytesIn + (IF ip = Ip(p.dst) THEN p.len ELSE 0)
        /\ count[ip].bytesOut = out[ip].bytesOut
    BY <2>2, <2>4, <2>5, <2>6, Counted
  <2> QED BY <2>1, <2>4, <2>7
<1>12. BytesAfter(p)
  BY <1>9, <1>11 DEF BytesAfter
<1> QED BY <1>1, <1>9, <1>10, <1>12 DEF HostsAfter
-----------------------------------------------------------------------------
(* The flow of a packet *)

\* What the packet p makes of the flow table: its flow is the one of its two
\* ends, in either order, and counts it in the direction it went (updateFlow).
FlowsAfter(p) ==
  LET key == FlowKey(p.proto, p.src, p.dst)
      g   == flows'[key]
  IN
  /\ DOMAIN flows' = DOMAIN flows \cup {key}
  /\ flows' \in [DOMAIN flows' -> FlowRecord]
  /\ \A k \in DOMAIN flows : k # key => flows'[k] = flows[k]
  /\ (g.a = p.src /\ g.b = p.dst) \/ (g.a = p.dst /\ g.b = p.src)
  /\ key \in DOMAIN flows =>
       LET f == flows[key] IN
       /\ g.a = f.a /\ g.b = f.b
       /\ g.first = f.first /\ f.last <= g.last /\ p.ts <= g.last
       /\ g.last = f.last \/ g.last = p.ts
       /\ p.src = f.a => g.packetsAB = f.packetsAB + 1 /\ g.packetsBA = f.packetsBA
       /\ p.src # f.a => g.packetsBA = f.packetsBA + 1 /\ g.packetsAB = f.packetsAB
  /\ key \notin DOMAIN flows =>
       /\ g.a = p.src /\ g.b = p.dst
       /\ g.first = p.ts /\ g.last = p.ts
       /\ g.packetsAB = 1 /\ g.packetsBA = 0

\* What the flow records say a flow carried from its first end, and to it.
FromA(k) == IF k \in DOMAIN flows THEN flows[k].bytesAB ELSE 0
FromB(k) == IF k \in DOMAIN flows THEN flows[k].bytesBA ELSE 0

\* The packet p adds its length to its flow, in the direction it went.
CarriedAfter(p) ==
  LET key == FlowKey(p.proto, p.src, p.dst)
      g   == flows'[key]
  IN
  /\ p.src = g.a => g.bytesAB = FromA(key) + p.len /\ g.bytesBA = FromB(key)
  /\ p.src # g.a => g.bytesBA = FromB(key) + p.len /\ g.bytesAB = FromA(key)

\* updateFlow on any flow record.
LEMMA CountIs ==
  ASSUME PacketsOK, NEW p \in Packets, NEW f \in FlowRecord
  PROVE  LET g == Inspect(Count(f, p), p)
         IN  /\ g \in FlowRecord
             /\ g.a = f.a /\ g.b = f.b
             /\ g.first = f.first /\ f.last <= g.last /\ p.ts <= g.last
             /\ g.last = f.last \/ g.last = p.ts
             /\ p.src = f.a => g.packetsAB = f.packetsAB + 1 /\ g.packetsBA = f.packetsBA
             /\ p.src # f.a => g.packetsBA = f.packetsBA + 1 /\ g.packetsAB = f.packetsAB
             /\ p.src = f.a => g.bytesAB = f.bytesAB + p.len /\ g.bytesBA = f.bytesBA
             /\ p.src # f.a => g.bytesBA = f.bytesBA + p.len /\ g.bytesAB = f.bytesAB
<1> DEFINE c == Count(f, p)
           e == [f EXCEPT !.last = Higher(@, p.ts),
                          !.flags = IF p.proto = "TCP" THEN @ \cup {p.flags} ELSE @]
<1>1. p.src \in Endpoint /\ p.len \in Nat /\ p.ts \in Nat /\ p.flags \in STRING
  BY PacketIs
<1>2. IsSideA(f, p.src) <=> p.src = f.a
  BY <1>1, EndpointIs DEF IsSideA, FlowRecord
<1>3. /\ e \in FlowRecord
      /\ e.a = f.a /\ e.b = f.b /\ e.first = f.first
      /\ f.last <= e.last /\ p.ts <= e.last /\ (e.last = f.last \/ e.last = p.ts)
      /\ e.packetsAB = f.packetsAB /\ e.packetsBA = f.packetsBA
      /\ e.bytesAB = f.bytesAB /\ e.bytesBA = f.bytesBA
  <2>1. /\ Higher(f.last, p.ts) \in Nat
        /\ f.last <= Higher(f.last, p.ts) /\ p.ts <= Higher(f.last, p.ts)
        /\ Higher(f.last, p.ts) = f.last \/ Higher(f.last, p.ts) = p.ts
    BY <1>1 DEF Higher, FlowRecord
  <2>2. (IF p.proto = "TCP" THEN f.flags \cup {p.flags} ELSE f.flags) \in SUBSET STRING
    BY <1>1 DEF FlowRecord
  <2> QED BY <2>1, <2>2 DEF FlowRecord
<1>4. c = IF IsSideA(f, p.src)
          THEN [e EXCEPT !.packetsAB = @ + 1, !.bytesAB = @ + p.len]
          ELSE [e EXCEPT !.packetsBA = @ + 1, !.bytesBA = @ + p.len]
  BY DEF Count
<1> HIDE DEF e, c
<1>5. /\ c \in FlowRecord
      /\ c.a = e.a /\ c.b = e.b /\ c.first = e.first /\ c.last = e.last
      /\ p.src = f.a => c.packetsAB = e.packetsAB + 1 /\ c.packetsBA = e.packetsBA
      /\ p.src # f.a => c.packetsBA = e.packetsBA + 1 /\ c.packetsAB = e.packetsAB
      /\ p.src = f.a => c.bytesAB = e.bytesAB + p.len /\ c.bytesBA = e.bytesBA
      /\ p.src # f.a => c.bytesBA = e.bytesBA + p.len /\ c.bytesAB = e.bytesAB
  <2>1. /\ e.packetsAB + 1 \in Nat /\ e.packetsBA + 1 \in Nat
        /\ e.bytesAB + p.len \in Nat /\ e.bytesBA + p.len \in Nat
    BY <1>1, <1>3 DEF FlowRecord
  <2>2. CASE p.src = f.a
    BY <1>2, <1>3, <1>4, <2>1, <2>2 DEF FlowRecord
  <2>3. CASE p.src # f.a
    BY <1>2, <1>3, <1>4, <2>1, <2>3 DEF FlowRecord
  <2> QED BY <2>2, <2>3
<1> DEFINE g == Inspect(c, p)
<1>6. /\ g \in FlowRecord
      /\ g.a = c.a /\ g.b = c.b /\ g.first = c.first /\ g.last = c.last
      /\ g.packetsAB = c.packetsAB /\ g.packetsBA = c.packetsBA
      /\ g.bytesAB = c.bytesAB /\ g.bytesBA = c.bytesBA
  BY <1>5 DEF Inspect, FlowRecord
<1> HIDE DEF g
<1> QED BY <1>3, <1>5, <1>6 DEF g, c

\* The flow of an IP packet is found or made, and counts the packet.
LEMMA FlowsNow ==
  ASSUME Shape, PacketsOK, NEW p \in Packets, AddIp(p)
  PROVE  FlowsAfter(p) /\ CarriedAfter(p)
<1> DEFINE key == FlowKey(p.proto, p.src, p.dst)
           f == At(flows, key, NewFlow(p))
           g == Inspect(Count(f, p), p)
<1>1. flows' = With(flows, key, g)
  BY DEF AddIp
<1>2. p.src \in Endpoint /\ p.dst \in Endpoint /\ p.ts \in Nat /\ p.proto \in Protos /\ key \in Keys
  BY PacketIs
<1>3. /\ key \in DOMAIN flows => f = flows[key]
      /\ key \notin DOMAIN flows => f = NewFlow(p)
  BY DEF At
<1>4. NewFlow(p) \in FlowRecord
  BY <1>2 DEF NewFlow, FlowRecord
<1>5. f \in FlowRecord
  BY <1>3, <1>4 DEF Shape
<1>6. /\ g \in FlowRecord
      /\ g.a = f.a /\ g.b = f.b
      /\ g.first = f.first /\ f.last <= g.last /\ p.ts <= g.last
      /\ g.last = f.last \/ g.last = p.ts
      /\ p.src = f.a => g.packetsAB = f.packetsAB + 1 /\ g.packetsBA = f.packetsBA
      /\ p.src # f.a => g.packetsBA = f.packetsBA + 1 /\ g.packetsAB = f.packetsAB
      /\ p.src = f.a => g.bytesAB = f.bytesAB + p.len /\ g.bytesBA = f.bytesBA
      /\ p.src # f.a => g.bytesBA = f.bytesBA + p.len /\ g.bytesAB = f.bytesAB
  BY <1>5, CountIs
<1>7. (f.a = p.src /\ f.b = p.dst) \/ (f.a = p.dst /\ f.b = p.src)
  <2>1. CASE key \in DOMAIN flows
    <3>1. f.a \in Endpoint /\ f.b \in Endpoint
      BY <1>5 DEF FlowRecord
    <3>2. key = FlowKey(key[1], f.a, f.b)
      BY <1>3, <2>1 DEF Shape
    <3> QED BY <1>2, <3>1, <3>2, KeyEnds
  <2>2. CASE key \notin DOMAIN flows
    BY <1>3, <2>2 DEF NewFlow
  <2> QED BY <2>1, <2>2
<1>8. key \notin DOMAIN flows =>
        f.a = p.src /\ f.b = p.dst /\ f.first = p.ts /\ f.last = p.ts /\ f.packetsAB = 0 /\ f.packetsBA = 0
  BY <1>3 DEF NewFlow
<1>12. f.bytesAB = FromA(key) /\ f.bytesBA = FromB(key)
  BY <1>3 DEF NewFlow, FromA, FromB
<1> HIDE DEF key, f, g
<1>9. /\ DOMAIN flows' = DOMAIN flows \cup {key} /\ flows'[key] = g
      /\ \A k \in DOMAIN flows : k # key => flows'[k] = flows[k]
      /\ flows' = [k \in DOMAIN flows' |-> flows'[k]]
  BY <1>1 DEF With
<1>10. flows' \in [DOMAIN flows' -> FlowRecord]
  BY <1>6, <1>9 DEF Shape
<1>11. key \notin DOMAIN flows => g.packetsAB = 1 /\ g.packetsBA = 0 /\ g.last = p.ts
  BY <1>6, <1>8
<1>13. CarriedAfter(p)
  BY <1>6, <1>9, <1>12 DEF CarriedAfter, key
<1> QED BY <1>13, <1>3, <1>6, <1>7, <1>8, <1>9, <1>10, <1>11 DEF FlowsAfter, key
-----------------------------------------------------------------------------
(* The invariants *)

\* A capture without a packet has no host, and then SpansNest itself.
Spans ==
  /\ meta.packets = 0 => DOMAIN hosts = {}
  /\ SpansNest

\* Each flow's two counters are what was sent each way between its ends, and
\* nothing was sent that has no flow.
Counts ==
  /\ sent \in [DOMAIN sent -> Nat] /\ DOMAIN sent \subseteq Keys
  /\ \A c \in DOMAIN sent : FlowKey(c[1], c[2], c[3]) \in DOMAIN flows
  /\ \A k \in DOMAIN flows :
       LET f == flows[k] IN
       /\ f.packetsAB = At(sent, <<k[1], f.a, f.b>>, 0)
       /\ f.a # f.b => f.packetsBA = At(sent, <<k[1], f.b, f.a>>, 0)

\* Every table is empty in the initial state.
LEMMA InitHolds ==
  ASSUME Init
  PROVE  Shape /\ NamesApplied /\ Spans /\ Counts
<1>1. DOMAIN hosts = {} /\ DOMAIN flows = {} /\ DOMAIN pendingNames = {} /\ DOMAIN tlsConns = {} /\ DOMAIN sent = {}
  BY DEF Init
<1>2. \A S : [ip \in {} |-> {}] \in [{} -> S] /\ [k \in {} |-> 0] \in [{} -> S]
  OBVIOUS
<1>3. /\ hosts \in [DOMAIN hosts -> HostRecord] /\ flows \in [DOMAIN flows -> FlowRecord]
      /\ pendingNames \in [DOMAIN pendingNames -> SUBSET STRING] /\ sent \in [DOMAIN sent -> Nat]
  BY <1>1, <1>2 DEF Init
<1>4. meta \in [packets : Nat, bytes : Nat, first : Nat, last : Nat]
  BY DEF Init
<1>5. Shape
  BY <1>1, <1>3, <1>4 DEF Init, Shape
<1> QED BY <1>1, <1>3, <1>5 DEF NamesApplied, Spans, SpansNest, Counts

\* What Observe does to the totals.
LEMMA MetaNow ==
  ASSUME Shape, PacketsOK, NEW p \in Packets, Observe(p)
  PROVE  /\ meta' \in [packets : Nat, bytes : Nat, first : Nat, last : Nat]
         /\ meta'.packets # 0
         /\ meta.packets # 0 => meta'.first <= meta.first
         /\ meta.last <= meta'.last
         /\ meta'.first <= p.ts /\ p.ts <= meta'.last
<1>1. p.ts \in Nat /\ p.len \in Nat
  BY PacketIs
<1>2. meta.packets \in Nat /\ meta.bytes \in Nat /\ meta.first \in Nat /\ meta.last \in Nat
  BY DEF Shape
<1>3. /\ meta'.packets = meta.packets + 1 /\ meta'.bytes = meta.bytes + p.len
      /\ meta'.first = IF meta.packets = 0 THEN p.ts ELSE Lower(meta.first, p.ts)
      /\ meta'.last = Higher(meta.last, p.ts)
      /\ meta' = [packets |-> meta'.packets, bytes |-> meta'.bytes, first |-> meta'.first, last |-> meta'.last]
  BY DEF Observe
<1>4. /\ meta'.packets \in Nat /\ meta'.bytes \in Nat /\ meta'.first \in Nat /\ meta'.last \in Nat
  BY <1>1, <1>2, <1>3 DEF Lower, Higher
<1> QED BY <1>1, <1>2, <1>3, <1>4 DEF Lower, Higher

\* Add on a packet without an IP layer: only the totals move.
LEMMA NonIpKeeps ==
  ASSUME Shape, PacketsOK, NEW p \in Packets, AddNonIp(p)
  PROVE  /\ Shape'
         /\ NamesApplied => NamesApplied'
         /\ Spans => Spans'
         /\ Counts => Counts'
<1>1. UNCHANGED <<hosts, flows, pendingNames, tlsConns, sent, mixed>> /\ Observe(p)
  BY DEF AddNonIp
<1>2. /\ meta' \in [packets : Nat, bytes : Nat, first : Nat, last : Nat]
      /\ meta'.packets # 0
      /\ meta.packets # 0 => meta'.first <= meta.first
      /\ meta.last <= meta'.last
  BY <1>1, MetaNow
<1>3. Shape'
  BY <1>1, <1>2 DEF Shape
<1>4. ASSUME Spans PROVE Spans'
  <2>1. ASSUME NEW ip \in DOMAIN hosts
        PROVE  meta'.first <= hosts[ip].first /\ hosts[ip].last <= meta'.last
    <3>1. meta.first <= hosts[ip].first /\ hosts[ip].last <= meta.last /\ meta.packets # 0
      BY <1>4 DEF Spans, SpansNest
    <3>2. hosts[ip].first \in Nat /\ hosts[ip].last \in Nat /\ meta.first \in Nat /\ meta.last \in Nat
      BY DEF Shape, HostRecord
    <3>3. meta'.first \in Nat /\ meta'.last \in Nat
      BY <1>2
    <3> QED BY <1>2, <3>1, <3>2, <3>3
  <2> QED BY <1>1, <1>2, <1>4, <2>1 DEF Spans, SpansNest
<1> QED BY <1>1, <1>3, <1>4 DEF NamesApplied, Counts
\* Add on an IP packet keeps the types: its flow has hosts at both ends.
LEMMA IpKeepsShape ==
  ASSUME Shape, PacketsOK, NEW p \in Packets, AddIp(p)
  PROVE  Shape'
<1> DEFINE key == FlowKey(p.proto, p.src, p.dst)
<1>1. HostsAfter(p) /\ FlowsAfter(p)
  BY HostsNow, FlowsNow
<1>2. /\ p.src \in Endpoint /\ p.dst \in Endpoint /\ p.proto \in Protos /\ key \in Keys
      /\ Ip(p.src) \in Nat /\ Ip(p.dst) \in Nat /\ p.answers \in SUBSET (Nat \X STRING)
  BY PacketIs
<1>3. meta' \in [packets : Nat, bytes : Nat, first : Nat, last : Nat]
  BY MetaNow DEF AddIp
<1>4. hosts' \in [DOMAIN hosts' -> HostRecord] /\ DOMAIN hosts' \subseteq Nat
  BY <1>1, <1>2 DEF HostsAfter, Shape
<1>5. flows' \in [DOMAIN flows' -> FlowRecord] /\ DOMAIN flows' \subseteq Keys
  BY <1>1, <1>2 DEF FlowsAfter, Shape
<1>6. ASSUME NEW k \in DOMAIN flows'
      PROVE  /\ k = FlowKey(k[1], flows'[k].a, flows'[k].b)
             /\ Ip(flows'[k].a) \in DOMAIN hosts' /\ Ip(flows'[k].b) \in DOMAIN hosts'
  <2>1. CASE k # key
    <3>1. k \in DOMAIN flows /\ flows'[k] = flows[k]
      BY <1>1, <2>1 DEF FlowsAfter
    <3>2. DOMAIN hosts \subseteq DOMAIN hosts'
      BY <1>1 DEF HostsAfter
    <3> QED BY <3>1, <3>2 DEF Shape
  <2>2. CASE k = key
    <3>1. \/ flows'[k].a = p.src /\ flows'[k].b = p.dst
          \/ flows'[k].a = p.dst /\ flows'[k].b = p.src
      BY <1>1, <2>2 DEF FlowsAfter
    <3>2. Ip(p.src) \in DOMAIN hosts' /\ Ip(p.dst) \in DOMAIN hosts'
      BY <1>1 DEF HostsAfter
    <3>3. key[1] = p.proto
      BY <1>2, KeyOfBoth
    <3>4. k = FlowKey(k[1], p.src, p.dst) /\ k = FlowKey(k[1], p.dst, p.src)
      BY <1>2, <2>2, <3>3, KeyOfBoth
    <3> QED BY <3>1, <3>2, <3>4
  <2> QED BY <2>1, <2>2
<1>7. pendingNames' \in [DOMAIN pendingNames' -> SUBSET STRING]
  <2>1. pendingNames' = [ip \in DOMAIN pendingNames \cup {n[1] : n \in p.answers} |->
                           At(pendingNames, ip, {}) \cup Learned(p, ip)]
    BY DEF AddIp, Learned
  <2>2. ASSUME NEW ip PROVE At(pendingNames, ip, {}) \cup Learned(p, ip) \in SUBSET STRING
    BY <1>2 DEF At, Learned, Shape
  <2> QED BY <2>1, <2>2
<1>8. DOMAIN tlsConns' \subseteq DOMAIN flows'
  <2>1. tlsConns' = tlsConns \/ tlsConns' = With(tlsConns, key, p.conn)
    BY DEF AddIp
  <2>2. DOMAIN tlsConns' \subseteq DOMAIN tlsConns \cup {key}
    BY <2>1 DEF With
  <2> QED BY <1>1, <2>2 DEF Shape, FlowsAfter
<1>9. mixed' \in BOOLEAN
  BY DEF AddIp, Shape
<1> QED BY <1>3, <1>4, <1>5, <1>6, <1>7, <1>8, <1>9 DEF Shape

\* Whatever the packet teaches, directly or by an answer, both the record and
\* the pending names learn; a host met for the first time takes what is pending.
LEMMA IpKeepsNames ==
  ASSUME Shape, PacketsOK, NEW p \in Packets, AddIp(p), NamesApplied
  PROVE  NamesApplied'
<1>1. HostsAfter(p)
  BY HostsNow
<1>2. /\ DOMAIN pendingNames' = DOMAIN pendingNames \cup {n[1] : n \in p.answers}
      /\ \A ip \in DOMAIN pendingNames' : pendingNames'[ip] = At(pendingNames, ip, {}) \cup Learned(p, ip)
  BY DEF AddIp, Learned
<1> SUFFICES ASSUME NEW ip \in DOMAIN hosts' \cap DOMAIN pendingNames'
             PROVE  pendingNames'[ip] \subseteq hosts'[ip].names
  BY DEF NamesApplied
<1>3. Learned(p, ip) \subseteq hosts'[ip].names
  BY <1>1 DEF HostsAfter
<1>4. At(pendingNames, ip, {}) \subseteq hosts'[ip].names
  <2>1. CASE ip \in {Ip(p.src), Ip(p.dst)}
    BY <1>1, <2>1 DEF HostsAfter
  <2>2. CASE ip \notin {Ip(p.src), Ip(p.dst)}
    <3>1. ip \in DOMAIN hosts /\ hosts[ip].names \subseteq hosts'[ip].names
      BY <1>1, <2>2 DEF HostsAfter
    <3> QED BY <3>1 DEF NamesApplied, At
  <2> QED BY <2>1, <2>2
<1> QED BY <1>2, <1>3, <1>4

\* The packet's time is inside the spans of its hosts and of the capture after
\* it, and only its own flow's end moves.
LEMMA IpKeepsSpans ==
  ASSUME Shape, PacketsOK, NEW p \in Packets, AddIp(p), Spans
  PROVE  Spans'
<1> DEFINE key == FlowKey(p.proto, p.src, p.dst)
<1>1. HostsAfter(p) /\ FlowsAfter(p) /\ Shape'
  BY HostsNow, FlowsNow, IpKeepsShape
<1>2. /\ meta'.packets # 0
      /\ meta.packets # 0 => meta'.first <= meta.first
      /\ meta.last <= meta'.last
      /\ meta'.first <= p.ts /\ p.ts <= meta'.last
  BY MetaNow DEF AddIp
<1>3. p.ts \in Nat /\ meta.first \in Nat /\ meta.last \in Nat /\ meta'.first \in Nat /\ meta'.last \in Nat
  BY <1>1, PacketIs DEF Shape
<1>4. /\ \A ip \in DOMAIN hosts : hosts[ip].first \in Nat /\ hosts[ip].last \in Nat
      /\ \A ip \in DOMAIN hosts' : hosts'[ip].first \in Nat /\ hosts'[ip].last \in Nat
  BY <1>1 DEF Shape, HostRecord
<1>5. ASSUME NEW ip \in DOMAIN hosts'
      PROVE  meta'.first <= hosts'[ip].first /\ hosts'[ip].last <= meta'.last
  <2>1. CASE ip \notin DOMAIN hosts
    BY <1>1, <1>2, <2>1 DEF HostsAfter
  <2>2. CASE ip \in DOMAIN hosts
    <3>1. meta.packets # 0 /\ meta.first <= hosts[ip].first /\ hosts[ip].last <= meta.last
      BY <2>2 DEF Spans, SpansNest
    <3>2. /\ hosts'[ip].first = hosts[ip].first \/ hosts'[ip].first = p.ts
          /\ hosts'[ip].last = hosts[ip].last \/ hosts'[ip].last = p.ts
      BY <1>1, <2>2 DEF HostsAfter
    <3> QED BY <1>2, <1>3, <1>4, <2>2, <3>1, <3>2
  <2> QED BY <2>1, <2>2
<1>6. ASSUME NEW k \in DOMAIN flows', NEW ip \in {Ip(flows'[k].a), Ip(flows'[k].b)}
      PROVE  /\ hosts'[ip].first <= flows'[k].first
             /\ flows'[k].first <= flows'[k].last
             /\ flows'[k].last <= hosts'[ip].last
  <2>1. ip \in DOMAIN hosts'
    BY <1>1 DEF Shape
  <2>2. flows'[k].first \in Nat /\ flows'[k].last \in Nat
    BY <1>1 DEF Shape, FlowRecord
  <2>3. ASSUME k \in DOMAIN flows, ip \in {Ip(flows[k].a), Ip(flows[k].b)}
        PROVE  /\ hosts'[ip].first <= flows[k].first
               /\ flows[k].first <= flows[k].last
               /\ flows[k].last <= hosts'[ip].last
               /\ flows[k].first \in Nat /\ flows[k].last \in Nat
    <3>1. ip \in DOMAIN hosts /\ flows[k].first \in Nat /\ flows[k].last \in Nat
      BY <2>3 DEF Shape, FlowRecord
    <3>2. hosts'[ip].first <= hosts[ip].first /\ hosts[ip].last <= hosts'[ip].last
      BY <1>1, <3>1 DEF HostsAfter
    <3>3. /\ hosts[ip].first <= flows[k].first /\ flows[k].first <= flows[k].last
          /\ flows[k].last <= hosts[ip].last
      BY <2>3 DEF Spans, SpansNest
    <3> QED BY <1>4, <2>1, <3>1, <3>2, <3>3
  <2>4. CASE k # key
    <3>1. k \in DOMAIN flows /\ flows'[k] = flows[k]
      BY <1>1, <2>4 DEF FlowsAfter
    <3> QED BY <2>3, <3>1
  <2>5. CASE k = key
    <3>1. ip \in {Ip(p.src), Ip(p.dst)}
      BY <1>1, <2>5 DEF FlowsAfter
    <3>2. hosts'[ip].first <= p.ts /\ p.ts <= hosts'[ip].last
      BY <1>1, <3>1 DEF HostsAfter
    <3>3. CASE key \notin DOMAIN flows
      BY <1>1, <1>3, <2>5, <3>2, <3>3 DEF FlowsAfter
    <3>4. CASE key \in DOMAIN flows
      <4>1. /\ flows'[k].a = flows[k].a /\ flows'[k].b = flows[k].b
            /\ flows'[k].first = flows[k].first /\ flows[k].last <= flows'[k].last
            /\ flows'[k].last = flows[k].last \/ flows'[k].last = p.ts
        BY <1>1, <2>5, <3>4 DEF FlowsAfter
      <4>2. /\ hosts'[ip].first <= flows[k].first /\ flows[k].first <= flows[k].last
            /\ flows[k].last <= hosts'[ip].last
            /\ flows[k].first \in Nat /\ flows[k].last \in Nat
        BY <2>3, <2>5, <3>4, <4>1
      <4>3. flows'[k].first <= flows'[k].last
        BY <2>2, <4>1, <4>2
      <4> QED BY <3>2, <4>1, <4>2, <4>3
    <3> QED BY <3>3, <3>4
  <2> QED BY <2>4, <2>5
<1> QED BY <1>2, <1>5, <1>6 DEF Spans, SpansNest
\* The packet is counted once in each of the two books, under one direction;
\* no other flow has that direction, and none had it before its flow was made.
LEMMA IpKeepsCounts ==
  ASSUME Shape, PacketsOK, NEW p \in Packets, AddIp(p), Counts
  PROVE  Counts'
<1> DEFINE key == FlowKey(p.proto, p.src, p.dst)
           c == <<p.proto, p.src, p.dst>>
           n(x) == At(sent, x, 0)
           m(x) == At(sent', x, 0)
<1>1. FlowsAfter(p) /\ Shape'
  BY FlowsNow, IpKeepsShape
<1>2. /\ p.src \in Endpoint /\ p.dst \in Endpoint /\ p.proto \in Protos
      /\ c \in Keys /\ key[1] = p.proto /\ key = FlowKey(p.proto, p.dst, p.src)
  BY PacketIs, KeyOfBoth DEF Keys
<1>3. sent' = With(sent, c, n(c) + 1)
  BY DEF AddIp
<1>4. n(c) \in Nat
  BY DEF At, Counts
<1>5. /\ DOMAIN sent' = DOMAIN sent \cup {c}
      /\ sent' \in [DOMAIN sent' -> Nat]
      /\ m(c) = n(c) + 1
      /\ \A x : x # c => m(x) = n(x)
  BY <1>3, <1>4 DEF With, At, Counts
<1>6. \A x \in DOMAIN sent' : FlowKey(x[1], x[2], x[3]) \in DOMAIN flows'
  BY <1>1, <1>2, <1>5 DEF FlowsAfter, Counts
<1>7. ASSUME NEW x, x \in DOMAIN sent, FlowKey(x[1], x[2], x[3]) \notin DOMAIN flows
      PROVE  FALSE
  BY <1>7 DEF Counts
<1>8. ASSUME NEW k \in DOMAIN flows, k # key
      PROVE  LET f == flows'[k] IN
             /\ f.packetsAB = m(<<k[1], f.a, f.b>>)
             /\ f.a # f.b => f.packetsBA = m(<<k[1], f.b, f.a>>)
  <2> DEFINE f == flows[k]
  <2>1. flows'[k] = f
    BY <1>1, <1>8 DEF FlowsAfter
  <2>2. f.a \in Endpoint /\ f.b \in Endpoint /\ k = FlowKey(k[1], f.a, f.b)
    BY DEF Shape, FlowRecord
  <2>3. k = FlowKey(k[1], f.b, f.a)
    BY <2>2, KeyOfBoth
  <2>4. <<k[1], f.a, f.b>> # c /\ <<k[1], f.b, f.a>> # c
    BY <1>8, <2>2, <2>3
  <2>5. /\ f.packetsAB = n(<<k[1], f.a, f.b>>)
        /\ f.a # f.b => f.packetsBA = n(<<k[1], f.b, f.a>>)
    BY DEF Counts
  <2> HIDE DEF f, n, m
  <2> QED BY <1>5, <2>1, <2>4, <2>5
<1>9. LET g == flows'[key] IN
      /\ g.packetsAB = m(<<key[1], g.a, g.b>>)
      /\ g.a # g.b => g.packetsBA = m(<<key[1], g.b, g.a>>)
  <2> DEFINE g == flows'[key]
             f == flows[key]
  <2>1. (g.a = p.src /\ g.b = p.dst) \/ (g.a = p.dst /\ g.b = p.src)
    BY <1>1 DEF FlowsAfter
  <2>2. CASE key \in DOMAIN flows
    <3>1. /\ g.a = f.a /\ g.b = f.b
          /\ p.src = f.a => g.packetsAB = f.packetsAB + 1 /\ g.packetsBA = f.packetsBA
          /\ p.src # f.a => g.packetsBA = f.packetsBA + 1 /\ g.packetsAB = f.packetsAB
      BY <1>1, <2>2 DEF FlowsAfter
    <3>2. /\ f.packetsAB = n(<<key[1], f.a, f.b>>)
          /\ f.a # f.b => f.packetsBA = n(<<key[1], f.b, f.a>>)
      BY <2>2 DEF Counts
    <3> HIDE DEF f, g, n, m
    <3>3. CASE p.src = f.a
      <4>1. <<key[1], g.a, g.b>> = c /\ (g.a # g.b => <<key[1], g.b, g.a>> # c)
        BY <1>2, <2>1, <3>1, <3>3
      <4> QED BY <1>5, <3>1, <3>2, <3>3, <4>1 DEF g
    <3>4. CASE p.src # f.a
      <4>1. <<key[1], g.b, g.a>> = c /\ <<key[1], g.a, g.b>> # c
        BY <1>2, <2>1, <3>1, <3>4
      <4> QED BY <1>5, <2>1, <3>1, <3>2, <3>4, <4>1 DEF g
    <3> QED BY <3>3, <3>4 DEF g, m
  <2>3. CASE key \notin DOMAIN flows
    <3>1. g.a = p.src /\ g.b = p.dst /\ g.packetsAB = 1 /\ g.packetsBA = 0
      BY <1>1, <2>3 DEF FlowsAfter
    <3>2. c \notin DOMAIN sent /\ <<p.proto, p.dst, p.src>> \notin DOMAIN sent
      BY <1>2, <1>7, <2>3
    <3>3. n(c) = 0 /\ n(<<p.proto, p.dst, p.src>>) = 0
      BY <3>2 DEF At
    <3> HIDE DEF g, n, m
    <3>4. g.a # g.b => <<p.proto, p.dst, p.src>> # c
      BY <3>1
    <3> QED BY <1>2, <1>5, <3>1, <3>3, <3>4 DEF g, m
  <2> QED BY <2>2, <2>3
<1>10. \A k \in DOMAIN flows' : LET f == flows'[k] IN
         /\ f.packetsAB = m(<<k[1], f.a, f.b>>)
         /\ f.a # f.b => f.packetsBA = m(<<k[1], f.b, f.a>>)
  BY <1>1, <1>8, <1>9 DEF FlowsAfter
<1>11. DOMAIN sent' \subseteq Keys
  BY <1>2, <1>5 DEF Counts
<1> QED BY <1>5, <1>6, <1>10, <1>11 DEF Counts

\* What the counts say of each direction.
LEMMA CountsTell ==
  ASSUME Shape, Counts
  PROVE  DirectionCounts
<1> SUFFICES ASSUME NEW c \in DOMAIN sent
             PROVE  LET k == FlowKey(c[1], c[2], c[3]) IN
                    /\ k \in DOMAIN flows
                    /\ c[2] = flows[k].a => flows[k].packetsAB = sent[c]
                    /\ c[2] # flows[k].a => flows[k].packetsBA = sent[c]
  BY DEF DirectionCounts
<1> DEFINE k == FlowKey(c[1], c[2], c[3])
           f == flows[k]
<1>1. k \in DOMAIN flows
  BY DEF Counts
<1>2. c \in Keys /\ c[2] \in Endpoint /\ c[3] \in Endpoint /\ c = <<c[1], c[2], c[3]>>
  BY DEF Counts, Keys
<1>3. f.a \in Endpoint /\ f.b \in Endpoint /\ k = FlowKey(k[1], f.a, f.b)
  BY <1>1 DEF Shape, FlowRecord
<1>4. c[1] = k[1] /\ \/ c[2] = f.a /\ c[3] = f.b
                     \/ c[2] = f.b /\ c[3] = f.a
  BY <1>2, <1>3, KeyEnds
<1>5. /\ f.packetsAB = At(sent, <<k[1], f.a, f.b>>, 0)
      /\ f.a # f.b => f.packetsBA = At(sent, <<k[1], f.b, f.a>>, 0)
  BY <1>1 DEF Counts
<1> HIDE DEF k, f
<1>6. At(sent, c, 0) = sent[c]
  BY DEF At
<1>7. c[2] = f.a => f.packetsAB = sent[c]
  BY <1>2, <1>4, <1>5, <1>6
<1>8. c[2] # f.a => f.packetsBA = sent[c]
  BY <1>2, <1>4, <1>5, <1>6
<1> QED BY <1>1, <1>7, <1>8 DEF k, f

-----------------------------------------------------------------------------
(* The books *)

\* The books balance, and are kept over finitely many flows.
Books ==
  /\ BooksBalance
  /\ IsFiniteSet(DOMAIN flows)
  /\ tally \in [Protos -> [packets : Nat, bytes : Nat]]

\* There are five protocols.
LEMMA ProtosFinite == IsFiniteSet(Protos)
<1>1. IsFiniteSet({"TCP"}) /\ IsFiniteSet({"TCP", "UDP"})
  BY FS_Singleton, FS_AddElement
<1>2. {"TCP", "UDP"} \cup {"ICMP"} = {"TCP", "UDP", "ICMP"}
  OBVIOUS
<1>3. IsFiniteSet({"TCP", "UDP", "ICMP"})
  BY <1>1, <1>2, FS_AddElement
<1>4. {"TCP", "UDP", "ICMP"} \cup {"ARP"} = {"TCP", "UDP", "ICMP", "ARP"}
  OBVIOUS
<1>5. IsFiniteSet({"TCP", "UDP", "ICMP", "ARP"})
  BY <1>3, <1>4, FS_AddElement
<1>6. {"TCP", "UDP", "ICMP", "ARP"} \cup {"OTHER"} = Protos
  BY DEF Protos
<1> QED BY <1>5, <1>6, FS_AddElement

\* What the books of Packets and bytes per protocol say (tallyProtoMix).
TallyPackets == [q \in Protos |-> tally[q].packets]
TallyBytes   == [q \in Protos |-> tally[q].bytes]

\* Every packet is in the total of the capture and in that of its protocol.
LEMMA TallyNow ==
  ASSUME Shape, PacketsOK, Books, NEW p \in Packets, Observe(p)
  PROVE  /\ tally' \in [Protos -> [packets : Nat, bytes : Nat]]
         /\ meta'.packets = SumFunction(TallyPackets')
         /\ meta'.bytes = SumFunction(TallyBytes')
<1>1. p.proto \in Protos /\ p.len \in Nat /\ p.len \in Int /\ 1 \in Int
  BY PacketIs
<1>2. tally \in [Protos -> [packets : Nat, bytes : Nat]]
  BY DEF Books
<1>3. /\ meta'.packets = meta.packets + 1 /\ meta'.bytes = meta.bytes + p.len
      /\ tally' = [tally EXCEPT ![p.proto].packets = @ + 1, ![p.proto].bytes = @ + p.len]
  BY DEF Observe
<1>4. /\ \A q \in Protos : tally[q].packets \in Nat /\ tally[q].bytes \in Nat
      /\ \A q \in Protos : q # p.proto => tally'[q] = tally[q]
      /\ tally'[p.proto].packets = tally[p.proto].packets + 1
      /\ tally'[p.proto].bytes = tally[p.proto].bytes + p.len
      /\ tally'[p.proto] \in [packets : Nat, bytes : Nat]
  <2> DEFINE t == tally[p.proto]
             u == [[t EXCEPT !.packets = @ + 1] EXCEPT !.bytes = @ + p.len]
  <2>1. \A q \in Protos : tally[q].packets \in Nat /\ tally[q].bytes \in Nat
    BY <1>2
  <2>2. t \in [packets : Nat, bytes : Nat] /\ t.packets + 1 \in Nat /\ t.bytes + p.len \in Nat
    BY <1>1, <1>2, <2>1
  <2>3. tally' = [tally EXCEPT ![p.proto] = u]
    BY <1>1, <1>2, <1>3
  <2>4. tally'[p.proto] = u /\ \A q \in Protos : q # p.proto => tally'[q] = tally[q]
    BY <1>1, <1>2, <2>3
  <2> HIDE DEF t
  <2>5. u \in [packets : Nat, bytes : Nat] /\ u.packets = t.packets + 1 /\ u.bytes = t.bytes + p.len
    BY <2>2
  <2> QED BY <2>1, <2>4, <2>5 DEF t
<1>5. tally' \in [Protos -> [packets : Nat, bytes : Nat]]
  BY <1>2, <1>3, <1>4
<1>6. /\ DOMAIN TallyPackets = Protos /\ DOMAIN TallyBytes = Protos
      /\ DOMAIN TallyPackets' = Protos /\ DOMAIN TallyBytes' = Protos
      /\ Protos \cup {p.proto} = Protos
  BY <1>1 DEF TallyPackets, TallyBytes
<1>7. /\ \A q \in Protos : TallyPackets[q] \in Int /\ TallyBytes[q] \in Int
      /\ \A q \in Protos : q # p.proto => TallyPackets'[q] = TallyPackets[q]
      /\ \A q \in Protos : q # p.proto => TallyBytes'[q] = TallyBytes[q]
      /\ TallyPackets'[p.proto] = TallyPackets[p.proto] + 1
      /\ TallyBytes'[p.proto] = TallyBytes[p.proto] + p.len
  BY <1>1, <1>4 DEF TallyPackets, TallyBytes
<1> DEFINE v == TallyPackets
           w == TallyPackets'
           x == TallyBytes
           y == TallyBytes'
           q == p.proto
<1>8. SumFunctionOnSet(w, Protos) = SumFunctionOnSet(v, Protos) + (w[q] - v[q])
  <2>1. /\ \A r \in Protos : v[r] \in Int
        /\ \A r \in Protos : w[r] \in Int
        /\ \A r \in Protos \ {q} : v[r] = w[r]
        /\ q \in Protos
    BY <1>1, <1>6, <1>7
  <2> HIDE DEF v, w, q
  <2> QED BY <2>1, ProtosFinite, SumUpdate
<1>9. SumFunctionOnSet(y, Protos) = SumFunctionOnSet(x, Protos) + (y[q] - x[q])
  <2>1. /\ \A r \in Protos : x[r] \in Int
        /\ \A r \in Protos : y[r] \in Int
        /\ \A r \in Protos \ {q} : x[r] = y[r]
        /\ q \in Protos
    BY <1>1, <1>6, <1>7
  <2> HIDE DEF x, y, q
  <2> QED BY <2>1, ProtosFinite, SumUpdate
<1> HIDE DEF v, w, x, y
<1>10. meta.packets = SumFunctionOnSet(v, Protos) /\ meta.bytes = SumFunctionOnSet(x, Protos)
  BY <1>6 DEF Books, BooksBalance, SumFunction, TallyPackets, TallyBytes, v, x
<1>11. /\ v[q] \in Int /\ w[q] = v[q] + 1
       /\ x[q] \in Int /\ y[q] = x[q] + p.len
  BY <1>1, <1>7 DEF v, w, x, y
<1>12. meta'.packets = SumFunctionOnSet(w, Protos) /\ meta'.bytes = SumFunctionOnSet(y, Protos)
  BY <1>1, <1>3, <1>8, <1>9, <1>10, <1>11
<1> QED BY <1>5, <1>6, <1>12 DEF SumFunction, w, y

\* What a flow carried from an address is a natural number, and what it
\* carried to it: none, if the address has no host record.
LEMMA CarriedIs ==
  ASSUME Shape, NEW ip
  PROVE  /\ DOMAIN Outgoing(ip) = DOMAIN flows /\ DOMAIN Incoming(ip) = DOMAIN flows
         /\ \A k \in DOMAIN flows : Outgoing(ip)[k] \in Int /\ Incoming(ip)[k] \in Int
         /\ ip \notin DOMAIN hosts =>
              \A k \in DOMAIN flows : Outgoing(ip)[k] = 0 /\ Incoming(ip)[k] = 0
<1>1. \A k \in DOMAIN flows : flows[k].bytesAB \in Nat /\ flows[k].bytesBA \in Nat
  BY DEF Shape, FlowRecord
<1>2. \A k \in DOMAIN flows : Ip(flows[k].a) \in DOMAIN hosts /\ Ip(flows[k].b) \in DOMAIN hosts
  BY DEF Shape
<1> QED BY <1>1, <1>2 DEF Outgoing, Incoming

\* A packet adds its length to what its flow carried, from its source and to
\* its destination, loopback conversations included; to no other flow, and
\* for no other address.
LEMMA CarriedNow ==
  ASSUME Shape, Shape', PacketsOK, NEW p \in Packets, FlowsAfter(p), CarriedAfter(p), NEW ip
  PROVE  LET key == FlowKey(p.proto, p.src, p.dst)
             o   == IF ip = Ip(p.src) THEN p.len ELSE 0
             i   == IF ip = Ip(p.dst) THEN p.len ELSE 0
         IN  /\ \A k \in DOMAIN flows : k # key => /\ Outgoing(ip)'[k] = Outgoing(ip)[k]
                                                  /\ Incoming(ip)'[k] = Incoming(ip)[k]
             /\ Outgoing(ip)'[key] = (IF key \in DOMAIN flows THEN Outgoing(ip)[key] ELSE 0) + o
             /\ Incoming(ip)'[key] = (IF key \in DOMAIN flows THEN Incoming(ip)[key] ELSE 0) + i
<1> DEFINE key == FlowKey(p.proto, p.src, p.dst)
           g == flows'[key]
<1>1. /\ DOMAIN flows' = DOMAIN flows \cup {key}
      /\ \A k \in DOMAIN flows : k # key => flows'[k] = flows[k]
      /\ (g.a = p.src /\ g.b = p.dst) \/ (g.a = p.dst /\ g.b = p.src)
      /\ key \in DOMAIN flows => g.a = flows[key].a /\ g.b = flows[key].b
  BY DEF FlowsAfter
<1>2. /\ p.src = g.a => g.bytesAB = FromA(key) + p.len /\ g.bytesBA = FromB(key)
      /\ p.src # g.a => g.bytesBA = FromB(key) + p.len /\ g.bytesAB = FromA(key)
  BY DEF CarriedAfter
<1>3. FromA(key) \in Nat /\ FromB(key) \in Nat /\ p.len \in Nat
  BY PacketIs DEF FromA, FromB, Shape, FlowRecord
<1>4. \A k \in DOMAIN flows : k # key => /\ Outgoing(ip)'[k] = Outgoing(ip)[k]
                                        /\ Incoming(ip)'[k] = Incoming(ip)[k]
  BY <1>1 DEF Outgoing, Incoming
<1>5. /\ Outgoing(ip)'[key] = (IF Ip(g.a) = ip THEN g.bytesAB ELSE 0) + (IF Ip(g.b) = ip THEN g.bytesBA ELSE 0)
      /\ Incoming(ip)'[key] = (IF Ip(g.b) = ip THEN g.bytesAB ELSE 0) + (IF Ip(g.a) = ip THEN g.bytesBA ELSE 0)
  BY <1>1 DEF Outgoing, Incoming
<1>6. (IF key \in DOMAIN flows THEN Outgoing(ip)[key] ELSE 0)
        = (IF Ip(g.a) = ip THEN FromA(key) ELSE 0) + (IF Ip(g.b) = ip THEN FromB(key) ELSE 0)
  BY <1>1 DEF Outgoing, FromA, FromB
<1>7. (IF key \in DOMAIN flows THEN Incoming(ip)[key] ELSE 0)
        = (IF Ip(g.b) = ip THEN FromA(key) ELSE 0) + (IF Ip(g.a) = ip THEN FromB(key) ELSE 0)
  BY <1>1 DEF Incoming, FromA, FromB
<1> HIDE DEF key, g
<1>8. CASE p.src = g.a
  <2>1. g.b = p.dst
    BY <1>1, <1>8
  <2> QED BY <1>2, <1>3, <1>4, <1>5, <1>6, <1>7, <1>8, <2>1 DEF key
<1>9. CASE p.src # g.a
  <2>1. g.a = p.dst /\ g.b = p.src
    BY <1>1, <1>9
  <2> QED BY <1>2, <1>3, <1>4, <1>5, <1>6, <1>7, <1>9, <2>1 DEF key
<1> QED BY <1>8, <1>9

\* What the books say of an address is what its host record says, none if it
\* has none.
LEMMA BooksTell ==
  ASSUME Shape, Books, NEW ip
  PROVE  /\ SumFunctionOnSet(Outgoing(ip), DOMAIN flows) = SentBy(ip)
         /\ SumFunctionOnSet(Incoming(ip), DOMAIN flows) = GotBy(ip)
<1>1. DOMAIN Outgoing(ip) = DOMAIN flows /\ DOMAIN Incoming(ip) = DOMAIN flows
  BY CarriedIs
<1>2. CASE ip \in DOMAIN hosts
  BY <1>1, <1>2 DEF Books, BooksBalance, SumFunction, SentBy, GotBy
<1>3. CASE ip \notin DOMAIN hosts
  <2> DEFINE v == Outgoing(ip)
             w == Incoming(ip)
  <2>1. IsFiniteSet(DOMAIN flows) /\ \A k \in DOMAIN flows : v[k] = 0 /\ w[k] = 0
    BY <1>3, CarriedIs DEF Books
  <2> HIDE DEF v, w
  <2>2. SumFunctionOnSet(v, DOMAIN flows) = 0 /\ SumFunctionOnSet(w, DOMAIN flows) = 0
    BY <2>1, SumZero
  <2> QED BY <1>3, <2>2 DEF v, w, SentBy, GotBy
<1> QED BY <1>2, <1>3

\* Add on an IP packet keeps the books.
LEMMA IpKeepsBooks ==
  ASSUME Shape, PacketsOK, NEW p \in Packets, AddIp(p), Books
  PROVE  Books'
<1> DEFINE key == FlowKey(p.proto, p.src, p.dst)
<1>1. FlowsAfter(p) /\ CarriedAfter(p) /\ HostsAfter(p) /\ BytesAfter(p) /\ Shape' /\ Observe(p)
  BY FlowsNow, HostsNow, IpKeepsShape DEF AddIp
<1>2. DOMAIN flows' = DOMAIN flows \cup {key}
  BY <1>1 DEF FlowsAfter
<1>3. IsFiniteSet(DOMAIN flows) /\ IsFiniteSet(DOMAIN flows')
  BY <1>2, FS_AddElement DEF Books
<1>4. ASSUME NEW ip \in DOMAIN hosts'
      PROVE  /\ hosts'[ip].bytesOut = SumFunction(Outgoing(ip)')
             /\ hosts'[ip].bytesIn  = SumFunction(Incoming(ip)')
  <2> DEFINE o == IF ip = Ip(p.src) THEN p.len ELSE 0
             i == IF ip = Ip(p.dst) THEN p.len ELSE 0
             S == DOMAIN flows
             U == DOMAIN flows'
             v == Outgoing(ip)
             w == Outgoing(ip)'
             x == Incoming(ip)
             y == Incoming(ip)'
  <2>1. o \in Int /\ i \in Int
    BY PacketIs
  <2>2. \A k \in S : v[k] \in Int /\ x[k] \in Int
    BY CarriedIs
  <2>3. /\ \A k \in S : k # key => w[k] = v[k] /\ y[k] = x[k]
        /\ key \in S => w[key] = v[key] + o /\ y[key] = x[key] + i
        /\ key \notin S => w[key] = o /\ y[key] = i
    <3>1. /\ \A k \in S : k # key => w[k] = v[k] /\ y[k] = x[k]
          /\ w[key] = (IF key \in S THEN v[key] ELSE 0) + o
          /\ y[key] = (IF key \in S THEN x[key] ELSE 0) + i
      BY <1>1, CarriedNow
    <3> HIDE DEF v, w, x, y, o, i, key
    <3> QED BY <2>1, <3>1
  <2>4. DOMAIN w = U /\ DOMAIN y = U /\ U = S \cup {key}
    BY <1>2 DEF Outgoing, Incoming
  <2>5. SumFunctionOnSet(v, S) = SentBy(ip) /\ SumFunctionOnSet(x, S) = GotBy(ip)
    BY BooksTell
  <2>6. hosts'[ip].bytesOut = SentBy(ip) + o /\ hosts'[ip].bytesIn = GotBy(ip) + i
    BY <1>1 DEF BytesAfter
  <2> HIDE DEF v, w, x, y, o, i, key, S, U
  <2>7. IsFiniteSet(S)
    BY <1>3 DEF S
  <2>8. SumFunctionOnSet(w, U) = SumFunctionOnSet(v, S) + o
    <3>1. ChangesAt(key, v, S, w, U)
      BY <2>1, <2>2, <2>3, <2>4, <2>7 DEF ChangesAt
    <3>2. SumFunctionOnSet(w, U)
            = SumFunctionOnSet(v, S) + (w[key] - (IF key \in S THEN v[key] ELSE 0))
      BY <3>1, SumWith
    <3>3. w[key] - (IF key \in S THEN v[key] ELSE 0) = o
      BY <2>1, <2>2, <2>3
    <3> QED BY <3>2, <3>3
  <2>9. SumFunctionOnSet(y, U) = SumFunctionOnSet(x, S) + i
    <3>1. ChangesAt(key, x, S, y, U)
      BY <2>1, <2>2, <2>3, <2>4, <2>7 DEF ChangesAt
    <3>2. SumFunctionOnSet(y, U)
            = SumFunctionOnSet(x, S) + (y[key] - (IF key \in S THEN x[key] ELSE 0))
      BY <3>1, SumWith
    <3>3. y[key] - (IF key \in S THEN x[key] ELSE 0) = i
      BY <2>1, <2>2, <2>3
    <3> QED BY <3>2, <3>3
  <2>10. SumFunction(w) = SentBy(ip) + o /\ SumFunction(y) = GotBy(ip) + i
    BY <2>4, <2>5, <2>8, <2>9 DEF SumFunction
  <2> QED BY <2>6, <2>10 DEF w, y
<1>5. /\ tally' \in [Protos -> [packets : Nat, bytes : Nat]]
      /\ meta'.packets = SumFunction(TallyPackets')
      /\ meta'.bytes = SumFunction(TallyBytes')
  BY <1>1, TallyNow
<1>6. BooksBalance'
  BY <1>4, <1>5 DEF BooksBalance, TallyPackets, TallyBytes
<1> QED BY <1>3, <1>5, <1>6 DEF Books

\* Add on a packet without an IP layer moves the totals only.
LEMMA NonIpKeepsBooks ==
  ASSUME Shape, PacketsOK, NEW p \in Packets, AddNonIp(p), Books
  PROVE  Books'
<1>1. /\ tally' \in [Protos -> [packets : Nat, bytes : Nat]]
      /\ meta'.packets = SumFunction(TallyPackets')
      /\ meta'.bytes = SumFunction(TallyBytes')
  BY TallyNow DEF AddNonIp
<1>2. hosts' = hosts /\ flows' = flows
  BY DEF AddNonIp
<1>3. \A ip : Outgoing(ip)' = Outgoing(ip) /\ Incoming(ip)' = Incoming(ip)
  BY <1>2 DEF Outgoing, Incoming
<1>4. \A ip \in DOMAIN hosts' : /\ hosts'[ip].bytesOut = SumFunction(Outgoing(ip)')
                               /\ hosts'[ip].bytesIn  = SumFunction(Incoming(ip)')
  BY <1>2, <1>3 DEF Books, BooksBalance
<1>5. BooksBalance'
  BY <1>1, <1>4 DEF BooksBalance, TallyPackets, TallyBytes
<1> QED BY <1>1, <1>2, <1>5 DEF Books

\* Empty books balance.
LEMMA BooksBegin ==
  ASSUME Init
  PROVE  Books
<1>1. DOMAIN hosts = {} /\ DOMAIN flows = {} /\ meta.packets = 0 /\ meta.bytes = 0
  BY DEF Init
<1>2. /\ tally \in [Protos -> [packets : Nat, bytes : Nat]]
      /\ \A q \in Protos : tally[q].packets = 0 /\ tally[q].bytes = 0
  BY DEF Init
<1> DEFINE v == TallyPackets
           w == TallyBytes
<1>3. /\ DOMAIN v = Protos /\ DOMAIN w = Protos
      /\ \A q \in Protos : v[q] = 0 /\ w[q] = 0
  BY <1>2 DEF TallyPackets, TallyBytes
<1> HIDE DEF v, w
<1>4. SumFunction(v) = 0 /\ SumFunction(w) = 0
  BY <1>3, ProtosFinite, SumZero DEF SumFunction
<1>5. BooksBalance
  BY <1>1, <1>4 DEF BooksBalance, TallyPackets, TallyBytes, v, w
<1> QED BY <1>1, <1>2, <1>5, FS_EmptySet DEF Books

\* What the shape of the tables says of them.
LEMMA ShapeTells ==
  ASSUME Shape
  PROVE  TypeOK
BY DEF Shape, TypeOK, HostRecord, FlowRecord

-----------------------------------------------------------------------------
(* The theorems *)

\* The invariants are inductive together with the shape of the tables.
LEMMA NextKeeps ==
  ASSUME Shape, PacketsOK, [Next]_vars
  PROVE  /\ Shape'
         /\ NamesApplied => NamesApplied'
         /\ Spans => Spans'
         /\ Counts => Counts'
         /\ Books => Books'
<1>1. CASE Add
  <2>1. PICK p \in Packets : AddNonIp(p) \/ AddIp(p)
    BY <1>1 DEF Add
  <2>2. CASE AddNonIp(p)
    BY <2>2, NonIpKeeps, NonIpKeepsBooks
  <2>3. CASE AddIp(p)
    BY <2>3, IpKeepsShape, IpKeepsNames, IpKeepsSpans, IpKeepsCounts, IpKeepsBooks
  <2> QED BY <2>1, <2>2, <2>3
<1>2. CASE UNCHANGED vars
  <2>1. UNCHANGED <<meta, tally, hosts, flows, pendingNames, tlsConns, sent, mixed>>
    BY <1>2 DEF vars, tables
  <2>2. Books => Books'
    BY <2>1 DEF Books, BooksBalance, Outgoing, Incoming
  <2> QED BY <2>1, <2>2 DEF Shape, NamesApplied, Spans, SpansNest, Counts
<1> QED BY <1>1, <1>2 DEF Next, Result

\* Every capture leaves well-formed tables: each flow is filed under the key of
\* its ends, which both have a host record (Builder.flow, Builder.host).
THEOREM TablesTyped == Spec => []TypeOK
<1>1. Init => Shape
  BY InitHolds
<1>2. Shape /\ [Next]_vars => Shape'
  BY NextKeeps, PacketsHold
<1>3. Shape => TypeOK
  BY ShapeTells
<1> QED BY <1>1, <1>2, <1>3, PTL DEF Spec

\* A name is on the record of its address whichever of the two the capture
\* showed first (Builder.host, addHostnameFor).
THEOREM NamesReachHosts == Spec => []NamesApplied
<1>1. Init => Shape /\ NamesApplied
  BY InitHolds
<1>2. Shape /\ NamesApplied /\ [Next]_vars => Shape' /\ NamesApplied'
  BY NextKeeps, PacketsHold
<1> QED BY <1>1, <1>2, PTL DEF Spec

\* In whatever order the timestamps come, a flow lies inside the time of its
\* hosts and they inside that of the capture (Add, host, updateFlow).
THEOREM SpansStayNested == Spec => []SpansNest
<1>1. Init => Shape /\ Spans
  BY InitHolds
<1>2. Shape /\ Spans /\ [Next]_vars => Shape' /\ Spans'
  BY NextKeeps, PacketsHold
<1>3. Spans => SpansNest
  BY DEF Spans
<1> QED BY <1>1, <1>2, <1>3, PTL DEF Spec

\* Every packet is counted once, in the flow of its two ends and in the
\* direction it went, loopback conversations included (flowKey, isSideA).
THEOREM DirectionsTold == Spec => []DirectionCounts
<1>1. Init => Shape /\ Counts
  BY InitHolds
<1>2. Shape /\ Counts /\ [Next]_vars => Shape' /\ Counts'
  BY NextKeeps, PacketsHold
<1>3. Shape /\ Counts => DirectionCounts
  BY CountsTell
<1> QED BY <1>1, <1>2, <1>3, PTL DEF Spec

\* Whatever the capture, what a host sent and received is what its flows
\* carried from and to it, and the protocol mix adds up to the totals of the
\* capture (Add, updateFlow, tallyProtoMix).
THEOREM BooksStayBalanced == Spec => []BooksBalance
<1>1. Init => Shape /\ Books
  BY InitHolds, BooksBegin
<1>2. Shape /\ Books /\ [Next]_vars => Shape' /\ Books'
  BY NextKeeps, PacketsHold
<1>3. Books => BooksBalance
  BY DEF Books
<1> QED BY <1>1, <1>2, <1>3, PTL DEF Spec
=============================================================================
