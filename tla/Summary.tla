------------------------------ MODULE Summary ------------------------------
(***************************************************************************)
(* The statistics of internal/analyze, as functions of the finished tables *)
(* r of a capture (see Detectors), r.meta and r.proto.  The code collects  *)
(* rows from a map and sorts them with an unstable sort by one key: rows   *)
(* with equal keys may come in any order, and a cut may keep any of them.  *)
(***************************************************************************)
EXTENDS Integers, FiniteSets, SequencesExt, FiniteSetsExt

CONSTANTS
  DefaultTop,   \* 20: the length of a table when none is asked for
  Buckets,      \* 60: the intervals of the timeline
  Second        \* one second, in the units of timestamps

Sum(S, value(_)) == SumFunctionOnSet([x \in S |-> value(x)], S)

\* The tables that sorting the rows by key and cutting them after n may give.
Tables(rows, key, n) ==
  {SubSeq(t, 1, IF Len(t) > n THEN n ELSE Len(t)) :
     t \in {u \in SetToSeqs(rows) : \A i \in 1..(Len(u) - 1) : key[u[i]] >= key[u[i + 1]]}}

\* The numbers of a finite set, the smallest first.
Ascending(S) == [k \in 1..Cardinality(S) |-> CHOOSE x \in S : Cardinality({y \in S : y <= x}) = k]

Bytes(f)   == f.bytesAB + f.bytesBA
Packets(f) == f.packetsAB + f.packetsBA

Total(name, flows) ==
  [name |-> name, packets |-> Sum(flows, Packets), bytes |-> Sum(flows, Bytes)]

ProtocolMix(r) == {[name |-> p, packets |-> r.proto[p].packets, bytes |-> r.proto[p].bytes] :
                     p \in DOMAIN r.proto}

\* The guessed application protocol, or other/<transport>.
AppName(f) == IF f.app = "" THEN <<"other", f.protocol>> ELSE <<f.app>>

AppProtoMix(r) ==
  {Total(name, {f \in r.flows : AppName(f) = name}) : name \in {AppName(f) : f \in r.flows}}

Talkers(r) ==
  {[ip |-> ip, bytes |-> r.hosts[ip].bytes, private |-> r.hosts[ip].private] : ip \in DOMAIN r.hosts}

Ports(r) ==
  LET open(p) == {ip \in DOMAIN r.hosts : p \in ToSet(r.hosts[ip].ports)}
  IN  {[port |-> p, count |-> Cardinality(open(p))] :
         p \in UNION {ToSet(r.hosts[ip].ports) : ip \in DOMAIN r.hosts}}

\* A flow counts whole in the bucket of the middle of its life.  The length of
\* a bucket is rounded down, so a late flow may fall behind the last of them.
BucketLength(r) ==
  LET length == (r.meta.last - r.meta.first) \div Buckets IN IF length <= 0 THEN Second ELSE length

Bucket(r, f) == (f.first + (f.last - f.first) \div 2 - r.meta.first) \div BucketLength(r)

\* Mutant of Assigned: a bucket keeps the last flow it is given.
AssignedLast(r, i) == LET F == {f \in r.flows : Bucket(r, f) = i} IN {CHOOSE f \in F : TRUE}

Assigned(r, i) == {f \in r.flows : Bucket(r, f) = i}

Timeline(r) ==
  LET used == Ascending({Bucket(r, f) : f \in r.flows})
  IN  IF r.meta.packets = 0 THEN <<>>
      ELSE [i \in DOMAIN used |-> Total(r.meta.first + used[i] * BucketLength(r), Assigned(r, used[i]))]

Names(r) == {[name |-> n, count |-> Len(SelectSeq(r.dns, LAMBDA q : q.name = n))] :
               n \in {r.dns[i].name : i \in DOMAIN r.dns}}

DnsSummary(r, topNames) ==
  [queries |-> Len(r.dns), unique |-> Cardinality(Names(r)),
   nx |-> Len(SelectSeq(r.dns, LAMBDA q : q.nx)), top |-> topNames]

Handshakes(r) == UNION {{<<f, t>> : t \in f.tls} : f \in r.flows}

TlsSummary(r) ==
  [handshakes |-> Cardinality(Handshakes(r)),
   versions |-> [v \in {h[2].version : h \in Handshakes(r)} \ {""} |->
                   Cardinality({h \in Handshakes(r) : h[2].version = v})],
   weak |-> Cardinality({h \in Handshakes(r) : h[2].weak}),
   snis |-> {h[2].sni : h \in Handshakes(r)} \ {0}]

ByBytes(rows, n) == Tables(rows, [row \in rows |-> row.bytes], n)
ByCount(rows, n) == Tables(rows, [row \in rows |-> row.count], n)
Whole(rows)      == ByBytes(rows, Cardinality(rows))

\* Compute.
Summaries(r, topN) ==
  LET n == IF topN <= 0 THEN DefaultTop ELSE topN
  IN  {[protocols |-> p, apps |-> a, talkers |-> t, ports |-> o,
        timeline |-> Timeline(r), dns |-> DnsSummary(r, d), tls |-> TlsSummary(r)] :
       p \in Whole(ProtocolMix(r)), a \in Whole(AppProtoMix(r)), t \in ByBytes(Talkers(r), n),
       o \in ByCount(Ports(r), n), d \in ByCount(Names(r), n)}
=============================================================================
