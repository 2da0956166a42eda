---------------------------- MODULE TlsHandshakes ----------------------------
(***************************************************************************)
(* What the theorems about causal connections assume of the two peers, as   *)
(* TLS prescribes it: the order of their messages and the use of their      *)
(* keys.  MCTlsSession shows that its causal connections are of this kind.  *)
(***************************************************************************)
EXTENDS TlsSession

\* Record i of direction d was sent after record j of direction e was sent or
\* received.
Before(c, e, j, d, i) == IF e = d THEN j < i ELSE j <= c.rec[d][i].after

InClear(c, d) == {i \in DOMAIN c.rec[d] : c.rec[d][i].type = "hs" /\ c.rec[d][i].key = ""}

Carries(c, d, i, m) == i \in InClear(c, d) /\ \E k \in DOMAIN c.rec[d][i].msgs : c.rec[d][i].msgs[k] = m

\* Message m went before record i of direction d.
Precedes(c, m, d, i) ==
  \E e \in Dirs : \E j \in DOMAIN c.rec[e] : Carries(c, e, j, m) /\ Before(c, e, j, d, i)

\* Records in the clear, of which record i of d begins after from[d][i] messages
\* of the handshake flow, follow one another.
Consecutive(c, flow, from) ==
  LET end(d, i) == from[d][i] + Len(c.rec[d][i].msgs) IN
  \A d \in Dirs : \A i \in InClear(c, d) :
    /\ c.rec[d][i].msgs # <<>>
    /\ from[d][i] \in Nat /\ end(d, i) <= Len(flow)
    /\ \A k \in DOMAIN c.rec[d][i].msgs : c.rec[d][i].msgs[k] = flow[from[d][i] + k]
    /\ from[d][i] > 0 => \E e \in Dirs : \E j \in InClear(c, e) :
                           Before(c, e, j, d, i) /\ end(e, j) = from[d][i]
    /\ \A e \in Dirs : \A j \in InClear(c, e) :
         <<e, j>> # <<d, i>> => end(e, j) <= from[d][i] \/ end(d, i) <= from[e][j]

\* The extended master secret covers the messages up to the key exchange.
OrderedFlow(c, flow) ==
  /\ flow \in Seq({"CH", "SH", "Cert", "SHD", "CKE"})
  /\ \A p \in DOMAIN flow :
       /\ flow[p] = "SH"  => \E q \in 1..(p - 1) : flow[q] = "CH"
       /\ flow[p] = "CKE" => /\ \E q \in 1..(p - 1) : flow[q] = "SH"
                             /\ c.handshake = SubSeq(flow, 1, p)

\* After its ChangeCipherSpec a peer protects everything, and counts from 0.
Protected12(c) ==
  \A d \in Dirs : \A i \in DOMAIN c.rec[d] :
    LET r == c.rec[d][i] IN
    /\ r.type = "ccs" => Precedes(c, "SH", d, i) /\ (c.resumed \/ Precedes(c, "CKE", d, i))
    /\ i \in InClear(c, d) => \A j \in 1..(i - 1) : c.rec[d][j].type # "ccs"
    /\ r.key # "" => \E j \in 1..(i - 1) : c.rec[d][j].type = "ccs"
    /\ r.key = "tls12" /\ r.seq = 0 => i > 1 /\ c.rec[d][i - 1].type = "ccs"
    /\ r.inner = "app" => r.key = "tls12"

\* The handshake keys are used from the ServerHello to Finished, and the keys
\* for data after that.
Protected13(c) ==
  \A d \in Dirs : \A i \in DOMAIN c.rec[d] :
    LET r == c.rec[d][i] IN
    /\ Carries(c, d, i, "SH") => Precedes(c, "CH", d, i)
    /\ r.type = "app" => r.key \in {"hs", "ap"}
    /\ r.key = "hs" =>
         /\ r.type = "app" /\ Precedes(c, "SH", d, i)
         /\ IF r.seq = 0 THEN \A j \in 1..(i - 1) : c.rec[d][j].type # "app"
            ELSE /\ i > 1 /\ c.rec[d][i - 1].key = "hs" /\ ~c.rec[d][i - 1].finished
                 /\ r.seq = c.rec[d][i - 1].seq + 1
    /\ r.key = "ap" /\ r.seq = 0 => i > 1 /\ c.rec[d][i - 1].key = "hs" /\ c.rec[d][i - 1].finished
    /\ r.inner = "app" => r.key = "ap"

\* TLS 1.2 and 1.3, without the suites whose keys Resolve12 gets wrong.
Proper(c, flow, from) ==
  IF c.version = 4 THEN Protected13(c)
  ELSE /\ c.version = 3 /\ c.kex # "dhe_psk"
       /\ Consecutive(c, flow, from) /\ OrderedFlow(c, flow) /\ Protected12(c)
=============================================================================
