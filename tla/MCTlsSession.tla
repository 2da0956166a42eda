---------------------------- MODULE MCTlsSession ----------------------------
(***************************************************************************)
(* The connections TlsSession is checked on.  A record's after is how many  *)
(* records of the peer its sender had received when it sent it.             *)
(***************************************************************************)
EXTENDS TlsHandshakes, SequencesExt

Rec(type, key, n, inner, data, after) ==
  [type |-> type, key |-> key, seq |-> n, inner |-> inner, data |-> data,
   finished |-> FALSE, msgs |-> <<>>, after |-> after]

Clear(msgs, after)        == [Rec("hs", "", 0, "hs", 0, after) EXCEPT !.msgs = msgs]
Ccs(after)                == Rec("ccs", "", 0, "ccs", 0, after)
App(key, n, data, after)  == Rec("app", key, n, "app", data, after)
Fin(type, key, n, after)  == [Rec(type, key, n, "hs", 0, after) EXCEPT !.finished = TRUE]

Conn(v, kex, ems, known, resumed, handshake, c, s) ==
  [causal |-> TRUE, version |-> v, kex |-> kex, ems |-> ems, known |-> known, resumed |-> resumed,
   handshake |-> handshake, rec |-> [d \in Dirs |-> IF d = "C" THEN c ELSE s]]

\* TLS 1.2 and 1.1: a full handshake, then data with an alert in between; the
\* client may send before the server's Finished (false start).
Full(v, kex, ems, known) ==
  Conn(v, kex, ems, known, FALSE, <<"CH", "SH", "Cert", "SHD", "CKE">>,
    << Clear(<<"CH">>, 0), Clear(<<"CKE">>, 2), Ccs(2), Fin("hs", "tls12", 0, 2),
       App("tls12", 1, 1, 2), Rec("alert", "tls12", 2, "alert", 0, 4), App("tls12", 3, 2, 4) >>,
    << Clear(<<"SH">>, 1), Clear(<<"Cert", "SHD">>, 1), Ccs(4), Fin("hs", "tls12", 0, 4),
       App("tls12", 1, 1, 5), App("tls12", 2, 2, 5) >>)

Resumed ==
  Conn(3, "ecdhe", FALSE, TRUE, TRUE, <<"CH", "SH">>,
    << Clear(<<"CH">>, 0), Ccs(3), Fin("hs", "tls12", 0, 3), App("tls12", 1, 1, 3) >>,
    << Clear(<<"SH">>, 1), Ccs(1), Fin("hs", "tls12", 0, 1), App("tls12", 1, 1, 3) >>)

\* A second handshake inside the first one's encryption.
Renegotiated ==
  Conn(3, "rsa", FALSE, TRUE, FALSE, <<"CH", "SH", "Cert", "SHD", "CKE">>,
    << Clear(<<"CH">>, 0), Clear(<<"CKE">>, 1), Ccs(1), Fin("hs", "tls12", 0, 1), App("tls12", 1, 1, 3),
       Rec("hs", "tls12", 2, "hs", 0, 3), Rec("hs", "tls12", 3, "hs", 0, 4), Ccs(4),
       Fin("hs", "again", 0, 4), App("again", 1, 2, 4) >>,
    << Clear(<<"SH", "Cert", "SHD">>, 1), Ccs(4), Fin("hs", "tls12", 0, 4),
       Rec("hs", "tls12", 1, "hs", 0, 6) >>)

\* TLS 1.3; retry adds a HelloRetryRequest, early the client's 0-RTT records.
Tls13(known, retry, early) ==
  Conn(4, "ecdhe", FALSE, known, FALSE, <<"CH", "SH">>,
    << Clear(<<"CH">>, 0) >> \o early \o (IF retry THEN << Clear(<<"CH">>, 1) >> ELSE <<>>)
      \o << Ccs(2), Fin("app", "hs", 0, 4), App("ap", 0, 1, 4), App("ap", 1, 2, 4) >>,
    << Clear(<<"SH">>, 1) >> \o (IF retry THEN << Clear(<<"SH">>, 2) >> ELSE <<>>)
      \o << Ccs(1), Rec("app", "hs", 0, "hs", 0, 1), Fin("app", "hs", 1, 1), App("ap", 0, 1, 1),
            Rec("app", "ap", 1, "hs", 0, 3), App("ap", 2, 2, 3) >>)

Early        == << Rec("app", "early", 0, "early", 0, 0) >>
EarlyEnded   == Early \o << Rec("app", "early", 1, "hs", 0, 4) >>

KeyUpdated ==
  Conn(4, "ecdhe", FALSE, TRUE, FALSE, <<"CH", "SH">>,
    << Clear(<<"CH">>, 0), Fin("app", "hs", 0, 3), App("ap", 0, 1, 3), Rec("app", "ap", 1, "hs", 0, 3),
       App("next", 0, 2, 3) >>,
    << Clear(<<"SH">>, 1), Rec("app", "hs", 0, "hs", 0, 1), Fin("app", "hs", 1, 1), App("ap", 0, 1, 3) >>)

Supported ==
  {Full(3, kex, ems, TRUE) : kex \in {"rsa", "psk", "ecdhe"}, ems \in BOOLEAN}
    \union {Full(3, "rsa", TRUE, FALSE), Resumed, Tls13(FALSE, FALSE, <<>>)}
    \union {Tls13(TRUE, retry, <<>>) : retry \in BOOLEAN}

\* How many handshake messages went before each record in the clear.
Sent(c, d, n) ==
  Len(FlattenSeq([i \in 1..n |-> IF i \in InClear(c, d) THEN c.rec[d][i].msgs ELSE <<>>]))
Start(c) ==
  [d \in Dirs |-> [i \in DOMAIN c.rec[d] |-> Sent(c, d, i - 1) + Sent(c, Peer(d), c.rec[d][i].after)]]

\* The causal connections are what the theorems about them assume.
ASSUME SupportedAreProper == \A c \in Supported : Proper(c, c.handshake, Start(c))

\* Also what decryption stops at, new keys after the first and 0-RTT data,
\* with the two directions processed in any order.
Anything ==
  Supported \union {Renegotiated, KeyUpdated, Full(3, "dhe_psk", FALSE, TRUE), Full(2, "rsa", FALSE, TRUE)}
    \union {Tls13(TRUE, FALSE, early) : early \in {Early, EarlyEnded}}

Captured == Supported \union {[c EXCEPT !.causal = FALSE] : c \in Anything}

PskFamily == {Full(3, kex, FALSE, TRUE) : kex \in {"psk", "dhe_psk"}}

Store(line12, secrets13, rsa, psk) ==
  [line12 |-> line12, secrets13 |-> secrets13, rsa |-> rsa, psk |-> psk]

Stores ==
  {Store(line12, secrets13, rsa, psk) :
     line12 \in BOOLEAN, secrets13 \in {"none", "some", "all"}, rsa \in BOOLEAN, psk \in BOOLEAN}
=============================================================================
