---------------------------- MODULE MCFlowTable ----------------------------
(***************************************************************************)
(* Small captures for FlowTable.  Lengths are powers of two, so that no two *)
(* different sets of packets have the same total; timestamps go backwards.  *)
(***************************************************************************)
EXTENDS FlowTable

Frame(proto, src, dst, flags, len, ts, payload) ==
  [proto |-> proto, src |-> src, dst |-> dst, flags |-> flags, len |-> len, ts |-> ts,
   payload |-> payload, names |-> {}, answers |-> {}, malformed |-> 0, conn |-> 1, client |-> src]

\* The same packet seen as one of a server's.
Reply(p) == [p EXCEPT !.client = p.dst]

Client  == <<1, 9>>
Server  == <<2, 443>>
Nobody  == <<0, 0>>

Syn     == Frame("TCP", Client, Server, "S", 1, 2, "none")
SynAck  == Reply(Frame("TCP", Server, Client, "SA", 2, 1, "none"))
Hello   == [Frame("TCP", Client, Server, "PA", 4, 3, "hello") EXCEPT !.names = {"sni"}]
Answer  == Reply(Frame("TCP", Server, Client, "PA", 8, 3, "serverHello"))
Cert    == Reply(Frame("TCP", Server, Client, "PA", 8, 4, "cert"))
Dns     == [Reply(Frame("UDP", <<2, 53>>, <<1, 7>>, "", 16, 2, "dns"))
              EXCEPT !.answers = {<<2, "server">>, <<3, "host">>}]
Query   == Frame("UDP", <<1, 7>>, <<2, 53>>, "", 32, 1, "query")
Ping    == [Frame("ICMP", <<3, 0>>, <<1, 0>>, "", 64, 4, "none") EXCEPT !.malformed = 1]
Pong    == Frame("ICMP", <<1, 0>>, <<3, 0>>, "", 128, 3, "none")
Here    == [Frame("TCP", <<1, 9>>, <<1, 21>>, "PA", 256, 2, "login") EXCEPT !.conn = 2]
There   == [Reply(Frame("TCP", <<1, 21>>, <<1, 9>>, "A", 512, 3, "none")) EXCEPT !.conn = 2]
Arp     == [Frame("ARP", Nobody, Nobody, "", 1024, 1, "none") EXCEPT !.malformed = 2]

Capture     == {Syn, SynAck, Hello, Cert, Dns, Query, Ping, Pong, Here, There, Arp}

SynAckFirst == {SynAck, Hello, Answer}
Reused      == {Syn, Hello} \union {[p EXCEPT !.conn = 2] : p \in {Syn, Hello}}
=============================================================================
