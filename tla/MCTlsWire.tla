------------------------------ MODULE MCTlsWire ------------------------------
(***************************************************************************)
(* Hellos with up to two extensions in either order, among them those that *)
(* have no data and a name list that does not begin with a host name;      *)
(* chains with a certificate that does not parse, and one so long that the *)
(* last byte of its message's length is the type of a ClientHello; key     *)
(* exchanges.  A suite of each kind, the CBC ones with a MAC shorter and   *)
(* longer than a block, and contents that end in zero or look like padding.*)
(***************************************************************************)
EXTENDS TlsWire

Host  == <<7, 8>>
Names == {<<[type |-> 0, name |-> Host]>>, <<[type |-> 1, name |-> <<9>>], [type |-> 0, name |-> Host]>>}

Plain(type, data) == [type |-> type, data |-> data]
Common == {Plain(extExtendedMasterSecret, <<>>), Plain(extEncryptThenMAC, <<>>), Plain(5, <<0, 23>>)}

ClientExts == Common \cup {[type |-> extSNI, names |-> n] : n \in Names}
ServerExts == Common \cup {Plain(extSupportedVersions, <<3, 4>>)}

\* No extension occurs twice.
Chosen(exts) == {<<>>} \cup {<<e>> : e \in exts}
                  \cup {<<p[1], p[2]>> : p \in {q \in exts \X exts : q[1].type # q[2].type}}

\* Its certificate message has Base + 1 bytes.
Long == [i \in 1..(Base + 1 - 6) |-> 0]

MCMessages ==
  {[type |-> hsClientHello,
    fields |-> [version |-> 99, random |-> <<4, 5>>, session |-> s, suites |-> c, exts |-> x]] :
      s \in {<<>>, <<6>>}, c \in {<<47>>, <<10, 47>>}, x \in Chosen(ClientExts)}
  \cup
  {[type |-> hsServerHello,
    fields |-> [version |-> 99, random |-> <<4, 5>>, session |-> s, suite |-> 47, exts |-> x]] :
      s \in {<<>>, <<6>>}, x \in Chosen(ServerExts)}
  \cup
  {[type |-> hsCertificate, fields |-> [chain |-> c]] :
      c \in {<<>>, << <<5>> >>, << <<1, 2>>, <<5>>, <<3>> >>, << <<5>>, <<1, 2>> >>, << Long >>}}
  \cup
  {[type |-> hsClientKeyExchange, fields |-> [blob |-> b]] : b \in {<<>>, <<2, 2, 2>>}}

MCUnparsable == {<<5>>}

\* HelloRequest, ServerHelloDone; a finished message.
MCOthers == {<<14, <<>>>>, <<20, <<1, 11>>>>}
MCSuites ==
  {[kind |-> "gcm",      mac |-> 0, key |-> 2, iv |-> 1],
   [kind |-> "implicit", mac |-> 0, key |-> 2, iv |-> 2],
   [kind |-> "cbc",      mac |-> 1, key |-> 2, iv |-> 0],
   [kind |-> "cbc",      mac |-> 3, key |-> 1, iv |-> 0],
   [kind |-> "tls13",    mac |-> 0, key |-> 2, iv |-> 2]}

MCContents == {<<>>, <<1>>, <<1, 0>>}
=============================================================================
