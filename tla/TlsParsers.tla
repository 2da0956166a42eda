----------------------------- MODULE TlsParsers ------------------------------
(***************************************************************************)
(* How the fields of a handshake message are read, twice over: by the      *)
(* session, from messages it has put together (tlssession/parse.go), and   *)
(* by the flow table, from one TCP payload as it was captured              *)
(* (proto/tls.go).  A message is written out byte by byte by its sender,   *)
(* put into records, and the payload may be cut short; the readers must    *)
(* come back with what the sender wrote.                                   *)
(*                                                                         *)
(* Bytes are numbers below Base, positions count from 0 as in the code.    *)
(* Lengths and numbers are really spread over bytes and read back; a read  *)
(* outside the message is an evaluation error that stops TLC.              *)
(***************************************************************************)
EXTENDS Integers, Sequences, SequencesExt

CONSTANTS
  Base, RandomLen,     \* 256 and 32
  Messages,            \* [type, fields]: what may be sent
  Unparsable,          \* the certificates x509 cannot parse
  Others               \* messages that may share a record

hsClientHello       == 1
hsServerHello       == 2
hsCertificate       == 11
hsClientKeyExchange == 16
extSNI                  == 0
extEncryptThenMAC       == 22
extExtendedMasterSecret == 23
extSupportedVersions    == 43
recChangeCipherSpec == 20
recHandshake        == 22
recApplicationData  == 23

VARIABLES
  sent,       \* the message
  body,       \* its bytes, or the first of them
  payload,    \* the captured TCP payload
  seen,       \* what the session made of the message
  shown       \* what the flow table made of the payload

messageVars == <<sent, body, payload, seen, shown>>

Error    == [is |-> "error"]
Unread   == [is |-> "unread"]
Read(r)  == [is |-> "read", fields |-> r]

-----------------------------------------------------------------------------
(* The sender (RFC 5246, 6066 and 8446) *)

Digits(n, width) ==
  LET byte(k) == k % Base
  IN  CASE width = 1 -> <<byte(n)>>
        [] width = 2 -> <<byte(n \div Base), byte(n)>>
        [] width = 3 -> <<byte((n \div Base) \div Base), byte(n \div Base), byte(n)>>

Vector(bytes, width) == Digits(Len(bytes), width) \o bytes

Join(parts) == FlattenSeq(parts)

Name(n) == <<n.type>> \o Vector(n.name, 2)

DataOf(e) == IF e.type = extSNI THEN Vector(Join([i \in DOMAIN e.names |-> Name(e.names[i])]), 2) ELSE e.data

Extension(e) == Digits(e.type, 2) \o Vector(DataOf(e), 2)

ExtensionList(exts) == Join([i \in DOMAIN exts |-> Extension(exts[i])])

\* Extensions may be missing altogether.
Extensions(exts) == IF exts = <<>> THEN <<>> ELSE Vector(ExtensionList(exts), 2)

SuiteList(suites) == Join([i \in DOMAIN suites |-> Digits(suites[i], 2)])

CertificateList(chain) == Join([i \in DOMAIN chain |-> Vector(chain[i], 3)])

ClientHello(f) ==
  Digits(f.version, 2) \o f.random \o Vector(f.session, 1) \o Vector(SuiteList(f.suites), 2)
    \o Vector(<<0>>, 1) \o Extensions(f.exts)

ServerHello(f) ==
  Digits(f.version, 2) \o f.random \o Vector(f.session, 1) \o Digits(f.suite, 2) \o <<0>> \o Extensions(f.exts)

Written(m) ==
  CASE m.type = hsClientHello -> ClientHello(m.fields)
    [] m.type = hsServerHello -> ServerHello(m.fields)
    [] m.type = hsCertificate -> Vector(CertificateList(m.fields.chain), 3)
    [] m.type = hsClientKeyExchange -> Vector(m.fields.blob, 2)

Byte   == 0..(Base - 1)
Uint16 == 0..(Base * Base - 1)

\* Bytes whose number can be written in a length of that width.
Fit(bytes, width) ==
  /\ bytes \in Seq(Byte)
  /\ Len(bytes) < (CASE width = 1 -> Base [] width = 2 -> Base * Base [] width = 3 -> Base * Base * Base)

\* No extension occurs twice; the one that names versions has room for one.
ExtensionsFit(exts) ==
  /\ exts \in Seq(Range(exts))
  /\ \A i \in DOMAIN exts :
       /\ exts[i].type \in Uint16 /\ Fit(DataOf(exts[i]), 2)
       /\ exts[i].type = extSupportedVersions => Len(exts[i].data) >= 2
  /\ \A i, j \in DOMAIN exts : exts[i].type = exts[j].type => i = j
  /\ Fit(ExtensionList(exts), 2)

HelloFits(f) ==
  /\ f.version \in Uint16 /\ f.random \in Seq(Byte) /\ Len(f.random) = RandomLen
  /\ Fit(f.session, 1) /\ ExtensionsFit(f.exts)

ASSUME BytesAssumption == Base \in Nat /\ Base > 1 /\ RandomLen \in Nat

\* What is sent can be written.
ASSUME MessagesAssumption ==
  \A m \in Messages :
    LET f == m.fields IN
    \/ m.type = hsClientHello /\ HelloFits(f) /\ Fit(SuiteList(f.suites), 2)
    \/ m.type = hsServerHello /\ HelloFits(f) /\ f.suite \in Uint16
    \/ m.type = hsCertificate /\ Fit(CertificateList(f.chain), 3)
    \/ m.type = hsClientKeyExchange /\ Fit(f.blob, 2)

Handshake(type, bytes) == <<type>> \o Vector(bytes, 3)
Record(type, bytes)    == <<type, 3, 3>> \o Vector(bytes, 2)

\* The ways a message gets into one payload: alone, before or behind another
\* record, with another message, or spread over two records, the first of
\* which may end inside the four bytes of the message's header.
Payloads(type, bytes) ==
  LET message == Handshake(type, bytes)
      alone   == Record(recHandshake, message)
      ways    == {alone, alone \o Record(recApplicationData, <<1, 2>>)}
                   \cup {Record(recHandshake, message \o Handshake(o[1], o[2])) : o \in Others}
                   \cup {Record(recHandshake, Handshake(o[1], o[2]) \o message) : o \in Others}
                   \cup {Record(recHandshake, Handshake(o[1], o[2])) \o alone : o \in Others}
      behind  == Record(recChangeCipherSpec, <<1>>) \o alone
      spread(k) == Record(recHandshake, SubSeq(message, 1, k))
                     \o Record(recHandshake, SubSeq(message, k + 1, Len(message)))
  IN  {[whole |-> TRUE, headerSplit |-> FALSE, bytes |-> b] : b \in ways}
        \cup {[whole |-> FALSE, headerSplit |-> FALSE, bytes |-> behind]}
        \cup {[whole |-> FALSE, headerSplit |-> k < 4, bytes |-> spread(k)] : k \in 1..(Len(message) - 1)}

-----------------------------------------------------------------------------
(* The readers *)

\* binary.BigEndian, and the lengths of three bytes.
Number(b, pos, width) ==
  CASE width = 0 -> 0
    [] width = 1 -> b[pos + 1]
    [] width = 2 -> b[pos + 1] * Base + b[pos + 2]
    [] width = 3 -> (b[pos + 1] * Base + b[pos + 2]) * Base + b[pos + 3]

AtMost(n, limit) == IF n > limit THEN limit ELSE n

\* Mutant of Room: an item that ends with its header is not looked at.
RoomBeyond(pos, head, end) == pos + head < end

Room(pos, head, end) == pos + head <= end

\* The items between two places, each a tag, a length and that many bytes:
\* they end with the first that does not fit.
Items(b, start, end, tag, width) ==
  LET data(pos) == pos + tag + width
      next(pos) == data(pos) + Number(b, pos + tag, width)
      items[pos \in start..end] ==
        IF ~Room(pos, tag + width, end) \/ next(pos) > end THEN <<>>
        ELSE <<[tag |-> Number(b, pos, tag), data |-> SubSeq(b, data(pos) + 1, next(pos))]>> \o items[next(pos)]
  IN  items[start]

\* Items behind a length of their own, which may claim more than there is.
ItemList(b, pos, lengthWidth, tag, width) ==
  LET start == pos + lengthWidth
  IN  IF Len(b) < start THEN <<>>
      ELSE Items(b, start, AtMost(start + Number(b, pos, lengthWidth), Len(b)), tag, width)

\* The place behind a vector, and a place outside when the vector is.
Past(b, pos, width) == IF Len(b) < pos + width THEN Len(b) + 1 ELSE pos + width + Number(b, pos, width)

SessionAt == 2 + RandomLen
SuitesAt(b) == Past(b, SessionAt, 1)
CompressionAt(b) == Past(b, SuitesAt(b), 2)

ExtensionsAt(b, pos) == ItemList(b, pos, 2, 2, 2)
ClientExtensions(b)  == ExtensionsAt(b, Past(b, CompressionAt(b), 1))

Has(exts, type) == \E i \in DOMAIN exts : exts[i].tag = type

\* The last that fits counts: each overwrites the one before.
LastOf(exts, Fits(_), none) ==
  LET fitting == {i \in DOMAIN exts : Fits(exts[i])} IN IF fitting = {} THEN none ELSE exts[Max(fitting)].data

parseClientHello(b) ==
  IF Len(b) < SessionAt THEN Error
  ELSE Read([random |-> SubSeq(b, 3, SessionAt),
             ems |-> Has(ClientExtensions(b), extExtendedMasterSecret),
             etm |-> Has(ClientExtensions(b), extEncryptThenMAC)])

parseServerHello(b) ==
  LET suiteAt == Past(b, SessionAt, 1)
      exts    == ExtensionsAt(b, suiteAt + 3)
      versions(e) == e.tag = extSupportedVersions /\ Len(e.data) >= 2
  IN  IF Len(b) < SessionAt + 1 \/ Len(b) < suiteAt + 2 THEN Error
      ELSE Read([random |-> SubSeq(b, 3, SessionAt), suite |-> Number(b, suiteAt, 2),
                 version |-> Number(LastOf(exts, versions, SubSeq(b, 1, 2)), 0, 2),
                 ems |-> Has(exts, extExtendedMasterSecret),
                 etm |-> Has(exts, extEncryptThenMAC)])

\* Mutant of clientKeyExchange: takes what there is.
clientKeyExchangeCut(b) ==
  IF Len(b) < 2 THEN Error ELSE Read([blob |-> SubSeq(b, 3, AtMost(Past(b, 0, 2), Len(b)))])

\* clientKeyExchangeRSA, clientKeyExchangePSKIdentity.
clientKeyExchange(b) ==
  IF Past(b, 0, 2) > Len(b) THEN Error ELSE Read([blob |-> SubSeq(b, 3, Past(b, 0, 2))])

\* The first host name of the list.
parseSNIExtension(data) ==
  LET names == SelectSeq(ItemList(data, 0, 2, 1, 2), LAMBDA n : n.tag = 0)
  IN  IF names = <<>> THEN <<>> ELSE Head(names).data

parseClientHelloBody(b) ==
  LET suites == SuitesAt(b)
      isSNI(e) == e.tag = extSNI
  IN  IF Len(b) < CompressionAt(b) THEN Error
      ELSE Read([version |-> Number(b, 0, 2),
                 suites |-> [i \in 1..(Number(b, suites, 2) \div 2) |-> Number(b, suites + 2 * i, 2)],
                 sni |-> parseSNIExtension(LastOf(ClientExtensions(b), isSNI, <<>>))])

\* Mutant of Wanted: whatever comes last in the record is taken.
WantedLast(messages, type) == Last(messages).data

Wanted(messages, type) == Head(SelectSeq(messages, LAMBDA m : m.tag = type)).data

\* The messages of one record, up to the one wanted; one that does not fit
\* ends the search.
InRecord(bytes, type) ==
  LET messages == Items(bytes, 0, Len(bytes), 1, 3)
      taken    == FoldLeft(LAMBDA n, m : n + 4 + Len(m.data), 0, messages)
  IN  IF \E i \in DOMAIN messages : messages[i].tag = type THEN Read([body |-> Wanted(messages, type)])
      ELSE IF Len(bytes) - taken >= 4 THEN Error ELSE Unread

firstHandshakeBody(b, type) ==
  LET end(pos) == pos + 5 + Number(b, pos + 3, 2)
      isHandshake(pos) == b[pos + 1] = recHandshake /\ b[pos + 2] = 3 /\ b[pos + 3] <= 4
      from[pos \in 0..Len(b)] ==
        IF Len(b) - pos < 5 \/ Len(b) < end(pos) THEN Error
        ELSE LET found == IF isHandshake(pos) THEN InRecord(SubSeq(b, pos + 6, end(pos)), type)
                          ELSE Unread
             IN  IF found = Unread THEN from[end(pos)] ELSE found
  IN  from[0]

ParseClientHello(b) ==
  LET found == firstHandshakeBody(b, hsClientHello)
  IN  IF found = Error THEN Error ELSE parseClientHelloBody(found.fields.body)

ParseServerCertificates(b) ==
  LET found == firstHandshakeBody(b, hsCertificate)
      certs == SelectSeq(ItemList(found.fields.body, 0, 3, 0, 3), LAMBDA c : c.data \notin Unparsable)
  IN  IF found = Error \/ certs = <<>> THEN Error ELSE Read([certs |-> [i \in DOMAIN certs |-> certs[i].data]])

\* inspectTCPPayload: only a payload that begins with a handshake record.
inspectTCPPayload(b) ==
  IF Len(b) <= 5 \/ b[1] # recHandshake THEN Error
  ELSE IF ParseClientHello(b) # Error THEN ParseClientHello(b) ELSE ParseServerCertificates(b)

-----------------------------------------------------------------------------
MessageInit ==
  /\ sent \in Messages
  /\ \E n \in 0..Len(Written(sent)) : body = SubSeq(Written(sent), 1, n)
  /\ payload = Unread /\ seen = Unread /\ shown = Unread

Short == Len(body) < Len(Written(sent))

\* The payload may be cut short by the capture or by the end of a segment.
\* The two readers share nothing: a message is followed into one of them.
Capture ==
  /\ payload = Unread /\ seen = Unread /\ ~Short
  /\ \E p \in Payloads(sent.type, body) : \E n \in 1..Len(p.bytes) :
       payload' = [p EXCEPT !.whole = @ /\ n = Len(p.bytes), !.bytes = SubSeq(@, 1, n)]
  /\ UNCHANGED <<sent, body, seen, shown>>

\* drainCleartextHandshake and tryResolveTLS12, which hand over a message as
\* long as its header says.
ReadMessage ==
  /\ seen = Unread /\ payload = Unread
  /\ seen' = CASE sent.type = hsClientHello -> parseClientHello(body)
               [] sent.type = hsServerHello -> parseServerHello(body)
               [] sent.type = hsClientKeyExchange -> clientKeyExchange(body)
               [] OTHER -> Error
  /\ UNCHANGED <<sent, body, payload, shown>>

ReadPayload ==
  /\ payload # Unread /\ shown = Unread
  /\ shown' = inspectTCPPayload(payload.bytes)
  /\ UNCHANGED <<sent, body, payload, seen>>

-----------------------------------------------------------------------------
(* Properties *)

Offered(m, type) == \E i \in DOMAIN m.fields.exts : m.fields.exts[i].type = type
Sent(m, type)    == LET i == CHOOSE j \in DOMAIN m.fields.exts : m.fields.exts[j].type = type IN m.fields.exts[i]

HostName(m) ==
  LET hosts == IF Offered(m, extSNI) THEN SelectSeq(Sent(m, extSNI).names, LAMBDA n : n.type = 0) ELSE <<>>
  IN  IF hosts = <<>> THEN <<>> ELSE Head(hosts).name

\* What a session needs of a message.
ForSession(m) ==
  LET f == m.fields IN
  CASE m.type = hsClientHello ->
         [random |-> f.random, ems |-> Offered(m, extExtendedMasterSecret), etm |-> Offered(m, extEncryptThenMAC)]
    [] m.type = hsServerHello ->
         [random |-> f.random, suite |-> f.suite,
          version |-> IF Offered(m, extSupportedVersions)
                      THEN LET v == Sent(m, extSupportedVersions).data IN v[1] * Base + v[2] ELSE f.version,
          ems |-> Offered(m, extExtendedMasterSecret), etm |-> Offered(m, extEncryptThenMAC)]
    [] OTHER -> [blob |-> f.blob]

\* What the tables show of a message.
ForTables(m) ==
  LET f == m.fields IN
  CASE m.type = hsClientHello -> Read([version |-> f.version, suites |-> f.suites, sni |-> HostName(m)])
    [] m.type = hsCertificate ->
         LET chain == SelectSeq(f.chain, LAMBDA c : c \notin Unparsable)
         IN  IF chain = <<>> THEN Error ELSE Read([certs |-> chain])
    [] OTHER -> Error

\* Of a message that ends early nothing is made up: what is reported was
\* written, a random or a secret never a part of the real one.
Honest(f, real) ==
  CASE sent.type = hsClientHello -> f.random = real.random /\ (f.ems => real.ems) /\ (f.etm => real.etm)
    [] sent.type = hsServerHello ->
         /\ f.random = real.random /\ f.suite = real.suite
         /\ f.version \in {sent.fields.version, real.version}
         /\ (f.ems => real.ems) /\ (f.etm => real.etm)
    [] OTHER -> f = real

\* A whole message is read as it was written, with extensions in any order,
\* without data, or missing: the random, the suite, the version in force and
\* the two extensions that change how keys are derived; one that ends early
\* is refused or read honestly
\* (parseClientHello, parseServerHello, clientKeyExchangeRSA).
MessagesRead ==
  seen # Unread /\ sent.type # hsCertificate =>
    IF Short THEN seen = Error \/ Honest(seen.fields, ForSession(sent))
    ELSE seen = Read(ForSession(sent))

\* A hello or certificate message whole in its record is shown as it was
\* written, whatever shares the payload; of one that is cut off, or spread
\* over records behind its four-byte header, either all is shown or nothing
\* (firstHandshakeBody, parseClientHelloBody, ParseServerCertificates).
\* Nothing is claimed of a message whose header is itself split over records:
\* firstHandshakeBody drops the fewer than four bytes that end the first
\* record and looks for a message at the start of the next, where a length
\* byte may be taken for a type (a certificate message of 257 bytes split
\* after its third byte is shown as a ClientHello).
PayloadsRead ==
  shown # Unread =>
    /\ payload.whole => shown = ForTables(sent)
    /\ ~payload.headerSplit => shown \in {Error, ForTables(sent)}
=============================================================================
