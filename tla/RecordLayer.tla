----------------------------- MODULE RecordLayer -----------------------------
(***************************************************************************)
(* How one protected record is opened (internal/tlscrypto, deriveTLS12 and *)
(* decryptTLS12): the parts of the key block, the explicit nonce or IV,    *)
(* the check of the MAC before or after decryption, the padding.  TlsSession *)
(* takes from here that a record opens exactly when keys and sequence      *)
(* numbers are those of its sender.                                        *)
(*                                                                         *)
(* The primitives are symbols.  A byte is a pair: a data byte is its value, *)
(* any other byte is a place in what the primitive made: a sealed box, an  *)
(* encrypted block, a MAC, a nonce.  A box opens and a block decrypts under *)
(* the key, the nonce and the predecessor it was made with; whatever else  *)
(* is decrypted is junk, and a junk byte may have any value.               *)
(***************************************************************************)
EXTENDS Integers, Sequences, SequencesExt

CONSTANTS
  Suites,       \* [kind, mac, key, iv]: how to open a record, lengths of the key parts
  Contents,     \* the contents of records, as sequences of values of bytes
  MaxByte,      \* 255
  BlockSize, TagLen, ExplicitLen,     \* 16 or 8, 16, 8
  MaxRecords    \* bound: records each side sends

\* The table of cipher suites; a CBC suite has a MAC.
ASSUME SuitesAssumption ==
  \A s \in Suites :
    /\ s.kind \in {"gcm", "implicit", "cbc", "tls13"}
    /\ s.mac \in Nat /\ s.key \in Nat /\ s.iv \in Nat
    /\ s.kind = "cbc" => s.mac > 0

ASSUME ContentsAssumption == MaxByte \in Nat /\ Contents \subseteq Seq(0..MaxByte)

\* A block and a tag are not empty.
ASSUME SizesAssumption == BlockSize \in Nat \ {0} /\ TagLen \in Nat \ {0} /\ ExplicitLen \in Nat

Dirs == {"C", "S"}
NoRecord == [is |-> "none"]
NoSuite == [kind |-> "none"]

VARIABLES
  suite,                                 \* what was negotiated, NoSuite before that
  agreed,                                \* of the peers: "unknown", "encryptFirst" or "macFirst"
  etmClient, etmServer,                  \* what the session read of that in the two hellos
  master,                                \* whose the master secret is
  sendSeq, recvSeq,                      \* the sender's sequence numbers, and dirState.seq
  wire,                                  \* the record on its way
  last                                   \* the record opened last, the counter used and what came of it

session    == <<suite, agreed, etmClient, etmServer, master>>
recordVars == <<session, sendSeq, recvSeq, wire, last>>

Data(v)       == << <<"data">>, v>>
Bytes(values) == [i \in DOMAIN values |-> Data(values[i])]
Cells(what, n) == [i \in 1..n |-> <<what, i>>]

\* The values a byte may have once it is looked at.
Values(byte) == IF byte[1][1] = "data" THEN {byte[2]} ELSE 0..MaxByte

Refused           == [is |-> "refused"]
Panic             == [is |-> "panic"]     \* a slice with bounds out of range
Opened(type, content) == [is |-> "opened", type |-> type, content |-> content]

-----------------------------------------------------------------------------
(* Keys *)

\* take: the parts of the key block follow each other in this order.
Part(s, i) ==
  LET lengths == <<s.mac, s.mac, s.key, s.key, s.iv, s.iv>>
      before  == SumFunctionOnSet(lengths, 1..(i - 1))
  IN  <<before + 1, before + lengths[i]>>

\* deriveTLS12; in TLS 1.3 each direction has a secret of its own.
DirectionKeys(s, d) ==
  LET of(n) == IF d = "C" THEN Part(s, n) ELSE Part(s, n + 1)
  IN  IF s.kind = "tls13" THEN [mac |-> <<>>, key |-> <<d, "key">>, iv |-> <<d, "iv">>]
      ELSE [mac |-> of(1), key |-> of(3), iv |-> of(5)]

\* The peer's keys (RFC 5246, 6.3): MAC keys, then keys, then IVs, the
\* client's before the server's.
PeerKeys(s, d) ==
  LET second == IF d = "C" THEN 0 ELSE 1
      place(start, n) == <<start + second * n + 1, start + (second + 1) * n>>
  IN  IF s.kind = "tls13" THEN [mac |-> <<>>, key |-> <<d, "key">>, iv |-> <<d, "iv">>]
      ELSE [mac |-> place(0, s.mac), key |-> place(2 * s.mac, s.key),
            iv |-> place(2 * s.mac + 2 * s.key, s.iv)]

Under(secret, k) == [mac |-> <<secret, k.mac>>, key |-> <<secret, k.key>>, iv |-> <<secret, k.iv>>]

-----------------------------------------------------------------------------
(* What the primitives make *)

Box(key, nonce, aad, plain) == Cells(<<"box", key, nonce, aad, plain>>, Len(plain) + TagLen)

\* aead.Open: a box and nothing else, made with the same key, nonce and data.
AeadOpens(key, nonce, aad, text) ==
  /\ Len(text) >= TagLen
  /\ text[1][1][1] = "box"
  /\ LET box == text[1][1] IN box = <<"box", key, nonce, aad, box[5]>> /\ text = Box(key, nonce, aad, box[5])

AeadPlain(text) == text[1][1][5]

Mac(key, seq, type, bytes) == Cells(<<"mac", key, <<seq, type, Len(bytes)>>, bytes>>, suite.mac)

Block(bytes, j) == SubSeq(bytes, (j - 1) * BlockSize + 1, j * BlockSize)

CbcEncrypt(key, iv, plain) ==
  LET chain[j \in 0..(Len(plain) \div BlockSize)] ==
        IF j = 0 THEN iv ELSE Cells(<<"block", key, Block(plain, j), chain[j - 1]>>, BlockSize)
  IN  FlattenSeq([j \in 1..(Len(plain) \div BlockSize) |-> chain[j]])

\* A block under a key, combined with the one before it.
Decrypt(key, block, prev) ==
  LET made == block[1][1] IN
  IF made[1] = "block" /\ block = Cells(made, BlockSize) /\ made[2] = key /\ made[4] = prev
  THEN made[3] ELSE Cells(<<"junk">>, BlockSize)

\* cbcDecrypt
CbcDecrypt(key, body) ==
  FlattenSeq([j \in 1..(Len(body) \div BlockSize - 1) |-> Decrypt(key, Block(body, j + 1), Block(body, j))])

-----------------------------------------------------------------------------
(* The sender: RFC 5288, 7905, 5246, 7366 and 8446 *)

\* The paddings that fill the last block, their length byte last.
Paddings(n) == {Bytes([i \in 1..(p + 1) |-> p]) : p \in {q \in 0..MaxByte : (n + q + 1) % BlockSize = 0}}

TypeByte(type) == IF type = "app" THEN 2 ELSE 1

\* The bodies a record may be given.
Sealed(k, seq, type, content) ==
  LET explicit == Cells(<<"nonce", seq>>, ExplicitLen)
      aad      == <<seq, type, Len(content)>>
      iv       == Cells(<<"nonce", seq>>, BlockSize)
  IN
  CASE suite.kind = "gcm"      -> {explicit \o Box(k.key, <<k.iv, explicit>>, aad, content)}
    [] suite.kind = "implicit" -> {Box(k.key, <<k.iv, seq>>, aad, content)}
    [] suite.kind = "tls13"    ->
         {LET inner == content \o <<Data(TypeByte(type))>> \o zeros
          IN  Box(k.key, <<k.iv, seq>>, <<0, "app", Len(inner) + TagLen>>, inner) :
            zeros \in {<<>>, Bytes(<<0, 0>>)}}
    [] suite.kind = "cbc" /\ agreed = "macFirst" ->
         LET plain == content \o Mac(k.mac, seq, type, content)
         IN  {iv \o CbcEncrypt(k.key, iv, plain \o padding) : padding \in Paddings(Len(plain))}
    [] suite.kind = "cbc" /\ agreed = "encryptFirst" ->
         {LET protected == iv \o CbcEncrypt(k.key, iv, content \o padding)
          IN  protected \o Mac(k.mac, seq, type, protected) : padding \in Paddings(Len(content))}

-----------------------------------------------------------------------------
(* The code: the results opening a body may have *)

OpenGcm(k, seq, type, body) ==
  LET explicit == SubSeq(body, 1, ExplicitLen)
      text     == SubSeq(body, ExplicitLen + 1, Len(body))
  IN  IF Len(body) >= ExplicitLen /\ AeadOpens(k.key, <<k.iv, explicit>>, <<seq, type, Len(text) - TagLen>>, text)
      THEN {Opened(type, AeadPlain(text))} ELSE {Refused}

OpenImplicit(k, seq, type, text) ==
  IF AeadOpens(k.key, <<k.iv, seq>>, <<seq, type, Len(text) - TagLen>>, text)
  THEN {Opened(type, AeadPlain(text))} ELSE {Refused}

\* Mutant of PaddingFits: no room is left for the MAC.
PaddingFitsAlone(plain, pad, mac) == pad + 1 <= Len(plain)

PaddingFits(plain, pad, mac) == pad + 1 <= Len(plain) /\ Len(plain) - pad - 1 >= mac

\* An IV and at least one block.
Blocks(body) == Len(body) % BlockSize = 0 /\ Len(body) >= 2 * BlockSize

\* OpenTLS12CBCRecord.
OpenCbc(k, seq, type, body) ==
  LET plain == CbcDecrypt(k.key, body)
      rest(pad) == Len(plain) - pad - 1
      content(pad) == SubSeq(plain, 1, rest(pad) - suite.mac)
      result(pad) ==
        IF ~PaddingFits(plain, pad, suite.mac) THEN Refused
        ELSE IF rest(pad) < suite.mac THEN Panic
        ELSE IF SubSeq(plain, rest(pad) - suite.mac + 1, rest(pad)) = Mac(k.mac, seq, type, content(pad))
        THEN Opened(type, content(pad)) ELSE Refused
  IN  IF Blocks(body) THEN {result(pad) : pad \in Values(plain[Len(plain)])} ELSE {Refused}

\* OpenTLS12CBCRecordEtM: the MAC is checked before anything is decrypted.
OpenCbcEtm(k, seq, type, body) ==
  LET protected == SubSeq(body, 1, Len(body) - suite.mac)
      plain == CbcDecrypt(k.key, protected)
      result(pad) == IF PaddingFits(plain, pad, 0) THEN Opened(type, SubSeq(plain, 1, Len(plain) - pad - 1))
                     ELSE Refused
  IN  IF /\ Len(body) >= suite.mac
         /\ SubSeq(body, Len(body) - suite.mac + 1, Len(body)) = Mac(k.mac, seq, type, protected)
         /\ Blocks(protected)
      THEN {result(pad) : pad \in Values(plain[Len(plain)])} ELSE {Refused}

\* Mutant of TypeAt: padding is taken to begin at the first zero.
TypeAtFirstZero(inner) ==
  IF \E i \in DOMAIN inner : inner[i] = Data(0)
  THEN (CHOOSE i \in DOMAIN inner : inner[i] = Data(0) /\ \A j \in 1..(i - 1) : inner[j] # Data(0)) - 1
  ELSE Len(inner)

\* Where the type is: the last byte that is not zero, or 0.
TypeAt(inner) ==
  IF \A i \in DOMAIN inner : inner[i] = Data(0) THEN 0
  ELSE CHOOSE i \in DOMAIN inner : inner[i] # Data(0) /\ \A j \in (i + 1)..Len(inner) : inner[j] = Data(0)

\* OpenTLS13Record.
Open13(k, seq, text) ==
  IF ~AeadOpens(k.key, <<k.iv, seq>>, <<0, "app", Len(text)>>, text) THEN {Refused}
  ELSE LET inner == AeadPlain(text)
           at    == TypeAt(inner)
       IN  IF at = 0 THEN {Refused}
           ELSE {Opened(IF inner[at] = Data(TypeByte("app")) THEN "app" ELSE "handshake", SubSeq(inner, 1, at - 1))}

\* Mutant of UseEncryptThenMAC: the client's offer is enough.
UseWhenOffered == etmClient

UseEncryptThenMAC == etmClient /\ etmServer

\* decryptTLS12, decryptTLS13.
Results(r, seq) ==
  LET k == Under(master, DirectionKeys(suite, r.dir)) IN
  CASE suite.kind = "gcm"      -> OpenGcm(k, seq, r.type, r.body)
    [] suite.kind = "implicit" -> OpenImplicit(k, seq, r.type, r.body)
    [] suite.kind = "tls13"    -> Open13(k, seq, r.body)
    [] suite.kind = "cbc"      -> IF UseEncryptThenMAC THEN OpenCbcEtm(k, seq, r.type, r.body)
                                  ELSE OpenCbc(k, seq, r.type, r.body)

-----------------------------------------------------------------------------
RecordInit ==
  /\ suite = NoSuite /\ agreed = "unknown" /\ etmClient = FALSE /\ etmServer = FALSE /\ master = "none"
  /\ sendSeq = [d \in Dirs |-> 0] /\ recvSeq = [d \in Dirs |-> 0]
  /\ wire = NoRecord /\ last = NoRecord

Send(d, type, content) ==
  /\ suite # NoSuite /\ wire = NoRecord
  /\ sendSeq[d] < MaxRecords
  /\ \E body \in Sealed(Under("right", PeerKeys(suite, d)), sendSeq[d], type, content) :
       wire' = [is |-> "record", dir |-> d, type |-> type, content |-> content, seq |-> sendSeq[d],
                body |-> body, whole |-> TRUE]
  /\ sendSeq' = [sendSeq EXCEPT ![d] = @ + 1]
  /\ last' = NoRecord
  /\ UNCHANGED <<session, recvSeq>>

\* The capture lacks the record ...
Lose ==
  /\ wire # NoRecord
  /\ wire' = NoRecord
  /\ UNCHANGED <<session, sendSeq, recvSeq, last>>

\* ... or bytes around it, so that a part of it is taken for a record.
Misframe ==
  /\ wire # NoRecord /\ wire.whole
  /\ \E i, j \in 0..Len(wire.body) :
       /\ i <= j /\ j - i < Len(wire.body)
       /\ wire' = [wire EXCEPT !.body = SubSeq(@, i + 1, j), !.whole = FALSE]
  /\ UNCHANGED <<session, sendSeq, recvSeq, last>>

\* The counter moves whether the record opens or not.
Open ==
  /\ wire # NoRecord
  /\ \E result \in Results(wire, recvSeq[wire.dir]) :
       last' = [is |-> "done", record |-> [x \in DOMAIN wire \ {"body"} |-> wire[x]],
                counter |-> recvSeq[wire.dir], result |-> result]
  /\ recvSeq' = [recvSeq EXCEPT ![wire.dir] = @ + 1]
  /\ wire' = NoRecord
  /\ UNCHANGED <<session, sendSeq>>

RecordStep ==
  \/ \E d \in Dirs, type \in {"app", "handshake"}, values \in Contents : Send(d, type, Bytes(values))
  \/ Lose \/ Misframe \/ Open

-----------------------------------------------------------------------------
(* Properties *)

\* What TlsSession takes for granted of cryptography: a record opens exactly
\* when it is whole, the secret is the connection's and the counter stands
\* where the sender's stood, in every mode, whichever side declined or
\* accepted encrypt-then-MAC (deriveTLS12, decryptTLS12, useEncryptThenMAC).
\* All else is refused: no padding byte, whatever an undecipherable one
\* happens to be, makes a slice run out of its bounds (OpenTLS12CBCRecord).
OpensExactly ==
  last # NoRecord =>
    /\ last.result # Panic
    /\ last.result.is = "opened"
         <=> last.record.whole /\ master = "right" /\ last.counter = last.record.seq

\* What comes out is what the sender put in: IV, MAC and padding are gone and
\* nothing else, whatever bytes the content ends with and however long the
\* padding (OpenTLS12CBCRecord, OpenTLS12CBCRecordEtM, OpenTLS13Record).
ContentExact ==
  last # NoRecord /\ last.result.is = "opened" =>
    last.result.content = last.record.content /\ last.result.type = last.record.type
=============================================================================
