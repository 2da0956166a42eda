----------------------------- MODULE TlsSession -----------------------------
(***************************************************************************)
(* One TLS connection as the decryptor sees it (internal/tlssession): the   *)
(* record dispatcher, the handshake messages it reads in the clear, the     *)
(* attempt to resolve keys, and decryption with its per-direction sequence  *)
(* counters.                                                               *)
(*                                                                         *)
(* A record is what its sender put in it.  Cryptography is modelled by what *)
(* it guarantees: a record opens exactly when the derived keys are the      *)
(* connection's, the record was protected under the key the decryptor tries *)
(* and the sequence number it supplies is the one the sender used.          *)
(***************************************************************************)
EXTENDS Integers, Sequences

CONSTANTS
  Conns,      \* the connections that may have been captured; of a causal
              \* one a record is processed after all its sender had received
  KeyStores   \* the secrets the user may have supplied

Dirs == {"C", "S"}                 \* ClientToServer, ServerToClient
Peer(d) == IF d = "C" THEN "S" ELSE "C"

\* A record: its outer type, the key and sequence number it was protected
\* under, what is inside (numbered if it is application data), whether that is
\* a Finished, the handshake messages if it is in the clear, and how much of
\* the other direction its sender had received.
Records ==
  [type : {"hs", "ccs", "app", "alert"}, key : STRING, seq : Nat, inner : STRING, data : Nat,
   finished : BOOLEAN, msgs : Seq(STRING), after : Nat]

\* How a TLS sender numbers the records r of its direction.  The first keys of
\* a connection are used at one go and counted from 0; no application data
\* goes before them.
SenderCounts(r) ==
  \A i \in DOMAIN r :
    /\ r[i].key \in {"tls12", "ap"} =>
         /\ r[i].type # "ccs" /\ (r[i].key = "ap" => r[i].type = "app")
         /\ r[i].seq = 0 => \A j \in 1..(i - 1) : r[j].inner # "app"
         /\ r[i].seq > 0 => i > 1 /\ r[i - 1].key = r[i].key /\ r[i].seq = r[i - 1].seq + 1
    /\ r[i].inner = "app" =>
         /\ r[i].data > 0
         /\ \A j \in 1..(i - 1) : r[j].inner = "app" => r[j].data < r[i].data
         /\ r[i].data > 1 => \E j \in 1..(i - 1) : r[j].inner = "app" /\ r[j].data = r[i].data - 1

ASSUME ConnsAssumption ==
  \A c \in Conns : /\ c.version \in {2, 3, 4} /\ c.known \in BOOLEAN
                   /\ c.rec \in [Dirs -> Seq(Records)]
ASSUME SenderAssumption == \A c \in Conns : \A d \in Dirs : SenderCounts(c.rec[d])

VARIABLES
  conn, keys,        \* the connection and Session.keys: fixed from the start
  taken,             \* taken[d]: how many records of d were processed
  todo,              \* handshake messages drainCleartextHandshake still has to dispatch
  haveCH, haveSH,    \* clientRandom # nil, serverRandom # nil
  version,           \* Session.version: 0, or the low byte of 0x0302 .. 0x0304
  haveSuite,
  transcript,        \* the handshake messages seen in the clear
  cke,               \* pendingCKE: "nil", "sent" or "junk"
  hashAtCKE,         \* sessionHashAtCKE: the transcript it covers, or <<>> for nil
  resolved, unresolvable,
  keysFit,           \* what tls12/tls13 hold are the connection's keys
  phase,             \* dirState.phase
  seq,               \* dirState.seq
  surfaced           \* history: application data returned by Feed, per direction

hello == <<haveCH, haveSH, version, haveSuite, transcript, cke, hashAtCKE>>
outcome == <<resolved, unresolvable, keysFit>>
vars == <<conn, keys, taken, todo, hello, outcome, phase, seq, surfaced>>

Nothing == [dir |-> "C", msgs |-> <<>>]

Init ==
  /\ conn \in Conns /\ keys \in KeyStores
  /\ taken = [d \in Dirs |-> 0]
  /\ todo = Nothing
  /\ haveCH = FALSE /\ haveSH = FALSE /\ version = 0 /\ haveSuite = FALSE
  /\ transcript = <<>> /\ cke = "nil" /\ hashAtCKE = <<>>
  /\ resolved = FALSE /\ unresolvable = FALSE /\ keysFit = FALSE
  /\ phase = [d \in Dirs |-> "clear"]
  /\ seq = [d \in Dirs |-> 0]
  /\ surfaced = [d \in Dirs |-> <<>>]

-----------------------------------------------------------------------------
(* Key resolution *)

AlwaysPlain(hash) == ~conn.ems

\* masterSecretFrom: the extended master secret if both sides negotiated it
\* and the transcript hash was taken, the plain one otherwise.
\* (AlwaysPlain is its mutant without the extended one.)
MasterFits(hash) == IF conn.ems THEN hash = conn.handshake ELSE TRUE

\* tryResolveTLS12.  deriveTLS12 expands every key block with the TLS 1.2 PRF,
\* and PSKPremasterSecret stands zeros where (EC)DHE_PSK and RSA_PSK have a
\* second secret, so neither older versions nor those suites get their keys.
Resolve12(v, c, hash) ==
  CASE keys.line12                     -> [done |-> "resolved", fit |-> v = 3]
    [] ~keys.line12 /\ c = "nil"       -> [done |-> "wait", fit |-> FALSE]
    [] ~keys.line12 /\ c # "nil" ->
         IF c = "sent" /\ \/ conn.kex = "rsa" /\ keys.rsa
                          \/ conn.kex \in {"psk", "dhe_psk"} /\ keys.psk
         THEN [done |-> "resolved", fit |-> v = 3 /\ conn.kex # "dhe_psk" /\ MasterFits(hash)]
         ELSE [done |-> "unresolvable", fit |-> FALSE]

Resolve13Waits == [done |-> IF keys.secrets13 = "all" THEN "resolved" ELSE "wait",
                   fit |-> keys.secrets13 = "all"]

\* tryResolveTLS13: all four secrets, or never.
\* (Resolve13Waits is its mutant that gives a keylog entry time to appear.)
Resolve13 == IF keys.secrets13 = "all" THEN [done |-> "resolved", fit |-> TRUE]
             ELSE [done |-> "unresolvable", fit |-> FALSE]

\* Mutant of TryResolve: it does not look for an earlier verdict.
TryResolveAgain(ch, sh, v, suite, c, hash) ==
  LET r == IF v >= 4 THEN Resolve13 ELSE Resolve12(v, c, hash) IN
  IF ~suite \/ ~ch \/ ~sh
  THEN UNCHANGED outcome
  ELSE /\ resolved' = (r.done = "resolved")
       /\ unresolvable' = (r.done = "unresolvable")
       /\ keysFit' = r.fit

\* tryResolve, called with the fields as the message just dispatched left them.
TryResolve(ch, sh, v, suite, c, hash) ==
  LET r == IF v >= 4 THEN Resolve13 ELSE Resolve12(v, c, hash) IN
  IF resolved \/ unresolvable \/ ~suite \/ ~ch \/ ~sh
  THEN UNCHANGED outcome
  ELSE /\ resolved' = (r.done = "resolved")
       /\ unresolvable' = (r.done = "unresolvable")
       /\ keysFit' = r.fit

-----------------------------------------------------------------------------
(* Handshake messages in the clear: one round of drainCleartextHandshake *)

Message(m) ==
  /\ todo.msgs # <<>>
  /\ Head(todo.msgs) = m
  /\ todo' = IF Tail(todo.msgs) = <<>> THEN Nothing ELSE [todo EXCEPT !.msgs = Tail(@)]
  /\ transcript' = Append(transcript, m)
  /\ UNCHANGED <<conn, keys, taken, seq, surfaced>>

ClientHello ==
  /\ Message("CH")
  /\ haveCH' = TRUE
  /\ UNCHANGED <<haveSH, version, haveSuite, cke, hashAtCKE, outcome, phase>>

\* From a TLS 1.3 ServerHello on, both directions are encrypted.
ServerHello ==
  /\ Message("SH")
  /\ haveSH' = TRUE
  /\ version' = conn.version
  /\ haveSuite' = (haveSuite \/ conn.known)
  /\ phase' = IF version' >= 4 THEN [d \in Dirs |-> "hs13"] ELSE phase
  /\ TryResolve(haveCH, TRUE, version', haveSuite', cke, hashAtCKE)
  /\ UNCHANGED <<haveCH, cke, hashAtCKE>>

ClientKeyExchange ==
  \E body \in {"sent", "junk"} :
    /\ Message(IF body = "sent" THEN "CKE" ELSE "junkCKE")
    /\ cke' = body
    /\ hashAtCKE' = IF haveSuite THEN transcript' ELSE hashAtCKE
    /\ TryResolve(haveCH, haveSH, version, haveSuite, body, hashAtCKE')
    /\ UNCHANGED <<haveCH, haveSH, version, haveSuite, phase>>

OtherMessage ==
  /\ \E m \in {"Cert", "SHD", "junk"} : Message(m)
  /\ UNCHANGED <<haveCH, haveSH, version, haveSuite, cke, hashAtCKE, outcome, phase>>

-----------------------------------------------------------------------------
(* Records *)

\* Records of d processed so far and the next one; Feed hands processRecord
\* the records of one direction in order, one at a time.
NextRecord(d) == conn.rec[d][taken[d] + 1]

Record(d) ==
  /\ todo.msgs = <<>>
  /\ taken[d] < Len(conn.rec[d])
  /\ conn.causal => taken[Peer(d)] >= NextRecord(d).after
  /\ taken' = [taken EXCEPT ![d] = @ + 1]
  /\ UNCHANGED <<conn, keys, hello, outcome>>

\* Mutants: a ChangeCipherSpec that counts in any version, and a switch of
\* keys that does not restart the counter.
CcsAlwaysCounts == TRUE
NotRestarted(d) == seq

CcsCounts    == version \in {2, 3}
Restarted(d) == [seq EXCEPT ![d] = 0]

\* Meaningful once a version below TLS 1.3 is known, ignored otherwise.
ChangeCipherSpec(d) ==
  /\ Record(d)
  /\ NextRecord(d).type = "ccs"
  /\ IF CcsCounts
     THEN phase' = [phase EXCEPT ![d] = "enc12"] /\ seq' = Restarted(d)
     ELSE UNCHANGED <<phase, seq>>
  /\ UNCHANGED <<todo, surfaced>>

\* A handshake record in a direction still in the clear.  What is really
\* ciphertext there parses as no message, as some message, or as a key exchange.
ClearHandshake(d) ==
  LET r == NextRecord(d) IN
  /\ Record(d)
  /\ r.type = "hs" /\ phase[d] = "clear"
  /\ \E msgs \in IF r.key = "" THEN {r.msgs} ELSE {<<>>, <<"junk">>, <<"junkCKE">>} :
       todo' = IF msgs = <<>> THEN Nothing ELSE [dir |-> d, msgs |-> msgs]
  /\ UNCHANGED <<phase, seq, surfaced>>

\* Anything else in the clear, and encrypted records without keys: skipped,
\* without counting them.
SkipRecord(d) ==
  /\ Record(d)
  /\ NextRecord(d).type # "ccs"
  /\ IF phase[d] = "clear" THEN NextRecord(d).type # "hs" ELSE ~resolved
  /\ UNCHANGED <<todo, phase, seq, surfaced>>

Opens(d, key) == keysFit /\ NextRecord(d).key = key /\ NextRecord(d).seq = seq[d]

\* Mutant of Surface: the decryptor's error is not looked at.
SurfaceUnchecked(d, opened) ==
  surfaced' = IF NextRecord(d).inner = "app"
              THEN [surfaced EXCEPT ![d] = Append(@, NextRecord(d).data)]
              ELSE surfaced

Surface(d, opened) ==
  surfaced' = IF opened /\ NextRecord(d).inner = "app"
              THEN [surfaced EXCEPT ![d] = Append(@, NextRecord(d).data)]
              ELSE surfaced

\* decryptTLS12: the counter moves on whether the record opens or not.
Decrypt12(d) ==
  /\ Record(d)
  /\ NextRecord(d).type # "ccs" /\ phase[d] = "enc12" /\ resolved
  /\ seq' = [seq EXCEPT ![d] = @ + 1]
  /\ Surface(d, Opens(d, "tls12"))
  /\ UNCHANGED <<todo, phase>>

\* decryptTLS13: only application_data records count.
Decrypt13Other(d) ==
  /\ Record(d)
  /\ NextRecord(d).type \notin {"ccs", "app"} /\ phase[d] \in {"hs13", "app13"} /\ resolved
  /\ UNCHANGED <<todo, phase, seq, surfaced>>

\* Under the handshake key: look for Finished, which switches to the
\* application key and restarts the counter.
Decrypt13Handshake(d) ==
  /\ Record(d)
  /\ NextRecord(d).type = "app" /\ phase[d] = "hs13" /\ resolved
  /\ IF Opens(d, "hs") /\ NextRecord(d).finished
     THEN phase' = [phase EXCEPT ![d] = "app13"] /\ seq' = Restarted(d)
     ELSE phase' = phase /\ seq' = [seq EXCEPT ![d] = @ + 1]
  /\ UNCHANGED <<todo, surfaced>>

Decrypt13Application(d) ==
  /\ Record(d)
  /\ NextRecord(d).type = "app" /\ phase[d] = "app13" /\ resolved
  /\ seq' = [seq EXCEPT ![d] = @ + 1]
  /\ Surface(d, Opens(d, "ap"))
  /\ UNCHANGED <<todo, phase>>

\* Both streams are used up: the capture has ended.
Done ==
  /\ todo.msgs = <<>>
  /\ \A d \in Dirs : taken[d] = Len(conn.rec[d])
  /\ UNCHANGED vars

Next ==
  \/ ClientHello \/ ServerHello \/ ClientKeyExchange \/ OtherMessage
  \/ \E d \in Dirs :
       \/ ChangeCipherSpec(d) \/ ClearHandshake(d) \/ SkipRecord(d)
       \/ Decrypt12(d) \/ Decrypt13Other(d)
       \/ Decrypt13Handshake(d) \/ Decrypt13Application(d)
  \/ Done

Spec == Init /\ [][Next]_vars

\* The analysis reads the capture to its end, whatever it holds.
FairSpec == Spec /\ WF_vars(Next)

-----------------------------------------------------------------------------
(* Properties *)

\* The types of the variables, and the fields that only ever change together:
\* no verdict before both hellos, no encrypted phase of another version.
TypeOK ==
  /\ conn \in Conns /\ keys \in KeyStores
  /\ \A d \in Dirs : taken[d] \in 0..Len(conn.rec[d])
  /\ todo.dir \in Dirs
  /\ haveCH \in BOOLEAN /\ haveSH \in BOOLEAN /\ haveSuite \in BOOLEAN
  /\ version \in {0, 2, 3, 4}
  /\ cke \in {"nil", "sent", "junk"}
  /\ resolved \in BOOLEAN /\ unresolvable \in BOOLEAN /\ keysFit \in BOOLEAN
  /\ phase \in [Dirs -> {"clear", "enc12", "hs13", "app13"}]
  /\ seq \in [Dirs -> Nat]
  /\ ~(resolved /\ unresolvable)
  /\ resolved \/ unresolvable => haveCH /\ haveSH /\ haveSuite
  /\ \A d \in Dirs : /\ phase[d] = "enc12" => version \in {2, 3}
                     /\ phase[d] \in {"hs13", "app13"} => version = 4

\* The application records among the first n of direction d.
AppRecords(d, n) == {i \in 1..n : conn.rec[d][i].inner = "app"}

\* Whatever the order in which the two directions are processed, what Feed
\* returns for a direction is a gap-free prefix of the application data it
\* carries: no record is surfaced twice, out of turn, or after a lost one.
SurfacedIsPrefix ==
  \A d \in Dirs : surfaced[d] = [i \in 1..Len(surfaced[d]) |-> i]

\* The user supplied the secret this connection needs.
HaveSecret ==
  /\ conn.known
  /\ IF conn.version = 4 THEN keys.secrets13 = "all"
     ELSE \/ keys.line12
          \/ ~conn.resumed /\ conn.kex = "rsa" /\ keys.rsa
          \/ ~conn.resumed /\ conn.kex = "psk" /\ keys.psk

\* With the right secret, and packets in their true order, every application
\* record is surfaced the moment it is processed: resolution comes before the
\* first encrypted record and the counters never fall behind the sender's.
AllSurfaced ==
  conn.causal /\ HaveSecret =>
    \A d \in Dirs : \A i \in AppRecords(d, taken[d]) :
      \E j \in DOMAIN surfaced[d] : surfaced[d][j] = conn.rec[d][i].data

\* A session that calls itself resolved holds the connection's own keys, the
\* extended master secret included, if the two directions were processed in
\* their true order (masterSecretFrom, deriveTLS12).
ResolvedKeysFit == conn.causal /\ resolved => keysFit

\* "it no-ops once resolved (or once permanently marked unresolvable)"
\* (resolve.go:6): a verdict is never withdrawn and its keys never replaced.
VerdictIsFinal ==
  [][/\ unresolvable => unresolvable' /\ ~resolved'
     /\ resolved => resolved' /\ ~unresolvable' /\ keysFit' = keysFit]_vars

\* A handshake of a supported suite read to its end leaves a verdict; only a
\* resumed one, which has no key exchange to wait for, may leave none.
Settles == (conn.causal /\ conn.known /\ ~conn.resumed) ~> (resolved \/ unresolvable)
=============================================================================
