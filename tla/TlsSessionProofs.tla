------------------------- MODULE TlsSessionProofs -------------------------
(***************************************************************************)
(* Proofs about TlsSession, for every set of connections whose senders      *)
(* count their records as TLS prescribes, every set of key stores, and      *)
(* every order in which the two directions are processed.                   *)
(***************************************************************************)
EXTENDS TlsHandshakes, SequenceTheorems, TLAPS

\* What the captured connections may be.
ConnsOK ==
  /\ \A c \in Conns : /\ c.version \in {2, 3, 4} /\ c.known \in BOOLEAN
                      /\ c.rec \in [Dirs -> Seq(Records)]
  /\ \A c \in Conns : \A d \in Dirs : SenderCounts(c.rec[d])

\* The named assumptions of TlsSession, gathered.
LEMMA ConnsHold == ConnsOK
BY ConnsAssumption, SenderAssumption DEF ConnsOK

\* A step of the session: everything but the end of the capture.
MessageStep == ClientHello \/ ServerHello \/ ClientKeyExchange \/ OtherMessage
RecordStep(d) ==
  \/ ChangeCipherSpec(d) \/ ClearHandshake(d) \/ SkipRecord(d)
  \/ Decrypt12(d) \/ Decrypt13Other(d) \/ Decrypt13Handshake(d) \/ Decrypt13Application(d)

-----------------------------------------------------------------------------
(* Verdicts *)

Verdicts ==
  /\ resolved \in BOOLEAN /\ unresolvable \in BOOLEAN /\ keysFit \in BOOLEAN
  /\ ~(resolved /\ unresolvable)

\* What tryResolve makes of the verdict: nothing once there is one, and one
\* verdict at most (tryResolve, tryResolveTLS12, tryResolveTLS13).
LEMMA TryResolveOutcome ==
  ASSUME Verdicts, NEW ch, NEW sh, NEW v, NEW suite, NEW c, NEW hash,
         TryResolve(ch, sh, v, suite, c, hash)
  PROVE  /\ Verdicts'
         /\ resolved \/ unresolvable => UNCHANGED outcome
         /\ UNCHANGED outcome \/ (suite /\ ch /\ sh)
<1> DEFINE r == IF v >= 4 THEN Resolve13 ELSE Resolve12(v, c, hash)
<1>1. CASE UNCHANGED outcome
  BY <1>1 DEF outcome, Verdicts
<1>2. CASE ~UNCHANGED outcome
  <2>1. /\ ~resolved /\ ~unresolvable /\ suite /\ ch /\ sh
        /\ resolved' = (r.done = "resolved")
        /\ unresolvable' = (r.done = "unresolvable")
        /\ keysFit' = r.fit
    BY <1>2 DEF TryResolve
  <2>2. r.fit \in BOOLEAN
    <3>1. Resolve13.fit \in BOOLEAN
      BY DEF Resolve13
    <3>2. MasterFits(hash) \in BOOLEAN
      BY DEF MasterFits
    <3>3. Resolve12(v, c, hash).fit \in BOOLEAN
      BY <3>2 DEF Resolve12
    <3> QED BY <3>1, <3>3
  <2> HIDE DEF r
  <2> QED BY <2>1, <2>2 DEF Verdicts
<1> QED BY <1>1, <1>2

\* No step but one that ends in tryResolve touches the verdict.
LEMMA VerdictStep ==
  ASSUME Verdicts, [Next]_vars
  PROVE  /\ Verdicts'
         /\ resolved \/ unresolvable => UNCHANGED outcome
<1>1. CASE ClientHello \/ OtherMessage
  BY <1>1 DEF ClientHello, OtherMessage, outcome, Verdicts
<1>2. CASE ServerHello
  BY <1>2, TryResolveOutcome DEF ServerHello
<1>3. CASE ClientKeyExchange
  <2>1. PICK b \in {"sent", "junk"} :
          TryResolve(haveCH, haveSH, version, haveSuite, b, hashAtCKE')
    BY <1>3 DEF ClientKeyExchange
  <2> QED BY <2>1, TryResolveOutcome
<1>4. ASSUME NEW d \in Dirs, RecordStep(d) PROVE UNCHANGED outcome
  BY <1>4 DEF RecordStep, ChangeCipherSpec, ClearHandshake, SkipRecord, Decrypt12,
     Decrypt13Other, Decrypt13Handshake, Decrypt13Application, Record
<1>5. CASE Done \/ UNCHANGED vars
  BY <1>5 DEF Done, vars, outcome, Verdicts
<1>6. ASSUME NEW d \in Dirs, RecordStep(d) PROVE Verdicts' /\ UNCHANGED outcome
  BY <1>4, <1>6 DEF outcome, Verdicts
<1> QED BY <1>1, <1>2, <1>3, <1>5, <1>6 DEF Next, RecordStep

\* A verdict is never withdrawn and its keys are never replaced, whatever
\* messages and records follow (tryResolve, called from four places).
THEOREM VerdictStays == Spec => VerdictIsFinal
<1>1. Init => Verdicts
  BY DEF Init, Verdicts
<1>2. Verdicts /\ [Next]_vars => Verdicts'
  BY VerdictStep
<1>3. Verdicts /\ [Next]_vars =>
        [/\ unresolvable => unresolvable' /\ ~resolved'
         /\ resolved => resolved' /\ ~unresolvable' /\ keysFit' = keysFit]_vars
  BY VerdictStep DEF outcome, Verdicts
<1> QED BY <1>1, <1>2, <1>3, PTL DEF Spec, VerdictIsFinal

-----------------------------------------------------------------------------
(* Types *)

\* TypeOK and what keeps it: the counts are a function of the direction, and no
\* version but the connection's own is ever noted.
Typing == TypeOK /\ version \in {0, conn.version} /\ taken \in [Dirs -> Nat]

\* A session starts with its types.
LEMMA TypingInit == ASSUME ConnsOK, Init PROVE Typing
<1>1. \A d \in Dirs : taken[d] \in 0..Len(conn.rec[d])
  <2>1. \A d \in Dirs : conn.rec[d] \in Seq(Records)
    BY DEF ConnsOK, Init
  <2> QED BY <2>1 DEF Init
<1>2. todo.dir \in Dirs
  BY DEF Init, Nothing, Dirs
<1> QED BY <1>1, <1>2 DEF Init, Typing, TypeOK

\* A handshake message keeps them.
LEMMA TypingMessage ==
  ASSUME ConnsOK, Typing, MessageStep
  PROVE  Typing'
<1>1. conn' = conn /\ keys' = keys /\ taken' = taken /\ seq' = seq
  BY DEF MessageStep, ClientHello, ServerHello, ClientKeyExchange, OtherMessage, Message
<1>2. todo'.dir \in Dirs
  <2>1. todo' = Nothing \/ todo' = [todo EXCEPT !.msgs = Tail(@)]
    BY DEF MessageStep, ClientHello, ServerHello, ClientKeyExchange, OtherMessage, Message
  <2>2. Nothing.dir \in Dirs
    BY DEF Nothing, Dirs
  <2>3. [todo EXCEPT !.msgs = Tail(@)].dir \in Dirs
    BY DEF Typing, TypeOK
  <2> QED BY <2>1, <2>2, <2>3
<1>3. Verdicts'
  <2>1. Verdicts
    BY DEF Typing, TypeOK, Verdicts
  <2> QED BY <2>1, VerdictStep DEF MessageStep, Next
<1>4. conn.version \in {2, 3, 4} /\ conn.known \in BOOLEAN
  BY DEF ConnsOK, Typing, TypeOK
<1>5. CASE ClientHello \/ OtherMessage
  BY <1>1, <1>2, <1>3, <1>5 DEF ClientHello, OtherMessage, Typing, TypeOK, Verdicts, outcome
<1>6. CASE ServerHello
  <2>1. /\ haveCH' = haveCH /\ haveSH' = TRUE /\ haveSuite' \in BOOLEAN /\ version' = conn.version
        /\ haveSuite => haveSuite'
        /\ cke' = cke
    BY <1>4, <1>6 DEF ServerHello, Typing, TypeOK
  <2>2. /\ phase' \in [Dirs -> {"clear", "enc12", "hs13", "app13"}]
        /\ \A d \in Dirs : /\ phase'[d] = "enc12" => version' \in {2, 3}
                           /\ phase'[d] \in {"hs13", "app13"} => version' = 4
    <3>1. CASE conn.version = 4
      BY <1>6, <2>1, <3>1 DEF ServerHello
    <3>2. CASE conn.version \in {2, 3}
      <4>1. phase' = phase
        BY <1>6, <2>1, <3>2 DEF ServerHello
      <4> QED BY <2>1, <3>2, <4>1 DEF Typing, TypeOK
    <3> QED BY <1>4, <3>1, <3>2
  <2>3. resolved' \/ unresolvable' => haveCH' /\ haveSH' /\ haveSuite'
    <3>1. Verdicts
      BY DEF Typing, TypeOK, Verdicts
    <3>2. UNCHANGED outcome \/ (haveSuite' /\ haveCH)
      <4>1. TryResolve(haveCH, TRUE, version', haveSuite', cke, hashAtCKE)
        BY <1>6 DEF ServerHello
      <4> QED BY <4>1 DEF TryResolve
    <3> QED BY <2>1, <3>2 DEF outcome, Typing, TypeOK
  <2> QED BY <1>1, <1>2, <1>3, <1>4, <2>1, <2>2, <2>3 DEF Typing, TypeOK, Verdicts
<1>7. CASE ClientKeyExchange
  <2>1. PICK b \in {"sent", "junk"} :
          /\ cke' = b
          /\ TryResolve(haveCH, haveSH, version, haveSuite, b, hashAtCKE')
          /\ UNCHANGED <<haveCH, haveSH, version, haveSuite, phase>>
    BY <1>7 DEF ClientKeyExchange
  <2>2. resolved' \/ unresolvable' => haveCH' /\ haveSH' /\ haveSuite'
    <3>1. Verdicts
      BY DEF Typing, TypeOK, Verdicts
    <3>2. UNCHANGED outcome \/ (haveSuite /\ haveCH /\ haveSH)
      BY <2>1, <3>1, TryResolveOutcome
    <3> QED BY <2>1, <3>2 DEF outcome, Typing, TypeOK
  <2> QED BY <1>1, <1>2, <1>3, <2>1, <2>2 DEF Typing, TypeOK, Verdicts
<1> QED BY <1>5, <1>6, <1>7 DEF MessageStep

\* A record keeps them.
LEMMA TypingRecord ==
  ASSUME ConnsOK, Typing, NEW d \in Dirs, RecordStep(d)
  PROVE  Typing'
<1>1. /\ conn' = conn /\ keys' = keys
      /\ UNCHANGED <<haveCH, haveSH, version, haveSuite, cke, resolved, unresolvable, keysFit>>
      /\ taken[d] < Len(conn.rec[d])
      /\ taken' = [taken EXCEPT ![d] = @ + 1]
  BY DEF RecordStep, ChangeCipherSpec, ClearHandshake, SkipRecord, Decrypt12, Decrypt13Other,
     Decrypt13Handshake, Decrypt13Application, Record, hello, outcome
<1>2. \A e \in Dirs : taken'[e] \in 0..Len(conn.rec[e])
  <2>1. \A e \in Dirs : Len(conn.rec[e]) \in Nat
    BY DEF ConnsOK, Typing, TypeOK
  <2>2. \A e \in Dirs : taken'[e] = IF e = d THEN taken[d] + 1 ELSE taken[e]
    BY <1>1 DEF Typing
  <2> QED BY <1>1, <2>1, <2>2 DEF Typing, TypeOK
<1>3. todo'.dir \in Dirs
  <2>1. todo' = todo \/ todo' = Nothing \/ \E msgs : todo' = [dir |-> d, msgs |-> msgs]
    BY DEF RecordStep, ChangeCipherSpec, ClearHandshake, SkipRecord, Decrypt12, Decrypt13Other,
       Decrypt13Handshake, Decrypt13Application
  <2>2. Nothing.dir \in Dirs
    BY DEF Nothing, Dirs
  <2> QED BY <2>1, <2>2 DEF Typing, TypeOK
<1>4. /\ phase' \in [Dirs -> {"clear", "enc12", "hs13", "app13"}] /\ seq' \in [Dirs -> Nat]
      /\ \A e \in Dirs : /\ phase'[e] = "enc12" => version \in {2, 3}
                         /\ phase'[e] \in {"hs13", "app13"} => version = 4
  <2>1. CASE ChangeCipherSpec(d)
    <3>1. CASE CcsCounts
      <4>1. phase' = [phase EXCEPT ![d] = "enc12"] /\ seq' = [seq EXCEPT ![d] = 0] /\ version \in {2, 3}
        BY <2>1, <3>1 DEF ChangeCipherSpec, Restarted, CcsCounts
      <4> QED BY <4>1 DEF Typing, TypeOK
    <3>2. CASE ~CcsCounts
      BY <2>1, <3>2 DEF ChangeCipherSpec, Typing, TypeOK
    <3> QED BY <3>1, <3>2
  <2>2. CASE ClearHandshake(d) \/ SkipRecord(d) \/ Decrypt13Other(d)
    BY <2>2 DEF ClearHandshake, SkipRecord, Decrypt13Other, Typing, TypeOK
  <2>3. CASE Decrypt12(d) \/ Decrypt13Application(d)
    BY <2>3 DEF Decrypt12, Decrypt13Application, Typing, TypeOK
  <2>4. CASE Decrypt13Handshake(d)
    <3>1. \/ phase' = [phase EXCEPT ![d] = "app13"] /\ seq' = [seq EXCEPT ![d] = 0]
          \/ phase' = phase /\ seq' = [seq EXCEPT ![d] = @ + 1]
      BY <2>4 DEF Decrypt13Handshake, Restarted
    <3>2. version = 4
      BY <2>4 DEF Decrypt13Handshake, Typing, TypeOK
    <3>3. phase' \in [Dirs -> {"clear", "enc12", "hs13", "app13"}] /\ seq' \in [Dirs -> Nat]
      BY <3>1 DEF Typing, TypeOK
    <3>4. \A e \in Dirs : phase'[e] = "app13" \/ phase'[e] = phase[e]
      BY <3>1 DEF Typing, TypeOK
    <3> QED BY <3>2, <3>3, <3>4 DEF Typing, TypeOK
  <2> QED BY <2>1, <2>2, <2>3, <2>4 DEF RecordStep
<1>5. taken' \in [Dirs -> Nat]
  BY <1>1 DEF Typing
<1> QED BY <1>1, <1>2, <1>3, <1>4, <1>5 DEF Typing, TypeOK

\* Every step keeps them.
LEMMA TypingNext == ASSUME ConnsOK, Typing, [Next]_vars PROVE Typing'
<1>1. CASE Done \/ UNCHANGED vars
  BY <1>1 DEF Done, vars, hello, outcome, Typing, TypeOK
<1>2. [Next]_vars => Done \/ UNCHANGED vars \/ MessageStep \/ \E d \in Dirs : RecordStep(d)
  BY DEF Next, MessageStep, RecordStep
<1> QED BY <1>1, <1>2, TypingMessage, TypingRecord

\* The variables keep their types; no verdict comes before both hellos, and no
\* direction is in a phase of another version (processRecord, tryResolve).
THEOREM SessionTyped == Spec => []TypeOK
<1>1. Init => Typing
  BY ConnsHold, TypingInit
<1>2. Typing /\ [Next]_vars => Typing'
  BY ConnsHold, TypingNext
<1>3. Typing => TypeOK
  BY DEF Typing
<1> QED BY <1>1, <1>2, <1>3, PTL DEF Spec

-----------------------------------------------------------------------------
(* What is surfaced *)

\* The key under which a direction in phase ph surfaces application data.
DataKey(ph) == CASE ph = "enc12" -> "tls12" [] ph = "app13" -> "ap" [] OTHER -> "none"

Opened(d) == phase[d] \in {"enc12", "app13"}

\* The application data of d are numbered up to n at least, n of them surfaced.
UpTo(d, n) ==
  /\ surfaced[d] = [i \in 1..n |-> i]
  /\ n = 0 \/ \E i \in 1..taken[d] : conn.rec[d][i].inner = "app" /\ conn.rec[d][i].data = n

\* The last record processed was protected under the key in use, and the counter
\* is where its sender's is.
InStep(d) ==
  /\ Opened(d) /\ keysFit /\ taken[d] > 0
  /\ conn.rec[d][taken[d]].key = DataKey(phase[d])
  /\ seq[d] = conn.rec[d][taken[d]].seq + 1

\* Everything up to n was surfaced, and while the counters are in step that is
\* all there was; the counter moves only once there is a verdict.
Surfaces(d, n) ==
  /\ UpTo(d, n)
  /\ InStep(d) => \A i \in 1..taken[d] : conn.rec[d][i].inner = "app" => conn.rec[d][i].data <= n

Counting(d) ==
  /\ Opened(d) /\ seq[d] > 0 => resolved
  /\ phase[d] = "app13" => resolved

Surfacing == \A d \in Dirs : Counting(d) /\ \E n \in Nat : Surfaces(d, n)

\* Nothing is surfaced at the start.
LEMMA SurfacingInit == ASSUME Init PROVE Surfacing
<1> SUFFICES ASSUME NEW d \in Dirs
             PROVE  UpTo(d, 0) /\ ~Opened(d) /\ phase[d] # "app13"
  BY DEF Surfacing, Surfaces, Counting, InStep
<1> QED BY DEF Init, UpTo, Opened

\* The record processed next, its sender's count and what came before it.
LEMMA NextCounted ==
  ASSUME ConnsOK, Typing, NEW d \in Dirs, taken[d] < Len(conn.rec[d])
  PROVE  LET r == conn.rec[d]
             t == taken[d]
         IN  /\ t \in Nat /\ t + 1 \in DOMAIN r
             /\ r[t + 1].seq \in Nat /\ r[t + 1].data \in Nat
             /\ t > 0 => r[t].seq \in Nat
             /\ \A i \in 1..(t + 1) : r[i].data \in Nat
             /\ r[t + 1].key \in {"tls12", "ap"} =>
                  /\ r[t + 1].type # "ccs" /\ (r[t + 1].key = "ap" => r[t + 1].type = "app")
                  /\ r[t + 1].seq = 0 => \A j \in 1..t : r[j].inner # "app"
                  /\ r[t + 1].seq > 0 => t > 0 /\ r[t].key = r[t + 1].key /\ r[t + 1].seq = r[t].seq + 1
             /\ r[t + 1].inner = "app" =>
                  /\ r[t + 1].data > 0
                  /\ \A j \in 1..t : r[j].inner = "app" => r[j].data < r[t + 1].data
                  /\ r[t + 1].data > 1 => \E j \in 1..t : r[j].inner = "app" /\ r[j].data = r[t + 1].data - 1
<1> DEFINE r == conn.rec[d]
           t == taken[d]
<1>1. r \in Seq(Records) /\ SenderCounts(r) /\ t \in 0..Len(r)
  BY DEF ConnsOK, Typing, TypeOK
<1>2. t \in Nat /\ t + 1 \in DOMAIN r /\ Len(r) \in Nat /\ \A i \in 1..(t + 1) : i \in DOMAIN r
  BY <1>1
<1>3. \A i \in DOMAIN r : r[i] \in Records
  BY <1>1
<1>4. \A i \in DOMAIN r : r[i].seq \in Nat /\ r[i].data \in Nat
  BY <1>3 DEF Records
<1>5. (t + 1) - 1 = t
  BY <1>2
<1> HIDE DEF r, t
<1>6. /\ r[t + 1].key \in {"tls12", "ap"} =>
           /\ r[t + 1].type # "ccs" /\ (r[t + 1].key = "ap" => r[t + 1].type = "app")
           /\ r[t + 1].seq = 0 => \A j \in 1..t : r[j].inner # "app"
           /\ r[t + 1].seq > 0 => t + 1 > 1 /\ r[t].key = r[t + 1].key /\ r[t + 1].seq = r[t].seq + 1
      /\ r[t + 1].inner = "app" =>
           /\ r[t + 1].data > 0
           /\ \A j \in 1..t : r[j].inner = "app" => r[j].data < r[t + 1].data
           /\ r[t + 1].data > 1 => \E j \in 1..t : r[j].inner = "app" /\ r[j].data = r[t + 1].data - 1
  BY <1>1, <1>2, <1>5 DEF SenderCounts
<1>7. t > 0 => t \in DOMAIN r
  BY <1>2
<1>8. t + 1 > 1 => t > 0
  BY <1>2
<1> QED BY <1>2, <1>4, <1>6, <1>7, <1>8 DEF r, t

\* A step that processes no record of d and leaves its counter and what it has
\* surfaced alone keeps its part of the invariant.
LEMMA SurfacingKept ==
  ASSUME ConnsOK, Typing, Surfacing, Verdicts, [Next]_vars,
         NEW d \in Dirs, conn' = conn, taken'[d] = taken[d], seq'[d] = seq[d],
         surfaced'[d] = surfaced[d], phase'[d] = phase[d] \/ phase'[d] = "hs13"
  PROVE  Counting(d)' /\ \E n \in Nat : Surfaces(d, n)'
<1>1. PICK n \in Nat : Surfaces(d, n)
  BY DEF Surfacing
<1>2. resolved => resolved' /\ keysFit' = keysFit
  BY VerdictStep DEF outcome
<1>3. UpTo(d, n)'
  BY <1>1 DEF UpTo, Surfaces
<1>4. Opened(d)' => phase'[d] = phase[d] /\ Opened(d)
  BY DEF Opened
<1>5. Counting(d)
  BY DEF Surfacing
<1>6. Counting(d)'
  BY <1>2, <1>4, <1>5 DEF Counting, Opened
<1>7. ASSUME InStep(d)' PROVE InStep(d)
  <2>1. taken[d] \in DOMAIN conn.rec[d] /\ conn.rec[d] \in Seq(Records)
    BY <1>7 DEF InStep, ConnsOK, Typing, TypeOK
  <2>2. conn.rec[d][taken[d]] \in Records
    BY <2>1
  <2>3. conn.rec[d][taken[d]].seq \in Nat
    BY <2>2 DEF Records
  <2>4. seq[d] > 0
    BY <1>7, <2>3 DEF InStep
  <2> QED BY <1>2, <1>4, <1>5, <1>7, <2>4 DEF InStep, Counting
<1>8. Surfaces(d, n)'
  BY <1>1, <1>3, <1>7 DEF Surfaces
<1> QED BY <1>6, <1>8

\* Counting one more number.
LEMMA OneMore ==
  ASSUME NEW n \in Nat
  PROVE  Append([i \in 1..n |-> i], n + 1) = [i \in 1..(n + 1) |-> i]
<1> DEFINE s == [i \in 1..n |-> i]
           u == [i \in 1..(n + 1) |-> i]
<1>1. s \in Seq(Nat) /\ Len(s) = n /\ u \in Seq(Nat) /\ Len(u) = n + 1
  OBVIOUS
<1>2. /\ Append(s, n + 1) \in Seq(Nat) /\ Len(Append(s, n + 1)) = n + 1
      /\ \A i \in 1..n : Append(s, n + 1)[i] = s[i]
      /\ Append(s, n + 1)[n + 1] = n + 1
  BY <1>1, AppendProperties
<1>3. \A i \in 1..(n + 1) : Append(s, n + 1)[i] = u[i]
  BY <1>2
<1> QED BY <1>1, <1>2, <1>3, SeqEqual

\* The next record is data, everything before it was surfaced: its number is
\* the next one.
LEMMA NextNumber ==
  ASSUME ConnsOK, Typing, NEW d \in Dirs, taken[d] < Len(conn.rec[d]),
         NEW n \in Nat, UpTo(d, n), NextRecord(d).inner = "app",
         \A i \in 1..taken[d] : conn.rec[d][i].inner = "app" => conn.rec[d][i].data <= n
  PROVE  NextRecord(d).data = n + 1
<1> DEFINE r == conn.rec[d]
           t == taken[d]
<1>1. /\ t \in Nat /\ r[t + 1].inner = "app" /\ r[t + 1].data \in Nat /\ r[t + 1].data > 0
      /\ \A i \in 1..(t + 1) : r[i].data \in Nat
      /\ \A j \in 1..t : r[j].inner = "app" => r[j].data < r[t + 1].data
      /\ r[t + 1].data > 1 => \E j \in 1..t : r[j].inner = "app" /\ r[j].data = r[t + 1].data - 1
  BY NextCounted DEF NextRecord
<1>2. n = 0 \/ \E i \in 1..t : r[i].inner = "app" /\ r[i].data = n
  BY DEF UpTo
<1>3. \A i \in 1..t : r[i].inner = "app" => r[i].data <= n
  OBVIOUS
<1> HIDE DEF r, t
<1>4. n < r[t + 1].data
  BY <1>1, <1>2
<1>5. r[t + 1].data - 1 <= n
  <2>1. CASE r[t + 1].data > 1
    BY <1>1, <1>3, <2>1
  <2>2. CASE ~(r[t + 1].data > 1)
    BY <1>1, <2>2
  <2> QED BY <2>1, <2>2
<1> QED BY <1>1, <1>4, <1>5 DEF NextRecord, r, t

\* A record processed under the key its direction surfaces data with
\* (decryptTLS12, decryptTLS13 in application phase).
LEMMA SurfacingDecrypts ==
  ASSUME ConnsOK, Typing, Surfacing, NEW d \in Dirs, Record(d), resolved, Opened(d),
         Surface(d, Opens(d, DataKey(phase[d]))),
         seq' = [seq EXCEPT ![d] = @ + 1], phase' = phase, surfaced \in [Dirs -> Seq(Nat)]
  PROVE  Counting(d)' /\ \E n \in Nat : Surfaces(d, n)'
<1> DEFINE r == conn.rec[d]
           t == taken[d]
           key == DataKey(phase[d])
<1>1. /\ conn' = conn /\ resolved' = resolved /\ keysFit' = keysFit
      /\ t \in Nat /\ t < Len(r) /\ taken'[d] = t + 1
      /\ seq[d] \in Nat /\ seq'[d] = seq[d] + 1
  BY DEF Record, outcome, Typing, TypeOK
<1>2. PICK n \in Nat : Surfaces(d, n)
  BY DEF Surfacing
<1>3. key \in {"tls12", "ap"}
  BY DEF Opened, DataKey
<1>4. Counting(d)'
  BY <1>1 DEF Counting
<1>5. InStep(d)' <=> Opens(d, key)
  <2>1. r[t + 1].seq \in Nat /\ t + 1 > 0
    BY <1>1, NextCounted
  <2>2. Opened(d)' /\ phase'[d] = phase[d]
    BY DEF Opened
  <2>3. InStep(d)' <=> keysFit /\ r[t + 1].key = key /\ seq[d] + 1 = r[t + 1].seq + 1
    BY <1>1, <2>1, <2>2 DEF InStep
  <2>4. \A a, b \in Nat : a + 1 = b + 1 <=> b = a
    OBVIOUS
  <2>5. Opens(d, key) <=> keysFit /\ r[t + 1].key = key /\ r[t + 1].seq = seq[d]
    BY DEF Opens, NextRecord
  <2> HIDE DEF r, t, key
  <2> QED BY <1>1, <2>1, <2>3, <2>4, <2>5
<1>6. CASE ~Opens(d, key)
  <2>1. surfaced' = surfaced
    BY <1>6 DEF Surface
  <2>2. UpTo(d, n)'
    BY <1>1, <1>2, <2>1 DEF Surfaces, UpTo
  <2> QED BY <1>4, <1>5, <1>6, <2>2 DEF Surfaces
<1>7. CASE Opens(d, key)
  <2>1. \A i \in 1..t : r[i].inner = "app" => r[i].data <= n
    <3>1. keysFit /\ r[t + 1].key = key /\ r[t + 1].seq = seq[d]
      BY <1>7 DEF Opens, NextRecord
    <3>2. CASE seq[d] = 0
      BY <1>1, <1>3, <3>1, <3>2, NextCounted
    <3>3. CASE seq[d] > 0
      <4>1. t > 0 /\ r[t].key = key /\ seq[d] = r[t].seq + 1
        BY <1>1, <1>3, <3>1, <3>3, NextCounted
      <4>2. InStep(d)
        BY <3>1, <4>1 DEF InStep
      <4> QED BY <1>2, <4>2 DEF Surfaces
    <3> QED BY <1>1, <3>2, <3>3
  <2>2. CASE r[t + 1].inner # "app"
    <3>1. surfaced' = surfaced
      BY <2>2 DEF Surface, NextRecord
    <3>2. UpTo(d, n)'
      BY <1>1, <1>2, <3>1 DEF Surfaces, UpTo
    <3>3. \A i \in 1..(t + 1) : r[i].inner = "app" => r[i].data <= n
      BY <1>1, <2>1, <2>2
    <3> QED BY <1>1, <1>4, <3>2, <3>3 DEF Surfaces
  <2>3. CASE r[t + 1].inner = "app"
    <3>1. r[t + 1].data = n + 1
      BY <1>1, <1>2, <2>1, <2>3, NextNumber DEF NextRecord, Surfaces
    <3>2. surfaced'[d] = Append(surfaced[d], n + 1)
      BY <1>7, <2>3, <3>1 DEF Surface, NextRecord
    <3>3. surfaced'[d] = [i \in 1..(n + 1) |-> i]
      BY <1>2, <3>2, OneMore DEF Surfaces, UpTo
    <3>4. UpTo(d, n + 1)'
      <4>1. t + 1 \in 1..(t + 1)
        BY <1>1
      <4> QED BY <1>1, <2>3, <3>1, <3>3, <4>1 DEF UpTo
    <3>5. \A i \in 1..t : r[i].data \in Nat
      BY <1>1, NextCounted
    <3>6. \A i \in 1..(t + 1) : r[i].inner = "app" => r[i].data <= n + 1
      <4>1. ASSUME NEW i \in 1..(t + 1), r[i].inner = "app" PROVE r[i].data <= n + 1
        <5>1. CASE i \in 1..t
          BY <2>1, <3>5, <4>1, <5>1
        <5>2. CASE i = t + 1
          BY <3>1, <5>2
        <5> QED BY <1>1, <5>1, <5>2
      <4> QED BY <4>1
    <3>7. Surfaces(d, n + 1)'
      BY <1>1, <3>4, <3>6 DEF Surfaces
    <3>8. n + 1 \in Nat
      OBVIOUS
    <3> QED BY <1>4, <3>7, <3>8
  <2> QED BY <2>2, <2>3
<1> QED BY <1>6, <1>7

\* Any other record surfaces nothing, and leaves the counters out of step or
\* the direction without keys.
LEMMA SurfacingOther ==
  ASSUME ConnsOK, Typing, Surfacing, NEW d \in Dirs,
         \/ ChangeCipherSpec(d) \/ ClearHandshake(d) \/ SkipRecord(d)
         \/ Decrypt13Other(d) \/ Decrypt13Handshake(d)
  PROVE  Counting(d)' /\ \E n \in Nat : Surfaces(d, n)'
<1> DEFINE r == conn.rec[d]
           t == taken[d]
<1>1. /\ conn' = conn /\ resolved' = resolved /\ keysFit' = keysFit /\ surfaced' = surfaced
      /\ t \in Nat /\ t < Len(r) /\ taken'[d] = t + 1
      /\ seq[d] \in Nat
  BY DEF ChangeCipherSpec, ClearHandshake, SkipRecord, Decrypt13Other, Decrypt13Handshake,
     Record, outcome, Typing, TypeOK
<1>2. PICK n \in Nat : Surfaces(d, n)
  BY DEF Surfacing
<1>3. UpTo(d, n)'
  BY <1>1, <1>2 DEF Surfaces, UpTo
<1>4. /\ r[t + 1].seq \in Nat
      /\ r[t + 1].key \in {"tls12", "ap"} =>
           r[t + 1].type # "ccs" /\ (r[t + 1].key = "ap" => r[t + 1].type = "app")
  BY <1>1, NextCounted
<1>5. InStep(d)' => /\ Opened(d)' /\ r[t + 1].key = DataKey(phase'[d])
                    /\ seq'[d] = r[t + 1].seq + 1
  BY <1>1 DEF InStep
<1>6. Opened(d)' => DataKey(phase'[d]) \in {"tls12", "ap"} /\ (phase'[d] = "app13" => DataKey(phase'[d]) = "ap")
  BY DEF Opened, DataKey
<1>7. Counting(d)
  BY DEF Surfacing
<1>8. phase \in [Dirs -> {"clear", "enc12", "hs13", "app13"}] /\ seq \in [Dirs -> Nat]
  BY DEF Typing, TypeOK
<1>9. Counting(d)' /\ ~InStep(d)'
  <2>1. CASE ChangeCipherSpec(d)
    <3>1. r[t + 1].type = "ccs"
      BY <2>1 DEF ChangeCipherSpec, NextRecord
    <3>2. ~InStep(d)'
      BY <1>4, <1>5, <1>6, <3>1
    <3>3. \/ phase' = phase /\ seq' = seq
          \/ phase'[d] = "enc12" /\ seq'[d] = 0
      BY <1>8, <2>1 DEF ChangeCipherSpec, Restarted
    <3> QED BY <1>1, <1>7, <3>2, <3>3 DEF Counting, Opened
  <2>2. CASE ClearHandshake(d)
    <3>1. phase'[d] = "clear"
      BY <2>2 DEF ClearHandshake
    <3> QED BY <1>5, <3>1 DEF Opened, Counting
  <2>3. CASE SkipRecord(d)
    <3>1. phase' = phase /\ seq' = seq /\ (phase[d] = "clear" \/ ~resolved)
      BY <2>3 DEF SkipRecord
    <3>2. Counting(d)'
      BY <1>1, <1>7, <3>1 DEF Counting, Opened
    <3>3. Opened(d)' => seq'[d] = 0
      BY <1>1, <1>7, <3>1 DEF Counting, Opened
    <3> QED BY <1>4, <1>5, <3>2, <3>3
  <2>4. CASE Decrypt13Other(d)
    <3>1. phase' = phase /\ seq' = seq /\ phase[d] \in {"hs13", "app13"} /\ r[t + 1].type # "app"
      BY <2>4 DEF Decrypt13Other, NextRecord
    <3>2. Counting(d)'
      BY <1>1, <1>7, <3>1 DEF Counting, Opened
    <3>3. Opened(d)' => phase'[d] = "app13"
      BY <3>1 DEF Opened
    <3> QED BY <1>4, <1>5, <1>6, <3>1, <3>2, <3>3
  <2>5. CASE Decrypt13Handshake(d)
    <3>1. resolved /\ \/ phase'[d] = "app13" /\ seq'[d] = 0
                      \/ phase'[d] = "hs13"
      BY <1>8, <2>5 DEF Decrypt13Handshake, Restarted
    <3>2. Counting(d)'
      BY <1>1, <3>1 DEF Counting
    <3>3. Opened(d)' => seq'[d] = 0
      BY <3>1 DEF Opened
    <3> QED BY <1>4, <1>5, <3>2, <3>3
  <2> QED BY <2>1, <2>2, <2>3, <2>4, <2>5
<1>10. Surfaces(d, n)'
  BY <1>3, <1>9 DEF Surfaces
<1> QED BY <1>9, <1>10

\* Every step keeps the invariant.
LEMMA SurfacingNext ==
  ASSUME ConnsOK, Typing, Surfacing, surfaced \in [Dirs -> Seq(Nat)], [Next]_vars
  PROVE  Surfacing' /\ surfaced' \in [Dirs -> Seq(Nat)]
<1>1. Verdicts
  BY DEF Typing, TypeOK, Verdicts
<1>2. CASE MessageStep \/ Done \/ UNCHANGED vars
  <2>1. conn' = conn /\ taken' = taken /\ seq' = seq /\ surfaced' = surfaced
    BY <1>2 DEF MessageStep, ClientHello, ServerHello, ClientKeyExchange, OtherMessage, Message,
       Done, vars
  <2>2. \A d \in Dirs : phase'[d] = phase[d] \/ phase'[d] = "hs13"
    BY <1>2 DEF MessageStep, ClientHello, ServerHello, ClientKeyExchange, OtherMessage, Done, vars
  <2>3. Surfacing'
    <3> SUFFICES ASSUME NEW d \in Dirs
                 PROVE  Counting(d)' /\ \E n \in Nat : Surfaces(d, n)'
      BY DEF Surfacing
    <3> QED BY <1>1, <2>1, <2>2, SurfacingKept
  <2> QED BY <2>1, <2>3
<1>3. ASSUME NEW e \in Dirs, RecordStep(e)
      PROVE  Surfacing' /\ surfaced' \in [Dirs -> Seq(Nat)]
  <2>1. /\ conn' = conn /\ taken' = [taken EXCEPT ![e] = @ + 1]
        /\ phase' = phase \/ \E ph \in {"enc12", "app13"} : phase' = [phase EXCEPT ![e] = ph]
        /\ seq' = seq \/ \E n \in Int : seq' = [seq EXCEPT ![e] = n]
        /\ surfaced' = surfaced
             \/ surfaced' = [surfaced EXCEPT ![e] = Append(@, NextRecord(e).data)]
    <3>1. conn' = conn /\ taken' = [taken EXCEPT ![e] = @ + 1]
      BY <1>3 DEF RecordStep, ChangeCipherSpec, ClearHandshake, SkipRecord, Decrypt12,
         Decrypt13Other, Decrypt13Handshake, Decrypt13Application, Record
    <3>2. phase' = phase \/ \E ph \in {"enc12", "app13"} : phase' = [phase EXCEPT ![e] = ph]
      BY <1>3 DEF RecordStep, ChangeCipherSpec, ClearHandshake, SkipRecord, Decrypt12,
         Decrypt13Other, Decrypt13Handshake, Decrypt13Application
    <3>3. seq' = seq \/ seq' = [seq EXCEPT ![e] = 0] \/ seq' = [seq EXCEPT ![e] = seq[e] + 1]
      BY <1>3 DEF RecordStep, ChangeCipherSpec, ClearHandshake, SkipRecord, Decrypt12,
         Decrypt13Other, Decrypt13Handshake, Decrypt13Application, Restarted
    <3>4. seq[e] + 1 \in Int
      BY DEF Typing, TypeOK
    <3>5. surfaced' = surfaced
            \/ surfaced' = [surfaced EXCEPT ![e] = Append(@, NextRecord(e).data)]
      BY <1>3 DEF RecordStep, ChangeCipherSpec, ClearHandshake, SkipRecord, Decrypt12,
         Decrypt13Other, Decrypt13Handshake, Decrypt13Application, Surface
    <3> QED BY <3>1, <3>2, <3>3, <3>4, <3>5
  <2>2. NextRecord(e).data \in Nat
    <3>1. taken[e] < Len(conn.rec[e])
      BY <1>3 DEF RecordStep, ChangeCipherSpec, ClearHandshake, SkipRecord, Decrypt12,
         Decrypt13Other, Decrypt13Handshake, Decrypt13Application, Record
    <3> QED BY <3>1, NextCounted DEF NextRecord
  <2>3. surfaced' \in [Dirs -> Seq(Nat)]
    <3>1. Append(surfaced[e], NextRecord(e).data) \in Seq(Nat)
      BY <2>2, AppendProperties
    <3> QED BY <2>1, <3>1
  <2>4. ASSUME NEW d \in Dirs
        PROVE  Counting(d)' /\ \E n \in Nat : Surfaces(d, n)'
    <3>1. CASE d # e
      <4>1. /\ taken'[d] = taken[d] /\ seq'[d] = seq[d] /\ surfaced'[d] = surfaced[d]
            /\ phase'[d] = phase[d]
        BY <2>1, <3>1 DEF Typing, TypeOK
      <4>2. [Next]_vars
        OBVIOUS
      <4> QED BY <1>1, <2>1, <4>1, SurfacingKept
    <3>2. CASE d = e
      <4>1. CASE Decrypt12(e)
        <5>1. phase[e] = "enc12" /\ Opened(e) /\ DataKey(phase[e]) = "tls12"
          BY <4>1 DEF Decrypt12, Opened, DataKey
        <5>2. Surface(e, Opens(e, DataKey(phase[e])))
          BY <4>1, <5>1 DEF Decrypt12
        <5>3. Record(e) /\ resolved /\ seq' = [seq EXCEPT ![e] = @ + 1] /\ phase' = phase
          BY <4>1 DEF Decrypt12
        <5> QED BY <3>2, <5>1, <5>2, <5>3, SurfacingDecrypts
      <4>2. CASE Decrypt13Application(e)
        <5>1. phase[e] = "app13" /\ Opened(e) /\ DataKey(phase[e]) = "ap"
          BY <4>2 DEF Decrypt13Application, Opened, DataKey
        <5>2. Surface(e, Opens(e, DataKey(phase[e])))
          BY <4>2, <5>1 DEF Decrypt13Application
        <5>3. Record(e) /\ resolved /\ seq' = [seq EXCEPT ![e] = @ + 1] /\ phase' = phase
          BY <4>2 DEF Decrypt13Application
        <5> QED BY <3>2, <5>1, <5>2, <5>3, SurfacingDecrypts
      <4>3. CASE ~Decrypt12(e) /\ ~Decrypt13Application(e)
        BY <1>3, <3>2, <4>3, SurfacingOther DEF RecordStep
      <4> QED BY <4>1, <4>2, <4>3
    <3> QED BY <3>1, <3>2
  <2> QED BY <2>3, <2>4 DEF Surfacing
<1>4. [Next]_vars => Done \/ UNCHANGED vars \/ MessageStep \/ \E d \in Dirs : RecordStep(d)
  BY DEF Next, MessageStep, RecordStep
<1> QED BY <1>2, <1>3, <1>4

\* In whatever order the two directions are processed, and whatever keys the
\* user has, what a direction surfaces is a gap-free prefix of its application
\* data (processRecord, decryptTLS12, decryptTLS13).
THEOREM SurfacesPrefix == Spec => []SurfacedIsPrefix
<1> DEFINE Inv == Typing /\ Surfacing /\ surfaced \in [Dirs -> Seq(Nat)]
<1>1. Init => Inv
  <2> SUFFICES ASSUME Init PROVE Inv
    OBVIOUS
  <2>1. surfaced \in [Dirs -> Seq(Nat)]
    BY DEF Init
  <2> QED BY <2>1, ConnsHold, TypingInit, SurfacingInit
<1>2. Inv /\ [Next]_vars => Inv'
  BY ConnsHold, TypingNext, SurfacingNext
<1>3. Inv => SurfacedIsPrefix
  <2> SUFFICES ASSUME Surfacing, NEW d \in Dirs
               PROVE  surfaced[d] = [i \in 1..Len(surfaced[d]) |-> i]
    BY DEF SurfacedIsPrefix
  <2>1. PICK n \in Nat : surfaced[d] = [i \in 1..n |-> i]
    BY DEF Surfacing, Surfaces, UpTo
  <2>2. Len([i \in 1..n |-> i]) = n
    OBVIOUS
  <2> QED BY <2>1, <2>2
<1> HIDE DEF Inv
<1> QED BY <1>1, <1>2, <1>3, PTL DEF Spec

-----------------------------------------------------------------------------
(* Messages in order *)

\* What a message may be, for the provers a set like any other.
Words == STRING \union {"CH", "SH", "Cert", "SHD", "CKE", "junk", "junkCKE"}

\* The model's messages are among them, and so are those of a record.
LEMMA WordsAre ==
  /\ \A m \in {"CH", "SH", "Cert", "SHD", "CKE", "junk", "junkCKE"} : m \in Words
  /\ \A r \in Records : r.msgs \in Seq(Words)
<1> DEFINE A == STRING
<1>1. ASSUME NEW r \in Records PROVE r.msgs \in Seq(Words)
  <2>1. r.msgs \in Seq(A) /\ A \subseteq Words
    BY DEF Records, Words
  <2> HIDE DEF A
  <2> QED BY <2>1
<1> QED BY <1>1 DEF Words

\* The messages read so far and those still to be read are sequences.
Reading == transcript \in Seq(Words) /\ todo \in [dir : Dirs, msgs : Seq(Words)]

\* Message m was read, or waits to be.
Dispatched(m) == \E p \in 1..Len(transcript) : transcript[p] = m
Queued(m)     == \E p \in 1..Len(todo.msgs) : todo.msgs[p] = m

\* One message goes from the queue to the transcript.
LEMMA MessageMoves ==
  ASSUME Reading, NEW m \in Words, Message(m)
  PROVE  /\ Reading'
         /\ todo.msgs[1] = m /\ Len(todo.msgs) > 0
         /\ Len(todo.msgs) \in Nat /\ Len(transcript) \in Nat
         /\ Len(transcript') = Len(transcript) + 1 /\ transcript'[Len(transcript) + 1] = m
         /\ \A p \in 1..Len(transcript) : transcript'[p] = transcript[p]
         /\ Len(todo'.msgs) = Len(todo.msgs) - 1
         /\ \A p \in 1..(Len(todo.msgs) - 1) : todo'.msgs[p] = todo.msgs[p + 1]
<1> DEFINE q == todo.msgs
<1>1. q \in Seq(Words) /\ q # <<>> /\ Head(q) = m /\ todo.dir \in Dirs
  BY DEF Reading, Message
<1>2. /\ Tail(q) \in Seq(Words) /\ Len(q) \in Nat /\ Len(q) > 0 /\ q[1] = m
      /\ Len(Tail(q)) = Len(q) - 1
      /\ \A p \in 1..(Len(q) - 1) : Tail(q)[p] = q[p + 1]
  <2> HIDE DEF q
  <2>1. Len(q) \in Nat /\ Len(q) > 0
    BY <1>1, EmptySeq
  <2> QED BY <1>1, <2>1, HeadTailProperties
<1>3. todo'.msgs = Tail(q) /\ todo' \in [dir : Dirs, msgs : Seq(Words)]
  <2>1. todo' = IF Tail(q) = <<>> THEN Nothing ELSE [todo EXCEPT !.msgs = Tail(@)]
    BY DEF Message
  <2>2. [todo EXCEPT !.msgs = Tail(@)].msgs = Tail(q)
        /\ [todo EXCEPT !.msgs = Tail(@)] \in [dir : Dirs, msgs : Seq(Words)]
    BY <1>2 DEF Reading
  <2>3. Nothing.msgs = <<>> /\ Nothing \in [dir : Dirs, msgs : Seq(Words)]
    BY DEF Nothing, Dirs
  <2> QED BY <2>1, <2>2, <2>3
<1>4. transcript' = Append(transcript, m) /\ transcript \in Seq(Words)
  BY DEF Message, Reading
<1>5. /\ transcript' \in Seq(Words) /\ Len(transcript) \in Nat
      /\ Len(transcript') = Len(transcript) + 1 /\ transcript'[Len(transcript) + 1] = m
      /\ \A p \in 1..Len(transcript) : transcript'[p] = transcript[p]
  <2> DEFINE u == transcript
             v == transcript'
  <2>1. v = Append(u, m) /\ u \in Seq(Words)
    BY <1>4
  <2> HIDE DEF u, v
  <2>2. v \in Seq(Words) /\ Len(u) \in Nat /\ Len(v) = Len(u) + 1 /\ v[Len(u) + 1] = m
        /\ \A p \in 1..Len(u) : v[p] = u[p]
    BY <2>1, AppendProperties, LenProperties
  <2> QED BY <2>2 DEF u, v
<1> QED BY <1>2, <1>3, <1>5 DEF Reading

\* So it is read then, and no longer waits unless it is there twice.
LEMMA MessageRead ==
  ASSUME Reading, NEW m \in Words, Message(m)
  PROVE  /\ Queued(m)
         /\ \A x : Dispatched(x)' <=> Dispatched(x) \/ x = m
         /\ \A x : Queued(x)' => Queued(x)
         /\ \A x : Queued(x) => Queued(x)' \/ x = m
<1>1. /\ todo.msgs[1] = m /\ Len(todo.msgs) > 0
      /\ Len(todo.msgs) \in Nat /\ Len(transcript) \in Nat
      /\ Len(transcript') = Len(transcript) + 1 /\ transcript'[Len(transcript) + 1] = m
      /\ \A p \in 1..Len(transcript) : transcript'[p] = transcript[p]
      /\ Len(todo'.msgs) = Len(todo.msgs) - 1
      /\ \A p \in 1..(Len(todo.msgs) - 1) : todo'.msgs[p] = todo.msgs[p + 1]
  BY MessageMoves
<1>2. Queued(m)
  BY <1>1 DEF Queued
<1>3. ASSUME NEW x PROVE Dispatched(x)' <=> Dispatched(x) \/ x = m
  <2>1. \A p \in 1..Len(transcript') : p \in 1..Len(transcript) \/ p = Len(transcript) + 1
    BY <1>1
  <2>2. Len(transcript) + 1 \in 1..Len(transcript') /\ \A p \in 1..Len(transcript) : p \in 1..Len(transcript')
    BY <1>1
  <2> QED BY <1>1, <2>1, <2>2 DEF Dispatched
<1>4. ASSUME NEW x, Queued(x)' PROVE Queued(x)
  <2>1. PICK p \in 1..(Len(todo.msgs) - 1) : todo'.msgs[p] = x
    BY <1>1, <1>4 DEF Queued
  <2>2. p + 1 \in 1..Len(todo.msgs) /\ todo.msgs[p + 1] = x
    BY <1>1, <2>1
  <2> QED BY <2>2 DEF Queued
<1>5. ASSUME NEW x, Queued(x) PROVE Queued(x)' \/ x = m
  <2>1. PICK p \in 1..Len(todo.msgs) : todo.msgs[p] = x
    BY <1>5 DEF Queued
  <2>2. CASE p = 1
    BY <1>1, <2>1, <2>2
  <2>3. CASE p # 1
    <3>1. p - 1 \in 1..(Len(todo.msgs) - 1) /\ (p - 1) + 1 = p
      BY <1>1, <2>3
    <3>2. todo'.msgs[p - 1] = x
      BY <1>1, <2>1, <3>1
    <3> QED BY <1>1, <3>1, <3>2 DEF Queued
  <2> QED BY <2>2, <2>3
<1> QED BY <1>2, <1>3, <1>4, <1>5

\* What every record leaves alone, and that it comes after all its sender saw.
LEMMA RecordEffect ==
  ASSUME ConnsOK, Typing, NEW d \in Dirs, RecordStep(d)
  PROVE  /\ conn' = conn /\ keys' = keys /\ UNCHANGED hello /\ UNCHANGED outcome
         /\ todo.msgs = <<>>
         /\ taken[d] \in Nat /\ taken[d] + 1 \in DOMAIN conn.rec[d] /\ taken[d] < Len(conn.rec[d])
         /\ NextRecord(d) = conn.rec[d][taken[d] + 1] /\ NextRecord(d) \in Records
         /\ taken'[d] = taken[d] + 1 /\ taken \in [Dirs -> Nat]
         /\ \A e \in Dirs : e # d => taken'[e] = taken[e] /\ phase'[e] = phase[e] /\ seq'[e] = seq[e]
         /\ phase' = phase \/ phase' = [phase EXCEPT ![d] = "enc12"] \/ phase' = [phase EXCEPT ![d] = "app13"]
         /\ conn.causal => taken[Peer(d)] >= NextRecord(d).after
<1>1. /\ conn' = conn /\ keys' = keys /\ UNCHANGED hello /\ UNCHANGED outcome
      /\ todo.msgs = <<>> /\ taken[d] < Len(conn.rec[d]) /\ taken' = [taken EXCEPT ![d] = @ + 1]
      /\ conn.causal => taken[Peer(d)] >= NextRecord(d).after
  BY DEF RecordStep, ChangeCipherSpec, ClearHandshake, SkipRecord, Decrypt12, Decrypt13Other,
     Decrypt13Handshake, Decrypt13Application, Record
<1>2. \/ phase' = phase
      \/ phase' = [phase EXCEPT ![d] = "enc12"] \/ phase' = [phase EXCEPT ![d] = "app13"]
  BY DEF RecordStep, ChangeCipherSpec, ClearHandshake, SkipRecord, Decrypt12, Decrypt13Other,
     Decrypt13Handshake, Decrypt13Application
<1>3. seq' = seq \/ seq' = [seq EXCEPT ![d] = 0] \/ seq' = [seq EXCEPT ![d] = @ + 1]
  BY DEF RecordStep, ChangeCipherSpec, ClearHandshake, SkipRecord, Decrypt12, Decrypt13Other,
     Decrypt13Handshake, Decrypt13Application, Restarted
<1>4. taken \in [Dirs -> Nat] /\ conn.rec[d] \in Seq(Records)
  BY DEF ConnsOK, Typing, TypeOK
<1>5. taken[d] + 1 \in DOMAIN conn.rec[d]
  BY <1>1, <1>4
<1>6. NextRecord(d) = conn.rec[d][taken[d] + 1] /\ NextRecord(d) \in Records
  BY <1>4, <1>5 DEF NextRecord
<1>7. \A e \in Dirs : e # d => taken'[e] = taken[e] /\ phase'[e] = phase[e] /\ seq'[e] = seq[e]
  BY <1>1, <1>2, <1>3, <1>4 DEF Typing, TypeOK
<1>8. taken[d] \in Nat /\ taken'[d] = taken[d] + 1
  BY <1>1, <1>4
<1> QED BY <1>1, <1>2, <1>4, <1>5, <1>6, <1>7, <1>8

\* Which branch of processRecord a record takes.
LEMMA RecordBranch ==
  ASSUME ConnsOK, Typing, NEW d \in Dirs, RecordStep(d)
  PROVE  /\ NextRecord(d).type = "ccs" => ChangeCipherSpec(d)
         /\ NextRecord(d).type = "hs" /\ phase[d] = "clear" => ClearHandshake(d)
         /\ ClearHandshake(d) => NextRecord(d).type = "hs" /\ phase[d] = "clear"
         /\ ~ClearHandshake(d) => todo' = todo
         /\ NextRecord(d).type # "ccs" /\ ~ClearHandshake(d) /\ ~resolved => SkipRecord(d)
         /\ NextRecord(d).type # "ccs" /\ phase[d] = "enc12" /\ resolved => Decrypt12(d)
         /\ NextRecord(d).type # "ccs" /\ phase[d] = "clear" => phase' = phase /\ seq' = seq
         /\ NextRecord(d).type # "ccs" /\ NextRecord(d).type # "app" /\ phase[d] \in {"hs13", "app13"}
              => phase' = phase /\ seq' = seq
         /\ NextRecord(d).type = "app" /\ phase[d] = "hs13" /\ resolved => Decrypt13Handshake(d)
         /\ NextRecord(d).type = "app" /\ phase[d] = "app13" /\ resolved => Decrypt13Application(d)
<1>1. ChangeCipherSpec(d) => NextRecord(d).type = "ccs" /\ todo' = todo
  BY DEF ChangeCipherSpec
<1>2. ClearHandshake(d) => NextRecord(d).type = "hs" /\ phase[d] = "clear" /\ phase' = phase /\ seq' = seq
  BY DEF ClearHandshake
<1>3. SkipRecord(d) => /\ NextRecord(d).type # "ccs" /\ todo' = todo /\ phase' = phase /\ seq' = seq
                       /\ phase[d] = "clear" => NextRecord(d).type # "hs"
                       /\ phase[d] # "clear" => ~resolved
  BY DEF SkipRecord
<1>4. Decrypt12(d) => NextRecord(d).type # "ccs" /\ phase[d] = "enc12" /\ resolved /\ todo' = todo
  BY DEF Decrypt12
<1>5. Decrypt13Other(d) => /\ NextRecord(d).type \notin {"ccs", "app"} /\ phase[d] \in {"hs13", "app13"}
                           /\ resolved /\ todo' = todo /\ phase' = phase /\ seq' = seq
  BY DEF Decrypt13Other
<1>6. Decrypt13Handshake(d) => NextRecord(d).type = "app" /\ phase[d] = "hs13" /\ resolved /\ todo' = todo
  BY DEF Decrypt13Handshake
<1>7. Decrypt13Application(d) => NextRecord(d).type = "app" /\ phase[d] = "app13" /\ resolved /\ todo' = todo
  BY DEF Decrypt13Application
<1> HIDE DEF RecordStep, Dirs
<1>8. \/ ChangeCipherSpec(d) \/ ClearHandshake(d) \/ SkipRecord(d) \/ Decrypt12(d)
      \/ Decrypt13Other(d) \/ Decrypt13Handshake(d) \/ Decrypt13Application(d)
  BY DEF RecordStep
<1> QED BY <1>1, <1>2, <1>3, <1>4, <1>5, <1>6, <1>7, <1>8

\* Messages are of the queue's kind whatever comes.
LEMMA ReadingNext ==
  ASSUME ConnsOK, Typing, Reading, [Next]_vars
  PROVE  Reading'
<1>1. CASE MessageStep
  <2>1. \E m \in Words : Message(m)
    BY <1>1, WordsAre DEF MessageStep, ClientHello, ServerHello, ClientKeyExchange, OtherMessage
  <2> QED BY <2>1, MessageMoves
<1>2. ASSUME NEW d \in Dirs, RecordStep(d) PROVE Reading'
  <2>1. transcript' = transcript /\ NextRecord(d) \in Records
    BY <1>2, RecordEffect DEF hello
  <2>2. CASE ClearHandshake(d)
    <3>1. PICK msgs \in {NextRecord(d).msgs, <<>>, <<"junk">>, <<"junkCKE">>} :
            todo' = IF msgs = <<>> THEN Nothing ELSE [dir |-> d, msgs |-> msgs]
      BY <2>2 DEF ClearHandshake
    <3>2. msgs \in Seq(Words)
      <4>1. NextRecord(d).msgs \in Seq(Words)
        BY <2>1, WordsAre
      <4>2. <<>> \in Seq(Words) /\ <<"junk">> \in Seq(Words) /\ <<"junkCKE">> \in Seq(Words)
        <5>1. "junk" \in Words /\ "junkCKE" \in Words
          BY WordsAre
        <5> QED BY <5>1
      <4> QED BY <3>1, <4>1, <4>2
    <3>3. Nothing \in [dir : Dirs, msgs : Seq(Words)]
      BY DEF Nothing, Dirs
    <3> QED BY <2>1, <3>1, <3>2, <3>3 DEF Reading
  <2>3. CASE ~ClearHandshake(d)
    <3>1. todo' = todo
      BY <1>2, <2>3, RecordBranch
    <3> QED BY <2>1, <3>1 DEF Reading
  <2> QED BY <2>2, <2>3
<1>3. CASE Done \/ UNCHANGED vars
  BY <1>3 DEF Done, vars, hello, Reading
<1>4. [Next]_vars => Done \/ UNCHANGED vars \/ MessageStep \/ \E d \in Dirs : RecordStep(d)
  BY DEF Next, MessageStep, RecordStep
<1> QED BY <1>1, <1>2, <1>3, <1>4

-----------------------------------------------------------------------------
(* TLS 1.2 in its true order: the handshake *)

\* How far the handshake was taken out of records, and where a record's
\* messages end in it.
Position == Len(transcript) + Len(todo.msgs)
EndOf(from, d, i) == from[d][i] + Len(conn.rec[d][i].msgs)

\* What was read and waits is the beginning of the flow, the messages of just
\* the records taken.
Reads(flow, from) ==
  /\ Position <= Len(flow)
  /\ \A p \in 1..Len(transcript) : transcript[p] = flow[p]
  /\ \A p \in 1..Len(todo.msgs) : todo.msgs[p] = flow[Len(transcript) + p]
  /\ \A d \in Dirs : \A i \in InClear(conn, d) :
       /\ i <= taken[d] => EndOf(from, d, i) <= Position
       /\ i > taken[d] => Position <= from[d][i]

\* The session knows what the messages read have told it.
Learned12 ==
  /\ haveCH <=> Dispatched("CH")
  /\ haveSH <=> Dispatched("SH")
  /\ haveSuite = haveSH /\ version = IF haveSH THEN 3 ELSE 0
  /\ cke = IF Dispatched("CKE") THEN "sent" ELSE "nil"

\* A direction is encrypted from its ChangeCipherSpec on.
Switched ==
  \A d \in Dirs :
    phase[d] = IF \E i \in 1..taken[d] : conn.rec[d][i].type = "ccs" THEN "enc12" ELSE "clear"

\* The verdict comes with the message that decides it.
Due == haveSH /\ (keys.line12 \/ cke = "sent")

Verdict12 ==
  /\ resolved => keysFit
  /\ cke = "sent" => resolved \/ unresolvable
  /\ HaveSecret => (resolved <=> Due) /\ ~unresolvable

\* A message is the next one of the flow.
LEMMA ReadsMessage ==
  ASSUME Reading, NEW m \in Words, Message(m), NEW flow, NEW from, Reads(flow, from)
  PROVE  /\ Reads(flow, from)'
         /\ flow[Len(transcript) + 1] = m
         /\ Len(transcript) \in Nat /\ Len(transcript) + 1 <= Len(flow)
<1> DEFINE l == Len(transcript)
           n == Len(todo.msgs)
<1>1. /\ todo.msgs[1] = m /\ n > 0 /\ n \in Nat /\ l \in Nat
      /\ Len(transcript') = l + 1 /\ transcript'[l + 1] = m
      /\ \A p \in 1..l : transcript'[p] = transcript[p]
      /\ Len(todo'.msgs) = n - 1
      /\ \A p \in 1..(n - 1) : todo'.msgs[p] = todo.msgs[p + 1]
  BY MessageMoves
<1>2. conn' = conn /\ taken' = taken
  BY DEF Message
<1>3. Position' = Position /\ Position = l + n
  <2>1. Position' = Len(transcript') + Len(todo'.msgs) /\ Position = l + n
    BY DEF Position
  <2> HIDE DEF l, n
  <2> QED BY <1>1, <2>1
<1>4. flow[l + 1] = m
  BY <1>1 DEF Reads
<1> HIDE DEF l, n
<1>5. \A p \in 1..(l + 1) : transcript'[p] = flow[p]
  <2>1. \A p \in 1..l : transcript[p] = flow[p]
    BY DEF Reads, l
  <2> QED BY <1>1, <1>4, <2>1
<1>6. \A p \in 1..(n - 1) : todo'.msgs[p] = flow[(l + 1) + p]
  <2>1. \A p \in 1..n : todo.msgs[p] = flow[l + p]
    BY DEF Reads, l, n
  <2>2. \A p \in 1..(n - 1) : p + 1 \in 1..n /\ l + (p + 1) = (l + 1) + p
    BY <1>1
  <2> QED BY <1>1, <2>1, <2>2
<1>7. Position' <= Len(flow) /\ l + 1 <= l + n
  BY <1>1, <1>3 DEF Reads
<1>8. \A d \in Dirs : \A i \in InClear(conn, d)' :
        /\ i <= taken'[d] => EndOf(from, d, i)' <= Position'
        /\ i > taken'[d] => Position' <= from[d][i]
  BY <1>2, <1>3 DEF Reads, EndOf, InClear
<1>9. Reads(flow, from)'
  BY <1>1, <1>5, <1>6, <1>7, <1>8 DEF Reads
<1> QED BY <1>1, <1>4, <1>7, <1>9, <1>3 DEF Reads, l, n

\* Everything the code asks for is there when a key exchange has been read, and
\* the extended master secret is derived from the right transcript.
LEMMA KeyExchangeFits ==
  ASSUME Reading, NEW flow, NEW from, Reads(flow, from), OrderedFlow(conn, flow), Learned12,
         Message("CKE")
  PROVE  /\ haveCH /\ haveSH /\ haveSuite /\ version = 3
         /\ conn.handshake = transcript'
<1> DEFINE l == Len(transcript)
<1>1. /\ flow[l + 1] = "CKE" /\ l \in Nat /\ l + 1 <= Len(flow)
      /\ \A p \in 1..l : transcript[p] = flow[p]
  BY WordsAre, ReadsMessage DEF Reads
<1>2. flow \in Seq(Words) /\ Len(flow) \in Nat
  <2> DEFINE F == {"CH", "SH", "Cert", "SHD", "CKE"}
  <2>1. flow \in Seq(F)
    BY DEF OrderedFlow
  <2>2. F \subseteq Words
    BY WordsAre
  <2> HIDE DEF F
  <2> QED BY <2>1, <2>2
<1> HIDE DEF l
<1>3. l + 1 \in DOMAIN flow
  BY <1>1, <1>2
<1>4. (\E q \in 1..l : flow[q] = "SH") /\ conn.handshake = SubSeq(flow, 1, l + 1)
  <2>1. (l + 1) - 1 = l
    BY <1>1
  <2> QED BY <1>1, <1>3, <2>1 DEF OrderedFlow
<1>5. PICK q \in 1..l : flow[q] = "SH"
  BY <1>4
<1>6. \E p \in 1..(q - 1) : flow[p] = "CH"
  <2>1. q \in DOMAIN flow
    BY <1>1, <1>2, <1>5
  <2> QED BY <1>5, <2>1 DEF OrderedFlow
<1>7. Dispatched("SH") /\ Dispatched("CH")
  <2>1. \A p \in 1..(q - 1) : p \in 1..l
    BY <1>1, <1>5
  <2> QED BY <1>1, <1>5, <1>6, <2>1 DEF Dispatched, l
<1>8. conn.handshake = transcript'
  <2> DEFINE u == transcript'
             v == SubSeq(flow, 1, l + 1)
  <2>1. u \in Seq(Words) /\ Len(u) = l + 1 /\ \A p \in 1..(l + 1) : u[p] = flow[p]
    <3>1. Reading' /\ Len(u) = l + 1 /\ u[l + 1] = "CKE" /\ \A p \in 1..l : u[p] = transcript[p]
      BY WordsAre, MessageMoves DEF l
    <3> HIDE DEF u
    <3>2. u \in Seq(Words)
      BY <3>1 DEF Reading, u
    <3> QED BY <1>1, <3>1, <3>2
  <2>2. v \in Seq(Words) /\ Len(v) = l + 1 /\ \A p \in 1..(l + 1) : v[p] = flow[p]
    BY <1>1, <1>2, SubSeqProperties
  <2> HIDE DEF u, v
  <2>3. u = v
    BY <2>1, <2>2, <1>1, SeqEqual
  <2> QED BY <1>4, <2>3 DEF u, v
<1> QED BY <1>7, <1>8 DEF Learned12

\* What the theorems assume of a connection of TLS 1.2.
Proper12(flow, from) ==
  /\ conn.causal /\ conn.known = TRUE /\ conn.version = 3 /\ conn.kex # "dhe_psk"
  /\ Consecutive(conn, flow, from) /\ OrderedFlow(conn, flow) /\ Protected12(conn)

\* Every message that is read teaches the session what it says, and the verdict
\* is made when it can be (drainCleartextHandshake, tryResolveTLS12).
LEMMA LearnedMessage ==
  ASSUME ConnsOK, Typing, Reading, NEW flow, NEW from, Proper12(flow, from),
         Reads(flow, from), Learned12, Switched, Verdict12, MessageStep
  PROVE  Learned12' /\ Switched' /\ Verdict12'
<1>1. conn' = conn /\ keys' = keys /\ taken' = taken
  BY DEF MessageStep, ClientHello, ServerHello, ClientKeyExchange, OtherMessage, Message
<1>2. HaveSecret' = HaveSecret
  BY <1>1 DEF HaveSecret
<1>3. Verdicts
  BY DEF Typing, TypeOK, Verdicts
<1>4. CASE ClientHello
  <2>1. /\ Message("CH") /\ haveCH' = TRUE
        /\ UNCHANGED <<haveSH, version, haveSuite, cke, outcome, phase>>
    BY <1>4 DEF ClientHello
  <2>2. /\ Dispatched("CH")' /\ (Dispatched("SH")' <=> Dispatched("SH"))
        /\ Dispatched("CKE")' <=> Dispatched("CKE")
    BY <2>1, WordsAre, MessageRead
  <2> QED BY <1>1, <1>2, <2>1, <2>2 DEF Learned12, Switched, Verdict12, Due, outcome
<1>5. CASE OtherMessage
  <2>1. PICK m \in {"Cert", "SHD", "junk"} : Message(m)
    BY <1>5 DEF OtherMessage
  <2>2. UNCHANGED <<haveCH, haveSH, version, haveSuite, cke, outcome, phase>>
    BY <1>5 DEF OtherMessage
  <2>3. /\ Dispatched("CH")' <=> Dispatched("CH")
        /\ Dispatched("SH")' <=> Dispatched("SH")
        /\ Dispatched("CKE")' <=> Dispatched("CKE")
    BY <2>1, WordsAre, MessageRead
  <2> QED BY <1>1, <1>2, <2>2, <2>3 DEF Learned12, Switched, Verdict12, Due, outcome
<1>6. CASE ServerHello
  <2>1. /\ Message("SH") /\ haveSH' = TRUE /\ version' = 3 /\ haveSuite' = TRUE
        /\ phase' = phase /\ haveCH' = haveCH /\ cke' = cke
        /\ TryResolve(haveCH, TRUE, 3, TRUE, cke, hashAtCKE)
    <3>1. conn.version = 3 /\ conn.known = TRUE
      BY DEF Proper12
    <3>2. /\ Message("SH") /\ haveSH' = TRUE /\ version' = conn.version /\ haveCH' = haveCH /\ cke' = cke
          /\ haveSuite' = (haveSuite \/ conn.known)
          /\ phase' = IF version' >= 4 THEN [d \in Dirs |-> "hs13"] ELSE phase
          /\ TryResolve(haveCH, TRUE, version', haveSuite', cke, hashAtCKE)
      BY <1>6 DEF ServerHello
    <3>3. version' = 3 /\ haveSuite' = TRUE
      BY <3>1, <3>2
    <3>4. phase' = phase
      <4>1. ~(3 >= 4)
        OBVIOUS
      <4> QED BY <3>2, <3>3, <4>1
    <3>5. TryResolve(haveCH, TRUE, 3, TRUE, cke, hashAtCKE)
      BY <3>2, <3>3
    <3> QED BY <3>2, <3>3, <3>4, <3>5
  <2>2. /\ Dispatched("SH")' /\ (Dispatched("CH")' <=> Dispatched("CH"))
        /\ Dispatched("CKE")' <=> Dispatched("CKE")
    BY <2>1, WordsAre, MessageRead
  <2>3. haveCH
    <3>1. /\ flow[Len(transcript) + 1] = "SH" /\ Len(transcript) \in Nat /\ Len(transcript) + 1 <= Len(flow)
          /\ \A p \in 1..Len(transcript) : transcript[p] = flow[p]
      BY <2>1, WordsAre, ReadsMessage DEF Reads
    <3>2. Len(transcript) + 1 \in DOMAIN flow
      <4>1. flow \in Seq({"CH", "SH", "Cert", "SHD", "CKE"})
        BY DEF Proper12, OrderedFlow
      <4> QED BY <3>1, <4>1
    <3>3. \E q \in 1..((Len(transcript) + 1) - 1) : flow[q] = "CH"
      BY <3>1, <3>2 DEF Proper12, OrderedFlow
    <3>4. \E q \in 1..Len(transcript) : flow[q] = "CH"
      BY <3>1, <3>3
    <3> QED BY <3>1, <3>4 DEF Learned12, Dispatched
  <2>4. Learned12' /\ Switched'
    BY <1>1, <2>1, <2>2, <2>3 DEF Learned12, Switched
  <2>5. Due' <=> keys.line12 \/ cke = "sent"
    BY <1>1, <2>1 DEF Due
  <2>6. CASE resolved \/ unresolvable
    <3>1. UNCHANGED outcome
      BY <1>3, <2>1, <2>6, TryResolveOutcome
    <3>2. HaveSecret => resolved /\ Due /\ ~unresolvable
      BY <2>6 DEF Verdict12
    <3>3. Due => Due'
      BY <2>5 DEF Due
    <3> QED BY <1>2, <2>1, <2>4, <3>1, <3>2, <3>3 DEF Verdict12, outcome
  <2>7. CASE ~(resolved \/ unresolvable)
    <3>1. cke = "nil"
      BY <2>7 DEF Verdict12, Learned12
    <3> DEFINE r == Resolve12(3, "nil", hashAtCKE)
    <3>2. resolved' = (r.done = "resolved") /\ unresolvable' = (r.done = "unresolvable") /\ keysFit' = r.fit
      BY <2>1, <2>3, <2>7, <3>1 DEF TryResolve
    <3>3. CASE keys.line12
      <4>1. r.done = "resolved" /\ r.fit = TRUE
        <5>1. r = [done |-> "resolved", fit |-> TRUE]
          BY <3>3 DEF Resolve12
        <5> QED BY <5>1
      <4> HIDE DEF r
      <4>2. resolved' = TRUE /\ unresolvable' = FALSE /\ keysFit' = TRUE
        BY <3>2, <4>1
      <4>3. Verdict12'
        BY <2>5, <3>3, <4>2 DEF Verdict12
      <4> QED BY <2>4, <4>3
    <3>4. CASE ~keys.line12
      <4>1. r.done = "wait" /\ r.fit = FALSE
        <5>1. r = [done |-> "wait", fit |-> FALSE]
          BY <3>4 DEF Resolve12
        <5> QED BY <5>1
      <4> HIDE DEF r
      <4>2. resolved' = FALSE /\ unresolvable' = FALSE
        BY <3>2, <4>1
      <4>3. ~Due' /\ cke' = "nil"
        BY <2>1, <2>5, <3>1, <3>4
      <4>4. Verdict12'
        BY <4>2, <4>3 DEF Verdict12
      <4> QED BY <2>4, <4>4
    <3> QED BY <3>3, <3>4
  <2> QED BY <2>4, <2>6, <2>7
<1>7. CASE ClientKeyExchange
  <2>1. PICK body \in {"sent", "junk"} :
          /\ Message(IF body = "sent" THEN "CKE" ELSE "junkCKE")
          /\ cke' = body
          /\ hashAtCKE' = IF haveSuite THEN transcript' ELSE hashAtCKE
          /\ TryResolve(haveCH, haveSH, version, haveSuite, body, hashAtCKE')
          /\ UNCHANGED <<haveCH, haveSH, version, haveSuite, phase>>
    BY <1>7 DEF ClientKeyExchange
  <2>2. body = "sent"
    <3>1. CASE body = "junk"
      <4>1. /\ flow[Len(transcript) + 1] = "junkCKE"
            /\ Len(transcript) \in Nat /\ Len(transcript) + 1 <= Len(flow)
        BY <2>1, <3>1, WordsAre, ReadsMessage
      <4>2. flow \in Seq({"CH", "SH", "Cert", "SHD", "CKE"})
        BY DEF Proper12, OrderedFlow
      <4> QED BY <4>1, <4>2
    <3> QED BY <3>1
  <2>3. Message("CKE") /\ cke' = "sent"
    BY <2>1, <2>2
  <2>4. haveCH /\ haveSH /\ haveSuite /\ version = 3 /\ conn.handshake = transcript'
    BY <2>3, KeyExchangeFits DEF Proper12
  <2>5. TryResolve(TRUE, TRUE, 3, TRUE, "sent", transcript')
    BY <2>1, <2>2, <2>4 DEF TryResolve
  <2>6. /\ Dispatched("CKE")' /\ (Dispatched("CH")' <=> Dispatched("CH"))
        /\ Dispatched("SH")' <=> Dispatched("SH")
    BY <2>3, WordsAre, MessageRead
  <2>7. Learned12' /\ Switched'
    BY <1>1, <2>1, <2>3, <2>6 DEF Learned12, Switched
  <2>8. Due'
    BY <2>1, <2>3, <2>4 DEF Due
  <2>9. CASE resolved \/ unresolvable
    <3>1. UNCHANGED outcome
      BY <1>3, <2>5, <2>9, TryResolveOutcome
    <3> QED BY <1>2, <2>7, <2>8, <2>9, <3>1 DEF Verdict12, outcome
  <2>10. CASE ~(resolved \/ unresolvable)
    <3> DEFINE hash == transcript'
               r == Resolve12(3, "sent", hash)
    <3>1. resolved' = (r.done = "resolved") /\ unresolvable' = (r.done = "unresolvable") /\ keysFit' = r.fit
      BY <2>5, <2>10 DEF TryResolve
    <3>2. MasterFits(hash)
      BY <2>4 DEF MasterFits
    <3> HIDE DEF hash
    <3>3. conn.kex # "dhe_psk"
      BY DEF Proper12
    <3>4. /\ r.done \in {"resolved", "unresolvable"}
          /\ r.done = "resolved" => r.fit = TRUE
          /\ HaveSecret => r.done = "resolved"
      <4>1. CASE keys.line12
        <5>1. r = [done |-> "resolved", fit |-> TRUE]
          BY <4>1 DEF Resolve12
        <5> QED BY <5>1
      <4>2. CASE ~keys.line12 /\ ((conn.kex = "rsa" /\ keys.rsa) \/ (conn.kex = "psk" /\ keys.psk))
        <5>1. r = [done |-> "resolved", fit |-> TRUE]
          BY <3>2, <3>3, <4>2 DEF Resolve12
        <5> QED BY <5>1
      <4>3. CASE ~keys.line12 /\ ~((conn.kex = "rsa" /\ keys.rsa) \/ (conn.kex = "psk" /\ keys.psk))
        <5>1. ~(conn.kex = "rsa" /\ keys.rsa) /\ ~(conn.kex \in {"psk", "dhe_psk"} /\ keys.psk)
          BY <3>3, <4>3
        <5>2. r = [done |-> "unresolvable", fit |-> FALSE]
          BY <4>3, <5>1 DEF Resolve12
        <5>3. ~HaveSecret
          <6>1. conn.version # 4
            BY DEF Proper12
          <6> QED BY <4>3, <6>1 DEF HaveSecret
        <5> QED BY <5>2, <5>3
      <4> QED BY <4>1, <4>2, <4>3
    <3> HIDE DEF r
    <3> QED BY <1>2, <2>7, <2>8, <3>1, <3>4 DEF Verdict12
  <2> QED BY <2>9, <2>10
<1> QED BY <1>4, <1>5, <1>6, <1>7 DEF MessageStep

-----------------------------------------------------------------------------
(* TLS 1.2 in its true order: the records *)

\* A record that was sent earlier was processed earlier.
LEMMA EarlierTaken ==
  ASSUME ConnsOK, Typing, NEW d \in Dirs, RecordStep(d), conn.causal,
         NEW e \in Dirs, NEW j \in DOMAIN conn.rec[e], Before(conn, e, j, d, taken[d] + 1)
  PROVE  j \in 1..taken[e]
<1>1. /\ taken[d] \in Nat /\ taken[Peer(d)] >= NextRecord(d).after /\ taken \in [Dirs -> Nat]
      /\ NextRecord(d) = conn.rec[d][taken[d] + 1] /\ NextRecord(d) \in Records
  BY RecordEffect
<1>2. j \in Nat /\ j >= 1
  BY DEF ConnsOK, Typing, TypeOK
<1>3. CASE e = d
  BY <1>1, <1>2, <1>3 DEF Before
<1>4. CASE e # d
  <2>1. e = Peer(d)
    BY <1>4 DEF Dirs, Peer
  <2>2. j <= NextRecord(d).after /\ NextRecord(d).after \in Nat
    BY <1>1, <1>4 DEF Before, Records
  <2> QED BY <1>1, <1>2, <2>1, <2>2
<1> QED BY <1>3, <1>4

\* A message that was sent before a record has been read when that record's
\* turn comes: the queue is empty between records.
LEMMA PrecedesRead ==
  ASSUME ConnsOK, Typing, Reading, NEW flow, NEW from, Proper12(flow, from), Reads(flow, from),
         NEW d \in Dirs, RecordStep(d), NEW m, Precedes(conn, m, d, taken[d] + 1)
  PROVE  Dispatched(m)
<1>1. PICK e \in Dirs : \E j \in DOMAIN conn.rec[e] :
             Carries(conn, e, j, m) /\ Before(conn, e, j, d, taken[d] + 1)
  BY DEF Precedes
<1>2. PICK j \in DOMAIN conn.rec[e] : Carries(conn, e, j, m) /\ Before(conn, e, j, d, taken[d] + 1)
  BY <1>1
<1>3. j \in 1..taken[e] /\ taken[e] \in Nat
  <2>1. conn.causal /\ taken[e] \in Nat
    BY DEF Proper12, Typing
  <2> QED BY <1>2, <2>1, EarlierTaken
<1> DEFINE msgs == conn.rec[e][j].msgs
           start == from[e][j]
           l == Len(transcript)
<1>4. j \in InClear(conn, e) /\ \E k \in DOMAIN msgs : msgs[k] = m
  BY <1>2 DEF Carries
<1>5. PICK k \in DOMAIN msgs : msgs[k] = m
  BY <1>4
<1>6. start \in Nat /\ flow[start + k] = m
  BY <1>4, <1>5 DEF Proper12, Consecutive
<1>7. msgs \in Seq(Words)
  <2>1. conn.rec[e] \in Seq(Records)
    BY DEF ConnsOK, Typing, TypeOK
  <2>2. conn.rec[e][j] \in Records
    BY <1>2, <2>1
  <2> QED BY <2>2, WordsAre
<1>8. start + Len(msgs) <= l /\ l \in Nat /\ \A p \in 1..l : transcript[p] = flow[p]
  <2>1. start + Len(msgs) <= Position
    BY <1>3, <1>4 DEF Reads, EndOf
  <2>2. todo.msgs = <<>> /\ l \in Nat
    <3>1. todo.msgs = <<>> /\ transcript \in Seq(Words)
      BY RecordEffect DEF Reading
    <3> QED BY <3>1, LenProperties
  <2>3. Position = l
    BY <2>2 DEF Position
  <2> QED BY <2>1, <2>2, <2>3 DEF Reads
<1> HIDE DEF msgs, start, l
<1>9. start + k \in 1..l
  BY <1>5, <1>6, <1>7, <1>8
<1> QED BY <1>6, <1>8, <1>9 DEF Dispatched, l

\* The next record in the clear holds the next messages of the flow.
LEMMA NextInFlow ==
  ASSUME ConnsOK, Typing, Reading, NEW flow, NEW from, Proper12(flow, from), Reads(flow, from),
         NEW d \in Dirs, RecordStep(d), taken[d] + 1 \in InClear(conn, d)
  PROVE  from[d][taken[d] + 1] = Position /\ Position \in Nat
<1> DEFINE i == taken[d] + 1
           start == from[d][i]
<1>1. taken[d] \in Nat /\ todo.msgs = <<>> /\ transcript \in Seq(Words)
  BY RecordEffect DEF Reading
<1>2. Position \in Nat
  <2>1. Len(transcript) \in Nat /\ Len(todo.msgs) = 0
    BY <1>1
  <2> QED BY <2>1 DEF Position
<1>3. Position <= start /\ start \in Nat
  <2>1. i > taken[d]
    BY <1>1
  <2> QED BY <2>1 DEF Reads, Proper12, Consecutive
<1>4. CASE start > 0
  <2>1. PICK e \in Dirs : \E j \in InClear(conn, e) :
             Before(conn, e, j, d, i) /\ EndOf(from, e, j) = start
    BY <1>4 DEF Proper12, Consecutive, EndOf
  <2>2. PICK j \in InClear(conn, e) : Before(conn, e, j, d, i) /\ EndOf(from, e, j) = start
    BY <2>1
  <2>3. j \in DOMAIN conn.rec[e]
    BY DEF InClear
  <2>4. j \in 1..taken[e] /\ taken[e] \in Nat
    <3>1. conn.causal /\ taken[e] \in Nat
      BY DEF Proper12, Typing
    <3> QED BY <2>2, <2>3, <3>1, EarlierTaken
  <2>5. start <= Position
    BY <2>2, <2>4 DEF Reads
  <2> HIDE DEF start, i
  <2> QED BY <1>2, <1>3, <2>5 DEF start, i
<1>5. CASE start = 0
  BY <1>2, <1>3, <1>5
<1> QED BY <1>2, <1>3, <1>4, <1>5

\* How the peer protects the record processed next.
LEMMA NextProtected12 ==
  ASSUME ConnsOK, Typing, NEW flow, NEW from, Proper12(flow, from), NEW d \in Dirs, RecordStep(d)
  PROVE  LET i == taken[d] + 1
             R == NextRecord(d)
         IN  /\ R.type = "ccs" => Precedes(conn, "SH", d, i)
             /\ R.type = "ccs" => conn.resumed \/ Precedes(conn, "CKE", d, i)
             /\ i \in InClear(conn, d) => \A j \in 1..taken[d] : conn.rec[d][j].type # "ccs"
             /\ R.key # "" => \E j \in 1..taken[d] : conn.rec[d][j].type = "ccs"
             /\ R.key = "tls12" /\ R.seq = 0 => taken[d] > 0 /\ conn.rec[d][taken[d]].type = "ccs"
             /\ R.inner = "app" => R.key = "tls12"
<1> DEFINE i == taken[d] + 1
           R == NextRecord(d)
<1>1. /\ i \in DOMAIN conn.rec[d] /\ R = conn.rec[d][i]
      /\ i - 1 = taken[d] /\ (i > 1 => taken[d] > 0)
  BY RecordEffect
<1> HIDE DEF i, R
<1>2. LET r == conn.rec[d][i] IN
      /\ r.type = "ccs" => Precedes(conn, "SH", d, i) /\ (conn.resumed \/ Precedes(conn, "CKE", d, i))
      /\ i \in InClear(conn, d) => \A j \in 1..(i - 1) : conn.rec[d][j].type # "ccs"
      /\ r.key # "" => \E j \in 1..(i - 1) : conn.rec[d][j].type = "ccs"
      /\ r.key = "tls12" /\ r.seq = 0 => i > 1 /\ conn.rec[d][i - 1].type = "ccs"
      /\ r.inner = "app" => r.key = "tls12"
  BY <1>1, Zenon DEF Proper12, Protected12
<1> QED BY <1>1, <1>2 DEF i, R

\* After a ChangeCipherSpec a direction is no longer in the clear, and so is
\* every record that is protected.
LEMMA ClearBefore ==
  ASSUME ConnsOK, Typing, NEW flow, NEW from, Proper12(flow, from), Switched,
         NEW d \in Dirs, RecordStep(d)
  PROVE  /\ phase[d] \in {"clear", "enc12"}
         /\ taken[d] + 1 \in InClear(conn, d) => phase[d] = "clear"
         /\ NextRecord(d).key # "" => phase[d] = "enc12"
<1> QED BY NextProtected12 DEF Switched

\* A record in the clear is read, what waits then being its messages; no other
\* puts anything into the queue (processRecord).
LEMMA QueueAfter ==
  ASSUME ConnsOK, Typing, NEW flow, NEW from, Proper12(flow, from), Switched,
         NEW d \in Dirs, RecordStep(d)
  PROVE  IF taken[d] + 1 \in InClear(conn, d) THEN todo'.msgs = NextRecord(d).msgs ELSE todo' = todo
<1> DEFINE i == taken[d] + 1
<1>1. /\ i \in DOMAIN conn.rec[d] /\ NextRecord(d) = conn.rec[d][i]
  BY RecordEffect
<1>2. i \in InClear(conn, d) <=> NextRecord(d).type = "hs" /\ NextRecord(d).key = ""
  BY <1>1 DEF InClear
<1>3. CASE i \in InClear(conn, d)
  <2>1. ClearHandshake(d) /\ NextRecord(d).key = ""
    BY <1>2, <1>3, ClearBefore, RecordBranch
  <2>2. todo' = IF NextRecord(d).msgs = <<>> THEN Nothing ELSE [dir |-> d, msgs |-> NextRecord(d).msgs]
    BY <2>1 DEF ClearHandshake
  <2> QED BY <1>3, <2>2 DEF Nothing
<1>4. CASE i \notin InClear(conn, d)
  <2>1. ~ClearHandshake(d)
    <3>1. ClearHandshake(d) => NextRecord(d).type = "hs" /\ phase[d] = "clear"
      BY RecordBranch
    <3>2. NextRecord(d).key # "" => phase[d] = "enc12"
      BY ClearBefore
    <3> QED BY <1>2, <1>4, <3>1, <3>2
  <2> QED BY <1>4, <2>1, RecordBranch
<1> QED BY <1>3, <1>4

\* Records follow the flow too.
LEMMA ReadsRecord ==
  ASSUME ConnsOK, Typing, Reading, NEW flow, NEW from, Proper12(flow, from), Reads(flow, from),
         Switched, NEW d \in Dirs, RecordStep(d)
  PROVE  Reads(flow, from)'
<1> DEFINE i == taken[d] + 1
           msgs == NextRecord(d).msgs
<1>1. /\ conn' = conn /\ transcript' = transcript /\ todo.msgs = <<>>
      /\ taken[d] \in Nat /\ taken'[d] = i /\ taken \in [Dirs -> Nat]
      /\ \A e \in Dirs : e # d => taken'[e] = taken[e]
      /\ NextRecord(d) = conn.rec[d][i] /\ NextRecord(d) \in Records
  BY RecordEffect DEF hello
<1>2. IF i \in InClear(conn, d) THEN todo'.msgs = msgs ELSE todo' = todo
  BY QueueAfter
<1>3. Len(transcript) \in Nat /\ Position = Len(transcript) /\ msgs \in Seq(Words) /\ Len(msgs) \in Nat
  <2>1. Len(transcript) \in Nat /\ msgs \in Seq(Words)
    BY <1>1, WordsAre, LenProperties DEF Reading
  <2> QED BY <1>1, <2>1, LenProperties DEF Position
<1>4. \A e \in Dirs : \A j \in InClear(conn, e) :
        /\ j \in Nat /\ from[e][j] \in Nat /\ EndOf(from, e, j) \in Nat
        /\ j <= taken[e] => EndOf(from, e, j) <= Position
        /\ j > taken[e] => Position <= from[e][j]
        /\ EndOf(from, e, j) > from[e][j]
  <2> SUFFICES ASSUME NEW e \in Dirs, NEW j \in InClear(conn, e)
               PROVE  j \in Nat /\ from[e][j] \in Nat /\ EndOf(from, e, j) \in Nat
                      /\ EndOf(from, e, j) > from[e][j]
    BY DEF Reads
  <2>1. conn.rec[e] \in Seq(Records) /\ j \in DOMAIN conn.rec[e]
    BY DEF ConnsOK, Typing, TypeOK, InClear
  <2>2. j \in Nat /\ conn.rec[e][j] \in Records
    BY <2>1
  <2>3. from[e][j] \in Nat /\ conn.rec[e][j].msgs # <<>> /\ conn.rec[e][j].msgs \in Seq(Words)
    BY <2>2, WordsAre DEF Proper12, Consecutive
  <2>4. Len(conn.rec[e][j].msgs) \in Nat /\ Len(conn.rec[e][j].msgs) > 0
    BY <2>3, EmptySeq, LenProperties
  <2>5. EndOf(from, e, j) = from[e][j] + Len(conn.rec[e][j].msgs)
    BY DEF EndOf
  <2> DEFINE l == Len(conn.rec[e][j].msgs)
  <2>6. l \in Nat /\ l > 0 /\ EndOf(from, e, j) = from[e][j] + l
    BY <2>4, <2>5
  <2> HIDE DEF l
  <2> QED BY <2>2, <2>3, <2>6
<1> HIDE DEF msgs, i
<1>5. CASE i \in InClear(conn, d)
  <2>1. from[d][i] = Position
    BY <1>5, NextInFlow DEF i
  <2>2. todo'.msgs = msgs
    BY <1>2, <1>5
  <2>3. Position' = Position + Len(msgs)
    <3>1. Position' = Len(transcript') + Len(todo'.msgs)
      BY DEF Position
    <3> QED BY <1>1, <1>3, <2>2, <3>1
  <2>4. EndOf(from, d, i) = Position'
    BY <1>1, <2>1, <2>3 DEF EndOf, msgs
  <2>5. Position' <= Len(flow)
    BY <1>5, <2>4 DEF Proper12, Consecutive, EndOf
  <2>6. \A p \in 1..Len(msgs) : msgs[p] = flow[Len(transcript) + p]
    <3>1. \A p \in DOMAIN msgs : msgs[p] = flow[from[d][i] + p]
      BY <1>1, <1>5 DEF Proper12, Consecutive, msgs
    <3>2. DOMAIN msgs = 1..Len(msgs)
      BY <1>3
    <3>3. from[d][i] = Len(transcript)
      BY <1>3, <2>1
    <3> QED BY <3>1, <3>2, <3>3
  <2>7. ASSUME NEW e \in Dirs, NEW j \in InClear(conn, e)
        PROVE  /\ j <= taken'[e] => EndOf(from, e, j) <= Position'
               /\ j > taken'[e] => Position' <= from[e][j]
    <3>1. CASE e = d /\ j = i
      BY <1>1, <1>3, <1>4, <2>4, <3>1
    <3>2. CASE ~(e = d /\ j = i)
      <4>1. j <= taken'[e] => j <= taken[e]
        BY <1>1, <1>4, <3>2 DEF i
      <4>2. j > taken'[e] => j > taken[e]
        BY <1>1, <1>4, <3>2 DEF i
      <4>3. EndOf(from, e, j) <= from[d][i] \/ EndOf(from, d, i) <= from[e][j]
        <5>1. <<e, j>> # <<d, i>>
          BY <3>2
        <5> QED BY <1>5, <5>1 DEF Proper12, Consecutive, EndOf
      <4> QED BY <1>3, <1>4, <2>1, <2>3, <2>4, <4>1, <4>2, <4>3
    <3> QED BY <3>1, <3>2
  <2> QED BY <1>1, <2>2, <2>5, <2>6, <2>7 DEF Reads, EndOf
<1>6. CASE i \notin InClear(conn, d)
  <2>1. todo' = todo /\ Position' = Position
    BY <1>1, <1>2, <1>6 DEF Position
  <2>2. ASSUME NEW e \in Dirs, NEW j \in InClear(conn, e)
        PROVE  j <= taken'[e] <=> j <= taken[e]
    <3>1. CASE e = d
      <4>1. j # i
        BY <1>6, <3>1
      <4> QED BY <1>1, <1>4, <3>1, <4>1 DEF i
    <3>2. CASE e # d
      BY <1>1, <3>2
    <3> QED BY <3>1, <3>2
  <2>3. ASSUME NEW e \in Dirs, NEW j \in InClear(conn, e)
        PROVE  j > taken'[e] => j > taken[e]
    <3>1. taken'[e] >= taken[e] /\ taken'[e] \in Nat
      BY <1>1 DEF i
    <3> QED BY <1>1, <1>4, <3>1
  <2> QED BY <1>1, <2>1, <2>2, <2>3 DEF Reads, EndOf
<1> QED BY <1>5, <1>6

\* Records change neither what was learned nor the verdict, and a direction is
\* switched by just its ChangeCipherSpec.
LEMMA LearnedRecord ==
  ASSUME ConnsOK, Typing, Reading, NEW flow, NEW from, Proper12(flow, from), Reads(flow, from),
         Learned12, Switched, Verdict12, NEW d \in Dirs, RecordStep(d)
  PROVE  /\ Learned12' /\ Switched' /\ Verdict12'
         /\ NextRecord(d).type = "ccs" => seq'[d] = 0
<1> DEFINE i == taken[d] + 1
<1>1. /\ conn' = conn /\ keys' = keys /\ transcript' = transcript
      /\ UNCHANGED <<haveCH, haveSH, version, haveSuite, cke, hashAtCKE, resolved, unresolvable, keysFit>>
      /\ taken[d] \in Nat /\ taken'[d] = i /\ taken \in [Dirs -> Nat]
      /\ i \in DOMAIN conn.rec[d] /\ NextRecord(d) = conn.rec[d][i]
      /\ \A e \in Dirs : e # d => taken'[e] = taken[e] /\ phase'[e] = phase[e]
  BY RecordEffect DEF hello, outcome
<1>2. Learned12' /\ Verdict12'
  <2>1. HaveSecret' = HaveSecret
    BY <1>1 DEF HaveSecret
  <2> QED BY <1>1, <2>1 DEF Learned12, Dispatched, Verdict12, Due
<1>3. phase \in [Dirs -> {"clear", "enc12", "hs13", "app13"}] /\ seq \in [Dirs -> Nat]
  BY DEF Typing, TypeOK
<1>4. NextRecord(d).type = "ccs" => phase'[d] = "enc12" /\ seq'[d] = 0
  <2> SUFFICES ASSUME NextRecord(d).type = "ccs"
               PROVE  phase'[d] = "enc12" /\ seq'[d] = 0
    OBVIOUS
  <2>1. Precedes(conn, "SH", d, i)
    BY NextProtected12
  <2>2. Dispatched("SH")
    BY <2>1, PrecedesRead
  <2>3. CcsCounts
    BY <2>2 DEF Learned12, CcsCounts
  <2>4. ChangeCipherSpec(d)
    BY RecordBranch
  <2> QED BY <1>3, <2>3, <2>4 DEF ChangeCipherSpec, Restarted
<1>5. NextRecord(d).type # "ccs" => phase'[d] = phase[d]
  <2> SUFFICES ASSUME NextRecord(d).type # "ccs"
               PROVE  phase' = phase
    OBVIOUS
  <2>1. CASE phase[d] = "clear"
    BY <2>1, RecordBranch
  <2>2. CASE phase[d] = "enc12" /\ resolved
    BY <2>2, RecordBranch DEF Decrypt12
  <2>3. CASE phase[d] = "enc12" /\ ~resolved
    BY <2>3, RecordBranch DEF SkipRecord
  <2> QED BY <2>1, <2>2, <2>3, ClearBefore
<1>6. Switched'
  <2> SUFFICES ASSUME NEW e \in Dirs
               PROVE  phase'[e] = IF \E j \in 1..taken'[e] : conn.rec[e][j].type = "ccs" THEN "enc12" ELSE "clear"
    BY <1>1 DEF Switched
  <2>1. CASE e # d
    BY <1>1, <2>1 DEF Switched
  <2>2. CASE e = d
    <3>1. \A j \in 1..i : j \in 1..taken[d] \/ j = i
      BY <1>1
    <3>2. i \in 1..i /\ \A j \in 1..taken[d] : j \in 1..i
      BY <1>1
    <3> HIDE DEF i
    <3>3. CASE NextRecord(d).type = "ccs"
      BY <1>1, <1>4, <2>2, <3>2, <3>3
    <3>4. CASE NextRecord(d).type # "ccs"
      BY <1>1, <1>5, <2>2, <3>1, <3>2, <3>4 DEF Switched
    <3> QED BY <3>3, <3>4
  <2> QED BY <2>1, <2>2
<1> QED BY <1>2, <1>4, <1>6

-----------------------------------------------------------------------------
(* What comes out *)

\* All application data of the records of d that were processed.
Out(d) ==
  \A i \in 1..taken[d] : conn.rec[d][i].inner = "app" =>
    \E j \in 1..Len(surfaced[d]) : surfaced[d][j] = conn.rec[d][i].data

Latest(d) == conn.rec[d][taken[d]]

\* Nothing that was surfaced is lost, and the next record is surfaced or holds
\* no data.
LEMMA OutRecord ==
  ASSUME ConnsOK, Typing, surfaced \in [Dirs -> Seq(Nat)], \A e \in Dirs : Out(e),
         NEW d \in Dirs, RecordStep(d),
         NextRecord(d).inner = "app" => surfaced' = [surfaced EXCEPT ![d] = Append(@, NextRecord(d).data)]
  PROVE  \A e \in Dirs : Out(e)'
<1> DEFINE i == taken[d] + 1
           x == NextRecord(d).data
<1>1. /\ conn' = conn
      /\ taken[d] \in Nat /\ taken'[d] = i /\ taken \in [Dirs -> Nat]
      /\ NextRecord(d) = conn.rec[d][i] /\ x \in Nat
      /\ \A e \in Dirs : e # d => taken'[e] = taken[e]
  BY RecordEffect DEF Records
<1>2. surfaced' = surfaced \/ surfaced' = [surfaced EXCEPT ![d] = Append(@, x)]
  BY DEF RecordStep, ChangeCipherSpec, ClearHandshake, SkipRecord, Decrypt12, Decrypt13Other,
     Decrypt13Handshake, Decrypt13Application, Surface
<1> HIDE DEF x, i
<1>3. /\ Len(Append(surfaced[d], x)) = Len(surfaced[d]) + 1 /\ Len(surfaced[d]) \in Nat
      /\ \A j \in 1..Len(surfaced[d]) : Append(surfaced[d], x)[j] = surfaced[d][j]
      /\ Append(surfaced[d], x)[Len(surfaced[d]) + 1] = x
  BY <1>1, AppendProperties, LenProperties
<1>4. ASSUME NEW e \in Dirs, NEW j \in 1..Len(surfaced[e])
      PROVE  j \in 1..Len(surfaced'[e]) /\ surfaced'[e][j] = surfaced[e][j]
  BY <1>2, <1>3
<1> SUFFICES ASSUME NEW e \in Dirs, NEW k \in 1..taken'[e], conn.rec[e][k].inner = "app"
             PROVE  \E j \in 1..Len(surfaced'[e]) : surfaced'[e][j] = conn.rec[e][k].data
  BY <1>1 DEF Out
<1>5. CASE k \in 1..taken[e]
  <2>1. PICK j \in 1..Len(surfaced[e]) : surfaced[e][j] = conn.rec[e][k].data
    BY <1>5 DEF Out
  <2> QED BY <1>4, <2>1
<1>6. CASE k \notin 1..taken[e]
  <2>1. e = d /\ k = i
    BY <1>1, <1>6 DEF i
  <2>2. surfaced'[d] = Append(surfaced[d], x)
    BY <1>1, <2>1 DEF x
  <2>3. Len(surfaced[d]) + 1 \in 1..Len(surfaced'[d]) /\ surfaced'[d][Len(surfaced[d]) + 1] = x
    BY <1>3, <2>2
  <2> QED BY <1>1, <2>1, <2>3 DEF x
<1> QED BY <1>5, <1>6

\* In TLS 1.2 the counter starts with the ChangeCipherSpec and stands where the
\* sender's stands after every protected record.
Counts12(d) ==
  taken[d] > 0 =>
    /\ Latest(d).type = "ccs" => resolved /\ seq[d] = 0
    /\ Latest(d).key = "tls12" => resolved /\ seq[d] = Latest(d).seq + 1

\* The keys are there before the first protected record is, and every one is
\* opened (tryResolveTLS12, decryptTLS12).
LEMMA CountsRecord12 ==
  ASSUME ConnsOK, Typing, Reading, NEW flow, NEW from, Proper12(flow, from), Reads(flow, from),
         Learned12, Switched, Verdict12, HaveSecret, NEW d \in Dirs, RecordStep(d), Counts12(d)
  PROVE  /\ Counts12(d)'
         /\ NextRecord(d).inner = "app" => surfaced' = [surfaced EXCEPT ![d] = Append(@, NextRecord(d).data)]
<1> DEFINE i == taken[d] + 1
           R == NextRecord(d)
<1>1. /\ conn' = conn /\ resolved' = resolved
      /\ taken[d] \in Nat /\ taken'[d] = i /\ i \in DOMAIN conn.rec[d]
      /\ R = conn.rec[d][i] /\ R.seq \in Nat
  <2>1. R \in Records /\ UNCHANGED outcome /\ conn' = conn /\ taken[d] \in Nat /\ taken'[d] = i
        /\ i \in DOMAIN conn.rec[d] /\ R = conn.rec[d][i]
    BY RecordEffect
  <2> HIDE DEF R, i
  <2> QED BY <2>1 DEF outcome, Records
<1>2. R.inner = "app" => R.key = "tls12"
  BY NextProtected12
<1>3. /\ R.key = "tls12" => R.type # "ccs"
      /\ R.key = "tls12" /\ R.seq > 0 => /\ taken[d] > 0 /\ conn.rec[d][taken[d]].key = "tls12"
                                         /\ R.seq = conn.rec[d][taken[d]].seq + 1
  <2>1. taken[d] < Len(conn.rec[d])
    BY RecordEffect
  <2> QED BY <1>1, <2>1, NextCounted
<1>4. R.key = "tls12" /\ R.seq = 0 => taken[d] > 0 /\ conn.rec[d][taken[d]].type = "ccs"
  BY NextProtected12
<1>5. Latest(d)' = R /\ (taken[d] > 0)' 
  BY <1>1 DEF Latest
<1> HIDE DEF i
<1>6. CASE R.type = "ccs"
  <2>1. seq'[d] = 0
    BY <1>6, LearnedRecord
  <2>2. Precedes(conn, "SH", d, i) /\ (conn.resumed \/ Precedes(conn, "CKE", d, i))
    BY <1>6, NextProtected12 DEF i
  <2>3. Dispatched("SH") /\ (conn.resumed \/ Dispatched("CKE"))
    BY <2>2, PrecedesRead DEF i
  <2>4. resolved
    <3>1. haveSH /\ (conn.resumed \/ cke = "sent")
      BY <2>3 DEF Learned12
    <3>2. keys.line12 \/ ~conn.resumed
      BY DEF HaveSecret, Proper12
    <3>3. Due
      BY <3>1, <3>2 DEF Due
    <3> QED BY <3>3 DEF Verdict12
  <2>5. R.key # "tls12" /\ R.inner # "app"
    BY <1>2, <1>3, <1>6
  <2> HIDE DEF R
  <2>6. Counts12(d)'
    BY <1>1, <1>5, <2>1, <2>4, <2>5 DEF Counts12
  <2> QED BY <2>5, <2>6 DEF R
<1>7. CASE R.key = "tls12"
  <2>1. phase[d] = "enc12" /\ R.type # "ccs"
    <3>1. R.key # ""
      BY <1>7
    <3> QED BY <1>3, <1>7, <3>1, ClearBefore
  <2>2. resolved /\ seq[d] = R.seq
    <3>1. CASE R.seq = 0
      BY <1>4, <1>7, <3>1 DEF Counts12, Latest
    <3>2. CASE R.seq > 0
      BY <1>3, <1>7, <3>2 DEF Counts12, Latest
    <3> QED BY <1>1, <3>1, <3>2
  <2>3. Decrypt12(d)
    BY <2>1, <2>2, RecordBranch
  <2>4. seq'[d] = R.seq + 1
    BY <2>2, <2>3 DEF Decrypt12, Typing, TypeOK
  <2>5. Opens(d, "tls12")
    BY <1>7, <2>2 DEF Opens, Verdict12
  <2>6. R.inner = "app" => surfaced' = [surfaced EXCEPT ![d] = Append(@, R.data)]
    BY <2>3, <2>5 DEF Decrypt12, Surface
  <2> HIDE DEF R
  <2>7. Counts12(d)'
    BY <1>1, <1>5, <2>1, <2>2, <2>4 DEF Counts12
  <2> QED BY <2>6, <2>7 DEF R
<1>8. CASE R.type # "ccs" /\ R.key # "tls12"
  <2> HIDE DEF R
  <2>1. Counts12(d)'
    BY <1>5, <1>8 DEF Counts12
  <2> QED BY <1>2, <1>8, <2>1 DEF R
<1> QED BY <1>6, <1>7, <1>8

\* The types and what the other theorems rest on.
Basics == Typing /\ Reading /\ Surfacing /\ surfaced \in [Dirs -> Seq(Nat)]

\* They hold throughout.
LEMMA BasicsInit == ASSUME Init PROVE Basics
<1>1. Reading
  <2>1. <<>> \in Seq(Words)
    OBVIOUS
  <2>2. Nothing \in [dir : Dirs, msgs : Seq(Words)]
    BY <2>1 DEF Nothing, Dirs
  <2> QED BY <2>1, <2>2 DEF Reading, Init
<1>2. surfaced \in [Dirs -> Seq(Nat)]
  BY DEF Init
<1> QED BY <1>1, <1>2, ConnsHold, TypingInit, SurfacingInit DEF Basics

\* Every step keeps them.
LEMMA BasicsNext == ASSUME Basics, [Next]_vars PROVE Basics'
BY ConnsHold, TypingNext, ReadingNext, SurfacingNext DEF Basics

\* A session of TLS 1.2 in its true order.
InOrder12(flow, from) ==
  /\ Proper12(flow, from) /\ Reads(flow, from) /\ Learned12 /\ Switched /\ Verdict12
  /\ HaveSecret => \A d \in Dirs : Counts12(d) /\ Out(d)

\* It starts with nothing read.
LEMMA InOrder12Init ==
  ASSUME Init, NEW flow, NEW from, Proper12(flow, from)
  PROVE  InOrder12(flow, from)
<1>1. /\ Len(transcript) = 0 /\ todo.msgs = <<>> /\ Len(todo.msgs) = 0 /\ \A d \in Dirs : taken[d] = 0
      /\ surfaced = [d \in Dirs |-> <<>>]
  BY DEF Init, Nothing
<1>2. Position = 0 /\ Len(flow) \in Nat
  <2>1. Position = 0
    BY <1>1 DEF Position
  <2> QED BY <2>1 DEF Proper12, OrderedFlow
<1>3. ASSUME NEW d \in Dirs, NEW j \in InClear(conn, d)
      PROVE  ~(j <= taken[d]) /\ Position <= from[d][j]
  <2>1. conn \in Conns
    BY DEF Init
  <2>2. conn.rec[d] \in Seq(Records) /\ j \in DOMAIN conn.rec[d]
    <3>1. conn.rec \in [Dirs -> Seq(Records)]
      BY <2>1, ConnsHold DEF ConnsOK
    <3>2. j \in DOMAIN conn.rec[d]
      BY Zenon DEF InClear
    <3> QED BY <3>1, <3>2
  <2>5. j \in Nat /\ j > 0
    BY <2>2
  <2>3. from[d][j] \in Nat
    BY DEF Proper12, Consecutive
  <2> QED BY <1>1, <1>2, <2>3, <2>5
<1>4. Reads(flow, from)
  BY <1>1, <1>2, <1>3 DEF Reads
<1>5. \A m : ~Dispatched(m)
  BY <1>1 DEF Dispatched
<1>6. Learned12 /\ Switched /\ Verdict12
  <2>1. /\ haveCH = FALSE /\ haveSH = FALSE /\ version = 0 /\ haveSuite = FALSE /\ cke = "nil"
        /\ resolved = FALSE /\ unresolvable = FALSE /\ phase = [d \in Dirs |-> "clear"]
    BY DEF Init
  <2>2. Learned12
    BY <1>5, <2>1 DEF Learned12
  <2>3. Switched
    BY <1>1, <2>1 DEF Switched
  <2>4. Verdict12
    BY <2>1 DEF Verdict12, Due
  <2> QED BY <2>2, <2>3, <2>4
<1>7. \A d \in Dirs : Counts12(d) /\ Out(d)
  BY <1>1 DEF Counts12, Out
<1> QED BY <1>4, <1>6, <1>7 DEF InOrder12

\* And every step keeps it.
LEMMA InOrder12Next ==
  ASSUME Basics, NEW flow, NEW from, InOrder12(flow, from), [Next]_vars
  PROVE  InOrder12(flow, from)'
<1> USE ConnsHold
<1>1. Typing /\ Reading /\ surfaced \in [Dirs -> Seq(Nat)]
  BY DEF Basics
<1>2. /\ Proper12(flow, from) /\ Reads(flow, from) /\ Learned12 /\ Switched /\ Verdict12
      /\ HaveSecret => \A d \in Dirs : Counts12(d) /\ Out(d)
  BY DEF InOrder12
<1>3. CASE MessageStep
  <2>1. conn' = conn /\ keys' = keys /\ taken' = taken /\ seq' = seq /\ surfaced' = surfaced
    BY <1>3 DEF MessageStep, ClientHello, ServerHello, ClientKeyExchange, OtherMessage, Message
  <2>2. Reads(flow, from)'
    <3>1. \E m \in Words : Message(m)
      BY <1>3, WordsAre DEF MessageStep, ClientHello, ServerHello, ClientKeyExchange, OtherMessage
    <3> QED BY <1>1, <1>2, <3>1, ReadsMessage
  <2>3. Learned12' /\ Switched' /\ Verdict12'
    BY <1>1, <1>2, <1>3, LearnedMessage
  <2>4. resolved => resolved'
    BY <1>1, VerdictStep DEF Typing, TypeOK, Verdicts, outcome
  <2>5. Proper12(flow, from)' /\ HaveSecret' = HaveSecret
    BY <1>2, <2>1 DEF Proper12, HaveSecret
  <2>6. \A d \in Dirs : (Counts12(d) => Counts12(d)') /\ (Out(d) => Out(d)')
    BY <2>1, <2>4 DEF Counts12, Out, Latest
  <2> QED BY <1>2, <2>2, <2>3, <2>5, <2>6 DEF InOrder12
<1>4. ASSUME NEW d \in Dirs, RecordStep(d) PROVE InOrder12(flow, from)'
  <2>1. /\ conn' = conn /\ keys' = keys /\ UNCHANGED outcome
        /\ \A e \in Dirs : e # d => taken'[e] = taken[e] /\ seq'[e] = seq[e]
    BY <1>1, <1>4, RecordEffect
  <2>2. Reads(flow, from)' /\ Learned12' /\ Switched' /\ Verdict12'
    BY <1>1, <1>2, <1>4, ReadsRecord, LearnedRecord
  <2>3. Proper12(flow, from)' /\ HaveSecret' = HaveSecret
    BY <1>2, <2>1 DEF Proper12, HaveSecret
  <2>4. ASSUME HaveSecret PROVE \A e \in Dirs : Counts12(e)' /\ Out(e)'
    <3>1. /\ Counts12(d)'
          /\ NextRecord(d).inner = "app" => surfaced' = [surfaced EXCEPT ![d] = Append(@, NextRecord(d).data)]
      BY <1>1, <1>2, <1>4, <2>4, CountsRecord12
    <3>2. \A e \in Dirs : Out(e)'
      BY <1>1, <1>2, <1>4, <2>4, <3>1, OutRecord
    <3>3. \A e \in Dirs : e # d => Counts12(e)'
      BY <1>2, <2>1, <2>4 DEF Counts12, Latest, outcome
    <3> QED BY <3>1, <3>2, <3>3
  <2> QED BY <2>2, <2>3, <2>4 DEF InOrder12
<1>5. CASE Done \/ UNCHANGED vars
  <2>1. UNCHANGED vars
    BY <1>5 DEF Done
  <2> QED BY <1>2, <2>1 DEF vars, hello, outcome, InOrder12, Proper12, HaveSecret, Reads, Position,
        EndOf, Learned12, Dispatched, Switched, Verdict12, Due, Counts12, Latest, Out
<1>6. [Next]_vars => Done \/ UNCHANGED vars \/ MessageStep \/ \E d \in Dirs : RecordStep(d)
  BY DEF Next, MessageStep, RecordStep
<1> QED BY <1>3, <1>4, <1>5, <1>6

-----------------------------------------------------------------------------
(* TLS 1.3 in its true order *)

\* What the theorems assume of a connection of TLS 1.3.
Proper13 == conn.causal /\ conn.known = TRUE /\ conn.version = 4 /\ Protected13(conn)

\* A record that carries m in the clear was processed.
Taken(m) == \E d \in Dirs : \E i \in 1..taken[d] : Carries(conn, d, i, m)

\* Encrypted records of d were processed.
AppTaken(d) == \E i \in 1..taken[d] : conn.rec[d][i].type = "app"

\* The hellos are known once they were processed, or wait for it; the ServerHello
\* encrypts both directions and brings the keys.
Learned13 ==
  /\ haveSuite = haveSH /\ version = IF haveSH THEN 4 ELSE 0
  /\ \A d \in Dirs : phase[d] = "clear" <=> ~haveSH
  /\ Taken("SH") => haveSH \/ Queued("SH")
  /\ Taken("CH") => haveCH \/ haveSH \/ Queued("CH")
  /\ Queued("SH") => haveCH
  /\ resolved => keysFit
  /\ HaveSecret => (resolved <=> haveSH) /\ ~unresolvable

\* The counter of d stands where its sender's stands after the last encrypted
\* record, under the key that the sender uses next.
Counts13(d) ==
  IF ~AppTaken(d) THEN phase[d] \in {"clear", "hs13"} /\ seq[d] = 0
  ELSE /\ todo.msgs = <<>> /\ haveSH
       /\ Latest(d).key = "hs" /\ Latest(d).finished => phase[d] = "app13" /\ seq[d] = 0
       /\ Latest(d).key = "hs" /\ ~Latest(d).finished => phase[d] = "hs13" /\ seq[d] = Latest(d).seq + 1
       /\ Latest(d).key = "ap" => phase[d] = "app13" /\ seq[d] = Latest(d).seq + 1

InOrder13 ==
  /\ Proper13 /\ Learned13
  /\ HaveSecret => \A d \in Dirs : Counts13(d) /\ Out(d)

\* It starts with nothing taken.
LEMMA InOrder13Init == ASSUME Init, Proper13 PROVE InOrder13
<1>1. /\ \A d \in Dirs : taken[d] = 0
      /\ todo.msgs = <<>> /\ phase = [d \in Dirs |-> "clear"] /\ seq = [d \in Dirs |-> 0]
      /\ haveSH = FALSE /\ haveSuite = FALSE /\ version = 0 /\ resolved = FALSE /\ unresolvable = FALSE
  BY DEF Init, Nothing
<1>2. \A m : ~Taken(m) /\ ~Queued(m)
  BY <1>1 DEF Taken, Queued
<1>3. Learned13
  BY <1>1, <1>2 DEF Learned13
<1>4. \A d \in Dirs : Counts13(d) /\ Out(d)
  BY <1>1 DEF Counts13, AppTaken, Out
<1> QED BY <1>3, <1>4 DEF InOrder13

\* How the peer protects the record processed next.
LEMMA NextProtected13 ==
  ASSUME ConnsOK, Typing, Proper13, NEW d \in Dirs, RecordStep(d)
  PROVE  LET i == taken[d] + 1
             R == NextRecord(d)
             t == taken[d]
         IN  /\ Carries(conn, d, i, "SH") => Precedes(conn, "CH", d, i)
             /\ R.type = "app" => R.key \in {"hs", "ap"}
             /\ R.key \in {"hs", "ap"} => R.type = "app"
             /\ R.key = "hs" => Precedes(conn, "SH", d, i)
             /\ R.key = "hs" /\ R.seq = 0 => ~AppTaken(d)
             /\ R.key = "hs" /\ R.seq # 0 => /\ AppTaken(d) /\ Latest(d).key = "hs" /\ ~Latest(d).finished
                                             /\ R.seq = Latest(d).seq + 1
             /\ R.key = "ap" /\ R.seq = 0 => AppTaken(d) /\ Latest(d).key = "hs" /\ Latest(d).finished
             /\ R.key = "ap" /\ R.seq # 0 => AppTaken(d) /\ Latest(d).key = "ap" /\ R.seq = Latest(d).seq + 1
             /\ R.inner = "app" => R.key = "ap"
<1> DEFINE i == taken[d] + 1
           R == NextRecord(d)
           t == taken[d]
<1>1. /\ i \in DOMAIN conn.rec[d] /\ R = conn.rec[d][i]
      /\ i - 1 = t /\ t \in Nat /\ (i > 1 => t > 0) /\ t < Len(conn.rec[d])
  BY RecordEffect
<1>2. t > 0 => t \in DOMAIN conn.rec[d] /\ t \in 1..t
  BY <1>1 DEF ConnsOK, Typing, TypeOK
<1>3. /\ R.key = "ap" => R.type = "app"
      /\ R.key = "ap" /\ R.seq > 0 => t > 0 /\ conn.rec[d][t].key = "ap" /\ R.seq = conn.rec[d][t].seq + 1
      /\ R.seq \in Nat
  BY <1>1, NextCounted
<1> HIDE DEF i, R, t
<1>4. LET r == conn.rec[d][i] IN
      /\ Carries(conn, d, i, "SH") => Precedes(conn, "CH", d, i)
      /\ r.type = "app" => r.key \in {"hs", "ap"}
      /\ r.key = "hs" =>
           /\ r.type = "app" /\ Precedes(conn, "SH", d, i)
           /\ IF r.seq = 0 THEN \A j \in 1..(i - 1) : conn.rec[d][j].type # "app"
              ELSE /\ i > 1 /\ conn.rec[d][i - 1].key = "hs" /\ ~conn.rec[d][i - 1].finished
                   /\ r.seq = conn.rec[d][i - 1].seq + 1
      /\ r.key = "ap" /\ r.seq = 0 => i > 1 /\ conn.rec[d][i - 1].key = "hs" /\ conn.rec[d][i - 1].finished
      /\ r.inner = "app" => r.key = "ap"
  BY <1>1, Zenon DEF Proper13, Protected13
<1>5. t > 0 /\ conn.rec[d][t].key = "hs" => conn.rec[d][t].type = "app"
  BY <1>2, Zenon DEF Proper13, Protected13
<1>6. t > 0 /\ conn.rec[d][t].key = "ap" => conn.rec[d][t].type = "app"
  <2>1. SenderCounts(conn.rec[d])
    BY DEF ConnsOK, Typing, TypeOK
  <2> QED BY <1>2, <2>1 DEF SenderCounts
<1>7. t > 0 /\ conn.rec[d][t].key \in {"hs", "ap"} => AppTaken(d) /\ Latest(d) = conn.rec[d][t]
  BY <1>2, <1>5, <1>6 DEF AppTaken, Latest, t
<1>8. ~AppTaken(d) <=> \A j \in 1..t : conn.rec[d][j].type # "app"
  BY DEF AppTaken, t
<1>9. /\ Carries(conn, d, i, "SH") => Precedes(conn, "CH", d, i)
      /\ R.type = "app" => R.key \in {"hs", "ap"}
      /\ R.key \in {"hs", "ap"} => R.type = "app"
      /\ R.key = "hs" => Precedes(conn, "SH", d, i)
      /\ R.inner = "app" => R.key = "ap"
  BY <1>1, <1>3, <1>4
<1>10. R.key = "hs" /\ R.seq = 0 => ~AppTaken(d)
  BY <1>1, <1>4, <1>8
<1>11. R.key = "hs" /\ R.seq # 0 => /\ AppTaken(d) /\ Latest(d).key = "hs" /\ ~Latest(d).finished
                                    /\ R.seq = Latest(d).seq + 1
  BY <1>1, <1>4, <1>7
<1>12. R.key = "ap" /\ R.seq = 0 => AppTaken(d) /\ Latest(d).key = "hs" /\ Latest(d).finished
  BY <1>1, <1>4, <1>7
<1>13. R.key = "ap" /\ R.seq # 0 => AppTaken(d) /\ Latest(d).key = "ap" /\ R.seq = Latest(d).seq + 1
  BY <1>3, <1>7
<1> QED BY <1>9, <1>10, <1>11, <1>12, <1>13 DEF i, R, t

\* What was sent before a record has been taken when that record's turn comes.
LEMMA PrecedesTaken ==
  ASSUME ConnsOK, Typing, Proper13, NEW d \in Dirs, RecordStep(d), NEW m,
         Precedes(conn, m, d, taken[d] + 1)
  PROVE  Taken(m)
<1>1. PICK e \in Dirs : \E j \in DOMAIN conn.rec[e] :
             Carries(conn, e, j, m) /\ Before(conn, e, j, d, taken[d] + 1)
  BY DEF Precedes
<1>2. PICK j \in DOMAIN conn.rec[e] : Carries(conn, e, j, m) /\ Before(conn, e, j, d, taken[d] + 1)
  BY <1>1
<1>3. j \in 1..taken[e]
  BY <1>2, EarlierTaken DEF Proper13
<1> QED BY <1>2, <1>3 DEF Taken

\* The ServerHello brings the keys, if the user has them; no message that comes
\* later takes them away (tryResolveTLS13).
LEMMA LearnedMessage13 ==
  ASSUME Typing, Reading, Proper13, Learned13, MessageStep
  PROVE  /\ Learned13'
         /\ \A d \in Dirs : phase'[d] = phase[d] \/ phase'[d] = "hs13"
<1>1. conn' = conn /\ keys' = keys /\ taken' = taken
  BY DEF MessageStep, ClientHello, ServerHello, ClientKeyExchange, OtherMessage, Message
<1>2. HaveSecret' = HaveSecret /\ \A m : Taken(m)' <=> Taken(m)
  BY <1>1 DEF HaveSecret, Taken, Carries, InClear
<1>3. Verdicts
  BY DEF Typing, TypeOK, Verdicts
<1>4. CASE ClientHello
  <2>1. /\ Message("CH") /\ haveCH' = TRUE
        /\ UNCHANGED <<haveSH, version, haveSuite, outcome, phase>>
    BY <1>4 DEF ClientHello
  <2>2. Queued("SH") => Queued("SH")'
    BY <2>1, WordsAre, MessageRead
  <2> QED BY <1>2, <2>1, <2>2 DEF Learned13, outcome
<1>5. ASSUME NEW m \in Words, Message(m), m \notin {"CH", "SH"}, UNCHANGED <<haveCH, haveSH, version, haveSuite, phase>>,
             resolved' => keysFit', HaveSecret => (resolved' <=> haveSH) /\ ~unresolvable'
      PROVE  Learned13' /\ phase' = phase
  <2>1. /\ Queued("SH") => Queued("SH")'
        /\ Queued("CH") => Queued("CH")'
        /\ Queued("SH")' => Queued("SH")
    BY <1>5, MessageRead
  <2> QED BY <1>2, <1>5, <2>1 DEF Learned13
<1>6. CASE OtherMessage
  <2>1. PICK m \in {"Cert", "SHD", "junk"} : Message(m)
    BY <1>6 DEF OtherMessage
  <2>2. UNCHANGED <<haveCH, haveSH, version, haveSuite, outcome, phase>>
    BY <1>6 DEF OtherMessage
  <2>3. m \in Words /\ m \notin {"CH", "SH"}
    BY WordsAre
  <2>4. /\ resolved' => keysFit'
        /\ HaveSecret => (resolved' <=> haveSH) /\ ~unresolvable'
    BY <2>2 DEF Learned13, outcome
  <2> QED BY <1>5, <2>1, <2>2, <2>3, <2>4
<1>7. ASSUME NEW ch, NEW suite, NEW c, NEW hash, TryResolve(ch, TRUE, 4, suite, c, hash),
             HaveSecret => ch /\ suite
      PROVE  /\ resolved' => keysFit'
             /\ HaveSecret => resolved' /\ ~unresolvable'
  <2>1. /\ Resolve13.done = "resolved" => Resolve13.fit = TRUE
        /\ keys.secrets13 = "all" => Resolve13.done = "resolved"
    BY DEF Resolve13
  <2>2. HaveSecret => keys.secrets13 = "all"
    BY DEF HaveSecret, Proper13
  <2>3. 4 >= 4
    OBVIOUS
  <2>4. IF resolved \/ unresolvable \/ ~suite \/ ~ch \/ ~TRUE
        THEN UNCHANGED outcome
        ELSE /\ resolved' = (Resolve13.done = "resolved")
             /\ unresolvable' = (Resolve13.done = "unresolvable")
             /\ keysFit' = Resolve13.fit
    BY <1>7, <2>3 DEF TryResolve
  <2>5. (resolved => keysFit) /\ (HaveSecret => ~unresolvable)
    BY DEF Learned13
  <2>6. CASE resolved \/ unresolvable \/ ~suite \/ ~ch
    BY <1>3, <1>7, <2>4, <2>5, <2>6 DEF outcome, Verdicts
  <2>7. CASE ~(resolved \/ unresolvable \/ ~suite \/ ~ch)
    <3>1. /\ resolved' = (Resolve13.done = "resolved")
          /\ unresolvable' = (Resolve13.done = "unresolvable")
          /\ keysFit' = Resolve13.fit
      BY <2>4, <2>7
    <3> QED BY <2>1, <2>2, <3>1
  <2> QED BY <2>6, <2>7
<1>8. CASE ServerHello
  <2>1. /\ Message("SH") /\ haveSH' = TRUE /\ version' = conn.version /\ haveCH' = haveCH
        /\ haveSuite' = (haveSuite \/ conn.known)
        /\ phase' = IF version' >= 4 THEN [d \in Dirs |-> "hs13"] ELSE phase
        /\ TryResolve(haveCH, TRUE, version', haveSuite', cke, hashAtCKE)
    BY <1>8 DEF ServerHello
  <2>2. version' = 4 /\ haveSuite' = TRUE
    BY <2>1 DEF Proper13
  <2>3. phase' = [d \in Dirs |-> "hs13"]
    <3>1. 4 >= 4
      OBVIOUS
    <3> QED BY <2>1, <2>2, <3>1
  <2>4. TryResolve(haveCH, TRUE, 4, TRUE, cke, hashAtCKE)
    BY <2>1, <2>2
  <2>5. Queued("SH") /\ (Queued("SH")' => Queued("SH"))
    BY <2>1, WordsAre, MessageRead
  <2>6. haveCH
    BY <2>5 DEF Learned13
  <2>7. /\ resolved' => keysFit'
        /\ HaveSecret => resolved' /\ ~unresolvable'
    BY <1>7, <2>4, <2>6
  <2>8. Learned13'
    BY <1>2, <2>1, <2>2, <2>3, <2>6, <2>7 DEF Learned13
  <2> QED BY <2>3, <2>8
<1>9. CASE ClientKeyExchange
  <2>1. PICK b \in {"sent", "junk"} :
          /\ Message(IF b = "sent" THEN "CKE" ELSE "junkCKE")
          /\ TryResolve(haveCH, haveSH, version, haveSuite, b, hashAtCKE')
          /\ UNCHANGED <<haveCH, haveSH, version, haveSuite, phase>>
    BY <1>9 DEF ClientKeyExchange
  <2>2. PICK m \in {"CKE", "junkCKE"} : Message(m)
    BY <2>1
  <2>3. m \in Words /\ m \notin {"CH", "SH"}
    BY WordsAre
  <2>4. CASE haveSH
    <3>1. version = 4 /\ haveSH = TRUE
      BY <2>4 DEF Learned13, Typing, TypeOK
    <3>2. TryResolve(haveCH, TRUE, 4, haveSuite, b, hashAtCKE')
      BY <2>1, <3>1
    <3>3. HaveSecret => haveCH /\ haveSuite
      BY <2>4 DEF Learned13, Typing, TypeOK
    <3>4. /\ resolved' => keysFit'
          /\ HaveSecret => (resolved' <=> haveSH) /\ ~unresolvable'
      BY <1>7, <2>4, <3>2, <3>3
    <3> QED BY <1>5, <2>1, <2>2, <2>3, <3>4
  <2>5. CASE ~haveSH
    <3>1. UNCHANGED outcome
      BY <2>1, <2>5 DEF TryResolve
    <3>2. /\ resolved' => keysFit'
          /\ HaveSecret => (resolved' <=> haveSH) /\ ~unresolvable'
      BY <3>1 DEF Learned13, outcome
    <3> QED BY <1>5, <2>1, <2>2, <2>3, <3>2
  <2> QED BY <2>4, <2>5
<1> QED BY <1>4, <1>6, <1>8, <1>9 DEF MessageStep

\* What a record does to the queue: its own messages if its direction is in the
\* clear, junk if they are not in the clear, nothing otherwise (processRecord).
LEMMA QueueAfter13 ==
  ASSUME ConnsOK, Typing, Proper13, Learned13, NEW d \in Dirs, RecordStep(d)
  PROVE  /\ haveSH => todo' = todo
         /\ todo' = todo \/ taken[d] + 1 \in InClear(conn, d) \/ (~Queued("SH")' /\ ~Queued("CH")')
         /\ taken[d] + 1 \in InClear(conn, d) =>
              IF haveSH THEN todo' = todo ELSE todo'.msgs = NextRecord(d).msgs
<1> DEFINE i == taken[d] + 1
           R == NextRecord(d)
           plain == R.key = ""
<1>1. i \in DOMAIN conn.rec[d] /\ R = conn.rec[d][i] /\ todo.msgs = <<>>
  BY RecordEffect
<1>2. i \in InClear(conn, d) <=> R.type = "hs" /\ plain
  BY <1>1, Zenon DEF InClear
<1>3. phase[d] = "clear" <=> ~haveSH
  BY DEF Learned13
<1>4. haveSH => todo' = todo
  BY <1>3, RecordBranch
<1>5. /\ ClearHandshake(d) => R.type = "hs" /\ phase[d] = "clear"
      /\ R.type = "hs" /\ phase[d] = "clear" => ClearHandshake(d)
  BY RecordBranch
<1>6. CASE ~ClearHandshake(d)
  <2>1. todo' = todo
    BY <1>6, RecordBranch
  <2> HIDE DEF plain
  <2>2. i \in InClear(conn, d) => haveSH
    BY <1>2, <1>3, <1>5, <1>6
  <2> QED BY <2>1, <2>2
<1>7. CASE ClearHandshake(d) /\ plain
  <2>1. todo' = IF R.msgs = <<>> THEN Nothing ELSE [dir |-> d, msgs |-> R.msgs]
    BY <1>7, Zenon DEF ClearHandshake
  <2> HIDE DEF plain, R
  <2>2. todo'.msgs = R.msgs
    BY <2>1 DEF Nothing
  <2> QED BY <1>2, <1>3, <1>5, <1>7, <2>2 DEF R
<1>8. CASE ClearHandshake(d) /\ ~plain
  <2>1. PICK msgs \in {<<>>, <<"junk">>, <<"junkCKE">>} :
          todo' = IF msgs = <<>> THEN Nothing ELSE [dir |-> d, msgs |-> msgs]
    BY <1>8, Zenon DEF ClearHandshake
  <2> HIDE DEF plain
  <2>2. todo'.msgs = msgs
    BY <2>1 DEF Nothing
  <2>3. \A p \in 1..Len(msgs) : msgs[p] \in {"junk", "junkCKE"}
    BY <2>1
  <2>4. ~Queued("SH")' /\ ~Queued("CH")'
    BY <2>2, <2>3 DEF Queued
  <2> QED BY <1>2, <1>4, <1>8, <2>4
<1> HIDE DEF plain
<1> QED BY <1>6, <1>7, <1>8

\* A hello is known or waits to be once its record was processed, in its turn.
LEMMA LearnedRecord13 ==
  ASSUME ConnsOK, Typing, Reading, Proper13, Learned13, NEW d \in Dirs, RecordStep(d)
  PROVE  Learned13' /\ (NextRecord(d).type # "app" => phase' = phase /\ seq' = seq)
<1> DEFINE i == taken[d] + 1
           msgs == NextRecord(d).msgs
<1>1. /\ conn' = conn /\ keys' = keys /\ todo.msgs = <<>>
      /\ UNCHANGED <<haveCH, haveSH, version, haveSuite, resolved, unresolvable, keysFit>>
      /\ taken[d] \in Nat /\ taken'[d] = i /\ taken \in [Dirs -> Nat]
      /\ NextRecord(d) = conn.rec[d][i] /\ NextRecord(d) \in Records
      /\ \A e \in Dirs : e # d => taken'[e] = taken[e] /\ phase'[e] = phase[e]
  BY RecordEffect DEF hello, outcome
<1>2. HaveSecret' = HaveSecret
  BY <1>1 DEF HaveSecret
<1>3. \A m : ~Queued(m)
  BY <1>1 DEF Queued
<1>4. ASSUME NEW m, Taken(m)' PROVE Taken(m) \/ Carries(conn, d, i, m)
  <2>1. PICK e \in Dirs : \E j \in 1..taken'[e] : Carries(conn, e, j, m)
    <3>1. \E e \in Dirs : \E j \in 1..taken'[e] : Carries(conn', e, j, m)
      BY <1>4, Zenon DEF Taken, Carries, InClear
    <3> QED BY <1>1, <3>1
  <2>2. PICK j \in 1..taken'[e] : Carries(conn, e, j, m)
    BY <2>1
  <2>3. CASE e = d /\ j = i
    BY <2>2, <2>3
  <2>4. CASE ~(e = d /\ j = i)
    <3>1. j \in 1..taken[e]
      BY <1>1, <2>4
    <3> QED BY <2>2, <3>1 DEF Taken
  <2> QED BY <2>3, <2>4
<1>5. ASSUME NEW m, Carries(conn, d, i, m)
      PROVE  haveSH \/ Queued(m)'
  <2>1. i \in InClear(conn, d) /\ \E k \in DOMAIN msgs : msgs[k] = m
    BY <1>1, <1>5 DEF Carries
  <2>2. CASE ~haveSH
    <3>1. todo'.msgs = msgs
      BY <2>1, <2>2, QueueAfter13
    <3>2. DOMAIN msgs = 1..Len(msgs)
      <4>1. msgs \in Seq(Words)
        BY <1>1, WordsAre
      <4> QED BY <4>1
    <3> QED BY <2>1, <3>1, <3>2 DEF Queued
  <2> QED BY <2>2
<1>6. ASSUME Queued("SH")', ~haveSH PROVE haveCH
  <2>1. todo' # todo
    BY <1>3, <1>6 DEF Queued
  <2>2. i \in InClear(conn, d)
    BY <1>6, <2>1, QueueAfter13
  <2>3. todo'.msgs = msgs /\ msgs \in Seq(Words)
    BY <1>1, <1>6, <2>2, QueueAfter13, WordsAre
  <2>4. Carries(conn, d, i, "SH")
    <3>1. PICK p \in 1..Len(msgs) : msgs[p] = "SH"
      BY <1>6, <2>3 DEF Queued
    <3>2. p \in DOMAIN msgs
      BY <2>3, <3>1
    <3> QED BY <1>1, <2>2, <3>1, <3>2 DEF Carries
  <2>5. Precedes(conn, "CH", d, i)
    BY <2>4, NextProtected13
  <2>6. Taken("CH")
    BY <2>5, PrecedesTaken
  <2> QED BY <1>3, <1>6, <2>6 DEF Learned13
<1>7. haveSH => ~Queued("SH")'
  <2>1. haveSH => todo' = todo
    BY QueueAfter13
  <2> QED BY <1>3, <2>1 DEF Queued
<1>8. NextRecord(d).type # "app" => phase' = phase /\ seq' = seq
  <2> SUFFICES ASSUME NextRecord(d).type # "app" PROVE phase' = phase /\ seq' = seq
    OBVIOUS
  <2>1. version \in {0, 4}
    BY DEF Learned13
  <2>2. phase[d] \in {"clear", "hs13", "app13"}
    BY <2>1 DEF Typing, TypeOK
  <2>3. CASE NextRecord(d).type = "ccs"
    <3>1. ~CcsCounts
      BY <2>1 DEF CcsCounts
    <3> QED BY <2>3, <3>1, RecordBranch DEF ChangeCipherSpec
  <2>4. CASE NextRecord(d).type # "ccs"
    BY <2>2, <2>4, RecordBranch
  <2> QED BY <2>3, <2>4
<1>9. \A e \in Dirs : phase'[e] = "clear" <=> ~haveSH
  <2>1. \A e \in Dirs : phase[e] = "clear" <=> ~haveSH
    BY DEF Learned13
  <2>2. CASE NextRecord(d).type = "app" /\ ~haveSH
    BY <2>1, <2>2, RecordBranch
  <2>3. CASE NextRecord(d).type = "app" /\ haveSH
    <3>1. phase' = phase \/ phase' = [phase EXCEPT ![d] = "enc12"] \/ phase' = [phase EXCEPT ![d] = "app13"]
      BY RecordEffect
    <3> QED BY <2>1, <2>3, <3>1 DEF Typing, TypeOK
  <2> QED BY <1>8, <2>1, <2>2, <2>3
<1>10. Learned13'
  BY <1>1, <1>2, <1>3, <1>4, <1>5, <1>6, <1>7, <1>9 DEF Learned13
<1> QED BY <1>8, <1>10

\* The keys are there before the first encrypted record is; every one is opened
\* under the key it was protected with (decryptTLS13).
LEMMA CountsRecord13 ==
  ASSUME ConnsOK, Typing, Reading, Proper13, Learned13, HaveSecret, NEW d \in Dirs, RecordStep(d),
         \A e \in Dirs : Counts13(e)
  PROVE  /\ \A e \in Dirs : Counts13(e)'
         /\ NextRecord(d).inner = "app" => surfaced' = [surfaced EXCEPT ![d] = Append(@, NextRecord(d).data)]
<1> DEFINE i == taken[d] + 1
           R == NextRecord(d)
<1>1. /\ conn' = conn /\ resolved' = resolved /\ todo.msgs = <<>> /\ haveSH' = haveSH
      /\ taken[d] \in Nat /\ taken'[d] = i /\ i \in DOMAIN conn.rec[d]
      /\ R = conn.rec[d][i] /\ R.seq \in Nat
      /\ \A e \in Dirs : e # d => taken'[e] = taken[e] /\ phase'[e] = phase[e] /\ seq'[e] = seq[e]
  <2>1. R \in Records /\ UNCHANGED outcome /\ UNCHANGED hello /\ conn' = conn /\ todo.msgs = <<>>
        /\ taken[d] \in Nat /\ taken'[d] = i /\ i \in DOMAIN conn.rec[d] /\ R = conn.rec[d][i]
        /\ \A e \in Dirs : e # d => taken'[e] = taken[e] /\ phase'[e] = phase[e] /\ seq'[e] = seq[e]
    BY RecordEffect
  <2> HIDE DEF R, i
  <2> QED BY <2>1 DEF outcome, hello, Records
<1>2. haveSH => todo'.msgs = <<>> /\ haveSH'
  BY <1>1, QueueAfter13
<1>3. ASSUME NEW e \in Dirs, e # d PROVE Counts13(e)'
  <2>1. (AppTaken(e)' <=> AppTaken(e)) /\ Latest(e)' = Latest(e)
    BY <1>1, <1>3 DEF AppTaken, Latest
  <2>2. phase'[e] = phase[e] /\ seq'[e] = seq[e]
    BY <1>1, <1>3
  <2> QED BY <1>2, <2>1, <2>2 DEF Counts13
<1>4. Latest(d)' = R /\ (AppTaken(d)' <=> AppTaken(d) \/ R.type = "app")
  <2>1. \A j \in 1..i : j \in 1..taken[d] \/ j = i
    BY <1>1
  <2>2. i \in 1..i /\ \A j \in 1..taken[d] : j \in 1..i
    BY <1>1
  <2> HIDE DEF i, R
  <2> QED BY <1>1, <2>1, <2>2 DEF AppTaken, Latest
<1>5. /\ R.type = "app" => R.key \in {"hs", "ap"}
      /\ R.key \in {"hs", "ap"} => R.type = "app"
      /\ R.key = "hs" => Precedes(conn, "SH", d, i)
      /\ R.key = "hs" /\ R.seq = 0 => ~AppTaken(d)
      /\ R.key = "hs" /\ R.seq # 0 => /\ AppTaken(d) /\ Latest(d).key = "hs" /\ ~Latest(d).finished
                                      /\ R.seq = Latest(d).seq + 1
      /\ R.key = "ap" /\ R.seq = 0 => AppTaken(d) /\ Latest(d).key = "hs" /\ Latest(d).finished
      /\ R.key = "ap" /\ R.seq # 0 => AppTaken(d) /\ Latest(d).key = "ap" /\ R.seq = Latest(d).seq + 1
      /\ R.inner = "app" => R.key = "ap"
  BY NextProtected13
<1>6. Counts13(d) /\ \A e \in Dirs : phase[e] = "clear" <=> ~haveSH
  BY DEF Learned13
<1>7. haveSH => resolved /\ keysFit
  BY DEF Learned13
<1>8. seq \in [Dirs -> Nat] /\ phase \in [Dirs -> {"clear", "enc12", "hs13", "app13"}]
  BY DEF Typing, TypeOK
<1> SUFFICES /\ Counts13(d)'
             /\ R.inner = "app" => surfaced' = [surfaced EXCEPT ![d] = Append(@, R.data)]
  BY <1>3
<1>9. CASE R.key = "hs"
  <2>1. haveSH
    <3>1. Taken("SH")
      BY <1>5, <1>9, PrecedesTaken
    <3> QED BY <1>1, <3>1 DEF Learned13, Queued
  <2>2. R.type = "app" /\ R.inner # "app"
    BY <1>5, <1>9
  <2>3. phase[d] = "hs13" /\ seq[d] = R.seq
    <3> HIDE DEF R, i
    <3>1. CASE R.seq = 0
      BY <1>5, <1>6, <1>9, <2>1, <3>1 DEF Counts13
    <3>2. CASE R.seq # 0
      BY <1>5, <1>6, <1>9, <3>2 DEF Counts13
    <3> QED BY <3>1, <3>2
  <2>4. Decrypt13Handshake(d) /\ Opens(d, "hs")
    <3>1. Opens(d, "hs")
      BY <1>7, <1>9, <2>1, <2>3 DEF Opens
    <3> QED BY <1>7, <2>1, <2>2, <2>3, <3>1, RecordBranch
  <2>5. IF R.finished THEN phase' = [phase EXCEPT ![d] = "app13"] /\ seq' = [seq EXCEPT ![d] = 0]
                      ELSE phase' = phase /\ seq' = [seq EXCEPT ![d] = @ + 1]
    BY <2>4 DEF Decrypt13Handshake, Restarted
  <2> HIDE DEF R, i
  <2>6. Counts13(d)'
    BY <1>2, <1>4, <1>8, <1>9, <2>1, <2>2, <2>3, <2>5 DEF Counts13
  <2> QED BY <2>2, <2>6
<1>10. CASE R.key = "ap"
  <2>1. R.type = "app" /\ AppTaken(d)
    BY <1>5, <1>10
  <2>2. haveSH /\ phase[d] = "app13" /\ seq[d] = R.seq
    <3> HIDE DEF R, i
    <3>1. haveSH
      BY <1>6, <2>1 DEF Counts13
    <3>2. CASE R.seq = 0
      BY <1>5, <1>6, <1>10, <3>1, <3>2 DEF Counts13
    <3>3. CASE R.seq # 0
      BY <1>5, <1>6, <1>10, <3>1, <3>3 DEF Counts13
    <3> QED BY <3>1, <3>2, <3>3
  <2>3. Decrypt13Application(d) /\ Opens(d, "ap")
    <3>1. Opens(d, "ap")
      BY <1>7, <1>10, <2>2 DEF Opens
    <3> QED BY <1>7, <2>1, <2>2, <3>1, RecordBranch
  <2>4. /\ seq' = [seq EXCEPT ![d] = @ + 1] /\ phase' = phase
        /\ R.inner = "app" => surfaced' = [surfaced EXCEPT ![d] = Append(@, R.data)]
    BY <2>3 DEF Decrypt13Application, Surface
  <2> HIDE DEF R, i
  <2>5. Counts13(d)'
    BY <1>2, <1>4, <1>8, <1>10, <2>1, <2>2, <2>4 DEF Counts13
  <2> QED BY <2>4, <2>5
<1>11. CASE R.key \notin {"hs", "ap"}
  <2>1. R.type # "app" /\ R.inner # "app"
    BY <1>5, <1>11
  <2>2. phase' = phase /\ seq' = seq
    BY <2>1, LearnedRecord13
  <2>3. AppTaken(d)' <=> AppTaken(d)
    BY <1>4, <2>1
  <2> HIDE DEF R, i
  <2>4. CASE AppTaken(d)
    BY <1>2, <1>4, <1>6, <1>11, <2>1, <2>3, <2>4 DEF Counts13
  <2>5. CASE ~AppTaken(d)
    BY <1>6, <2>1, <2>2, <2>3, <2>5 DEF Counts13
  <2> QED BY <2>1, <2>4, <2>5
<1> QED BY <1>9, <1>10, <1>11

\* Every step keeps a session of TLS 1.3 in its order.
LEMMA InOrder13Next ==
  ASSUME Basics, InOrder13, [Next]_vars
  PROVE  InOrder13'
<1> USE ConnsHold
<1>1. Typing /\ Reading /\ surfaced \in [Dirs -> Seq(Nat)]
  BY DEF Basics
<1>2. /\ Proper13 /\ Learned13
      /\ HaveSecret => \A d \in Dirs : Counts13(d) /\ Out(d)
  BY DEF InOrder13
<1>3. CASE MessageStep
  <2>1. /\ conn' = conn /\ keys' = keys /\ taken' = taken /\ seq' = seq /\ surfaced' = surfaced
        /\ todo.msgs # <<>>
    BY <1>3 DEF MessageStep, ClientHello, ServerHello, ClientKeyExchange, OtherMessage, Message
  <2>2. Learned13' /\ \A d \in Dirs : phase'[d] = phase[d] \/ phase'[d] = "hs13"
    BY <1>1, <1>2, <1>3, LearnedMessage13
  <2>3. Proper13' /\ HaveSecret' = HaveSecret
    BY <1>2, <2>1 DEF Proper13, HaveSecret
  <2>4. ASSUME NEW d \in Dirs, Counts13(d) PROVE Counts13(d)'
    <3>1. ~AppTaken(d) /\ ~AppTaken(d)'
      BY <2>1, <2>4 DEF Counts13, AppTaken
    <3> QED BY <2>1, <2>2, <2>4, <3>1 DEF Counts13
  <2>5. \A d \in Dirs : Out(d) => Out(d)'
    BY <2>1 DEF Out
  <2> QED BY <1>2, <2>2, <2>3, <2>4, <2>5 DEF InOrder13
<1>4. ASSUME NEW d \in Dirs, RecordStep(d) PROVE InOrder13'
  <2>1. conn' = conn /\ keys' = keys
    BY <1>1, <1>4, RecordEffect
  <2>2. Learned13'
    BY <1>1, <1>2, <1>4, LearnedRecord13
  <2>3. Proper13' /\ HaveSecret' = HaveSecret
    BY <1>2, <2>1 DEF Proper13, HaveSecret
  <2>4. ASSUME HaveSecret PROVE \A e \in Dirs : Counts13(e)' /\ Out(e)'
    <3>1. /\ \A e \in Dirs : Counts13(e)'
          /\ NextRecord(d).inner = "app" => surfaced' = [surfaced EXCEPT ![d] = Append(@, NextRecord(d).data)]
      BY <1>1, <1>2, <1>4, <2>4, CountsRecord13
    <3>2. \A e \in Dirs : Out(e)'
      BY <1>1, <1>2, <1>4, <2>4, <3>1, OutRecord
    <3> QED BY <3>1, <3>2
  <2> QED BY <2>2, <2>3, <2>4 DEF InOrder13
<1>5. CASE Done \/ UNCHANGED vars
  <2>1. UNCHANGED vars
    BY <1>5 DEF Done
  <2>2. /\ Proper13' <=> Proper13
        /\ HaveSecret' <=> HaveSecret
        /\ \A m : (Taken(m)' <=> Taken(m)) /\ (Queued(m)' <=> Queued(m))
        /\ \A d : (AppTaken(d)' <=> AppTaken(d)) /\ Latest(d)' = Latest(d) /\ (Out(d)' <=> Out(d))
    BY <2>1, Zenon DEF vars, hello, outcome, Proper13, HaveSecret, Taken, Queued, AppTaken, Latest, Out
  <2>3. Learned13'
    BY <1>2, <2>1, <2>2 DEF vars, hello, outcome, Learned13
  <2>4. \A d \in Dirs : Counts13(d) => Counts13(d)'
    BY <2>1, <2>2 DEF vars, hello, outcome, Counts13
  <2> QED BY <1>2, <2>2, <2>3, <2>4 DEF InOrder13
<1>6. [Next]_vars => Done \/ UNCHANGED vars \/ MessageStep \/ \E d \in Dirs : RecordStep(d)
  BY DEF Next, MessageStep, RecordStep
<1> QED BY <1>3, <1>4, <1>5, <1>6

-----------------------------------------------------------------------------
(* Any connection in its true order *)

\* What is assumed of the connections captured in their true order: their peers
\* are those of TlsHandshakes.
CausalHandshakes == \A c \in Conns : c.causal /\ c.known => \E flow, from : Proper(c, flow, from)

\* A suite was noted only if it is known.
SuiteKnown == haveSuite => conn.known

InOrder == conn.causal /\ conn.known => InOrder13 \/ \E flow, from : InOrder12(flow, from)

\* Whatever the connection, its session starts in order and stays there.
LEMMA InOrderInit == ASSUME CausalHandshakes, Init PROVE Basics /\ SuiteKnown /\ InOrder
<1>1. conn \in Conns /\ haveSuite = FALSE
  BY DEF Init
<1>2. ASSUME conn.causal, conn.known PROVE InOrder13 \/ \E flow, from : InOrder12(flow, from)
  <2>1. PICK flow, from : Proper(conn, flow, from)
    BY <1>1, <1>2 DEF CausalHandshakes
  <2>2. conn.known = TRUE
    BY <1>1, <1>2, ConnsHold DEF ConnsOK
  <2>3. Proper13 \/ Proper12(flow, from)
    BY <1>2, <2>1, <2>2 DEF Proper, Proper13, Proper12
  <2> QED BY <2>3, InOrder13Init, InOrder12Init
<1> QED BY <1>1, <1>2, BasicsInit DEF SuiteKnown, InOrder

\* Every step keeps it there.
LEMMA InOrderNext ==
  ASSUME Basics, SuiteKnown, InOrder, [Next]_vars
  PROVE  Basics' /\ SuiteKnown' /\ InOrder'
<1>1. conn' = conn /\ (haveSuite' = haveSuite \/ haveSuite' = (haveSuite \/ conn.known))
  <2>1. CASE MessageStep
    BY <2>1 DEF MessageStep, ClientHello, ServerHello, ClientKeyExchange, OtherMessage, Message
  <2>2. ASSUME NEW d \in Dirs, RecordStep(d) PROVE conn' = conn /\ haveSuite' = haveSuite
    BY <2>2, ConnsHold, RecordEffect DEF Basics, hello
  <2>3. CASE Done \/ UNCHANGED vars
    BY <2>3 DEF Done, vars, hello
  <2>4. Done \/ UNCHANGED vars \/ MessageStep \/ \E d \in Dirs : RecordStep(d)
    BY DEF Next, MessageStep, RecordStep
  <2> QED BY <2>1, <2>2, <2>3, <2>4
<1>2. ASSUME conn.causal, conn.known PROVE InOrder13' \/ \E flow, from : InOrder12(flow, from)'
  <2>1. InOrder13 \/ \E flow, from : InOrder12(flow, from)
    BY <1>2 DEF InOrder
  <2>2. CASE InOrder13
    BY <2>2, InOrder13Next
  <2>3. CASE \E flow, from : InOrder12(flow, from)
    <3>1. PICK flow, from : InOrder12(flow, from)
      BY <2>3
    <3>2. InOrder12(flow, from)'
      BY <3>1, InOrder12Next
    <3> QED BY <3>2
  <2> QED BY <2>1, <2>2, <2>3
<1>3. InOrder'
  BY <1>1, <1>2 DEF InOrder
<1>4. SuiteKnown'
  <2>1. conn.known \in BOOLEAN
    BY ConnsHold DEF ConnsOK, Basics, Typing, TypeOK
  <2> QED BY <1>1, <2>1 DEF SuiteKnown
<1> QED BY <1>3, <1>4, BasicsNext

\* A session that calls itself resolved holds the connection's own keys, the
\* extended master secret included, if the two directions were processed in
\* their true order (masterSecretFrom, deriveTLS12, tryResolve).
THEOREM ResolvesRightly == ASSUME CausalHandshakes PROVE Spec => []ResolvedKeysFit
<1>1. Init => Basics /\ SuiteKnown /\ InOrder
  BY InOrderInit
<1>2. Basics /\ SuiteKnown /\ InOrder /\ [Next]_vars => (Basics /\ SuiteKnown /\ InOrder)'
  BY InOrderNext
<1>3. Basics /\ SuiteKnown /\ InOrder => ResolvedKeysFit
  <2> SUFFICES ASSUME Basics, SuiteKnown, InOrder, conn.causal, resolved PROVE keysFit
    BY DEF ResolvedKeysFit
  <2>1. conn.known
    BY DEF SuiteKnown, Basics, Typing, TypeOK
  <2>2. InOrder13 \/ \E flow, from : InOrder12(flow, from)
    BY <2>1 DEF InOrder
  <2>3. InOrder13 => keysFit
    BY DEF InOrder13, Learned13
  <2>4. ASSUME NEW flow, NEW from, InOrder12(flow, from) PROVE keysFit
    BY <2>4 DEF InOrder12, Verdict12
  <2> QED BY <2>2, <2>3, <2>4
<1> QED BY <1>1, <1>2, <1>3, PTL DEF Spec

\* With the right secret, and packets in their true order, every application
\* record is surfaced the moment it is processed: resolution comes before the
\* first encrypted record and the counters never fall behind the sender's
\* (processRecord, decryptTLS12, decryptTLS13).
THEOREM SurfacesAll == ASSUME CausalHandshakes PROVE Spec => []AllSurfaced
<1>1. Init => Basics /\ SuiteKnown /\ InOrder
  BY InOrderInit
<1>2. Basics /\ SuiteKnown /\ InOrder /\ [Next]_vars => (Basics /\ SuiteKnown /\ InOrder)'
  BY InOrderNext
<1>3. Basics /\ SuiteKnown /\ InOrder => AllSurfaced
  <2> SUFFICES ASSUME Basics, InOrder, conn.causal, HaveSecret, NEW d \in Dirs,
                      NEW i \in AppRecords(d, taken[d])
               PROVE  \E j \in DOMAIN surfaced[d] : surfaced[d][j] = conn.rec[d][i].data
    BY DEF AllSurfaced
  <2>1. conn.known
    BY DEF HaveSecret
  <2>2. InOrder13 \/ \E flow, from : InOrder12(flow, from)
    BY <2>1 DEF InOrder
  <2>3. InOrder13 => Out(d)
    BY DEF InOrder13
  <2>4. ASSUME NEW flow, NEW from, InOrder12(flow, from) PROVE Out(d)
    BY <2>4 DEF InOrder12
  <2>5. Out(d) /\ surfaced[d] \in Seq(Nat)
    BY <2>2, <2>3, <2>4 DEF Basics
  <2>6. DOMAIN surfaced[d] = 1..Len(surfaced[d])
    BY <2>5
  <2> QED BY <2>5, <2>6 DEF Out, AppRecords
<1> QED BY <1>1, <1>2, <1>3, PTL DEF Spec
=============================================================================
