------------------------------- MODULE TlsWire -------------------------------
(***************************************************************************)
(* From the bytes of the hellos to the bytes of the records: what a        *)
(* session reads in the two hellos (TlsParsers) decides how it opens every *)
(* record that follows (RecordLayer).  Each message is also met on its     *)
(* own, cut short or in a payload the flow table inspects.                 *)
(***************************************************************************)
EXTENDS RecordLayer, TlsParsers

vars == <<recordVars, messageVars>>

Init == RecordInit /\ MessageInit

\* drainCleartextHandshake keeps what parseClientHello and parseServerHello
\* found.
ReadHello ==
  /\ ReadMessage
  /\ etmClient' = IF sent.type = hsClientHello /\ seen' # Error THEN seen'.fields.etm ELSE etmClient
  /\ etmServer' = IF sent.type = hsServerHello /\ seen' # Error THEN seen'.fields.etm ELSE etmServer
  /\ UNCHANGED <<suite, agreed, master, sendSeq, recvSeq, wire, last>>

\* The server answers a hello; it accepts only what it was offered.
Reply ==
  /\ sent.type = hsClientHello /\ ~Short /\ seen # Unread
  /\ \E m \in Messages :
       /\ m.type = hsServerHello
       /\ Offered(m, extEncryptThenMAC) => Offered(sent, extEncryptThenMAC)
       /\ sent' = m /\ body' = Written(m) /\ seen' = Unread
       /\ agreed' = IF Offered(m, extEncryptThenMAC) THEN "encryptFirst" ELSE "macFirst"
  /\ UNCHANGED <<suite, etmClient, etmServer, master, sendSeq, recvSeq, wire, last, payload, shown>>

\* Both hellos are read; records of either direction follow.  The secret may
\* be that of another connection.
Begin ==
  /\ agreed # "unknown" /\ sent.type = hsServerHello /\ seen # Unread
  /\ suite' \in Suites /\ master' \in {"right", "other"}
  /\ sent' = [type |-> 0] /\ body' = <<>> /\ seen' = Unread
  /\ UNCHANGED <<agreed, etmClient, etmServer, sendSeq, recvSeq, wire, last, payload, shown>>

Next ==
  \/ agreed = "unknown" /\ (Capture \/ ReadPayload) /\ UNCHANGED recordVars
  \/ suite = NoSuite /\ (ReadHello \/ Reply \/ Begin)
  \/ RecordStep /\ UNCHANGED messageVars

Spec == Init /\ [][Next]_vars
=============================================================================
