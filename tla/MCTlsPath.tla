----------------------------- MODULE MCTlsPath -----------------------------
(***************************************************************************)
(* Side A writes two handshake records, headers of two bytes and bodies of  *)
(* three and two: the header of the second of its two messages is split     *)
(* between them.  Side B writes a record of one message and an empty        *)
(* record.  The payload that starts tracking may begin in the middle of A's *)
(* first record, where the bytes are no header.                             *)
(***************************************************************************)
EXTENDS TlsPath, MCTcpReassembly

Split   == [s \in Sides |-> IF s = "A" THEN Fixed({0, 1, 3, 5, 6, 9}) ELSE Fixed({0, 1, 6})]
MCHello == [s \in Sides |-> IF s = "A" THEN {0, 3} ELSE {0}]

MCRecordLen ==
  [s \in Sides |->
     IF s = "A" THEN [p \in 0..8 |-> CASE p = 0 -> 3 [] p = 5 -> 2 [] p = 3 -> 1 [] OTHER -> 9]
     ELSE [p \in 0..8 |-> IF p = 0 THEN 2 ELSE 0]]

MCMessageLen == [s \in Sides |-> [p \in 0..8 |-> IF s = "A" /\ p = 4 THEN 1 ELSE 0]]

MCHandshakes == [s \in Sides |-> IF s = "A" THEN {0, 5} ELSE {0}]
=============================================================================
