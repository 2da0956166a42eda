-------------------------- MODULE MCTcpReassembly --------------------------
(***************************************************************************)
(* Small instances of TcpReassembly.  Side A's numbers wrap past 2^32 in    *)
(* the middle of its stream, side B's do not.                               *)
(***************************************************************************)
EXTENDS TcpReassembly

\* Every way of cutting the first n bytes of a stream into payloads of 1 to max bytes.
Cuts(n, max) == {g \in [off : 0..(n - 1), len : 1..max] : g.off + g.len <= n}

\* One fixed cutting: payload boundaries that no retransmission moves.
Fixed(bounds) ==
  {[off |-> a, len |-> b - a] : <<a, b>> \in
     {<<a, b>> \in bounds \X bounds : a < b /\ ~\E c \in bounds : a < c /\ c < b}}

WrapIsn  == [s \in Sides |-> IF s = "A" THEN M - 3 ELSE 1]

Recut    == [s \in Sides |-> IF s = "A" THEN Cuts(6, 3) ELSE Cuts(3, 2)]
Uncut    == [s \in Sides |-> IF s = "A" THEN Fixed({0, 2, 3, 4, 6}) ELSE Fixed({0, 1, 3})]
OneSided == [s \in Sides |-> IF s = "A" THEN Cuts(StreamLen, 3) ELSE {}]

Hellos   == [s \in Sides |-> IF s = "A" THEN {0, 2} ELSE {0}]
=============================================================================
