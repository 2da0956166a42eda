--------------------------- MODULE OrderedStream ---------------------------
(***************************************************************************)
(* What a TLS session may rely on, whatever TCP reassembly does beneath    *)
(* it: each side's bytes arrive as one gap-free, duplicate-free run of that *)
(* side's stream, and once the connection is given up nothing arrives.      *)
(* A byte is named by its position in the stream its sender wrote.          *)
(***************************************************************************)
EXTENDS Integers, Sequences

CONSTANTS Sides,      \* the two directions of a connection
          StreamLen   \* bound: positions of a stream are 0 .. StreamLen-1

VARIABLES out,        \* out[s]: the positions handed over so far, in order
          gaveUp      \* the connection is no longer reassembled

\* The n consecutive positions from a.
Positions(a, n) == [i \in 1..n |-> a + i - 1]

Init == /\ out = [s \in Sides |-> <<>>]
        /\ gaveUp = FALSE

\* Hand over the n positions that follow those already handed over; the
\* first run of a side may start anywhere, as a capture may.
Hand(s, a, n) ==
  /\ ~gaveUp
  /\ out[s] # <<>> => a = out[s][1] + Len(out[s])
  /\ out' = [out EXCEPT ![s] = @ \o Positions(a, n)]
  /\ UNCHANGED gaveUp

GiveUp == /\ ~gaveUp
          /\ gaveUp' = TRUE
          /\ UNCHANGED out

Next == \/ \E s \in Sides, a \in 0..(StreamLen - 1), n \in 1..StreamLen : Hand(s, a, n)
        \/ GiveUp

Spec == Init /\ [][Next]_<<out, gaveUp>>
=============================================================================
