--------------------------- MODULE TcpReassembly ---------------------------
(***************************************************************************)
(* Reassembly of one TCP connection for TLS decryption                     *)
(* (internal/flow/tlsreassembly.go): the decision to track the flow, the    *)
(* per-direction buffer of out-of-order data and its cap, and the loop that *)
(* hands in-order bytes to the TLS session.                                 *)
(*                                                                         *)
(* A payload is the interval [off, len] of the stream its sender wrote; the *)
(* wire carries only the 32-bit sequence number of its first byte.  The     *)
(* capture may show segments in any order, twice, or not at all, and cut    *)
(* differently on each retransmission.                                      *)
(***************************************************************************)
EXTENDS Integers, Sequences, FiniteSets, Functions

CONSTANTS
  Half,        \* half the sequence-number space: 2^31 in the code
  ISN,         \* ISN[s]: the sequence number of side s's first byte
  StreamLen,   \* bound: a side writes at most this many bytes
  Segments,    \* Segments[s]: the payloads the capture may show for side s
  HelloBytes,  \* HelloBytes[s]: positions holding the byte 0x16
  Window,      \* bound: a captured segment is this close to the next byte due
  MaxPending   \* maxPendingReassemblyBytes: 1 MiB in the code

Sides == {"A", "B"}     \* A: the flow's first packet came from it
M == 2 * Half

Interval == [off : 0..(StreamLen - 1), len : 1..StreamLen]

ASSUME HalfAssumption   == Half \in Nat /\ Half > 1
ASSUME IsnAssumption    == ISN \in [Sides -> 0..(M - 1)]
ASSUME StreamAssumption == StreamLen \in Nat /\ StreamLen < 2 * M
ASSUME SegmentAssumption ==
  \A s \in Sides : \A g \in Segments[s] : g \in Interval /\ g.off + g.len <= StreamLen
ASSUME WindowAssumption == Window \in Nat /\ Window < Half
ASSUME CapAssumption    == MaxPending \in Nat

VARIABLES
  tracked,      \* the flow has an entry in Builder.tlsConns
  started,      \* started[s] ... pendingBytes[s]: the fields of tlsConnState.dirs,
  nextSeq,      \*   one reassemblyBuf per direction; pending[s] maps a sequence
  pending,      \*   number to the payload kept under it
  pendingBytes,
  abandoned,    \* tlsConnState.abandoned
  work,         \* the payload advanceTLS is about to feed, or Idle
  out,          \* history: out[s], the positions fed to the TLS session
  seen          \* history: seen[s], the positions captured since tracking

bufs == <<started, nextSeq, pending, pendingBytes>>
vars == <<tracked, bufs, abandoned, work, out, seen>>

OS == INSTANCE OrderedStream WITH gaveUp <- abandoned

Idle == [side |-> "none", seq |-> 0, chunk |-> [off |-> 0, len |-> 0]]
Work == [side : Sides, seq : 0..(M - 1), chunk : Interval]

-----------------------------------------------------------------------------
(* uint32 arithmetic, for the values the bounds allow *)

\* x modulo 2^32 for 0 <= x < 3 * 2^32.
Wrap(x) == IF x < M THEN x ELSE IF x < 2 * M THEN x - M ELSE x - 2 * M

\* int32(a - b).
SignedDiff(a, b) == LET d == IF a >= b THEN a - b ELSE a - b + M
                    IN  IF d < Half THEN d ELSE d - M

\* Mutant of SeqNo: the arithmetic does not wrap.
SeqNoUnwrapped(s, off) == ISN[s] + off

SeqNo(s, off) == Wrap(ISN[s] + off)

Bytes(g) == g.off .. (g.off + g.len - 1)
\* Mutant of Trim: what overlaps is fed again.
TrimNothing(g, n) == g

Trim(g, n) == [off |-> g.off + n, len |-> g.len - n]      \* payload[n:]

\* Mutant of Put: the map is made anew on every call.
PutAlone(p, k, g) == [x \in {k} |-> g]

\* A map with g under k.
Put(p, k, g) == [x \in DOMAIN p \union {k} |-> IF x = k THEN g ELSE p[x]]

\* The next position due on side s, once something was handed over.
NextDue(s) == out[s][1] + Len(out[s])

-----------------------------------------------------------------------------
Init ==
  /\ tracked = FALSE
  /\ started = [s \in Sides |-> FALSE]
  /\ nextSeq = [s \in Sides |-> 0]
  /\ pending = [s \in Sides |-> [k \in {} |-> Idle.chunk]]
  /\ pendingBytes = [s \in Sides |-> 0]
  /\ abandoned = FALSE
  /\ work = Idle
  /\ out = [s \in Sides |-> <<>>]
  /\ seen = [s \in Sides |-> {}]

\* Mutant of StartsTracking: any payload of side A will do.
StartsOnAnyPayload(s, g) == s = "A"

\* maybeStartTLS: side A's payload begins with 0x16.
StartsTracking(s, g) == s = "A" /\ g.off \in HelloBytes[s]

\* The packet reaches the TLS part of Builder.Add: one at a time, and only
\* with a payload.  tracked' is what feedTLS finds in tlsConns.
Captured(s, g) ==
  /\ work = Idle
  /\ out[s] # <<>> => g.off - NextDue(s) \in (-Window)..Window
  /\ tracked' = (tracked \/ StartsTracking(s, g))

\* conn == nil || conn.abandoned.
IgnorePacket(s, g) ==
  /\ Captured(s, g)
  /\ ~tracked' \/ abandoned
  /\ UNCHANGED <<bufs, abandoned, work, out, seen>>

\* Mutant of Feeding: a connection given up is fed all the same.
FeedingRegardless(s, g) ==
  /\ Captured(s, g)
  /\ tracked'
  /\ started' = [started EXCEPT ![s] = TRUE]

\* feedTLS proper.  The first payload seen in a direction is the next one due.
Feeding(s, g) ==
  /\ Captured(s, g)
  /\ tracked'
  /\ ~abandoned
  /\ started' = [started EXCEPT ![s] = TRUE]

\* Mutant of Due: every payload is taken for the first one.
DueAlways(s, g) == SeqNo(s, g.off)

Due(s, g)      == IF started[s] THEN nextSeq[s] ELSE SeqNo(s, g.off)
Distance(s, g) == SignedDiff(SeqNo(s, g.off), Due(s, g))

\* Mutant of Fits: the payload at hand is left out of the count.
FitsWithout(s, g) == pendingBytes[s] <= MaxPending

Fits(s, g) == pendingBytes[s] + g.len <= MaxPending

\* A gap, and no room to keep what follows it: the whole connection goes.
Abandon(s, g) ==
  /\ Feeding(s, g)
  /\ Distance(s, g) > 0
  /\ ~Fits(s, g)
  /\ abandoned' = TRUE
  /\ UNCHANGED <<nextSeq, pending, pendingBytes, work, out, seen>>

\* A gap: keep the payload under its sequence number, over any other.
BufferAhead(s, g) ==
  /\ Feeding(s, g)
  /\ Distance(s, g) > 0
  /\ Fits(s, g)
  /\ pending' = [pending EXCEPT ![s] = Put(@, SeqNo(s, g.off), g)]
  /\ pendingBytes' = [pendingBytes EXCEPT ![s] = @ + g.len]
  /\ seen' = [seen EXCEPT ![s] = @ \union Bytes(g)]
  /\ UNCHANGED <<nextSeq, abandoned, work, out>>

\* Everything in it was consumed before.
DropRetransmission(s, g) ==
  /\ Feeding(s, g)
  /\ Distance(s, g) < 0
  /\ -Distance(s, g) >= g.len
  /\ seen' = [seen EXCEPT ![s] = @ \union Bytes(g)]
  /\ UNCHANGED <<nextSeq, pending, pendingBytes, abandoned, work, out>>

\* In order, or overlapping the next byte due: call advanceTLS on the rest.
TakeInOrder(s, g) ==
  LET overlap == -Distance(s, g) IN
  /\ Feeding(s, g)
  /\ overlap >= 0
  /\ overlap < g.len
  /\ nextSeq' = [nextSeq EXCEPT ![s] = Due(s, g)]
  /\ work' = [side |-> s, seq |-> Due(s, g), chunk |-> Trim(g, overlap)]
  /\ seen' = [seen EXCEPT ![s] = @ \union Bytes(g)]
  /\ UNCHANGED <<pending, pendingBytes, abandoned, out>>

\* One round of the loop in advanceTLS: feed the payload, then go on with the
\* pending one that starts where it ended, if there is one.
Advance ==
  LET s    == work.side
      next == Wrap(work.seq + work.chunk.len)
      p    == pending[s]
  IN
  /\ work # Idle
  /\ out' = [out EXCEPT ![s] = @ \o OS!Positions(work.chunk.off, work.chunk.len)]
  /\ nextSeq' = [nextSeq EXCEPT ![s] = next]
  /\ \/ /\ next \in DOMAIN p
        /\ pending' = [pending EXCEPT ![s] = Restrict(p, DOMAIN p \ {next})]
        /\ pendingBytes' = [pendingBytes EXCEPT ![s] = @ - p[next].len]
        /\ work' = [side |-> s, seq |-> next, chunk |-> p[next]]
     \/ /\ next \notin DOMAIN p
        /\ work' = Idle
        /\ UNCHANGED <<pending, pendingBytes>>
  /\ UNCHANGED <<tracked, started, abandoned, seen>>

Next ==
  \/ \E s \in Sides : \E g \in Segments[s] :
       \/ IgnorePacket(s, g)
       \/ Abandon(s, g)
       \/ BufferAhead(s, g)
       \/ DropRetransmission(s, g)
       \/ TakeInOrder(s, g)
  \/ Advance

Spec == Init /\ [][Next]_vars

-----------------------------------------------------------------------------
(* Properties *)

\* The types of the variables.
TypeOK ==
  /\ tracked \in BOOLEAN /\ abandoned \in BOOLEAN
  /\ started \in [Sides -> BOOLEAN]
  /\ nextSeq \in [Sides -> 0..(M - 1)]
  /\ pendingBytes \in [Sides -> Int]
  /\ DOMAIN pending = Sides
  /\ \A s \in Sides : /\ DOMAIN pending[s] \subseteq 0..(M - 1)
                      /\ \A k \in DOMAIN pending[s] : pending[s][k] \in Interval
  /\ work \in Work \union {Idle}
  /\ out \in [Sides -> Seq(Nat)]
  /\ seen \in [Sides -> SUBSET (0..(StreamLen - 1))]

\* However segments are cut, reordered, repeated or lost, and wherever the
\* sequence numbers wrap, the TLS session is fed one gap-free, duplicate-free
\* run of the sender's stream (feedTLS and advanceTLS).
FedInOrder ==
  \A s \in Sides : out[s] # <<>> => out[s] = OS!Positions(out[s][1], Len(out[s]))

\* Every buffered payload is kept under the sequence number of its own first
\* byte, and nextSeq is the number of the next position due, also halfway
\* through the loop of advanceTLS.
InPlace ==
  /\ \A s \in Sides :
       /\ started[s] <=> out[s] # <<>> \/ work.side = s
       /\ \A k \in DOMAIN pending[s] :
            LET g == pending[s][k]
            IN  k = SeqNo(s, g.off) /\ g.off + g.len <= StreamLen
       /\ out[s] # <<>> /\ work.side # s =>
            NextDue(s) <= StreamLen /\ nextSeq[s] = SeqNo(s, NextDue(s))
  /\ work # Idle =>
       LET s == work.side
           g == work.chunk
       IN  /\ g.off + g.len <= StreamLen
           /\ work.seq = SeqNo(s, g.off)
           /\ out[s] # <<>> => g.off = NextDue(s)

\* The client bytes fed to the session begin with the byte 0x16 of a payload
\* that starts tracking (maybeStartTLS looks at one byte): whatever came
\* before it is never fed.  That a record begins there is not claimed.
StartsAtHello == out["A"] # <<>> => out["A"][1] \in HelloBytes["A"]

Buffered(s) == SumFunction([k \in DOMAIN pending[s] |-> pending[s][k].len])

\* The memory a direction holds is bounded by what maxPendingReassemblyBytes
\* promises: pendingBytes never counts less than what is really buffered.
BoundedBuffer == \A s \in Sides : Buffered(s) <= pendingBytes[s] /\ pendingBytes[s] <= MaxPending

\* Between packets, every captured byte that joins on to what was fed has
\* been fed too: "once in-order bytes are available, hands them to the TLS
\* session" (tlsreassembly.go:44).
Complete ==
  work = Idle /\ ~abandoned =>
    \A s \in Sides : out[s] # <<>> =>
      \A b \in seen[s] : (\A x \in NextDue(s)..b : x \in seen[s]) => b < NextDue(s)

\* A connection is given up only when a direction really holds too much to
\* buffer one more payload: the cap "bounds how much out-of-order data a
\* single TCP direction will buffer before giving up" (tlsreassembly.go:13).
AbandonsOnlyWhenFull ==
  [][abandoned' /\ ~abandoned =>
       \E s \in Sides : \E g \in Segments[s] : Buffered(s) + g.len > MaxPending]_vars

\* The buffers, the cap and the loop together deliver what OrderedStream
\* promises to the TLS session.
DeliversOrderedStream == OS!Spec
=============================================================================
