--------------------------- MODULE TlsPathProofs ---------------------------
(***************************************************************************)
(* Proofs about the path of a connection's bytes.  First reassembly         *)
(* (TcpReassembly), for every initial sequence number, every way of         *)
(* cutting, reordering, repeating and losing segments, and every cap; then  *)
(* what reassembly and the cutting of records and messages achieve together *)
(* (TlsPath), wherever records and messages begin and end and however       *)
(* segments split them.                                                     *)
(***************************************************************************)
EXTENDS TlsPath, DataLemmas, SequenceTheorems, TLAPS

Assumptions ==
  /\ Half \in Nat /\ Half > 1
  /\ ISN \in [Sides -> 0..(M - 1)]
  /\ StreamLen \in Nat /\ StreamLen < 2 * M
  /\ \A s \in Sides : \A g \in Segments[s] : g \in Interval /\ g.off + g.len <= StreamLen
  /\ Window \in Nat /\ Window < Half
  /\ MaxPending \in Nat

\* The named assumptions of TcpReassembly, gathered.
LEMMA AssumptionsHold == Assumptions
BY HalfAssumption, IsnAssumption, StreamAssumption, SegmentAssumption,
   WindowAssumption, CapAssumption DEF Assumptions

-----------------------------------------------------------------------------
(* Sequence numbers *)

\* Reducing modulo 2^32 yields a 32-bit value.
LEMMA WrapType == ASSUME Half \in Nat \ {0}, NEW x \in 0..(3 * M - 1)
                  PROVE  Wrap(x) \in 0..(M - 1)
BY SMT DEF Wrap, M

\* Two positions less than 2^31 apart differ by what their numbers say.
LEMMA SignedDiffExact ==
  ASSUME Half \in Nat \ {0}, NEW i \in 0..(M - 1), NEW a \in 0..(M - 1), NEW b \in 0..(M - 1),
         -Half < a - b, a - b < Half
  PROVE  SignedDiff(Wrap(i + a), Wrap(i + b)) = a - b
BY SMT DEF SignedDiff, Wrap, M

\* Within one turn of the sequence space, a number names one position.
LEMMA WrapInjective ==
  ASSUME Half \in Nat \ {0}, NEW i \in 0..(M - 1), NEW a \in 0..(M - 1), NEW b \in 0..(M - 1),
         Wrap(i + a) = Wrap(i + b)
  PROVE  a = b
BY SMT DEF Wrap, M

-----------------------------------------------------------------------------
(* Runs of positions *)

\* A run of positions is a sequence of naturals, of the length asked for.
LEMMA PositionsType ==
  ASSUME NEW a \in Nat, NEW n \in Nat
  PROVE  /\ OS!Positions(a, n) \in Seq(Nat)
         /\ Len(OS!Positions(a, n)) = n
         /\ \A i \in 1..n : OS!Positions(a, n)[i] = a + i - 1
BY SMT DEF OS!Positions

\* Two runs, the second starting where the first ends, make one run.
LEMMA PositionsConcat ==
  ASSUME NEW a \in Nat, NEW m \in Nat, NEW n \in Nat
  PROVE  OS!Positions(a, m) \o OS!Positions(a + m, n) = OS!Positions(a, m + n)
<1> DEFINE p == OS!Positions(a, m)
           q == OS!Positions(a + m, n)
           r == OS!Positions(a, m + n)
<1>1. p \in Seq(Nat) /\ Len(p) = m /\ \A i \in 1..m : p[i] = a + i - 1
  BY PositionsType
<1>2. q \in Seq(Nat) /\ Len(q) = n /\ \A i \in 1..n : q[i] = a + m + i - 1
  <2>1. a + m \in Nat
    OBVIOUS
  <2> QED BY <2>1, PositionsType
<1>3. r \in Seq(Nat) /\ Len(r) = m + n /\ \A i \in 1..(m + n) : r[i] = a + i - 1
  <2>1. m + n \in Nat
    OBVIOUS
  <2> QED BY <2>1, PositionsType
<1> HIDE DEF p, q, r
<1>4. p \o q \in Seq(Nat) /\ Len(p \o q) = m + n
  BY <1>1, <1>2, ConcatProperties
<1>5. ASSUME NEW i \in 1..(m + n) PROVE (p \o q)[i] = r[i]
  <2>1. (p \o q)[i] = IF i <= m THEN p[i] ELSE q[i - m]
    BY <1>1, <1>2, ConcatProperties
  <2>2. CASE i <= m
    BY <1>1, <1>3, <2>1, <2>2
  <2>3. CASE i > m
    <3>1. i - m \in 1..n
      BY <2>3
    <3> QED BY <1>2, <1>3, <2>1, <2>3, <3>1
  <2>4. i <= m \/ i > m
    OBVIOUS
  <2> QED BY <2>2, <2>3, <2>4, Zenon
<1>6. p \o q = r
  BY <1>3, <1>4, <1>5, SeqEqual
<1> QED BY <1>6 DEF p, q, r

-----------------------------------------------------------------------------
(* The data of a step *)

\* The sequence number of a position is a 32-bit value (SeqNo).
LEMMA SeqNoType ==
  ASSUME Assumptions, NEW s \in Sides, NEW off \in 0..StreamLen
  PROVE  SeqNo(s, off) \in 0..(M - 1)
<1>1. ISN[s] + off \in 0..(3 * M - 1) /\ Half \in Nat \ {0}
  BY DEF Assumptions, M
<1> QED BY <1>1, WrapType DEF SeqNo

\* A captured payload is a non-empty interval inside the stream.
LEMMA SegmentType ==
  ASSUME Assumptions, NEW s \in Sides, NEW g \in Segments[s]
  PROVE  /\ g.off \in 0..(StreamLen - 1) /\ g.len \in 1..StreamLen
         /\ g = [off |-> g.off, len |-> g.len]
         /\ g.off + g.len <= StreamLen
         /\ g \in Interval
         /\ Bytes(g) \subseteq 0..(StreamLen - 1)
         /\ SeqNo(s, g.off) \in 0..(M - 1)
<1>1. g \in Interval /\ g.off + g.len <= StreamLen /\ StreamLen \in Nat
  BY DEF Assumptions
<1>2. g.off \in 0..(StreamLen - 1) /\ g.len \in 1..StreamLen
      /\ g = [off |-> g.off, len |-> g.len]
  BY <1>1 DEF Interval
<1>3. SeqNo(s, g.off) \in 0..(M - 1)
  BY <1>1, <1>2, SeqNoType
<1>4. Bytes(g) \subseteq 0..(StreamLen - 1)
  BY <1>1, <1>2 DEF Bytes
<1> QED BY <1>1, <1>2, <1>3, <1>4

\* What is left of a payload after dropping less than all of it (payload[n:]).
LEMMA TrimType ==
  ASSUME Assumptions, NEW g \in Interval, NEW n \in Int, g.off + g.len <= StreamLen,
         n >= 0, n < g.len
  PROVE  /\ Trim(g, n) \in Interval
         /\ Trim(g, n).off = g.off + n /\ Trim(g, n).len = g.len - n
BY DEF Trim, Interval, Assumptions

\* The signed difference feedTLS computes is an int32.
LEMMA DistanceType ==
  ASSUME Assumptions, TypeOK, NEW s \in Sides, NEW g \in Segments[s]
  PROVE  Distance(s, g) \in Int /\ Due(s, g) \in 0..(M - 1)
<1>1. SeqNo(s, g.off) \in 0..(M - 1) /\ nextSeq[s] \in 0..(M - 1) /\ M \in Nat /\ Half \in Nat
  <2>1. SeqNo(s, g.off) \in 0..(M - 1)
    BY SegmentType
  <2>2. nextSeq[s] \in 0..(M - 1)
    BY DEF TypeOK
  <2>3. M \in Nat /\ Half \in Nat
    BY DEF Assumptions, M
  <2> QED BY <2>1, <2>2, <2>3
<1>2. Due(s, g) \in 0..(M - 1)
  BY <1>1 DEF Due
<1>3. ASSUME NEW a \in 0..(M - 1), NEW b \in 0..(M - 1) PROVE SignedDiff(a, b) \in Int
  BY <1>1 DEF SignedDiff
<1> QED BY <1>1, <1>2, <1>3 DEF Distance

-----------------------------------------------------------------------------
(* Type correctness *)

\* What advanceTLS works on is a payload of one of the two sides.
LEMMA WorkType ==
  ASSUME Assumptions, TypeOK, work # Idle
  PROVE  /\ work \in Work
         /\ work.side \in Sides /\ work.seq \in 0..(M - 1)
         /\ work.chunk.off \in 0..(StreamLen - 1) /\ work.chunk.len \in 1..StreamLen
         /\ work.chunk.off \in Nat /\ work.chunk.len \in Nat /\ work.chunk.len > 0
<1>1. work \in Work
  BY DEF TypeOK
<1>2. work.side \in Sides /\ work.seq \in 0..(M - 1) /\ work.chunk \in Interval
  BY <1>1 DEF Work
<1>3. work.chunk.off \in 0..(StreamLen - 1) /\ work.chunk.len \in 1..StreamLen
  BY <1>2 DEF Interval
<1>4. StreamLen \in Nat
  BY DEF Assumptions
<1> QED BY <1>1, <1>2, <1>3, <1>4

\* Nothing is tracked or buffered at the start.
LEMMA TypeInit == ASSUME Assumptions, Init PROVE TypeOK
<1>1. nextSeq \in [Sides -> 0..(M - 1)]
  <2>1. 0 \in 0..(M - 1)
    BY DEF Assumptions, M
  <2> QED BY <2>1 DEF Init
<1>2. out \in [Sides -> Seq(Nat)]
  BY EmptySeq DEF Init
<1>3. /\ DOMAIN pending = Sides
      /\ \A s \in Sides : DOMAIN pending[s] = {}
  BY DEF Init
<1>4. /\ started \in [Sides -> BOOLEAN] /\ pendingBytes \in [Sides -> Int]
      /\ seen \in [Sides -> SUBSET (0..(StreamLen - 1))]
  BY DEF Init
<1>5. tracked \in BOOLEAN /\ abandoned \in BOOLEAN /\ work = Idle
  BY DEF Init
<1> QED BY <1>1, <1>2, <1>3, <1>4, <1>5, Zenon DEF TypeOK

\* Every packet, and every round of the loop in advanceTLS, keeps the types.
LEMMA TypeNext == ASSUME Assumptions, TypeOK, [Next]_vars PROVE TypeOK'
<1>1. ASSUME NEW s \in Sides, NEW g \in Segments[s], IgnorePacket(s, g)
      PROVE  TypeOK'
  BY <1>1 DEF IgnorePacket, Captured, bufs, TypeOK
<1>2. ASSUME NEW s \in Sides, NEW g \in Segments[s], Abandon(s, g)
      PROVE  TypeOK'
  BY <1>2 DEF Abandon, Feeding, Captured, TypeOK
<1>3. ASSUME NEW s \in Sides, NEW g \in Segments[s], BufferAhead(s, g)
      PROVE  TypeOK'
  <2>1. g.len \in Int /\ g \in Interval /\ Bytes(g) \subseteq 0..(StreamLen - 1)
        /\ SeqNo(s, g.off) \in 0..(M - 1)
    BY SegmentType
  <2>2. /\ DOMAIN pending' = Sides
        /\ \A t \in Sides : /\ DOMAIN pending'[t] \subseteq 0..(M - 1)
                            /\ \A k \in DOMAIN pending'[t] : pending'[t][k] \in Interval
    BY <1>3, <2>1 DEF BufferAhead, TypeOK, Put
  <2>3. pendingBytes' \in [Sides -> Int] /\ seen' \in [Sides -> SUBSET (0..(StreamLen - 1))]
    BY <1>3, <2>1 DEF BufferAhead, TypeOK
  <2> QED BY <1>3, <2>2, <2>3 DEF BufferAhead, Feeding, Captured, TypeOK
<1>4. ASSUME NEW s \in Sides, NEW g \in Segments[s], DropRetransmission(s, g)
      PROVE  TypeOK'
  <2>1. Bytes(g) \subseteq 0..(StreamLen - 1)
    BY SegmentType
  <2> QED BY <1>4, <2>1 DEF DropRetransmission, Feeding, Captured, TypeOK
<1>5. ASSUME NEW s \in Sides, NEW g \in Segments[s], TakeInOrder(s, g)
      PROVE  TypeOK'
  <2>1. /\ Bytes(g) \subseteq 0..(StreamLen - 1)
        /\ Due(s, g) \in 0..(M - 1) /\ Distance(s, g) \in Int
        /\ g \in Interval /\ g.off + g.len <= StreamLen
    BY SegmentType, DistanceType
  <2>2. Trim(g, -Distance(s, g)) \in Interval
    BY <1>5, <2>1, TrimType DEF TakeInOrder
  <2>3. work' \in Work
    BY <1>5, <2>1, <2>2 DEF TakeInOrder, Work
  <2>4. nextSeq' \in [Sides -> 0..(M - 1)] /\ seen' \in [Sides -> SUBSET (0..(StreamLen - 1))]
    BY <1>5, <2>1 DEF TakeInOrder, TypeOK
  <2> QED BY <1>5, <2>3, <2>4 DEF TakeInOrder, Feeding, Captured, TypeOK
<1>6. CASE Advance
  <2> DEFINE s == work.side
             next == Wrap(work.seq + work.chunk.len)
             run == OS!Positions(work.chunk.off, work.chunk.len)
  <2>1. /\ work \in Work
        /\ s \in Sides /\ work.seq \in 0..(M - 1)
        /\ work.chunk.off \in Nat /\ work.chunk.len \in 1..StreamLen
    BY <1>6, WorkType DEF Advance
  <2>2. next \in 0..(M - 1)
    <3>1. work.seq + work.chunk.len \in 0..(3 * M - 1) /\ Half \in Nat \ {0}
      BY <2>1 DEF Assumptions, M
    <3> QED BY <3>1, WrapType
  <2>3. run \in Seq(Nat)
    <3>1. work.chunk.off \in Nat /\ work.chunk.len \in Nat
      BY <2>1 DEF Assumptions
    <3> QED BY <3>1, PositionsType
  <2> HIDE DEF next, run
  <2>4. out' \in [Sides -> Seq(Nat)]
    <3>1. out[s] \o run \in Seq(Nat)
      BY <2>1, <2>3, ConcatProperties DEF TypeOK
    <3> QED BY <1>6, <2>1, <3>1 DEF Advance, TypeOK, run
  <2>5. nextSeq' \in [Sides -> 0..(M - 1)]
    BY <1>6, <2>1, <2>2 DEF Advance, TypeOK, next
  <2>6. CASE next \in DOMAIN pending[s]
    <3>1. pending[s][next] \in Interval /\ pending[s][next].len \in Int
      BY <2>1, <2>6 DEF TypeOK, Interval
    <3>2. work' \in Work
      <4>1. work' = [side |-> s, seq |-> next, chunk |-> pending[s][next]]
        BY <1>6, <2>6 DEF Advance, next
      <4>2. \A t \in Sides, n \in 0..(M - 1), c \in Interval : [side |-> t, seq |-> n, chunk |-> c] \in Work
        BY DEF Work
      <4> QED BY <2>1, <2>2, <3>1, <4>1, <4>2
    <3>3. pendingBytes' \in [Sides -> Int]
      <4>1. pendingBytes' = [pendingBytes EXCEPT ![s] = @ - pending[s][next].len]
        BY <1>6, <2>6 DEF Advance, next
      <4>2. pendingBytes \in [Sides -> Int]
        BY DEF TypeOK
      <4> QED BY <2>1, <3>1, <4>1, <4>2
    <3>4. /\ DOMAIN pending' = Sides
          /\ \A t \in Sides : /\ DOMAIN pending'[t] \subseteq 0..(M - 1)
                              /\ \A k \in DOMAIN pending'[t] : pending'[t][k] \in Interval
      <4>1. pending' = [pending EXCEPT ![s] = Restrict(@, DOMAIN @ \ {next})]
        BY <1>6, <2>6 DEF Advance, next
      <4> QED BY <2>1, <4>1 DEF TypeOK, Restrict
    <3> QED BY <1>6, <2>4, <2>5, <3>2, <3>3, <3>4 DEF Advance, TypeOK
  <2>7. CASE next \notin DOMAIN pending[s]
    BY <1>6, <2>4, <2>5, <2>7 DEF Advance, TypeOK, next
  <2> QED BY <2>6, <2>7
<1>7. CASE UNCHANGED vars
  BY <1>7 DEF vars, bufs, TypeOK
<1> QED BY <1>1, <1>2, <1>3, <1>4, <1>5, <1>6, <1>7 DEF Next

\* The variables keep their types: 32-bit sequence numbers, payloads inside
\* the stream, one payload in hand at most (all of feedTLS and advanceTLS).
THEOREM TypeCorrect == Spec => []TypeOK
<1>1. Init => TypeOK
  BY AssumptionsHold, TypeInit
<1>2. TypeOK /\ [Next]_vars => TypeOK'
  BY AssumptionsHold, TypeNext
<1> QED BY <1>1, <1>2, PTL DEF Spec

-----------------------------------------------------------------------------
(* In-order delivery *)

Ordered == TypeOK /\ FedInOrder /\ InPlace

\* The first payload of a direction is never ahead of the byte due.
LEMMA FirstIsDue ==
  ASSUME Assumptions, NEW s \in Sides, NEW g \in Segments[s], ~started[s]
  PROVE  Distance(s, g) = 0
<1>1. SeqNo(s, g.off) \in 0..(M - 1) /\ Half > 0 /\ Half \in Nat
  BY SegmentType DEF Assumptions
<1>2. SignedDiff(SeqNo(s, g.off), SeqNo(s, g.off)) = 0
  BY <1>1 DEF SignedDiff
<1> QED BY <1>2 DEF Distance, Due

\* A started direction measures a segment against the next position due.
LEMMA DistanceExact ==
  ASSUME Assumptions, StreamLen < M, Ordered, work = Idle,
         NEW s \in Sides, NEW g \in Segments[s], started[s], Captured(s, g)
  PROVE  /\ out[s] # <<>>
         /\ NextDue(s) \in 0..StreamLen
         /\ nextSeq[s] = SeqNo(s, NextDue(s))
         /\ Distance(s, g) = g.off - NextDue(s)
<1>1. work.side # s
  BY DEF Idle, Sides
<1>2. out[s] # <<>>
  BY <1>1 DEF Ordered, InPlace
<1>3. NextDue(s) <= StreamLen /\ nextSeq[s] = SeqNo(s, NextDue(s))
  BY <1>1, <1>2 DEF Ordered, InPlace
<1>4. NextDue(s) \in Nat
  <2>1. out[s] \in Seq(Nat)
    BY DEF Ordered, TypeOK
  <2> QED BY <1>2, <2>1 DEF NextDue
<1>5. /\ ISN[s] \in 0..(M - 1) /\ Half \in Nat \ {0}
      /\ g.off \in 0..(M - 1) /\ NextDue(s) \in 0..(M - 1)
  BY <1>3, <1>4, SegmentType DEF Assumptions, M
<1>6. g.off - NextDue(s) > -Half /\ g.off - NextDue(s) < Half
  BY <1>2, <1>5 DEF Captured, Assumptions
<1>7. SignedDiff(SeqNo(s, g.off), SeqNo(s, NextDue(s))) = g.off - NextDue(s)
  BY <1>5, <1>6, SignedDiffExact DEF SeqNo
<1> QED BY <1>2, <1>3, <1>4, <1>7 DEF Distance, Due, Assumptions

\* The number after a payload is the number of the position after it.
LEMMA NextNumber ==
  ASSUME Assumptions, StreamLen < M, NEW s \in Sides, NEW off \in Nat, NEW len \in Nat,
         off + len <= StreamLen
  PROVE  Wrap(SeqNo(s, off) + len) = SeqNo(s, off + len)
<1>1. ISN[s] \in 0..(M - 1) /\ Half \in Nat /\ StreamLen \in Nat
  BY DEF Assumptions
<1> QED BY <1>1 DEF SeqNo, Wrap, M

\* What handing over the payload in hand makes of a side's bytes.
LEMMA HandOver ==
  ASSUME Assumptions, Ordered, Advance
  PROVE  LET s == work.side
             g == work.chunk
         IN  /\ s \in Sides
             /\ out'[s] # <<>>
             /\ out'[s] = OS!Positions(out'[s][1], Len(out'[s]))
             /\ out'[s][1] + Len(out'[s]) = g.off + g.len
             /\ out'[s][1] = IF out[s] = <<>> THEN g.off ELSE out[s][1]
<1> DEFINE s == work.side
           g == work.chunk
           h == IF out[s] = <<>> THEN g.off ELSE out[s][1]
           n == Len(out[s]) + g.len
<1>1. s \in Sides /\ g.off \in Nat /\ g.len \in Nat /\ g.len > 0
  BY WorkType DEF Advance, Ordered
<1>2. out[s] \in Seq(Nat) /\ out'[s] = out[s] \o OS!Positions(g.off, g.len)
  BY <1>1 DEF Advance, Ordered, TypeOK
<1>3. out[s] # <<>> => out[s] = OS!Positions(out[s][1], Len(out[s])) /\ g.off = out[s][1] + Len(out[s])
  BY <1>1 DEF Advance, Ordered, FedInOrder, InPlace, NextDue
<1>4. out'[s] = OS!Positions(h, n) /\ h \in Nat /\ n \in Nat /\ n > 0 /\ h + n = g.off + g.len
  <2>1. CASE out[s] = <<>>
    <3>1. OS!Positions(g.off, g.len) \in Seq(Nat)
      BY <1>1, PositionsType
    <3>2. out'[s] = OS!Positions(g.off, g.len)
      BY <1>2, <2>1, <3>1, ConcatEmptySeq
    <3> QED BY <1>1, <2>1, <3>2
  <2>2. CASE out[s] # <<>>
    <3>1. out[s][1] \in Nat /\ Len(out[s]) \in Nat
      BY <1>2, <2>2
    <3>2. OS!Positions(out[s][1], Len(out[s])) \o OS!Positions(out[s][1] + Len(out[s]), g.len)
            = OS!Positions(out[s][1], Len(out[s]) + g.len)
      BY <1>1, <3>1, PositionsConcat
    <3>3. out'[s] = OS!Positions(out[s][1], Len(out[s])) \o OS!Positions(g.off, g.len)
      BY <1>2, <1>3, <2>2, Zenon
    <3>4. g.off = out[s][1] + Len(out[s])
      BY <1>3, <2>2
    <3>5. out'[s] = OS!Positions(h, n)
      BY <2>2, <3>2, <3>3, <3>4, Zenon
    <3>6. h \in Nat /\ n \in Nat /\ n > 0 /\ h + n = g.off + g.len
      <4>1. out[s][1] \in Nat /\ Len(out[s]) \in Nat
        BY <1>2, <2>2
      <4> QED BY <1>1, <2>2, <3>4, <4>1
    <3> QED BY <3>5, <3>6
  <2> QED BY <2>1, <2>2
<1>5. Len(out'[s]) = n /\ out'[s][1] = h
  <2> HIDE DEF n, h
  <2>1. Len(OS!Positions(h, n)) = n /\ \A i \in 1..n : OS!Positions(h, n)[i] = h + i - 1
    BY <1>4, PositionsType
  <2>2. 1 \in 1..n
    BY <1>4
  <2> QED BY <1>4, <2>1, <2>2
<1>6. out'[s] # <<>>
  BY <1>4, <1>5
<1> QED BY <1>1, <1>4, <1>5, <1>6

\* The strengthened invariant holds of a fresh connection.
LEMMA OrderedInit == ASSUME Assumptions, Init, TypeOK PROVE Ordered
BY DEF Init, Ordered, FedInOrder, InPlace, Idle, Sides

\* Every packet and every round of the loop keep the strengthened invariant.
LEMMA OrderedNext ==
  ASSUME Assumptions, StreamLen < M, Ordered, TypeOK', [Next]_vars
  PROVE  FedInOrder' /\ InPlace'
<1>1. ASSUME NEW s \in Sides, NEW g \in Segments[s], IgnorePacket(s, g)
      PROVE  FedInOrder' /\ InPlace'
  BY <1>1 DEF IgnorePacket, bufs, Ordered, FedInOrder, InPlace, NextDue
<1>2. ASSUME NEW s \in Sides, NEW g \in Segments[s], Feeding(s, g), Distance(s, g) # 0
      PROVE  started' = started
  <2>1. started[s]
    BY <1>2, FirstIsDue
  <2> QED BY <1>2, <2>1 DEF Feeding, Ordered, TypeOK
<1>3. ASSUME NEW s \in Sides, NEW g \in Segments[s], Abandon(s, g)
      PROVE  FedInOrder' /\ InPlace'
  <2>1. started' = started
    BY <1>2, <1>3, DistanceType DEF Abandon, Ordered
  <2> QED BY <1>3, <2>1 DEF Abandon, Ordered, FedInOrder, InPlace, NextDue
<1>4. ASSUME NEW s \in Sides, NEW g \in Segments[s], DropRetransmission(s, g)
      PROVE  FedInOrder' /\ InPlace'
  <2>1. started' = started
    BY <1>2, <1>4, DistanceType DEF DropRetransmission, Ordered
  <2> QED BY <1>4, <2>1 DEF DropRetransmission, Ordered, FedInOrder, InPlace, NextDue
<1>5. ASSUME NEW s \in Sides, NEW g \in Segments[s], BufferAhead(s, g)
      PROVE  FedInOrder' /\ InPlace'
  <2>1. started' = started
    BY <1>2, <1>5, DistanceType DEF BufferAhead, Ordered
  <2>2. g.off + g.len <= StreamLen
    BY SegmentType
  <2>3. ASSUME NEW t \in Sides, NEW k \in DOMAIN pending'[t]
        PROVE  k = SeqNo(t, pending'[t][k].off)
               /\ pending'[t][k].off + pending'[t][k].len <= StreamLen
    <3>1. pending'[t] = IF t = s THEN Put(pending[s], SeqNo(s, g.off), g) ELSE pending[t]
      BY <1>5 DEF BufferAhead, Ordered, TypeOK
    <3>2. CASE t = s /\ k = SeqNo(s, g.off)
      BY <2>2, <3>1, <3>2 DEF Put
    <3>3. CASE ~(t = s /\ k = SeqNo(s, g.off))
      <4>1. k \in DOMAIN pending[t] /\ pending'[t][k] = pending[t][k]
        BY <2>3, <3>1, <3>3 DEF Put
      <4> QED BY <4>1 DEF Ordered, InPlace
    <3> QED BY <3>2, <3>3
  <2> QED BY <1>5, <2>1, <2>3 DEF BufferAhead, Ordered, FedInOrder, InPlace, NextDue
<1>6. ASSUME NEW s \in Sides, NEW g \in Segments[s], TakeInOrder(s, g)
      PROVE  FedInOrder' /\ InPlace'
  <2> DEFINE c == Trim(g, -Distance(s, g))
  <2>1. /\ g \in Interval /\ g.off + g.len <= StreamLen /\ Distance(s, g) \in Int
        /\ -Distance(s, g) >= 0 /\ -Distance(s, g) < g.len
    BY <1>6, SegmentType, DistanceType DEF TakeInOrder, Ordered
  <2>2. c.off = g.off - Distance(s, g) /\ c.len = g.len + Distance(s, g)
    BY <2>1, TrimType DEF Interval
  <2>3. /\ c.off + c.len <= StreamLen
        /\ Due(s, g) = SeqNo(s, c.off)
        /\ out[s] # <<>> => c.off = NextDue(s)
    <3>1. CASE started[s]
      <4>1. /\ out[s] # <<>> /\ NextDue(s) \in 0..StreamLen /\ nextSeq[s] = SeqNo(s, NextDue(s))
            /\ Distance(s, g) = g.off - NextDue(s)
        BY <1>6, <3>1, DistanceExact DEF TakeInOrder, Feeding, Captured
      <4> QED BY <2>1, <2>2, <3>1, <4>1 DEF Due, Interval, Assumptions
    <3>2. CASE ~started[s]
      <4>1. Distance(s, g) = 0
        BY <3>2, FirstIsDue
      <4>2. out[s] = <<>>
        BY <3>2 DEF Ordered, InPlace
      <4> QED BY <2>1, <2>2, <3>2, <4>1, <4>2 DEF Due, Interval, Assumptions
    <3> QED BY <3>1, <3>2
  <2> HIDE DEF c
  <2>4. /\ work' = [side |-> s, seq |-> Due(s, g), chunk |-> c]
        /\ \A t \in Sides : nextSeq'[t] = IF t = s THEN Due(s, g) ELSE nextSeq[t]
        /\ \A t \in Sides : started'[t] <=> t = s \/ started[t]
        /\ work = Idle /\ out' = out /\ pending' = pending
    BY <1>6 DEF TakeInOrder, Feeding, Captured, Ordered, TypeOK, c
  <2>5. \A t \in Sides : work.side # t
    BY <2>4 DEF Idle, Sides
  <2>6. \A t \in Sides : started'[t] <=> out'[t] # <<>> \/ work'.side = t
    BY <2>4, <2>5 DEF Ordered, InPlace
  <2>7. \A t \in Sides : out'[t] # <<>> /\ work'.side # t =>
            NextDue(t)' <= StreamLen /\ nextSeq'[t] = SeqNo(t, NextDue(t)')
    BY <2>4, <2>5 DEF Ordered, InPlace, NextDue
  <2> QED BY <2>3, <2>4, <2>6, <2>7 DEF Ordered, FedInOrder, InPlace, NextDue
<1>7. CASE Advance
  <2> DEFINE s == work.side
             g == work.chunk
             next == Wrap(work.seq + g.len)
  <2>1. /\ s \in Sides
        /\ out'[s] # <<>> /\ out'[s] = OS!Positions(out'[s][1], Len(out'[s]))
        /\ out'[s][1] + Len(out'[s]) = g.off + g.len
    BY <1>7, HandOver
  <2>2. /\ g.off \in Nat /\ g.len \in Nat /\ g.off + g.len <= StreamLen
        /\ work.seq = SeqNo(s, g.off)
    BY <1>7, WorkType DEF Advance, Ordered, InPlace
  <2>3. next = SeqNo(s, g.off + g.len)
    <3>1. Wrap(SeqNo(s, g.off) + g.len) = SeqNo(s, g.off + g.len)
      BY <2>1, <2>2, NextNumber
    <3> QED BY <2>2, <3>1
  <2> HIDE DEF next
  <2>4. /\ started' = started
        /\ \A t \in Sides : t # s => out'[t] = out[t] /\ pending'[t] = pending[t]
                                     /\ nextSeq'[t] = nextSeq[t]
        /\ nextSeq'[s] = next
    BY <1>7, <2>1 DEF Advance, Ordered, TypeOK, next
  <2>5. FedInOrder'
    BY <2>1, <2>4 DEF Ordered, FedInOrder
  <2>6. work' # Idle => /\ next \in DOMAIN pending[s]
                        /\ work' = [side |-> s, seq |-> next, chunk |-> pending[s][next]]
    BY <1>7 DEF Advance, next
  <2>7. \A k \in DOMAIN pending'[s] : k \in DOMAIN pending[s] /\ pending'[s][k] = pending[s][k]
    <3>1. \/ pending' = [pending EXCEPT ![s] = Restrict(pending[s], DOMAIN pending[s] \ {next})]
          \/ pending' = pending
      BY <1>7 DEF Advance, next
    <3>2. s \in DOMAIN pending
      BY <2>1 DEF Ordered, TypeOK
    <3> QED BY <3>1, <3>2 DEF Restrict
  <2>8. \A t \in Sides : \A k \in DOMAIN pending'[t] :
            k = SeqNo(t, pending'[t][k].off) /\ pending'[t][k].off + pending'[t][k].len <= StreamLen
    BY <2>4, <2>7 DEF Ordered, InPlace
  <2>9. work'.side = s \/ work' = Idle
    BY <2>6
  <2>10. \A t \in Sides : started'[t] <=> out'[t] # <<>> \/ work'.side = t
    BY <2>1, <2>4, <2>9 DEF Ordered, InPlace, Idle, Sides
  <2>11. \A t \in Sides : out'[t] # <<>> /\ work'.side # t =>
            NextDue(t)' <= StreamLen /\ nextSeq'[t] = SeqNo(t, NextDue(t)')
    <3>1. ASSUME NEW t \in Sides, t # s, out'[t] # <<>>
          PROVE  NextDue(t)' <= StreamLen /\ nextSeq'[t] = SeqNo(t, NextDue(t)')
      BY <2>4, <3>1 DEF Ordered, InPlace, NextDue
    <3>2. /\ out'[s][1] + Len(out'[s]) <= StreamLen
          /\ nextSeq'[s] = SeqNo(s, out'[s][1] + Len(out'[s]))
      BY <2>1, <2>2, <2>3, <2>4
    <3> QED BY <3>1, <3>2 DEF NextDue
  <2>12. ASSUME work' # Idle
         PROVE  /\ work'.side = s
                /\ work'.chunk.off + work'.chunk.len <= StreamLen
                /\ work'.seq = SeqNo(s, work'.chunk.off)
                /\ work'.chunk.off = out'[s][1] + Len(out'[s])
    <3> DEFINE p == pending[s][next]
    <3>1. p \in Interval /\ next = SeqNo(s, p.off) /\ p.off + p.len <= StreamLen
      BY <2>1, <2>6, <2>12 DEF Ordered, TypeOK, InPlace
    <3>2. p.off = g.off + g.len
      <4>1. /\ ISN[s] \in 0..(M - 1) /\ Half \in Nat \ {0}
            /\ p.off \in 0..(M - 1) /\ g.off + g.len \in 0..(M - 1)
        <5>1. p.off \in 0..(StreamLen - 1)
          BY <3>1 DEF Interval
        <5>2. StreamLen \in Nat /\ M \in Nat /\ Half \in Nat \ {0} /\ ISN[s] \in 0..(M - 1)
          BY <2>1 DEF Assumptions, M
        <5> HIDE DEF p
        <5> QED BY <2>2, <5>1, <5>2
      <4> QED BY <2>3, <3>1, <4>1, WrapInjective DEF SeqNo
    <3> QED BY <2>1, <2>6, <2>12, <3>1, <3>2
  <2>13. InPlace'
    BY <2>8, <2>10, <2>11, <2>12 DEF InPlace, NextDue
  <2> QED BY <2>5, <2>13
<1>8. CASE UNCHANGED vars
  BY <1>8 DEF vars, bufs, Ordered, FedInOrder, InPlace, NextDue
<1> QED BY <1>1, <1>3, <1>4, <1>5, <1>6, <1>7, <1>8 DEF Next

\* Provided the stream is shorter than 2^32 bytes, the TLS session is fed one
\* gap-free, duplicate-free run of what the sender wrote, and every number and
\* buffered payload stands for the position it should.
THEOREM InOrderDelivery ==
  ASSUME StreamLen < M
  PROVE  Spec => [](FedInOrder /\ InPlace)
<1>1. Init => Ordered
  BY AssumptionsHold, TypeInit, OrderedInit
<1>2. Ordered /\ [Next]_vars => Ordered'
  BY AssumptionsHold, TypeNext, OrderedNext DEF Ordered
<1>3. Ordered => FedInOrder /\ InPlace
  BY DEF Ordered
<1> QED BY <1>1, <1>2, <1>3, PTL DEF Spec

-----------------------------------------------------------------------------
(* Tracking: what is fed first, and that nothing is in hand after giving up *)

Tracking ==
  /\ tracked => started["A"]
  /\ abandoned => tracked /\ work = Idle
  /\ \A s \in Sides : started[s] => tracked
  /\ work.side = "A" /\ out["A"] = <<>> => work.chunk.off \in HelloBytes["A"]
  /\ StartsAtHello

\* Nothing is fed at the start.
LEMMA TrackingInit == ASSUME Init PROVE Tracking
BY DEF Init, Tracking, StartsAtHello, Idle, Sides

\* Only the payload that starts tracking can be the first one fed for side A.
LEMMA TrackingNext ==
  ASSUME Assumptions, Ordered, Tracking, [Next]_vars
  PROVE  Tracking'
<1> USE DEF Sides
<1>1. ASSUME NEW s \in Sides, NEW g \in Segments[s], IgnorePacket(s, g)
      PROVE  Tracking'
  BY <1>1 DEF IgnorePacket, Captured, bufs, Tracking, StartsAtHello
<1>2. ASSUME NEW s \in Sides, NEW g \in Segments[s], Feeding(s, g)
      PROVE  /\ tracked' /\ started'["A"] /\ ~abandoned /\ work = Idle
             /\ started[s] \/ s = "B" \/ g.off \in HelloBytes["A"]
  BY <1>2 DEF Feeding, Captured, StartsTracking, Tracking, Ordered, TypeOK
<1>3. ASSUME NEW s \in Sides, NEW g \in Segments[s],
             \/ Abandon(s, g) \/ BufferAhead(s, g) \/ DropRetransmission(s, g)
      PROVE  Tracking'
  <2>1. tracked' /\ started'["A"] /\ work = Idle
    BY <1>2, <1>3 DEF Abandon, BufferAhead, DropRetransmission
  <2>2. out' = out /\ work' = work
    BY <1>3 DEF Abandon, BufferAhead, DropRetransmission
  <2> QED BY <2>1, <2>2 DEF Tracking, StartsAtHello, Idle
<1>4. ASSUME NEW s \in Sides, NEW g \in Segments[s], TakeInOrder(s, g)
      PROVE  Tracking'
  <2>1. /\ tracked' /\ started'["A"] /\ ~abandoned /\ work = Idle
        /\ started[s] \/ s = "B" \/ g.off \in HelloBytes["A"]
    BY <1>2, <1>4 DEF TakeInOrder
  <2>2. out' = out /\ abandoned' = abandoned
        /\ work' = [side |-> s, seq |-> Due(s, g), chunk |-> Trim(g, -Distance(s, g))]
    BY <1>4 DEF TakeInOrder
  <2>3. ASSUME s = "A", out["A"] = <<>> PROVE work'.chunk.off \in HelloBytes["A"]
    <3>1. ~started[s]
      BY <2>1, <2>3 DEF Ordered, InPlace, Idle
    <3>2. Distance(s, g) = 0
      BY <3>1, FirstIsDue
    <3>3. work'.chunk.off = g.off + 0
      BY <2>2, <3>2 DEF Trim
    <3>4. g.off \in Int
      BY SegmentType
    <3> QED BY <2>1, <2>3, <3>1, <3>3, <3>4
  <2> QED BY <2>1, <2>2, <2>3 DEF Tracking, StartsAtHello
<1>5. CASE Advance
  <2>1. /\ work.side \in Sides
        /\ out'[work.side] # <<>>
        /\ out'[work.side][1] = IF out[work.side] = <<>> THEN work.chunk.off ELSE out[work.side][1]
    BY <1>5, HandOver
  <2>2. \A t \in Sides : t # work.side => out'[t] = out[t]
    BY <1>5, <2>1 DEF Advance, Ordered, TypeOK
  <2>3. StartsAtHello'
    BY <2>1, <2>2 DEF Tracking, StartsAtHello
  <2>4. work' = Idle \/ work'.side = work.side
    BY <1>5 DEF Advance
  <2>5. work'.side = "A" /\ out'["A"] = <<>> => work'.chunk.off \in HelloBytes["A"]
    BY <2>1, <2>4 DEF Idle
  <2>6. ~abandoned
    BY <1>5 DEF Advance, Tracking
  <2> QED BY <1>5, <2>3, <2>5, <2>6 DEF Advance, Tracking
<1>6. CASE UNCHANGED vars
  BY <1>6 DEF vars, bufs, Tracking, StartsAtHello
<1> QED BY <1>1, <1>3, <1>4, <1>5, <1>6 DEF Next

\* The client's bytes reach the TLS session from a byte 0x16 on, that of a
\* payload that makes the flow tracked.
THEOREM FedFromHello ==
  ASSUME StreamLen < M
  PROVE  Spec => []StartsAtHello
<1>1. Init => Ordered /\ Tracking
  BY AssumptionsHold, TypeInit, OrderedInit, TrackingInit
<1>2. Ordered /\ Tracking /\ [Next]_vars => Ordered' /\ Tracking'
  BY AssumptionsHold, TypeNext, OrderedNext, TrackingNext DEF Ordered
<1>3. Tracking => StartsAtHello
  BY DEF Tracking
<1> QED BY <1>1, <1>2, <1>3, PTL DEF Spec

-----------------------------------------------------------------------------
(* Refinement *)

\* One step of reassembly hands over the next run, gives up, or changes
\* nothing the session can see.
LEMMA StepRefines ==
  ASSUME Assumptions, Ordered, Tracking, [Next]_vars
  PROVE  [OS!Next]_<<out, abandoned>>
<1>1. ASSUME NEW s \in Sides, NEW g \in Segments[s], Abandon(s, g)
      PROVE  OS!Next
  BY <1>1 DEF Abandon, Feeding, OS!Next, OS!GiveUp
<1>2. ASSUME NEW s \in Sides, NEW g \in Segments[s],
             \/ IgnorePacket(s, g) \/ BufferAhead(s, g)
             \/ DropRetransmission(s, g) \/ TakeInOrder(s, g)
      PROVE  UNCHANGED <<out, abandoned>>
  <2>1. CASE IgnorePacket(s, g)
    BY <2>1 DEF IgnorePacket
  <2>2. CASE BufferAhead(s, g)
    BY <2>2 DEF BufferAhead
  <2>3. CASE DropRetransmission(s, g)
    BY <2>3 DEF DropRetransmission
  <2>4. CASE TakeInOrder(s, g)
    BY <2>4 DEF TakeInOrder
  <2> QED BY <1>2, <2>1, <2>2, <2>3, <2>4
<1>3. ASSUME Advance PROVE OS!Next
  <2> DEFINE s == work.side
             g == work.chunk
  <2>1. s \in Sides /\ g.off \in 0..(StreamLen - 1) /\ g.len \in 1..StreamLen
    BY <1>3, WorkType DEF Advance, Ordered
  <2>2. out[s] # <<>> => g.off = out[s][1] + Len(out[s])
    BY <1>3 DEF Advance, Ordered, InPlace, NextDue
  <2>3. ~abandoned
    BY <1>3 DEF Advance, Tracking
  <2>4. OS!Hand(s, g.off, g.len)
    BY <1>3, <2>2, <2>3 DEF Advance, OS!Hand
  <2> QED BY <2>1, <2>4 DEF OS!Next
<1> QED BY <1>1, <1>2, <1>3 DEF Next, vars

\* Reassembly of a stream shorter than 2^32 bytes implements OrderedStream:
\* the session sees an ordered stream or a connection given up, nothing else.
THEOREM Refinement ==
  ASSUME StreamLen < M
  PROVE  Spec => DeliversOrderedStream
<1>1. Init => Ordered /\ Tracking
  BY AssumptionsHold, TypeInit, OrderedInit, TrackingInit
<1>2. Ordered /\ Tracking /\ [Next]_vars => Ordered' /\ Tracking'
  BY AssumptionsHold, TypeNext, OrderedNext, TrackingNext DEF Ordered
<1>3. Init => OS!Init
  BY DEF Init, OS!Init
<1>4. Ordered /\ Tracking /\ [Next]_vars => [OS!Next]_<<out, abandoned>>
  BY AssumptionsHold, StepRefines
<1> QED BY <1>1, <1>2, <1>3, <1>4, PTL DEF Spec, DeliversOrderedStream, OS!Spec

-----------------------------------------------------------------------------
(* The cap on what is buffered *)

Lengths(s) == [k \in DOMAIN pending[s] |-> pending[s][k].len]

\* The map of a direction is finite, and its payloads have natural lengths.
LEMMA PendingFinite ==
  ASSUME Assumptions, TypeOK, NEW s \in Sides
  PROVE  /\ IsFiniteSet(DOMAIN pending[s])
         /\ \A k \in DOMAIN pending[s] : pending[s][k].len \in Nat
         /\ Buffered(s) = SumFunctionOnSet(Lengths(s), DOMAIN pending[s])
         /\ Buffered(s) \in Nat
<1>1. IsFiniteSet(DOMAIN pending[s])
  <2>1. DOMAIN pending[s] \subseteq 0..(M - 1) /\ 0 \in Int /\ M - 1 \in Int
    BY DEF TypeOK, Assumptions, M
  <2> QED BY <2>1, FS_Interval, FS_Subset
<1>2. \A k \in DOMAIN pending[s] : pending[s][k].len \in Nat
  <2>1. \A k \in DOMAIN pending[s] : pending[s][k].len \in 1..StreamLen
    BY DEF TypeOK, Interval
  <2> QED BY <2>1 DEF Assumptions
<1>3. Buffered(s) = SumFunctionOnSet(Lengths(s), DOMAIN pending[s])
  BY DEF Buffered, SumFunction, Lengths
<1>4. \A k \in DOMAIN pending[s] : Lengths(s)[k] \in Int /\ Lengths(s)[k] >= 0
  BY <1>2 DEF Lengths
<1>5. SumFunctionOnSet(Lengths(s), DOMAIN pending[s]) \in Int
      /\ SumFunctionOnSet(Lengths(s), DOMAIN pending[s]) >= 0
  BY <1>1, <1>4, SumType
<1> QED BY <1>1, <1>2, <1>3, <1>5

\* Keeping a payload adds no more than its length: less, if it takes the
\* place of another under the same number.
LEMMA BufferedPut ==
  ASSUME Assumptions, TypeOK, TypeOK', NEW s \in Sides, NEW n, NEW g \in Interval,
         pending'[s] = Put(pending[s], n, g)
  PROVE  Buffered(s)' \in Int /\ Buffered(s)' <= Buffered(s) + g.len
<1> DEFINE D == DOMAIN pending[s]
           v == [k \in D \union {n} |-> IF k \in D THEN pending[s][k].len ELSE 0]
           w == Lengths(s)'
<1>1. /\ IsFiniteSet(D) /\ Buffered(s) = SumFunctionOnSet(Lengths(s), D)
      /\ \A k \in D : pending[s][k].len \in Nat
      /\ Buffered(s) \in Nat
  BY PendingFinite
<1>2. /\ DOMAIN pending'[s] = D \union {n}
      /\ \A k \in D \union {n} : pending'[s][k] = IF k = n THEN g ELSE pending[s][k]
  BY DEF Put
<1>3. Buffered(s)' = SumFunctionOnSet(w, D \union {n})
  BY <1>2 DEF Buffered, SumFunction, Lengths
<1>4. g.len \in Nat
  BY DEF Interval, Assumptions
<1>5. IsFiniteSet(D \union {n})
  BY <1>1, FS_AddElement
<1>6. \A k \in D \union {n} : v[k] \in Int /\ w[k] \in Int
  BY <1>1, <1>2, <1>4 DEF Lengths
<1>7. w[n] = g.len /\ \A k \in (D \union {n}) \ {n} : v[k] = w[k]
  BY <1>2 DEF Lengths
<1>8. v[n] >= 0 /\ v[n] \in Int
  BY <1>1
<1>9. SumFunctionOnSet(v, D \union {n}) = Buffered(s)
  <2>1. \A k \in D : v[k] = Lengths(s)[k]
    BY DEF Lengths
  <2>2. SumFunctionOnSet(v, D) = Buffered(s)
    <3> HIDE DEF v, D
    <3> QED BY <1>1, <2>1, SumSame
  <2>3. CASE n \in D
    <3>1. D \union {n} = D
      BY <2>3
    <3> QED BY <2>2, <3>1
  <2>4. CASE n \notin D
    <3>1. v[n] = 0
      BY <2>4
    <3>2. SumFunctionOnSet(v, D \union {n}) = SumFunctionOnSet(v, D) + v[n]
      <4> DEFINE U == D \union {n}
      <4>1. IsFiniteSet(U) /\ n \in U /\ U \ {n} = D /\ \A k \in U : v[k] \in Int
        BY <1>5, <1>6, <2>4
      <4>2. v[n] \in Int /\ SumFunctionOnSet(v, D) \in Int
        BY <1>1, <2>2, <3>1
      <4> HIDE DEF v, w, D, U
      <4>3. SumFunctionOnSet(v, U) = v[n] + SumFunctionOnSet(v, U \ {n})
        BY <4>1, SumRemove
      <4>4. SumFunctionOnSet(v, U) = v[n] + SumFunctionOnSet(v, D)
        BY <4>1, <4>3
      <4>5. SumFunctionOnSet(v, U) = SumFunctionOnSet(v, D) + v[n]
        BY <4>2, <4>4
      <4> QED BY <4>5 DEF U
    <3> HIDE DEF v, D
    <3> QED BY <1>1, <2>2, <3>1, <3>2
  <2> QED BY <2>3, <2>4
<1> HIDE DEF v, w, D
<1>10. SumFunctionOnSet(w, D \union {n}) = SumFunctionOnSet(v, D \union {n}) + (w[n] - v[n])
  <2> DEFINE U == D \union {n}
  <2>1. n \in U /\ IsFiniteSet(U) /\ (\A k \in U : v[k] \in Int /\ w[k] \in Int)
        /\ \A k \in U \ {n} : v[k] = w[k]
    BY <1>5, <1>6, <1>7
  <2> HIDE DEF U
  <2>2. SumFunctionOnSet(w, U) = SumFunctionOnSet(v, U) + (w[n] - v[n])
    BY <2>1, SumUpdate
  <2> QED BY <2>2 DEF U
<1>11. SumFunctionOnSet(w, D \union {n}) \in Int /\ w[n] \in Int
  BY <1>4, <1>5, <1>6, <1>7, SumType
<1>12. \A x, y, z, l \in Int : x = y + (l - z) /\ z >= 0 => x <= y + l
  OBVIOUS
<1> QED BY <1>1, <1>3, <1>4, <1>7, <1>8, <1>9, <1>10, <1>11, <1>12

\* Taking a payload out takes its length off.
LEMMA BufferedTaken ==
  ASSUME Assumptions, TypeOK, NEW s \in Sides, NEW n \in DOMAIN pending[s],
         pending'[s] = Restrict(pending[s], DOMAIN pending[s] \ {n})
  PROVE  Buffered(s)' = Buffered(s) - pending[s][n].len
<1> DEFINE D == DOMAIN pending[s]
           v == Lengths(s)
           w == Lengths(s)'
<1>1. /\ IsFiniteSet(D) /\ Buffered(s) = SumFunctionOnSet(v, D)
      /\ \A k \in D : v[k] \in Int
      /\ v[n] = pending[s][n].len
      /\ Buffered(s) \in Nat
  BY PendingFinite DEF Lengths
<1>2. /\ DOMAIN pending'[s] = D \ {n}
      /\ \A k \in D \ {n} : pending'[s][k] = pending[s][k]
  BY DEF Restrict
<1>3. /\ Buffered(s)' = SumFunctionOnSet(w, D \ {n})
      /\ \A k \in D \ {n} : w[k] = v[k]
  BY <1>2 DEF Buffered, SumFunction, Lengths
<1>4. IsFiniteSet(D \ {n}) /\ \A k \in D \ {n} : v[k] \in Int
  BY <1>1, FS_RemoveElement
<1> HIDE DEF v, w, D
<1>5. SumFunctionOnSet(w, D \ {n}) = SumFunctionOnSet(v, D \ {n})
  BY <1>3, <1>4, SumSame
<1>6. SumFunctionOnSet(v, D) = v[n] + SumFunctionOnSet(v, D \ {n})
  BY <1>1, SumRemove DEF D
<1>7. SumFunctionOnSet(v, D \ {n}) \in Int /\ v[n] \in Int
  BY <1>1, <1>4, SumType DEF D
<1> QED BY <1>1, <1>3, <1>5, <1>6, <1>7

\* Every packet and every round of the loop keep to the cap.
LEMMA BoundedNext ==
  ASSUME Assumptions, TypeOK, TypeOK', BoundedBuffer, [Next]_vars
  PROVE  BoundedBuffer'
<1>1. \A s \in Sides : Buffered(s) \in Nat /\ pendingBytes[s] \in Int /\ MaxPending \in Nat
  BY PendingFinite DEF TypeOK, Assumptions
<1>2. ASSUME UNCHANGED <<pending, pendingBytes>> PROVE BoundedBuffer'
  BY <1>2 DEF BoundedBuffer, Buffered
<1>3. ASSUME NEW s \in Sides, NEW t \in Sides, pending'[t] = pending[t], pendingBytes'[t] = pendingBytes[t]
      PROVE  Buffered(t)' <= pendingBytes'[t] /\ pendingBytes'[t] <= MaxPending
  BY <1>3 DEF BoundedBuffer, Buffered
<1>4. ASSUME NEW s \in Sides, NEW g \in Segments[s], BufferAhead(s, g)
      PROVE  BoundedBuffer'
  <2>1. g \in Interval /\ g.len \in Nat
    BY SegmentType DEF Assumptions
  <2>2. /\ pending'[s] = Put(pending[s], SeqNo(s, g.off), g)
        /\ pendingBytes'[s] = pendingBytes[s] + g.len
        /\ \A t \in Sides : t # s => pending'[t] = pending[t] /\ pendingBytes'[t] = pendingBytes[t]
    BY <1>4 DEF BufferAhead, TypeOK
  <2>3. Buffered(s)' <= Buffered(s) + g.len
    BY <2>1, <2>2, BufferedPut
  <2>4. Buffered(s)' \in Int
    BY <2>1, <2>2, BufferedPut
  <2>5. pendingBytes[s] + g.len <= MaxPending
    BY <1>4 DEF BufferAhead, Fits
  <2>6. Buffered(s)' <= pendingBytes'[s] /\ pendingBytes'[s] <= MaxPending
    BY <1>1, <2>1, <2>2, <2>3, <2>4, <2>5 DEF BoundedBuffer
  <2> QED BY <1>3, <2>2, <2>6 DEF BoundedBuffer
<1>5. CASE Advance
  <2>1. PICK s \in Sides : s = work.side
    BY <1>5, WorkType DEF Advance
  <2> DEFINE next == Wrap(work.seq + work.chunk.len)
  <2>2. CASE next \in DOMAIN pending[s]
    <3>1. /\ pending'[s] = Restrict(pending[s], DOMAIN pending[s] \ {next})
          /\ pendingBytes'[s] = pendingBytes[s] - pending[s][next].len
          /\ \A t \in Sides : t # s => pending'[t] = pending[t] /\ pendingBytes'[t] = pendingBytes[t]
      BY <1>5, <2>1, <2>2 DEF Advance, TypeOK
    <3>2. Buffered(s)' = Buffered(s) - pending[s][next].len
      <4> HIDE DEF next
      <4> QED BY <2>1, <2>2, <3>1, BufferedTaken
    <3>3. pending[s][next].len \in Nat
      BY <2>1, <2>2, PendingFinite
    <3>4. Buffered(s)' <= pendingBytes'[s] /\ pendingBytes'[s] <= MaxPending
      <4> HIDE DEF next
      <4> QED BY <1>1, <2>1, <3>1, <3>2, <3>3 DEF BoundedBuffer
    <3> QED BY <1>3, <2>1, <3>1, <3>4 DEF BoundedBuffer
  <2>3. CASE next \notin DOMAIN pending[s]
    BY <1>2, <1>5, <2>1, <2>3 DEF Advance
  <2> QED BY <2>2, <2>3
<1>6. ASSUME NEW s \in Sides, NEW g \in Segments[s],
             \/ IgnorePacket(s, g) \/ Abandon(s, g)
             \/ DropRetransmission(s, g) \/ TakeInOrder(s, g)
      PROVE  BoundedBuffer'
  <2>1. UNCHANGED <<pending, pendingBytes>>
    BY <1>6 DEF IgnorePacket, Abandon, DropRetransmission, TakeInOrder, bufs
  <2> QED BY <1>2, <2>1
<1>7. CASE UNCHANGED vars
  BY <1>2, <1>7 DEF vars, bufs
<1> QED BY <1>4, <1>5, <1>6, <1>7 DEF Next

\* What a direction buffers never exceeds what it counts, nor that the cap,
\* however payloads replace each other in the map (feedTLS, advanceTLS).
THEOREM BufferCapped == Spec => []BoundedBuffer
<1>1. Init => TypeOK /\ BoundedBuffer
  <2> SUFFICES ASSUME Init PROVE BoundedBuffer
    BY AssumptionsHold, TypeInit
  <2>1. ASSUME NEW s \in Sides PROVE Buffered(s) = 0 /\ pendingBytes[s] = 0
    <3>1. DOMAIN pending[s] = {} /\ pendingBytes[s] = 0
      BY DEF Init
    <3>2. Buffered(s) = SumFunctionOnSet(Lengths(s), {})
      BY <3>1 DEF Buffered, SumFunction, Lengths
    <3> QED BY <3>1, <3>2, SumEmpty
  <2> QED BY <2>1, AssumptionsHold DEF BoundedBuffer, Assumptions
<1>2. TypeOK /\ BoundedBuffer /\ [Next]_vars => TypeOK' /\ BoundedBuffer'
  BY AssumptionsHold, TypeNext, BoundedNext
<1> QED BY <1>1, <1>2, PTL DEF Spec

-----------------------------------------------------------------------------
(* Completeness: reassembly loses nothing as long as a retransmission never *)
(* moves a payload boundary.  (Where boundaries move it does lose bytes:    *)
(* the run tcp_recut_complete.)                                            *)

\* No byte is in two of the payloads the capture may show.
Uncut ==
  \A s \in Sides : \A g, h \in Segments[s] : Bytes(g) \cap Bytes(h) # {} => g = h

\* What is kept or in hand is a payload as it was captured.
WholePayloads ==
  /\ \A s \in Sides : \A k \in DOMAIN pending[s] : pending[s][k] \in Segments[s]
  /\ work # Idle => work.chunk \in Segments[work.side]

\* Feeding stops where a payload ends, and before the first one kept.
Boundaries ==
  \A s \in Sides :
    /\ out[s] = <<>> => pending[s] = [k \in {} |-> Idle.chunk]
    /\ out[s] # <<>> => /\ \E g \in Segments[s] : g.off + g.len = NextDue(s)
                        /\ \A k \in DOMAIN pending[s] : pending[s][k].off > NextDue(s)

\* Every captured byte not yet fed is kept, or in the payload in hand.
Held(s, b) ==
  \/ \E k \in DOMAIN pending[s] : b \in Bytes(pending[s][k])
  \/ work.side = s /\ b \in Bytes(work.chunk)

NothingLost ==
  \A s \in Sides : \A b \in seen[s] :
    IF out[s] = <<>> THEN work.side = s /\ b \in Bytes(work.chunk)
    ELSE b >= NextDue(s) => Held(s, b)

Lossless == Ordered /\ WholePayloads /\ Boundaries /\ NothingLost

-----------------------------------------------------------------------------

\* The next position due is a position.
LEMMA DueIsNat ==
  ASSUME TypeOK, NEW s \in Sides, out[s] # <<>>
  PROVE  NextDue(s) \in Nat /\ out[s][1] \in Nat /\ Len(out[s]) \in Nat
BY DEF TypeOK, NextDue

\* A payload that begins before the byte due has been fed to its end.
LEMMA NoStraddling ==
  ASSUME Assumptions, Uncut, Lossless, NEW s \in Sides, NEW g \in Segments[s],
         out[s] # <<>>, g.off < NextDue(s)
  PROVE  g.off + g.len <= NextDue(s)
<1>1. PICK h \in Segments[s] : h.off + h.len = NextDue(s)
  BY DEF Lossless, Boundaries
<1>2. /\ g.off \in Nat /\ g.len \in Nat \ {0}
      /\ h.off \in Nat /\ h.len \in Nat \ {0}
  <2>1. /\ g.off \in 0..(StreamLen - 1) /\ g.len \in 1..StreamLen
        /\ h.off \in 0..(StreamLen - 1) /\ h.len \in 1..StreamLen
    BY SegmentType
  <2>2. StreamLen \in Nat
    BY DEF Assumptions
  <2> QED BY <2>1, <2>2
<1>3. NextDue(s) \in Nat
  BY DueIsNat DEF Lossless, Ordered
<1>4. CASE g.off + g.len > NextDue(s)
  <2>1. NextDue(s) - 1 \in Bytes(g) /\ NextDue(s) - 1 \in Bytes(h)
    BY <1>1, <1>2, <1>3, <1>4 DEF Bytes
  <2>2. g = h
    BY <2>1 DEF Uncut
  <2> QED BY <1>1, <1>2, <1>4, <2>2
<1> QED BY <1>2, <1>3, <1>4

\* A payload taken in order is taken whole.
LEMMA TakenWhole ==
  ASSUME Assumptions, StreamLen < M, Uncut, Lossless,
         NEW s \in Sides, NEW g \in Segments[s], TakeInOrder(s, g)
  PROVE  /\ Distance(s, g) = 0
         /\ Trim(g, -Distance(s, g)) = g
         /\ out[s] # <<>> => g.off = NextDue(s)
<1>1. /\ g.off \in Nat /\ g.len \in Nat \ {0} /\ g = [off |-> g.off, len |-> g.len]
  <2>1. /\ g.off \in 0..(StreamLen - 1) /\ g.len \in 1..StreamLen
        /\ g = [off |-> g.off, len |-> g.len]
    BY SegmentType
  <2>2. StreamLen \in Nat
    BY DEF Assumptions
  <2> QED BY <2>1, <2>2
<1>2. Distance(s, g) = 0 /\ (out[s] # <<>> => g.off = NextDue(s))
  <2>1. CASE ~started[s]
    <3>1. out[s] = <<>>
      BY <2>1 DEF Lossless, Ordered, InPlace
    <3> QED BY <2>1, <3>1, FirstIsDue
  <2>2. CASE started[s]
    <3>1. out[s] # <<>> /\ Distance(s, g) = g.off - NextDue(s)
      BY <2>2, DistanceExact DEF TakeInOrder, Feeding, Captured, Lossless
    <3>2. NextDue(s) \in Nat
      BY <3>1, DueIsNat DEF Lossless, Ordered
    <3>3. -Distance(s, g) >= 0 /\ -Distance(s, g) < g.len
      BY DEF TakeInOrder
    <3>4. ~(g.off < NextDue(s))
      BY <1>1, <3>1, <3>2, <3>3, NoStraddling
    <3> QED BY <1>1, <3>1, <3>2, <3>3, <3>4
  <2> QED BY <2>1, <2>2
<1>3. Trim(g, -Distance(s, g)) = g
  <2>1. \A d \in Int : d = 0 => g.off + (-d) = g.off /\ g.len - (-d) = g.len
    BY <1>1
  <2>2. Distance(s, g) \in Int
    BY DistanceType DEF Lossless, Ordered
  <2>3. g.off + (-Distance(s, g)) = g.off /\ g.len - (-Distance(s, g)) = g.len
    BY <1>2, <2>1, <2>2
  <2> QED BY <1>1, <2>3 DEF Trim
<1> QED BY <1>2, <1>3

\* Nothing is lost of a fresh connection.
LEMMA LosslessInit == ASSUME Assumptions, Init PROVE Lossless
<1>1. Ordered
  BY TypeInit, OrderedInit
<1>2. \A s \in Sides : /\ out[s] = <<>> /\ seen[s] = {}
                       /\ pending[s] = [k \in {} |-> Idle.chunk]
  BY DEF Init
<1>3. work = Idle
  BY DEF Init
<1> QED BY <1>1, <1>2, <1>3 DEF Lossless, WholePayloads, Boundaries, NothingLost

\* A payload that is ignored, or that makes the connection be given up, is
\* not counted as captured; one dropped as a retransmission was fed before.
LEMMA LosslessUnkept ==
  ASSUME Assumptions, StreamLen < M, Uncut, Lossless,
         NEW s \in Sides, NEW g \in Segments[s],
         IgnorePacket(s, g) \/ Abandon(s, g) \/ DropRetransmission(s, g)
  PROVE  (WholePayloads /\ Boundaries /\ NothingLost)'
<1>1. out' = out /\ pending' = pending /\ work' = work
  BY DEF IgnorePacket, Abandon, DropRetransmission, bufs
<1>2. WholePayloads' /\ Boundaries'
  BY <1>1 DEF Lossless, WholePayloads, Boundaries, NextDue
<1>3. \A t \in Sides : \A b \in seen'[t] :
        b \in seen[t] \/ (t = s /\ out[s] # <<>> /\ b < NextDue(s))
  <2>1. CASE IgnorePacket(s, g) \/ Abandon(s, g)
    BY <2>1 DEF IgnorePacket, Abandon, bufs
  <2>2. CASE DropRetransmission(s, g)
    <3>1. started[s] /\ Distance(s, g) < 0 /\ -Distance(s, g) >= g.len
      BY <2>2, FirstIsDue DEF DropRetransmission
    <3>2. out[s] # <<>> /\ Distance(s, g) = g.off - NextDue(s)
      BY <2>2, <3>1, DistanceExact DEF DropRetransmission, Feeding, Captured, Lossless
    <3>3. NextDue(s) \in Nat /\ g.off \in Nat /\ g.len \in Nat
      BY <3>2, DueIsNat, SegmentType DEF Lossless, Ordered, Assumptions
    <3>4. \A b \in Bytes(g) : b < NextDue(s)
      BY <3>1, <3>2, <3>3 DEF Bytes
    <3>5. \A t \in Sides : seen'[t] = IF t = s THEN seen[s] \cup Bytes(g) ELSE seen[t]
      BY <2>2 DEF DropRetransmission, Lossless, Ordered, TypeOK
    <3> QED BY <3>2, <3>4, <3>5
  <2> QED BY <2>1, <2>2
<1>4. \A t \in Sides : seen[t] \subseteq Nat
  BY DEF Lossless, Ordered, TypeOK, Assumptions
<1>5. out[s] # <<>> => NextDue(s) \in Nat
  BY DueIsNat DEF Lossless, Ordered
<1>6. NothingLost'
  <2> SUFFICES ASSUME NEW t \in Sides, NEW b \in seen'[t]
               PROVE  (IF out[t] = <<>> THEN work.side = t /\ b \in Bytes(work.chunk)
                       ELSE b >= NextDue(t) => Held(t, b))
    BY <1>1 DEF NothingLost, Held, NextDue
  <2>1. CASE b \in seen[t]
    BY <2>1 DEF Lossless, NothingLost
  <2>2. CASE t = s /\ out[s] # <<>> /\ b < NextDue(s)
    <3>1. b \in Int
      <4>1. seen'[t] \subseteq Int
        <5>1. seen' = seen \/ seen' = [seen EXCEPT ![s] = @ \cup Bytes(g)]
          BY DEF IgnorePacket, Abandon, DropRetransmission, bufs
        <5>2. Bytes(g) \subseteq Int
          BY SegmentType DEF Assumptions
        <5>3. seen \in [Sides -> SUBSET (0..(StreamLen - 1))]
          BY DEF Lossless, Ordered, TypeOK
        <5> QED BY <1>4, <5>1, <5>2, <5>3
      <4> QED BY <4>1
    <3> QED BY <1>5, <2>2, <3>1
  <2> QED BY <1>3, <2>1, <2>2
<1> QED BY <1>2, <1>6

\* A payload ahead of the stream is kept whole; one of the same number that it
\* replaces is the same payload.
LEMMA LosslessBuffer ==
  ASSUME Assumptions, StreamLen < M, Uncut, Lossless,
         NEW s \in Sides, NEW g \in Segments[s], BufferAhead(s, g)
  PROVE  (WholePayloads /\ Boundaries /\ NothingLost)'
<1> DEFINE n == SeqNo(s, g.off)
<1>1. /\ out[s] # <<>> /\ g.off > NextDue(s) /\ work = Idle
  <2>1. started[s] /\ Distance(s, g) > 0
    BY FirstIsDue DEF BufferAhead
  <2>2. out[s] # <<>> /\ Distance(s, g) = g.off - NextDue(s) /\ work = Idle
    BY <2>1, DistanceExact DEF BufferAhead, Feeding, Captured, Lossless
  <2>3. NextDue(s) \in Nat /\ g.off \in Nat
    BY <2>2, DueIsNat, SegmentType DEF Lossless, Ordered, Assumptions
  <2> QED BY <2>1, <2>2, <2>3
<1>2. out' = out /\ work' = work
  BY DEF BufferAhead
<1>3. /\ \A t \in Sides : pending'[t] = IF t = s THEN Put(pending[s], n, g) ELSE pending[t]
      /\ \A t \in Sides : seen'[t] = IF t = s THEN seen[s] \cup Bytes(g) ELSE seen[t]
  BY DEF BufferAhead, Lossless, Ordered, TypeOK
<1> HIDE DEF n
<1>12. /\ DOMAIN pending'[s] = DOMAIN pending[s] \cup {n}
      /\ pending'[s][n] = g
      /\ \A k \in DOMAIN pending[s] : k # n => pending'[s][k] = pending[s][k]
  <2>1. pending'[s] = Put(pending[s], n, g)
    BY <1>3
  <2> QED BY <2>1 DEF Put
<1>4. ASSUME NEW t \in Sides, NEW k \in DOMAIN pending'[t]
      PROVE  \/ k \in DOMAIN pending[t] /\ pending'[t][k] = pending[t][k]
             \/ t = s /\ k = n /\ pending'[t][k] = g
  <2>1. CASE t = s
    BY <1>12, <1>4, <2>1
  <2>2. CASE t # s
    <3>1. pending'[t] = pending[t]
      BY <1>3, <2>2
    <3> QED BY <1>4, <3>1
  <2> QED BY <2>1, <2>2
<1>5. WholePayloads'
  BY <1>1, <1>2, <1>4 DEF Lossless, WholePayloads
<1>6. Boundaries'
  BY <1>1, <1>2, <1>3, <1>4 DEF Lossless, Boundaries, NextDue
<1>7. \A t \in Sides : \A k \in DOMAIN pending[t] :
        k \in DOMAIN pending'[t] /\ pending'[t][k] = pending[t][k]
  <2> SUFFICES ASSUME NEW k \in DOMAIN pending[s], k = n PROVE pending[s][k] = g
    <3>1. \A t \in Sides : t # s => pending'[t] = pending[t]
      BY <1>3
    <3> QED BY <1>12, <3>1
  <2> DEFINE p == pending[s][k]
  <2>1. p \in Segments[s] /\ k = SeqNo(s, p.off)
    BY DEF Lossless, WholePayloads, Ordered, InPlace
  <2>2. /\ p.off \in 0..(M - 1) /\ p.len \in Nat \ {0}
        /\ g.off \in 0..(M - 1) /\ g.len \in Nat \ {0}
        /\ ISN[s] \in 0..(M - 1) /\ Half \in Nat \ {0}
    <3>1. StreamLen \in Nat /\ M \in Nat
      BY DEF Assumptions, M
    <3>2. /\ p.off \in 0..(StreamLen - 1) /\ p.len \in 1..StreamLen
          /\ g.off \in 0..(StreamLen - 1) /\ g.len \in 1..StreamLen
      BY <2>1, SegmentType
    <3>3. ISN[s] \in 0..(M - 1) /\ Half \in Nat \ {0}
      BY DEF Assumptions
    <3> HIDE DEF p
    <3> QED BY <3>1, <3>2, <3>3
  <2>3. p.off = g.off
    BY <2>1, <2>2, WrapInjective DEF n, SeqNo
  <2>4. g.off \in Bytes(p) /\ g.off \in Bytes(g)
    BY <2>2, <2>3 DEF Bytes
  <2> QED BY <2>1, <2>4 DEF Uncut
<1>8. n \in DOMAIN pending'[s] /\ pending'[s][n] = g
  BY <1>12
<1>9. \A t \in Sides : \A b : Held(t, b) => Held(t, b)'
  BY <1>2, <1>7 DEF Held
<1>10. \A b \in Bytes(g) : Held(s, b)'
  BY <1>8 DEF Held
<1>11. NothingLost'
  BY <1>1, <1>2, <1>3, <1>9, <1>10 DEF Lossless, NothingLost, NextDue
<1> QED BY <1>5, <1>6, <1>11

\* A payload taken in order is the one in hand.
LEMMA LosslessTake ==
  ASSUME Assumptions, StreamLen < M, Uncut, Lossless,
         NEW s \in Sides, NEW g \in Segments[s], TakeInOrder(s, g)
  PROVE  (WholePayloads /\ Boundaries /\ NothingLost)'
<1>1. out' = out /\ pending' = pending /\ work = Idle
      /\ \A t \in Sides : seen'[t] = IF t = s THEN seen[s] \cup Bytes(g) ELSE seen[t]
  BY DEF TakeInOrder, Feeding, Captured, Lossless, Ordered, TypeOK
<1>2. work'.side = s /\ work'.chunk = g
  BY TakenWhole DEF TakeInOrder
<1>3. WholePayloads' /\ Boundaries'
  BY <1>1, <1>2 DEF Lossless, WholePayloads, Boundaries, NextDue
<1>4. \A t \in Sides : work.side # t
  BY <1>1 DEF Idle, Sides
<1>5. NothingLost'
  BY <1>1, <1>2, <1>4 DEF Lossless, NothingLost, Held, NextDue
<1> QED BY <1>3, <1>5

\* Feeding the payload in hand brings the end of the next one, and takes up the
\* payload kept there; no other one kept begins there.
LEMMA LosslessAdvance ==
  ASSUME Assumptions, StreamLen < M, Uncut, Lossless, Ordered', Advance
  PROVE  (WholePayloads /\ Boundaries /\ NothingLost)'
<1>13. work # Idle /\ work.side \in Sides /\ work.chunk \in Segments[work.side]
  BY WorkType DEF Advance, Lossless, WholePayloads, Ordered
<1>14. PICK s \in Sides : s = work.side
  BY <1>13
<1>15. PICK g \in Segments[s] : g = work.chunk
  BY <1>13, <1>14
<1> DEFINE next == Wrap(work.seq + g.len)
<1>1. /\ out'[s] # <<>>
      /\ NextDue(s)' = g.off + g.len
  BY <1>14, <1>15, HandOver DEF Lossless, NextDue
<1>2. g.off \in Nat /\ g.len \in Nat /\ g.len > 0
  BY <1>13, <1>15, WorkType DEF Lossless, Ordered
<1>3. next = SeqNo(s, g.off + g.len)
  <2>1. g.off + g.len <= StreamLen /\ work.seq = SeqNo(s, g.off)
    BY <1>14, <1>15 DEF Advance, Lossless, Ordered, InPlace
  <2>2. Wrap(SeqNo(s, g.off) + g.len) = SeqNo(s, g.off + g.len)
    BY <1>1, <1>2, <2>1, NextNumber
  <2> QED BY <2>1, <2>2
<1> HIDE DEF next
<1>4. /\ seen' = seen
      /\ \A t \in Sides : t # s => out'[t] = out[t] /\ pending'[t] = pending[t]
  BY <1>14 DEF Advance, Lossless, Ordered, TypeOK
<1>5. \/ /\ next \in DOMAIN pending[s]
         /\ work'.side = s /\ work'.chunk = pending[s][next]
         /\ DOMAIN pending'[s] = DOMAIN pending[s] \ {next}
         /\ \A k \in DOMAIN pending'[s] : pending'[s][k] = pending[s][k]
      \/ /\ next \notin DOMAIN pending[s]
         /\ work' = Idle /\ pending' = pending
  <2>1. CASE next \in DOMAIN pending[s]
    <3>1. /\ pending' = [pending EXCEPT ![s] = Restrict(pending[s], DOMAIN pending[s] \ {next})]
          /\ work' = [side |-> s, seq |-> next, chunk |-> pending[s][next]]
      BY <1>14, <1>15, <2>1 DEF Advance, next
    <3>2. pending'[s] = Restrict(pending[s], DOMAIN pending[s] \ {next})
      BY <1>1, <3>1 DEF Lossless, Ordered, TypeOK
    <3>3. /\ DOMAIN pending'[s] = DOMAIN pending[s] \ {next}
          /\ \A k \in DOMAIN pending'[s] : pending'[s][k] = pending[s][k]
      BY <3>2 DEF Restrict
    <3> QED BY <2>1, <3>1, <3>3
  <2>2. CASE next \notin DOMAIN pending[s]
    BY <1>14, <1>15, <2>2 DEF Advance, next
  <2> QED BY <2>1, <2>2
<1>6. \A k \in DOMAIN pending'[s] : k \in DOMAIN pending[s] /\ k # next /\ pending'[s][k] = pending[s][k]
  BY <1>5
<1>7. \A k \in DOMAIN pending[s] : pending[s][k] \in Segments[s] /\ k = SeqNo(s, pending[s][k].off)
  BY <1>1 DEF Lossless, WholePayloads, Ordered, InPlace
<1>8. WholePayloads'
  <2>1. ASSUME NEW t \in Sides, NEW k \in DOMAIN pending'[t]
        PROVE  pending'[t][k] \in Segments[t]
    <3>1. CASE t = s
      BY <1>6, <1>7, <2>1, <3>1
    <3>2. CASE t # s
      BY <1>4, <2>1, <3>2 DEF Lossless, WholePayloads
    <3> QED BY <3>1, <3>2
  <2>2. work' # Idle => work'.chunk \in Segments[work'.side]
    BY <1>5, <1>7
  <2> QED BY <2>1, <2>2 DEF WholePayloads
<1>9. ASSUME NEW k \in DOMAIN pending[s]
      PROVE  pending[s][k].off > g.off /\ pending[s][k].off >= g.off + g.len
  <2> DEFINE p == pending[s][k]
  <2>1. p \in Segments[s]
    BY <1>7
  <2>2. p.off \in Nat /\ p.len \in Nat /\ p.len > 0
    BY <1>1, <2>1, SegmentType DEF Assumptions
  <2>3. out[s] # <<>> /\ p.off > NextDue(s)
    BY <1>1, <1>9 DEF Lossless, Boundaries
  <2>4. g.off = NextDue(s)
    BY <1>14, <1>15, <2>3 DEF Advance, Lossless, Ordered, InPlace
  <2>5. CASE p.off < g.off + g.len
    <3>1. p.off \in Bytes(p) /\ p.off \in Bytes(g)
      BY <1>2, <2>2, <2>3, <2>4, <2>5 DEF Bytes
    <3>2. p = g
      BY <1>1, <1>2, <2>1, <3>1 DEF Uncut
    <3> QED BY <1>2, <2>3, <2>4, <3>2
  <2> HIDE DEF p
  <2> QED BY <1>2, <2>2, <2>3, <2>4, <2>5 DEF p
<1>10. Boundaries'
  <2>1. ASSUME NEW t \in Sides, t # s
        PROVE  /\ out'[t] = <<>> => pending'[t] = [k \in {} |-> Idle.chunk]
               /\ out'[t] # <<>> => /\ \E h \in Segments[t] : h.off + h.len = NextDue(t)'
                                   /\ \A k \in DOMAIN pending'[t] : pending'[t][k].off > NextDue(t)'
    BY <1>4, <2>1 DEF Lossless, Boundaries, NextDue
  <2>2. \E h \in Segments[s] : h.off + h.len = NextDue(s)'
    BY <1>1, <1>2
  <2>3. ASSUME NEW k \in DOMAIN pending'[s] PROVE pending'[s][k].off > NextDue(s)'
    <3>1. /\ k \in DOMAIN pending[s] /\ k # next /\ pending'[s][k] = pending[s][k]
          /\ k = SeqNo(s, pending[s][k].off)
      BY <1>6, <1>7, <2>3
    <3>2. pending[s][k].off # g.off + g.len
      BY <1>3, <3>1
    <3>3. pending[s][k].off \in Nat
      BY <1>1, <1>7, <3>1, SegmentType
    <3>4. pending[s][k].off >= g.off + g.len
      BY <1>9, <3>1
    <3> QED BY <1>1, <1>2, <3>1, <3>2, <3>3, <3>4
  <2> QED BY <1>1, <2>1, <2>2, <2>3 DEF Boundaries
<1>11. NothingLost'
  <2> SUFFICES ASSUME NEW t \in Sides, NEW b \in seen[t]
               PROVE  IF out'[t] = <<>> THEN work'.side = t /\ b \in Bytes(work'.chunk)
                      ELSE b >= NextDue(t)' => Held(t, b)'
    BY <1>4 DEF NothingLost
  <2>1. IF out[t] = <<>> THEN s = t /\ b \in Bytes(g) ELSE b >= NextDue(t) => Held(t, b)
    BY <1>14, <1>15 DEF Lossless, NothingLost
  <2>2. CASE t # s
    <3>1. out'[t] = out[t] /\ pending'[t] = pending[t] /\ NextDue(t)' = NextDue(t)
      BY <1>4, <2>2 DEF NextDue
    <3>2. Held(t, b) => Held(t, b)'
      BY <1>14, <2>2, <3>1 DEF Held
    <3> QED BY <2>1, <2>2, <3>1, <3>2
  <2>3. CASE t = s
    <3> SUFFICES ASSUME b >= g.off + g.len PROVE Held(s, b)'
      BY <1>1, <2>3
    <3>1. b \in Nat
      BY DEF Lossless, Ordered, TypeOK, Assumptions
    <3>2. b \notin Bytes(g)
      BY <1>2, <3>1 DEF Bytes
    <3>3. out[s] # <<>> => g.off = NextDue(s)
      BY <1>14, <1>15 DEF Advance, Lossless, Ordered, InPlace
    <3>4. \E k \in DOMAIN pending[s] : b \in Bytes(pending[s][k])
      BY <1>2, <2>1, <2>3, <3>1, <3>2, <3>3, <1>14, <1>15 DEF Held
    <3> QED BY <1>5, <3>4 DEF Held
  <2> QED BY <2>2, <2>3
<1> QED BY <1>8, <1>10, <1>11

\* Every step keeps the invariant.
LEMMA LosslessNext ==
  ASSUME Assumptions, StreamLen < M, Uncut, Lossless, [Next]_vars
  PROVE  Lossless'
<1>1. Ordered'
  BY TypeNext, OrderedNext DEF Lossless, Ordered
<1>2. ASSUME NEW s \in Sides, NEW g \in Segments[s],
             IgnorePacket(s, g) \/ Abandon(s, g) \/ DropRetransmission(s, g)
      PROVE  Lossless'
  BY <1>1, <1>2, LosslessUnkept DEF Lossless
<1>3. ASSUME NEW s \in Sides, NEW g \in Segments[s], BufferAhead(s, g)
      PROVE  Lossless'
  BY <1>1, <1>3, LosslessBuffer DEF Lossless
<1>4. ASSUME NEW s \in Sides, NEW g \in Segments[s], TakeInOrder(s, g)
      PROVE  Lossless'
  BY <1>1, <1>4, LosslessTake DEF Lossless
<1>5. CASE Advance
  BY <1>1, <1>5, LosslessAdvance DEF Lossless
<1>6. CASE UNCHANGED vars
  <2>1. (WholePayloads /\ Boundaries /\ NothingLost)'
    BY <1>6 DEF vars, bufs, Lossless, WholePayloads, Boundaries, NothingLost, Held, NextDue
  <2> QED BY <1>1, <2>1 DEF Lossless
<1> QED BY <1>2, <1>3, <1>4, <1>5, <1>6 DEF Next

\* The byte due is nowhere once the loop has come to its end.
LEMMA LosslessComplete ==
  ASSUME Assumptions, Lossless
  PROVE  Complete
<1> SUFFICES ASSUME work = Idle, NEW s \in Sides, out[s] # <<>>, NEW b \in seen[s],
                    \A x \in NextDue(s)..b : x \in seen[s], b >= NextDue(s)
             PROVE  FALSE
  <2>1. \A s \in Sides : out[s] # <<>> => \A b \in seen[s] : b \in Nat /\ NextDue(s) \in Nat
    BY DueIsNat DEF Lossless, Ordered, TypeOK, Assumptions
  <2> QED BY <2>1 DEF Complete
<1>1. NextDue(s) \in Nat /\ b \in Nat
  BY DueIsNat DEF Lossless, Ordered, TypeOK, Assumptions
<1>2. NextDue(s) \in seen[s] /\ work.side # s
  BY <1>1 DEF Idle, Sides
<1>3. PICK k \in DOMAIN pending[s] : NextDue(s) \in Bytes(pending[s][k])
  BY <1>1, <1>2 DEF Lossless, NothingLost, Held
<1>4. pending[s][k] \in Segments[s] /\ pending[s][k].off > NextDue(s)
  BY DEF Lossless, WholePayloads, Boundaries
<1>5. pending[s][k].off \in Nat /\ pending[s][k].len \in Nat
  BY <1>4, SegmentType DEF Assumptions
<1> QED BY <1>1, <1>3, <1>4, <1>5 DEF Bytes

\* As long as payload boundaries do not move, whatever was captured in whatever
\* order, repeated or lost, every captured byte that joins on to what the TLS
\* session was fed has been fed too (feedTLS, advanceTLS).
THEOREM NothingMissing ==
  ASSUME StreamLen < M, Uncut
  PROVE  Spec => []Complete
<1>1. Init => Lossless
  BY AssumptionsHold, LosslessInit
<1>2. Lossless /\ [Next]_vars => Lossless'
  BY AssumptionsHold, LosslessNext
<1>3. Lossless => Complete
  BY AssumptionsHold, LosslessComplete
<1> QED BY <1>1, <1>2, <1>3, PTL DEF Spec

\* nextSeq and every buffered payload stand for the position they should,
\* also in the middle of the loop (InPlace alone, of InOrderDelivery).
THEOREM KeptInPlace ==
  ASSUME StreamLen < M
  PROVE  Spec => []InPlace
<1>1. Spec => [](FedInOrder /\ InPlace)
  BY InOrderDelivery
<1> QED BY <1>1, PTL

-----------------------------------------------------------------------------
(* The stream and its frames *)

\* The positions of a stream.
Pos == 0..(StreamLen - 1)

\* Headers have a size, and a length can be read at every position.
Header(header, len) == header \in Nat \ {0} /\ \A p \in Pos : len[p] \in Nat

\* The assumptions of RecordStream and TlsPath, for each direction.
LEMMA HeadersHold ==
  ASSUME NEW s \in Sides
  PROVE  Header(RecordHeader, RecordLen[s]) /\ Header(MessageHeader, MessageLen[s])
<1>1. s \in Dirs
  BY DirsAssumption
<1>2. Pos \subseteq DOMAIN RecordLen[s] /\ Pos \subseteq DOMAIN MessageLen[s]
  BY HeadersAssumption DEF Pos
<1> QED BY <1>1, <1>2, HeaderAssumption, LengthAssumption DEF Header

-----------------------------------------------------------------------------
(* Cutting one frame *)

\* f is the first n elements of buf, and rest the others.
InTwo(buf, n, f, rest) == f = SubSeq(buf, 1, n) /\ rest = SubSeq(buf, n + 1, Len(buf))

\* A sequence is what is cut off its front and what is left.
LEMMA CutInTwo ==
  ASSUME NEW S, NEW buf \in Seq(S), NEW n \in 1..Len(buf), NEW f, NEW rest, InTwo(buf, n, f, rest)
  PROVE  /\ f \in Seq(S) /\ Len(f) = n /\ f[1] = buf[1] /\ f # <<>>
         /\ rest \in Seq(S)
         /\ buf = f \o rest
<1>1. Len(buf) \in Nat /\ n \in Nat /\ n >= 1 /\ n <= Len(buf) /\ \A i \in 1..Len(buf) : buf[i] \in S
  BY LenProperties
<1>2. SubSeq(buf, 1, n) \o SubSeq(buf, n + 1, Len(buf)) = buf
  <2>1. SubSeq(buf, 1, n) \o SubSeq(buf, n + 1, Len(buf)) = SubSeq(buf, 1, Len(buf))
    BY <1>1, ConcatAdjacentSubSeq
  <2> QED BY <2>1, SubSeqFull
<1>3. /\ SubSeq(buf, 1, n) \in Seq(S) /\ Len(SubSeq(buf, 1, n)) = n
      /\ SubSeq(buf, 1, n)[1] = buf[1]
  BY <1>1
<1>4. SubSeq(buf, n + 1, Len(buf)) \in Seq(S)
  BY <1>1
<1> QED BY <1>1, <1>2, <1>3, <1>4, EmptySeq DEF InTwo

\* A frame that is there is a header and a body, no longer than what is there.
LEMMA SizeType ==
  ASSUME NEW header, NEW len, Header(header, len), NEW buf \in Seq(Pos), HasFrame(buf, header, len)
  PROVE  /\ Size(buf, header, len) \in 1..Len(buf)
         /\ Size(buf, header, len) >= header
<1>1. Len(buf) \in Nat /\ Len(buf) >= 1
  BY LenProperties DEF HasFrame, Header
<1>2. buf[1] \in Pos
  BY <1>1, ElementOfSeq
<1> QED BY <1>1, <1>2 DEF HasFrame, Size, Header

\* The handshake bytes of a record.
Part(s, r) == IF r[1] \in Handshakes[s] THEN Body(r, RecordHeader) ELSE <<>>

\* One record more adds its handshake bytes.
LEMMA HandshakeAppend ==
  ASSUME NEW s, NEW rs \in Seq(Seq(Pos)), NEW r \in Seq(Pos), RecordHeader \in Nat
  PROVE  /\ Part(s, r) \in Seq(Pos)
         /\ HandshakeBytes(s, Append(rs, r)) = HandshakeBytes(s, rs) \o Part(s, r)
         /\ HandshakeBytes(s, rs) \in Seq(Pos)
<1> DEFINE parts == [i \in DOMAIN rs |-> Part(s, rs[i])]
           more == [i \in DOMAIN Append(rs, r) |-> Part(s, Append(rs, r)[i])]
           n == Len(rs)
<1>1. ASSUME NEW q \in Seq(Pos) PROVE Part(s, q) \in Seq(Pos)
  <2>1. Len(q) \in Nat /\ \A i \in 1..Len(q) : q[i] \in Pos
    BY LenProperties
  <2>2. SubSeq(q, RecordHeader + 1, Len(q)) \in Seq(Pos)
    BY <2>1
  <2> QED BY <2>2 DEF Part, Body
<1>2. n \in Nat /\ DOMAIN rs = 1..n /\ \A i \in 1..n : rs[i] \in Seq(Pos)
  BY LenProperties
<1>3. /\ DOMAIN Append(rs, r) = 1..(n + 1)
      /\ \A i \in 1..n : Append(rs, r)[i] = rs[i]
      /\ Append(rs, r)[n + 1] = r
  BY <1>2, AppendProperties, LenProperties
<1>4. parts \in Seq(Seq(Pos)) /\ Len(parts) = n /\ \A i \in 1..n : parts[i] = Part(s, rs[i])
  <2>1. parts \in [1..n -> Seq(Pos)]
    BY <1>1, <1>2
  <2> QED BY <1>2, <2>1
<1>5. more = Append(parts, Part(s, r))
  <2> DEFINE x == Part(s, r)
             u == Append(parts, x)
  <2>1. /\ more \in [1..(n + 1) -> Seq(Pos)]
        /\ \A i \in 1..n : more[i] = parts[i]
        /\ more[n + 1] = x
    BY <1>1, <1>2, <1>3
  <2>2. x \in Seq(Pos)
    BY <1>1
  <2> HIDE DEF parts, more, x
  <2>3. /\ u \in Seq(Seq(Pos)) /\ Len(u) = n + 1
        /\ \A i \in 1..n : u[i] = parts[i]
        /\ u[n + 1] = x
    BY <1>4, <2>2, AppendProperties
  <2> HIDE DEF u
  <2>4. n + 1 \in Nat /\ \A i \in 1..(n + 1) : i \in 1..n \/ i = n + 1
    BY <1>2
  <2>5. more \in Seq(Seq(Pos)) /\ Len(more) = n + 1
    <3> DEFINE T == Seq(Pos)
               m == n + 1
    <3>1. m \in Nat /\ more \in [1..m -> T]
      BY <2>1, <2>4
    <3> HIDE DEF T, m
    <3>2. more \in Seq(T) /\ Len(more) = m
      BY <3>1
    <3> QED BY <3>2 DEF T, m
  <2>6. \A i \in 1..(n + 1) : more[i] = u[i]
    BY <2>1, <2>3, <2>4
  <2>7. more = u
    <3> DEFINE T == Seq(Pos)
    <3>1. more \in Seq(T) /\ u \in Seq(T) /\ Len(more) = Len(u) /\ \A i \in 1..Len(more) : more[i] = u[i]
      BY <2>3, <2>5, <2>6
    <3> HIDE DEF T
    <3> QED BY <3>1, SeqEqual
  <2> QED BY <2>7 DEF u, x
<1>6. HandshakeBytes(s, Append(rs, r)) = FlattenSeq(more) /\ HandshakeBytes(s, rs) = FlattenSeq(parts)
  BY DEF HandshakeBytes, Part
<1> HIDE DEF parts, more
<1>7. FlattenSeq(Append(parts, Part(s, r))) = FlattenSeq(parts) \o Part(s, r)
  BY <1>1, <1>4, FlattenAppend
<1> QED BY <1>1, <1>4, <1>5, <1>6, <1>7, FlattenType

-----------------------------------------------------------------------------
(* All of a byte sequence cut at once (Frames) *)

Rest(bytes, i) == SubSeq(bytes, i, Len(bytes))

\* The frames from position i on, when h[k] is those from a later k on.
CutAt(h, bytes, header, len, i) ==
  IF ~HasFrame(Rest(bytes, i), header, len) THEN <<>>
  ELSE <<SubSeq(Rest(bytes, i), 1, Size(Rest(bytes, i), header, len))>>
         \o h[i + Size(Rest(bytes, i), header, len)]

\* h[i] is the frames from i on, for i from j on.
CutsUp(h, bytes, header, len, j) ==
  h = [i \in j..(Len(bytes) + 1) |-> CutAt(h, bytes, header, len, i)]

\* What follows a position, and where a frame that begins there ends.
LEMMA RestType ==
  ASSUME NEW bytes \in Seq(Pos), NEW i \in 1..(Len(bytes) + 1),
         NEW header, NEW len, Header(header, len)
  PROVE  /\ Rest(bytes, i) \in Seq(Pos)
         /\ Len(Rest(bytes, i)) = Len(bytes) + 1 - i
         /\ HasFrame(Rest(bytes, i), header, len) =>
              /\ Size(Rest(bytes, i), header, len) \in Nat \ {0}
              /\ i + Size(Rest(bytes, i), header, len) \in 1..(Len(bytes) + 1)
              /\ i + Size(Rest(bytes, i), header, len) > i
<1>1. Len(bytes) \in Nat /\ \A k \in 1..Len(bytes) : bytes[k] \in Pos
  BY LenProperties
<1>2. Rest(bytes, i) \in Seq(Pos) /\ Len(Rest(bytes, i)) = Len(bytes) + 1 - i
  BY <1>1 DEF Rest
<1>3. ASSUME HasFrame(Rest(bytes, i), header, len)
      PROVE  Size(Rest(bytes, i), header, len) \in 1..Len(Rest(bytes, i))
  BY <1>2, <1>3, SizeType
<1> QED BY <1>1, <1>2, <1>3

\* There is such a function: positions are handled from the last to the first.
LEMMA FramesExist ==
  ASSUME NEW bytes \in Seq(Pos), NEW header, NEW len, Header(header, len)
  PROVE  \E h : CutsUp(h, bytes, header, len, 1)
<1> DEFINE m == Len(bytes) + 1
           T == {k \in 0..m : ~ \E h : CutsUp(h, bytes, header, len, m + 1 - k)}
<1>1. m \in Nat /\ m >= 1
  BY LenProperties
<1>2. T = {}
  <2> SUFFICES ASSUME T # {} PROVE FALSE
    OBVIOUS
  <2>1. PICK k \in T : \A l \in T : k <= l
    <3>1. T \subseteq Nat
      OBVIOUS
    <3> HIDE DEF T
    <3> QED BY <3>1, LeastNumber
  <2>2. k \in 0..m /\ ~ \E h : CutsUp(h, bytes, header, len, m + 1 - k)
    BY <2>1
  <2>3. PICK j : j = m + 1 - k
    OBVIOUS
  <2> HIDE DEF T, m
  <2>4. CASE k = 0
    <3>1. j = m + 1 /\ j..m = {}
      BY <1>1, <2>3, <2>4
    <3> DEFINE h == [i \in j..m |-> <<>>]
    <3>2. h = [i \in j..m |-> CutAt(h, bytes, header, len, i)]
      BY <3>1
    <3> HIDE DEF h
    <3>3. CutsUp(h, bytes, header, len, j)
      BY <3>2 DEF CutsUp, m
    <3> QED BY <2>2, <2>3, <3>3
  <2>5. CASE k # 0
    <3>1. j \in 1..m /\ k - 1 \in 0..m /\ k - 1 < k /\ m + 1 - (k - 1) = j + 1
      BY <1>1, <2>2, <2>3, <2>5
    <3>2. k - 1 \notin T
      BY <2>1, <2>2, <3>1
    <3>3. PICK g : CutsUp(g, bytes, header, len, j + 1)
      BY <3>1, <3>2 DEF T
    <3> DEFINE h == [i \in j..m |-> IF i = j THEN CutAt(g, bytes, header, len, j) ELSE g[i]]
    <3>4. \A i \in (j + 1)..m : g[i] = CutAt(g, bytes, header, len, i)
      BY <3>3 DEF CutsUp, m
    <3>5. \A i \in (j + 1)..m : h[i] = g[i]
      BY <3>1
    <3>6. h[j] = CutAt(g, bytes, header, len, j) /\ h = [i \in j..m |-> h[i]]
      BY <3>1
    <3> HIDE DEF h
    <3>7. ASSUME NEW i \in j..m
          PROVE  CutAt(h, bytes, header, len, i) = CutAt(g, bytes, header, len, i)
      <4> DEFINE n == Size(Rest(bytes, i), header, len)
      <4>1. i \in 1..(Len(bytes) + 1)
        BY <1>1, <3>1 DEF m
      <4>2. HasFrame(Rest(bytes, i), header, len) => i + n \in (j + 1)..m
        <5>1. HasFrame(Rest(bytes, i), header, len) => /\ n \in Nat \ {0}
                                                      /\ i + n \in 1..(Len(bytes) + 1)
          BY <4>1, RestType
        <5> HIDE DEF n
        <5>2. HasFrame(Rest(bytes, i), header, len) => i + n \in 1..m /\ n \in Nat \ {0}
          BY <5>1 DEF m
        <5>3. \A q \in Nat \ {0} : i + q \in 1..m => i + q \in (j + 1)..m
          BY <1>1, <3>1
        <5> QED BY <5>2, <5>3
      <4>3. HasFrame(Rest(bytes, i), header, len) => h[i + n] = g[i + n]
        BY <3>5, <4>2
      <4> QED BY <4>3 DEF CutAt
    <3>8. \A i \in j..m : h[i] = CutAt(h, bytes, header, len, i)
      <4>1. \A i \in j..m : i = j \/ i \in (j + 1)..m
        BY <3>1
      <4> QED BY <3>4, <3>5, <3>6, <3>7, <4>1
    <3>9. CutsUp(h, bytes, header, len, j)
      BY <3>6, <3>8 DEF CutsUp, m
    <3> QED BY <2>2, <2>3, <3>9
  <2> QED BY <2>4, <2>5
<1>3. m \in 0..m /\ m + 1 - m = 1
  BY <1>1
<1>4. \E h : CutsUp(h, bytes, header, len, m + 1 - m)
  BY <1>2, <1>3
<1> QED BY <1>3, <1>4

\* A frame is as long as its own header says.
IsFrame(f, header, len) == f # <<>> /\ Len(f) = Size(f, header, len)

AllFrames(fs, header, len) == \A i \in DOMAIN fs : IsFrame(fs[i], header, len)

\* Where a frame comes first, cutting takes it and leaves what follows it.
LEMMA FrameFirst ==
  ASSUME NEW header, NEW len, Header(header, len),
         NEW f \in Seq(Pos), IsFrame(f, header, len), NEW t \in Seq(Pos)
  PROVE  /\ HasFrame(f \o t, header, len)
         /\ Size(f \o t, header, len) = Len(f)
         /\ SubSeq(f \o t, 1, Len(f)) = f
         /\ SubSeq(f \o t, Len(f) + 1, Len(f \o t)) = t
<1> DEFINE buf == f \o t
           a == Len(f)
           b == Len(t)
<1>1. /\ buf \in Seq(Pos) /\ Len(buf) = a + b
      /\ \A i \in 1..(a + b) : buf[i] = IF i <= a THEN f[i] ELSE t[i - a]
  BY ConcatProperties
<1>2. a \in Nat /\ b \in Nat /\ a # 0
  BY LenProperties, EmptySeq DEF IsFrame
<1>3. f[1] \in Pos
  BY <1>2, ElementOfSeq
<1>4. /\ \A i \in 1..a : f[i] \in Pos
      /\ \A i \in 1..b : t[i] \in Pos
      /\ \A i \in 1..(a + b) : buf[i] \in Pos
  BY <1>1, ElementOfSeq
<1> HIDE DEF buf
<1>5. buf[1] = f[1]
  BY <1>1, <1>2
<1>6. Size(buf, header, len) = a /\ a >= header
  BY <1>2, <1>3, <1>5 DEF Size, IsFrame, Header
<1>7. HasFrame(buf, header, len)
  BY <1>1, <1>2, <1>6 DEF HasFrame, Header
<1>8. SubSeq(buf, 1, a) = f
  <2>1. /\ SubSeq(buf, 1, a) \in Seq(Pos) /\ Len(SubSeq(buf, 1, a)) = a
        /\ \A i \in 1..a : SubSeq(buf, 1, a)[i] = f[i]
    <3> HIDE DEF a, b
    <3> QED BY <1>1, <1>2, <1>4
  <2> QED BY <2>1, SeqEqual DEF a
<1>9. SubSeq(buf, a + 1, Len(buf)) = t
  <2> DEFINE u == SubSeq(buf, a + 1, Len(buf))
  <2>1. u \in Seq(Pos) /\ Len(u) = b /\ \A i \in 1..b : u[i] = t[i]
    <3> HIDE DEF a, b
    <3> QED BY <1>1, <1>2, <1>4
  <2> HIDE DEF u
  <2>2. u = t
    BY <2>1, SeqEqual DEF b
  <2> QED BY <2>2 DEF u
<1> QED BY <1>6, <1>7, <1>8, <1>9 DEF buf

\* What follows position n of what follows position i.
LEMMA RestOfRest ==
  ASSUME NEW S, NEW bytes \in Seq(S), NEW i \in Nat \ {0}, NEW n \in Nat, i + n <= Len(bytes) + 1
  PROVE  SubSeq(SubSeq(bytes, i, Len(bytes)), n + 1, Len(SubSeq(bytes, i, Len(bytes))))
           = SubSeq(bytes, i + n, Len(bytes))
<1> DEFINE l == Len(bytes)
           c == l + 1 - i
<1>1. l \in Nat /\ \A k \in i..l : bytes[k] \in S
  BY ElementOfSeq, LenProperties
<1>2. Len(SubSeq(bytes, i, l)) = c
  <2> HIDE DEF l
  <2>1. Len(SubSeq(bytes, i, l)) = IF i <= l THEN l - i + 1 ELSE 0
    BY <1>1, SubSeqProperties
  <2> QED BY <1>1, <2>1 DEF l
<1>3. CASE i + n = l + 1
  <2>1. c = n /\ c \in Int /\ n + 1 \in Int /\ c < n + 1 /\ i + n \in Int /\ l < i + n
    BY <1>1, <1>3
  <2>2. SubSeq(SubSeq(bytes, i, l), n + 1, c) = <<>> /\ SubSeq(bytes, i + n, l) = <<>>
    <3> HIDE DEF l, c
    <3> QED BY <1>1, <2>1, SubSeqEmpty
  <2> QED BY <1>2, <2>2
<1>4. CASE i + n # l + 1
  <2>1. i \in 1..l /\ l \in 1..l /\ n + 1 \in 1..(l - i + 1) /\ c \in 1..(l - i + 1)
    BY <1>1, <1>4
  <2>2. i + (n + 1) - 1 = i + n /\ i + c - 1 = l
    BY <1>1
  <2>3. SubSeq(SubSeq(bytes, i, l), n + 1, c) = SubSeq(bytes, i + (n + 1) - 1, i + c - 1)
    <3> DEFINE x == n + 1
    <3> HIDE DEF x, c
    <3> QED BY <2>1, SubSeqOfSubSeq DEF x
  <2> QED BY <1>2, <2>2, <2>3
<1> QED BY <1>3, <1>4

\* The bytes and what may be left of them at the end.
Cuts(h, bytes, header, len, rest) ==
  /\ Header(header, len)
  /\ bytes \in Seq(Pos) /\ CutsUp(h, bytes, header, len, 1)
  /\ rest \in Seq(Pos) /\ ~HasFrame(rest, header, len)

CutsAnywhere(h, bytes, header, len, rest) ==
  \A fs \in Seq(Seq(Pos)), i \in 1..(Len(bytes) + 1) :
    AllFrames(fs, header, len) /\ Rest(bytes, i) = FlattenSeq(fs) \o rest => h[i] = fs

\* From wherever frames follow one another up to a rest that holds none, these
\* frames are what cutting gives.
LEMMA FramesFrom ==
  ASSUME NEW header, NEW len, NEW bytes, NEW h, NEW rest, Cuts(h, bytes, header, len, rest)
  PROVE  CutsAnywhere(h, bytes, header, len, rest)
<1> DEFINE U == Seq(Pos)
           Good(fs) == \A i \in 1..(Len(bytes) + 1) :
                         AllFrames(fs, header, len) /\ Rest(bytes, i) = FlattenSeq(fs) \o rest
                           => h[i] = fs
           T == {m \in Nat : \E fs \in Seq(U) : Len(fs) = m /\ ~Good(fs)}
<1>0. /\ Header(header, len)
      /\ bytes \in Seq(Pos) /\ CutsUp(h, bytes, header, len, 1)
      /\ rest \in Seq(Pos) /\ ~HasFrame(rest, header, len)
  BY DEF Cuts
<1>1. T = {}
  <2> SUFFICES ASSUME T # {} PROVE FALSE
    OBVIOUS
  <2>1. PICK m \in T : \A j \in T : m <= j
    <3>1. T \subseteq Nat
      OBVIOUS
    <3> HIDE DEF T
    <3> QED BY <3>1, LeastNumber
  <2>2. PICK fs \in Seq(U) : Len(fs) = m /\ ~Good(fs)
    BY <2>1
  <2>3. PICK i \in 1..(Len(bytes) + 1) :
          AllFrames(fs, header, len) /\ Rest(bytes, i) = FlattenSeq(fs) \o rest /\ h[i] # fs
    BY <2>2
  <2>4. h[i] = CutAt(h, bytes, header, len, i)
    BY <1>0, <2>3 DEF CutsUp
  <2>5. CASE fs = <<>>
    <3>1. Rest(bytes, i) = rest
      BY <1>0, <2>3, <2>5, FlattenEmpty, ConcatEmptySeq
    <3> QED BY <1>0, <2>3, <2>4, <2>5, <3>1 DEF CutAt
  <2>6. CASE fs # <<>>
    <3> DEFINE f == Head(fs)
               gs == Tail(fs)
               t == FlattenSeq(gs) \o rest
               n == Len(f)
    <3>1. /\ f \in U /\ f = fs[1] /\ gs \in Seq(U) /\ Len(gs) = m - 1 /\ m - 1 \in Nat /\ m \in Nat
          /\ \A k \in 1..(m - 1) : gs[k] = fs[k + 1]
          /\ fs = <<f>> \o gs
      <4>1. m \in Nat /\ m # 0
        <5> HIDE DEF U
        <5> QED BY <2>2, <2>6, EmptySeq
      <4>2. f \in U /\ gs \in Seq(U) /\ Len(gs) = m - 1 /\ \A k \in 1..(m - 1) : gs[k] = fs[k + 1]
        <5> HIDE DEF U
        <5> QED BY <2>2, <2>6, HeadTailProperties
      <4>3. f = fs[1] /\ fs = <<f>> \o gs
        <5> HIDE DEF U
        <5>1. SubSeq(fs, 1, Len(fs)) = fs /\ Tail(fs) = SubSeq(fs, 2, Len(fs)) /\ Head(fs) = fs[1]
          BY <2>6, SubSeqFull, TailIsSubSeq
        <5>2. 1 \in 1..Len(fs) /\ Len(fs) \in 1..Len(fs)
          BY <2>2, <4>1
        <5>3. SubSeq(fs, 1, Len(fs)) = <<fs[1]>> \o SubSeq(fs, 1 + 1, Len(fs))
          BY <5>2, SubSeqRecursiveFirst
        <5> QED BY <5>1, <5>3
      <4> HIDE DEF f, gs, T, Good, U
      <4> QED BY <2>2, <4>1, <4>2, <4>3
    <3>2. DOMAIN fs = 1..m /\ DOMAIN gs = 1..(m - 1)
      <4> HIDE DEF U, gs
      <4> QED BY <2>2, <3>1, LenProperties
    <3>3. IsFrame(f, header, len) /\ AllFrames(gs, header, len)
      <4>1. 1 \in 1..m /\ \A k \in 1..(m - 1) : k + 1 \in 1..m
        BY <3>1
      <4> HIDE DEF f, gs
      <4> QED BY <2>3, <3>1, <3>2, <4>1 DEF AllFrames
    <3>4. FlattenSeq(gs) \in Seq(Pos) /\ t \in Seq(Pos)
      BY <1>0, <3>1, FlattenType, ConcatProperties
    <3>5. Rest(bytes, i) = f \o t
      <4>1. FlattenSeq(fs) = f \o FlattenSeq(gs)
        <5> HIDE DEF f, gs
        <5> QED BY <3>1, FlattenCons
      <4>2. f \in Seq(Pos)
        BY <3>1
      <4> HIDE DEF f, gs
      <4>3. (f \o FlattenSeq(gs)) \o rest = f \o (FlattenSeq(gs) \o rest)
        <5>1. rest \in Seq(Pos)
          BY <1>0
        <5>2. FlattenSeq(gs) \in Seq(Pos)
          BY <3>4
        <5> HIDE DEF U, Good, T, t, n
        <5> QED BY <4>2, <5>1, <5>2, ConcatAssociative
      <4> QED BY <2>3, <4>1, <4>3
    <3> HIDE DEF f, gs, t
    <3>6. /\ HasFrame(Rest(bytes, i), header, len)
          /\ Size(Rest(bytes, i), header, len) = n
          /\ SubSeq(Rest(bytes, i), 1, n) = f
          /\ SubSeq(Rest(bytes, i), n + 1, Len(Rest(bytes, i))) = t
      <4>1. f \in Seq(Pos)
        BY <3>1
      <4> HIDE DEF T, Good, U
      <4> QED BY <1>0, <3>3, <3>4, <3>5, <4>1, FrameFirst
    <3>7. i + n \in 1..(Len(bytes) + 1) /\ n \in Nat \ {0}
      <4> HIDE DEF n, T, Good
      <4>1. /\ Size(Rest(bytes, i), header, len) \in Nat \ {0}
            /\ i + Size(Rest(bytes, i), header, len) \in 1..(Len(bytes) + 1)
        BY <1>0, <3>6, RestType
      <4> QED BY <3>6, <4>1
    <3>8. Rest(bytes, i + n) = t
      <4> HIDE DEF n
      <4>1. i \in Nat \ {0} /\ n \in Nat /\ i + n <= Len(bytes) + 1
        BY <1>0, <3>7, LenProperties
      <4>2. Rest(bytes, i + n) = SubSeq(Rest(bytes, i), n + 1, Len(Rest(bytes, i)))
        BY <1>0, <4>1, RestOfRest DEF Rest
      <4> QED BY <3>6, <4>2
    <3>9. h[i + n] = gs
      <4>1. m - 1 \notin T
        <5> HIDE DEF T
        <5> QED BY <2>1, <3>1
      <4>2. Good(gs)
        BY <3>1, <4>1
      <4> HIDE DEF n
      <4> QED BY <3>3, <3>7, <3>8, <4>2 DEF t
    <3>10. h[i] = <<f>> \o gs
      BY <2>4, <3>6, <3>9 DEF CutAt
    <3> QED BY <2>3, <3>1, <3>10
  <2> QED BY <2>5, <2>6
<1>2. \A fs \in Seq(U) : Good(fs)
  <2> TAKE fs \in Seq(U)
  <2>1. Len(fs) \in Nat
    BY LenProperties
  <2> QED BY <1>1, <2>1
<1> QED BY <1>2 DEF CutsAnywhere

\* bytes are the frames fs and a rest that holds none.
FollowOn(header, len, bytes, fs, rest) ==
  /\ Header(header, len)
  /\ bytes \in Seq(Pos) /\ fs \in Seq(Seq(Pos)) /\ rest \in Seq(Pos)
  /\ AllFrames(fs, header, len) /\ ~HasFrame(rest, header, len)
  /\ bytes = FlattenSeq(fs) \o rest

\* What follows one another up to a rest that holds no frame is what cutting
\* all the bytes at once gives.
LEMMA FramesAre ==
  ASSUME NEW header, NEW len, NEW bytes, NEW fs, NEW rest,
         FollowOn(header, len, bytes, fs, rest)
  PROVE  Frames(bytes, header, len) = fs
<1> DEFINE h == CHOOSE g : CutsUp(g, bytes, header, len, 1)
<1>0. /\ Header(header, len)
      /\ bytes \in Seq(Pos) /\ fs \in Seq(Seq(Pos)) /\ rest \in Seq(Pos)
      /\ AllFrames(fs, header, len) /\ ~HasFrame(rest, header, len)
      /\ bytes = FlattenSeq(fs) \o rest
  BY DEF FollowOn
<1>1. CutsUp(h, bytes, header, len, 1)
  BY <1>0, FramesExist
<1>2. Frames(bytes, header, len) = h[1]
  BY DEF Frames, CutsUp, CutAt, HasFrame, Size, Rest
<1> HIDE DEF h
<1>3. Rest(bytes, 1) = bytes /\ 1 \in 1..(Len(bytes) + 1)
  BY <1>0, LenProperties, SubSeqFull DEF Rest
<1>4. h[1] = fs
  <2>1. Cuts(h, bytes, header, len, rest)
    BY <1>0, <1>1 DEF Cuts
  <2>2. CutsAnywhere(h, bytes, header, len, rest)
    BY <2>1, FramesFrom
  <2> QED BY <1>0, <1>3, <2>2 DEF CutsAnywhere
<1> QED BY <1>2, <1>4

-----------------------------------------------------------------------------
(* Reassembly under the path *)

\* A step of the path is a step of reassembly, or leaves it alone.
LEMMA PathStep == ASSUME [PathNext]_pathVars PROVE [Next]_vars
<1>1. ASSUME NEW s \in Sides, NEW g \in Segments[s], Packet(s, g) PROVE Next
  BY <1>1 DEF Packet, Next
<1>2. ASSUME AdvanceAndFeed PROVE Next
  BY <1>2 DEF AdvanceAndFeed, Next
<1>3. ASSUME Cutting /\ UNCHANGED vars PROVE UNCHANGED vars
  BY <1>3
<1>4. ASSUME UNCHANGED pathVars PROVE UNCHANGED vars
  BY <1>4 DEF pathVars
<1> QED BY <1>1, <1>2, <1>3, <1>4 DEF PathNext

\* The path feeds what reassembly of the packets feeds: everything proved of
\* TcpReassembly holds along the path.
THEOREM PathReassembles == PathSpec => Spec
<1>1. PathInit => Init
  BY DEF PathInit
<1>2. [PathNext]_pathVars => [Next]_vars
  BY PathStep
<1> QED BY <1>1, <1>2, PTL DEF PathSpec, Spec

\* What is kept or in hand lies inside the stream.
Within ==
  /\ \A s \in Sides : \A k \in DOMAIN pending[s] :
       pending[s][k].off + pending[s][k].len <= StreamLen
  /\ work # Idle => work.chunk.off + work.chunk.len <= StreamLen

\* Payloads lie inside the stream, and so does what is left of one.
LEMMA WithinNext ==
  ASSUME Assumptions, TypeOK, Within, [Next]_vars
  PROVE  Within'
<1>1. ASSUME NEW s \in Sides, NEW g \in Segments[s],
             IgnorePacket(s, g) \/ Abandon(s, g) \/ DropRetransmission(s, g)
      PROVE  Within'
  BY <1>1 DEF IgnorePacket, Abandon, DropRetransmission, Feeding, Within, bufs
<1>2. ASSUME NEW s \in Sides, NEW g \in Segments[s], BufferAhead(s, g)
      PROVE  Within'
  <2>1. /\ pending' = [pending EXCEPT ![s] = Put(pending[s], SeqNo(s, g.off), g)]
        /\ work' = work /\ DOMAIN pending = Sides
    BY <1>2 DEF BufferAhead, TypeOK
  <2>2. g.off + g.len <= StreamLen
    BY SegmentType
  <2>3. \A t \in Sides : t # s => pending'[t] = pending[t]
    BY <2>1
  <2>4. pending'[s] = Put(pending[s], SeqNo(s, g.off), g)
    BY <2>1
  <2> QED BY <2>1, <2>2, <2>3, <2>4 DEF Within, Put
<1>3. ASSUME NEW s \in Sides, NEW g \in Segments[s], TakeInOrder(s, g)
      PROVE  Within'
  <2> DEFINE n == -Distance(s, g)
  <2>1. g.off \in Nat /\ g.len \in Nat /\ g.off + g.len <= StreamLen /\ StreamLen \in Nat
    BY SegmentType DEF Assumptions
  <2>2. n \in Int /\ pending' = pending /\ work'.chunk = Trim(g, n)
    BY <1>3, DistanceType DEF TakeInOrder
  <2> HIDE DEF n
  <2>3. work'.chunk.off = g.off + n /\ work'.chunk.len = g.len - n
    BY <2>2 DEF Trim
  <2>4. work'.chunk.off + work'.chunk.len <= StreamLen
    BY <2>1, <2>2, <2>3
  <2> QED BY <2>2, <2>4 DEF Within
<1>4. ASSUME Advance PROVE Within'
  <2> DEFINE s == work.side
             next == Wrap(work.seq + work.chunk.len)
  <2>1. s \in Sides /\ DOMAIN pending = Sides
    BY <1>4, WorkType DEF Advance, TypeOK
  <2>2. \/ /\ next \in DOMAIN pending[s]
           /\ pending' = [pending EXCEPT ![s] = Restrict(pending[s], DOMAIN pending[s] \ {next})]
           /\ work'.chunk = pending[s][next]
        \/ pending' = pending /\ work' = Idle
    BY <1>4 DEF Advance
  <2> HIDE DEF next, s
  <2>3. \A t \in Sides : \A k \in DOMAIN pending'[t] :
          k \in DOMAIN pending[t] /\ pending'[t][k] = pending[t][k]
    BY <2>1, <2>2 DEF Restrict
  <2>4. work' # Idle => work'.chunk.off + work'.chunk.len <= StreamLen
    BY <2>1, <2>2 DEF Within
  <2> QED BY <2>3, <2>4 DEF Within
<1>5. ASSUME UNCHANGED vars PROVE Within'
  BY <1>5 DEF vars, bufs, Within
<1> QED BY <1>1, <1>2, <1>3, <1>4, <1>5 DEF Next

-----------------------------------------------------------------------------
(* Every byte is in one place, and every frame as long as it says *)

\* The types of the buffers and of what was cut.
FramesTyped ==
  /\ recvBuf \in [Sides -> Seq(Pos)] /\ hsBuf \in [Sides -> Seq(Pos)]
  /\ records \in [Sides -> Seq(Seq(Pos))] /\ messages \in [Sides -> Seq(Seq(Pos))]

FramesWhole ==
  \A s \in Sides : /\ AllFrames(records[s], RecordHeader, RecordLen[s])
                   /\ AllFrames(messages[s], MessageHeader, MessageLen[s])

\* What cutting keeps: FramesAbut and what it needs to stay true.
InFrames == FramesTyped /\ FramesWhole /\ FramesAbut

\* Nothing was cut at the start.
LEMMA InFramesInit == ASSUME PathInit PROVE InFrames
<1>1. /\ recvBuf = [s \in Sides |-> <<>>] /\ hsBuf = [s \in Sides |-> <<>>]
      /\ records = [s \in Sides |-> <<>>] /\ messages = [s \in Sides |-> <<>>]
      /\ out = [s \in Sides |-> <<>>]
  BY DirsAssumption DEF PathInit, FrameInit, Init
<1>2. FramesTyped
  BY <1>1, EmptySeq DEF FramesTyped
<1>3. FramesWhole
  BY <1>1 DEF FramesWhole, AllFrames
<1>4. \A s \in Sides : HandshakeBytes(s, <<>>) = <<>>
  <2> TAKE s \in Sides
  <2>1. [i \in DOMAIN <<>> |-> IF <<>>[i][1] \in Handshakes[s] THEN Body(<<>>[i], RecordHeader) ELSE <<>>]
          = <<>>
    OBVIOUS
  <2> QED BY <2>1, FlattenEmpty DEF HandshakeBytes
<1>5. <<>> \o <<>> = <<>>
  OBVIOUS
<1>6. FramesAbut
  BY <1>1, <1>4, <1>5, FlattenEmpty DEF FramesAbut
<1> QED BY <1>2, <1>3, <1>6 DEF InFrames

\* One frame more, as long as it says, and all frames are.
LEMMA AppendFrame ==
  ASSUME NEW header, NEW len, NEW fs \in Seq(Seq(Pos)), AllFrames(fs, header, len),
         NEW f \in Seq(Pos), IsFrame(f, header, len)
  PROVE  AllFrames(Append(fs, f), header, len) /\ Append(fs, f) \in Seq(Seq(Pos))
<1> DEFINE n == Len(fs)
           more == Append(fs, f)
           U == Seq(Pos)
<1>1. n \in Nat /\ DOMAIN fs = 1..n
  BY LenProperties
<1>2. /\ more \in Seq(U) /\ DOMAIN more = 1..(n + 1)
      /\ \A i \in 1..n : more[i] = fs[i]
      /\ more[n + 1] = f
  <2>1. f \in U /\ fs \in Seq(U)
    OBVIOUS
  <2> HIDE DEF U
  <2> QED BY <2>1, AppendProperties, LenProperties
<1>3. \A i \in 1..(n + 1) : i \in 1..n \/ i = n + 1
  BY <1>1
<1>4. ASSUME NEW i \in 1..(n + 1) PROVE IsFrame(more[i], header, len)
  <2> HIDE DEF more, n
  <2>1. CASE i \in 1..n
    BY <1>1, <1>2, <2>1 DEF AllFrames
  <2>2. CASE i = n + 1
    BY <1>2, <2>2
  <2> QED BY <1>3, <2>1, <2>2
<1> HIDE DEF more
<1>5. AllFrames(more, header, len)
  BY <1>2, <1>4 DEF AllFrames
<1> QED BY <1>2, <1>5 DEF more, U

\* A packet that is not fed yet does not touch what was cut.
LEMMA PacketKeeps ==
  ASSUME InFrames, NEW s \in Sides, NEW g \in Segments[s], Packet(s, g)
  PROVE  InFrames'
<1>1. out' = out
  BY DEF Packet, IgnorePacket, Abandon, BufferAhead, DropRetransmission, TakeInOrder
<1>2. recvBuf' = recvBuf /\ hsBuf' = hsBuf /\ records' = records /\ messages' = messages
  BY DEF Packet, frameVars
<1> QED BY <1>1, <1>2 DEF InFrames, FramesTyped, FramesWhole, FramesAbut

\* What is fed joins the end of both the stream and the buffer.
LEMMA FeedKeeps ==
  ASSUME Assumptions, TypeOK, Within, InFrames, AdvanceAndFeed
  PROVE  InFrames'
<1> DEFINE s == work.side
           run == OS!Positions(work.chunk.off, work.chunk.len)
<1>1. /\ s \in Sides /\ work.chunk.off \in Nat /\ work.chunk.len \in Nat
      /\ work.chunk.off + work.chunk.len <= StreamLen /\ StreamLen \in Nat
  BY WorkType DEF AdvanceAndFeed, Advance, Within, Assumptions
<1>2. run \in Seq(Pos)
  <2>1. \A i \in 1..work.chunk.len : work.chunk.off + i - 1 \in Pos
    BY <1>1 DEF Pos
  <2>2. run \in [1..work.chunk.len -> Pos]
    BY <2>1 DEF OS!Positions
  <2> QED BY <1>1, <2>2
<1>3. /\ out' = [out EXCEPT ![s] = out[s] \o run]
      /\ recvBuf' = [recvBuf EXCEPT ![s] = recvBuf[s] \o run]
      /\ hsBuf' = hsBuf /\ records' = records /\ messages' = messages
  BY DEF AdvanceAndFeed, Advance, Feed
<1> HIDE DEF s, run
<1>4. /\ recvBuf[s] \in Seq(Pos) /\ records[s] \in Seq(Seq(Pos))
      /\ out[s] = FlattenSeq(records[s]) \o recvBuf[s]
  BY <1>1 DEF InFrames, FramesTyped, FramesAbut
<1>5. recvBuf[s] \o run \in Seq(Pos)
  BY <1>2, <1>4, ConcatProperties
<1>6. FramesTyped'
  BY <1>1, <1>3, <1>5 DEF InFrames, FramesTyped
<1>7. FramesWhole'
  BY <1>3 DEF InFrames, FramesWhole
<1>8. out[s] \o run = FlattenSeq(records[s]) \o (recvBuf[s] \o run)
  <2> DEFINE fl == FlattenSeq(records[s])
             buf == recvBuf[s]
  <2>1. fl \in Seq(Pos) /\ buf \in Seq(Pos) /\ out[s] = fl \o buf
    BY <1>4, FlattenType
  <2> HIDE DEF fl, buf
  <2>2. (fl \o buf) \o run = fl \o (buf \o run)
    BY <1>2, <2>1, ConcatAssociative
  <2> QED BY <2>1, <2>2 DEF fl, buf
<1>9. out \in [Sides -> Seq(Nat)] /\ recvBuf \in [Sides -> Seq(Pos)]
  BY DEF TypeOK, InFrames, FramesTyped
<1>10. FramesAbut'
  BY <1>1, <1>3, <1>8, <1>9 DEF InFrames, FramesAbut
<1> QED BY <1>6, <1>7, <1>10 DEF InFrames

\* f is the frame that begins buf, which follows the frames fs, and rest what
\* follows it.
CutOff(header, len, fs, buf, f, rest) ==
  /\ Header(header, len)
  /\ fs \in Seq(Seq(Pos)) /\ AllFrames(fs, header, len)
  /\ buf \in Seq(Pos) /\ HasFrame(buf, header, len)
  /\ InTwo(buf, Size(buf, header, len), f, rest)

\* It is among the frames now, its bytes where they were.
IsCutOff(header, len, fs, buf, f, rest) ==
  /\ f \in Seq(Pos) /\ rest \in Seq(Pos)
  /\ Append(fs, f) \in Seq(Seq(Pos)) /\ AllFrames(Append(fs, f), header, len)
  /\ FlattenSeq(fs) \o buf = FlattenSeq(Append(fs, f)) \o rest

\* Cutting a frame off a buffer moves its bytes from one place to the other.
LEMMA CutKeeps ==
  ASSUME NEW header, NEW len, NEW fs, NEW buf, NEW f, NEW rest,
         CutOff(header, len, fs, buf, f, rest)
  PROVE  IsCutOff(header, len, fs, buf, f, rest)
<1> DEFINE n == Size(buf, header, len)
<1>0. /\ Header(header, len)
      /\ fs \in Seq(Seq(Pos)) /\ AllFrames(fs, header, len)
      /\ buf \in Seq(Pos) /\ HasFrame(buf, header, len)
      /\ InTwo(buf, n, f, rest)
  BY DEF CutOff
<1>1. n \in 1..Len(buf)
  BY <1>0, SizeType
<1>2. f \in Seq(Pos) /\ Len(f) = n /\ f[1] = buf[1] /\ f # <<>> /\ rest \in Seq(Pos) /\ buf = f \o rest
  <2> HIDE DEF n
  <2> QED BY <1>0, <1>1, CutInTwo
<1>3. IsFrame(f, header, len)
  BY <1>2 DEF IsFrame, Size
<1>4. Append(fs, f) \in Seq(Seq(Pos)) /\ AllFrames(Append(fs, f), header, len)
  BY <1>0, <1>2, <1>3, AppendFrame
<1>5. FlattenSeq(fs) \o buf = FlattenSeq(Append(fs, f)) \o rest
  <2>1. FlattenSeq(Append(fs, f)) = FlattenSeq(fs) \o f
    BY <1>0, <1>2, FlattenAppend
  <2> DEFINE fl == FlattenSeq(fs)
  <2>2. fl \in Seq(Pos) /\ f \in Seq(Pos) /\ rest \in Seq(Pos)
    BY <1>0, <1>2, FlattenType
  <2> HIDE DEF fl
  <2>3. (fl \o f) \o rest = fl \o (f \o rest)
    BY <2>2, ConcatAssociative
  <2> QED BY <1>2, <2>1, <2>3 DEF fl
<1> QED BY <1>2, <1>4, <1>5 DEF IsCutOff

\* A record moves from recvBuf to the records, its handshake bytes join hsBuf.
LEMMA CutRecordKeeps ==
  ASSUME InFrames, NEW s \in Sides, CutRecord(s), UNCHANGED vars
  PROVE  InFrames'
<1> DEFINE n == Size(recvBuf[s], RecordHeader, RecordLen[s])
           r == SubSeq(recvBuf[s], 1, n)
           rest == SubSeq(recvBuf[s], n + 1, Len(recvBuf[s]))
           rs == Append(records[s], r)
           part == Part(s, r)
<1>1. Header(RecordHeader, RecordLen[s]) /\ RecordHeader \in Nat
  BY HeadersHold DEF Header
<1>2. /\ recvBuf[s] \in Seq(Pos) /\ hsBuf[s] \in Seq(Pos)
      /\ records[s] \in Seq(Seq(Pos)) /\ messages[s] \in Seq(Seq(Pos))
      /\ AllFrames(records[s], RecordHeader, RecordLen[s])
      /\ out[s] = FlattenSeq(records[s]) \o recvBuf[s]
      /\ HandshakeBytes(s, records[s]) = FlattenSeq(messages[s]) \o hsBuf[s]
  BY DEF InFrames, FramesTyped, FramesWhole, FramesAbut
<1>3. /\ records' = [records EXCEPT ![s] = rs]
      /\ recvBuf' = [recvBuf EXCEPT ![s] = rest]
      /\ hsBuf' = [hsBuf EXCEPT ![s] = IF r[1] \in Handshakes[s] THEN hsBuf[s] \o Body(r, RecordHeader)
                                       ELSE hsBuf[s]]
      /\ messages' = messages /\ out' = out
  BY DEF CutRecord, vars
<1>4. HasFrame(recvBuf[s], RecordHeader, RecordLen[s])
  BY DEF CutRecord, HasRecord
<1>5. /\ r \in Seq(Pos) /\ rest \in Seq(Pos)
      /\ rs \in Seq(Seq(Pos)) /\ AllFrames(rs, RecordHeader, RecordLen[s])
      /\ FlattenSeq(records[s]) \o recvBuf[s] = FlattenSeq(rs) \o rest
  <2>1. CutOff(RecordHeader, RecordLen[s], records[s], recvBuf[s], r, rest)
    BY <1>1, <1>2, <1>4 DEF CutOff, InTwo
  <2> HIDE DEF n, r, rest
  <2>2. IsCutOff(RecordHeader, RecordLen[s], records[s], recvBuf[s], r, rest)
    BY <2>1, CutKeeps
  <2> QED BY <2>2 DEF IsCutOff
<1> HIDE DEF n, r, rest
<1>6. /\ part \in Seq(Pos)
      /\ HandshakeBytes(s, rs) = HandshakeBytes(s, records[s]) \o part
  BY <1>1, <1>2, <1>5, HandshakeAppend
<1>7. hsBuf' = [hsBuf EXCEPT ![s] = hsBuf[s] \o part]
  <2>1. hsBuf[s] \o <<>> = hsBuf[s]
    BY <1>2, ConcatEmptySeq
  <2> QED BY <1>3, <2>1 DEF Part
<1> HIDE DEF part, rs
<1>8. hsBuf[s] \o part \in Seq(Pos)
  BY <1>2, <1>6, ConcatProperties
<1>9. FramesTyped'
  BY <1>3, <1>5, <1>7, <1>8 DEF InFrames, FramesTyped
<1>10. FramesWhole'
  BY <1>3, <1>5 DEF InFrames, FramesTyped, FramesWhole
<1>11. HandshakeBytes(s, rs) = FlattenSeq(messages[s]) \o (hsBuf[s] \o part)
  <2> DEFINE fl == FlattenSeq(messages[s])
             buf == hsBuf[s]
  <2>1. fl \in Seq(Pos) /\ buf \in Seq(Pos) /\ HandshakeBytes(s, records[s]) = fl \o buf
    BY <1>2, FlattenType
  <2> HIDE DEF fl, buf
  <2>2. (fl \o buf) \o part = fl \o (buf \o part)
    BY <1>6, <2>1, ConcatAssociative
  <2> QED BY <1>6, <2>1, <2>2 DEF fl, buf
<1>12. FramesAbut'
  <2>1. ASSUME NEW t \in Sides
        PROVE  /\ out'[t] = FlattenSeq(records'[t]) \o recvBuf'[t]
               /\ HandshakeBytes(t, records'[t]) = FlattenSeq(messages'[t]) \o hsBuf'[t]
    <3>1. CASE t = s
      BY <1>2, <1>3, <1>5, <1>7, <1>11, <3>1 DEF InFrames, FramesTyped
    <3>2. CASE t # s
      BY <1>3, <1>7, <3>2 DEF InFrames, FramesTyped, FramesAbut
    <3> QED BY <3>1, <3>2
  <2> QED BY <2>1 DEF FramesAbut, HandshakeBytes
<1> QED BY <1>9, <1>10, <1>12 DEF InFrames

\* A message moves from hsBuf to the messages.
LEMMA CutMessageKeeps ==
  ASSUME InFrames, NEW s \in Sides, CutMessage(s), UNCHANGED vars
  PROVE  InFrames'
<1> DEFINE n == Size(hsBuf[s], MessageHeader, MessageLen[s])
           f == SubSeq(hsBuf[s], 1, n)
           rest == SubSeq(hsBuf[s], n + 1, Len(hsBuf[s]))
           fs == Append(messages[s], f)
<1>1. Header(MessageHeader, MessageLen[s])
  BY HeadersHold
<1>2. /\ hsBuf[s] \in Seq(Pos) /\ messages[s] \in Seq(Seq(Pos))
      /\ AllFrames(messages[s], MessageHeader, MessageLen[s])
      /\ HandshakeBytes(s, records[s]) = FlattenSeq(messages[s]) \o hsBuf[s]
  BY DEF InFrames, FramesTyped, FramesWhole, FramesAbut
<1>3. /\ messages' = [messages EXCEPT ![s] = fs]
      /\ hsBuf' = [hsBuf EXCEPT ![s] = rest]
      /\ records' = records /\ recvBuf' = recvBuf /\ out' = out
  BY DEF CutMessage, vars
<1>4. HasFrame(hsBuf[s], MessageHeader, MessageLen[s])
  BY DEF CutMessage, HasMessage
<1>5. /\ f \in Seq(Pos) /\ rest \in Seq(Pos)
      /\ fs \in Seq(Seq(Pos)) /\ AllFrames(fs, MessageHeader, MessageLen[s])
      /\ FlattenSeq(messages[s]) \o hsBuf[s] = FlattenSeq(fs) \o rest
  <2>1. CutOff(MessageHeader, MessageLen[s], messages[s], hsBuf[s], f, rest)
    BY <1>1, <1>2, <1>4 DEF CutOff, InTwo
  <2> HIDE DEF n, f, rest
  <2>2. IsCutOff(MessageHeader, MessageLen[s], messages[s], hsBuf[s], f, rest)
    BY <2>1, CutKeeps
  <2> QED BY <2>2 DEF IsCutOff
<1> HIDE DEF n, f, rest, fs
<1>6. FramesTyped'
  BY <1>3, <1>5 DEF InFrames, FramesTyped
<1>7. FramesWhole'
  BY <1>3, <1>5 DEF InFrames, FramesTyped, FramesWhole
<1>8. FramesAbut'
  <2>1. ASSUME NEW t \in Sides
        PROVE  /\ out'[t] = FlattenSeq(records'[t]) \o recvBuf'[t]
               /\ HandshakeBytes(t, records'[t]) = FlattenSeq(messages'[t]) \o hsBuf'[t]
    <3>1. CASE t = s
      BY <1>2, <1>3, <1>5, <3>1 DEF InFrames, FramesTyped, FramesAbut
    <3>2. CASE t # s
      BY <1>3, <3>2 DEF InFrames, FramesTyped, FramesAbut
    <3> QED BY <3>1, <3>2
  <2> QED BY <2>1 DEF FramesAbut, HandshakeBytes
<1> QED BY <1>6, <1>7, <1>8 DEF InFrames

\* Every step of the path keeps every byte in one place.
LEMMA InFramesNext ==
  ASSUME Assumptions, TypeOK, Within, InFrames, [PathNext]_pathVars
  PROVE  InFrames'
<1>1. ASSUME NEW s \in Sides, NEW g \in Segments[s], Packet(s, g) PROVE InFrames'
  BY <1>1, PacketKeeps
<1>2. ASSUME AdvanceAndFeed PROVE InFrames'
  BY <1>2, FeedKeeps
<1>3. ASSUME Cutting, UNCHANGED vars PROVE InFrames'
  <2>1. PICK s \in Sides : CutRecord(s) \/ CutMessage(s)
    BY <1>3, DirsAssumption DEF Cutting
  <2> QED BY <1>3, <2>1, CutRecordKeeps, CutMessageKeeps
<1>4. ASSUME UNCHANGED pathVars PROVE InFrames'
  BY <1>4 DEF pathVars, vars, frameVars, InFrames, FramesTyped, FramesWhole, FramesAbut, HandshakeBytes
<1> QED BY <1>1, <1>2, <1>3, <1>4 DEF PathNext

\* The types, the payloads inside the stream and the frames, all along.
LEMMA PathInvariant == PathSpec => [](TypeOK /\ Within /\ InFrames)
<1> DEFINE I == TypeOK /\ Within /\ InFrames
<1> USE AssumptionsHold
<1>1. PathInit => I
  <2> SUFFICES ASSUME PathInit PROVE I
    OBVIOUS
  <2>1. Init
    BY DEF PathInit
  <2>2. Within
    BY <2>1 DEF Init, Within, Idle
  <2> QED BY <2>1, <2>2, TypeInit, InFramesInit
<1>2. I /\ [PathNext]_pathVars => I'
  <2> SUFFICES ASSUME I, [PathNext]_pathVars PROVE I'
    OBVIOUS
  <2>1. [Next]_vars
    BY PathStep
  <2> QED BY <2>1, TypeNext, WithinNext, InFramesNext
<1> QED BY <1>1, <1>2, PTL DEF PathSpec

\* Wherever segments split a header or a body, however they were reordered,
\* repeated or lost, and whatever lengths the headers state: every byte fed is
\* in one record or still in recvBuf, every handshake byte in one message or
\* still in hsBuf, in order (Feed, extractRecords, extractHandshakeMessages).
THEOREM BytesInOnePlace == PathSpec => []FramesAbut
<1>1. InFrames => FramesAbut
  BY DEF InFrames
<1> QED BY <1>1, PathInvariant, PTL

\* Whenever Feed has returned, what it has cut in many steps, as the bytes came,
\* is what cutting all of them at once gives.
CutAtOnce ==
  Settled =>
    \A s \in Sides :
      /\ records[s] = Frames(out[s], RecordHeader, RecordLen[s])
      /\ messages[s] = Frames(HandshakeBytes(s, records[s]), MessageHeader, MessageLen[s])

\* Frames that follow one another up to less than a frame are all there are.
LEMMA CutAtOnceHolds == ASSUME TypeOK, Within, InFrames PROVE CutAtOnce
<1> SUFFICES ASSUME Settled, NEW s \in Sides
             PROVE  /\ records[s] = Frames(out[s], RecordHeader, RecordLen[s])
                    /\ messages[s] = Frames(HandshakeBytes(s, records[s]), MessageHeader, MessageLen[s])
  BY DEF CutAtOnce
<1>1. ~HasRecord(s) /\ ~HasMessage(s)
  BY DirsAssumption DEF Settled
<1>2. /\ recvBuf[s] \in Seq(Pos) /\ hsBuf[s] \in Seq(Pos)
      /\ records[s] \in Seq(Seq(Pos)) /\ messages[s] \in Seq(Seq(Pos))
      /\ AllFrames(records[s], RecordHeader, RecordLen[s])
      /\ AllFrames(messages[s], MessageHeader, MessageLen[s])
      /\ out[s] = FlattenSeq(records[s]) \o recvBuf[s]
      /\ HandshakeBytes(s, records[s]) = FlattenSeq(messages[s]) \o hsBuf[s]
  BY DEF InFrames, FramesTyped, FramesWhole, FramesAbut
<1>3. out[s] \in Seq(Pos) /\ HandshakeBytes(s, records[s]) \in Seq(Pos)
  <2>1. FlattenSeq(records[s]) \in Seq(Pos) /\ FlattenSeq(messages[s]) \in Seq(Pos)
    BY <1>2, FlattenType
  <2> DEFINE f == FlattenSeq(records[s])
             g == FlattenSeq(messages[s])
  <2> HIDE DEF f, g
  <2>2. f \o recvBuf[s] \in Seq(Pos) /\ g \o hsBuf[s] \in Seq(Pos)
    BY <1>2, <2>1, ConcatProperties DEF f, g
  <2> QED BY <1>2, <2>2 DEF f, g
<1>4. Header(RecordHeader, RecordLen[s]) /\ Header(MessageHeader, MessageLen[s])
  BY HeadersHold
<1>5. records[s] = Frames(out[s], RecordHeader, RecordLen[s])
  <2>1. FollowOn(RecordHeader, RecordLen[s], out[s], records[s], recvBuf[s])
    BY <1>1, <1>2, <1>3, <1>4 DEF FollowOn, HasRecord
  <2> QED BY <2>1, FramesAre
<1>6. messages[s] = Frames(HandshakeBytes(s, records[s]), MessageHeader, MessageLen[s])
  <2>1. FollowOn(MessageHeader, MessageLen[s], HandshakeBytes(s, records[s]), messages[s], hsBuf[s])
    BY <1>1, <1>2, <1>3, <1>4 DEF FollowOn, HasMessage
  <2> QED BY <2>1, FramesAre
<1> QED BY <1>5, <1>6

\* Records and messages do not depend on how their bytes were split or when
\* they came, only on which bytes were fed (Feed and the extraction it calls).
THEOREM CutAsOneStream == PathSpec => []CutAtOnce
<1>1. TypeOK /\ Within /\ InFrames => CutAtOnce
  BY CutAtOnceHolds
<1> QED BY <1>1, PathInvariant, PTL

-----------------------------------------------------------------------------
(* What was fed is what was captured without a gap *)

\* Only captured bytes are kept, taken in hand and fed.
Covered ==
  \A s \in Sides :
    /\ \A i \in 1..Len(out[s]) : out[s][i] \in seen[s]
    /\ \A k \in DOMAIN pending[s] : Bytes(pending[s][k]) \subseteq seen[s]
    /\ work.side = s => Bytes(work.chunk) \subseteq seen[s]

\* What is left of a payload is part of it.
LEMMA TrimInside ==
  ASSUME NEW g, g.off \in Nat, g.len \in Nat, NEW n \in Int, n >= 0, n < g.len
  PROVE  Bytes(Trim(g, n)) \subseteq Bytes(g)
<1>1. Trim(g, n).off = g.off + n /\ Trim(g, n).len = g.len - n
  BY DEF Trim
<1> QED BY <1>1 DEF Bytes

\* Every packet is counted as captured before any of it is used.
LEMMA CoveredNext ==
  ASSUME Assumptions, TypeOK, Covered, [Next]_vars
  PROVE  Covered'
<1>1. ASSUME NEW s \in Sides, NEW g \in Segments[s],
             IgnorePacket(s, g) \/ Abandon(s, g) \/ DropRetransmission(s, g)
      PROVE  Covered'
  <2>1. pending' = pending /\ work' = work /\ out' = out
    BY <1>1 DEF IgnorePacket, Abandon, DropRetransmission, Feeding, bufs
  <2>2. \A t \in Sides : seen[t] \subseteq seen'[t]
    BY <1>1 DEF IgnorePacket, Abandon, DropRetransmission, TypeOK
  <2> QED BY <2>1, <2>2 DEF Covered
<1>2. ASSUME NEW s \in Sides, NEW g \in Segments[s], BufferAhead(s, g)
      PROVE  Covered'
  <2>1. /\ pending' = [pending EXCEPT ![s] = Put(pending[s], SeqNo(s, g.off), g)]
        /\ seen' = [seen EXCEPT ![s] = seen[s] \union Bytes(g)]
        /\ work' = work /\ out' = out
        /\ DOMAIN pending = Sides /\ DOMAIN seen = Sides
    BY <1>2 DEF BufferAhead, TypeOK
  <2>2. /\ \A t \in Sides : seen[t] \subseteq seen'[t]
        /\ Bytes(g) \subseteq seen'[s]
    BY <2>1
  <2>3. \A t \in Sides : \A k \in DOMAIN pending'[t] :
          \/ k \in DOMAIN pending[t] /\ pending'[t][k] = pending[t][k]
          \/ t = s /\ pending'[t][k] = g
    BY <2>1 DEF Put
  <2> QED BY <2>1, <2>2, <2>3 DEF Covered
<1>3. ASSUME NEW s \in Sides, NEW g \in Segments[s], TakeInOrder(s, g)
      PROVE  Covered'
  <2> DEFINE n == -Distance(s, g)
  <2>1. /\ n \in Int /\ n >= 0 /\ n < g.len /\ g.off \in Nat /\ g.len \in Nat
        /\ work'.side = s /\ work'.chunk = Trim(g, n)
    BY <1>3, DistanceType, SegmentType DEF TakeInOrder, Assumptions
  <2>2. /\ pending' = pending /\ out' = out
        /\ seen' = [seen EXCEPT ![s] = seen[s] \union Bytes(g)]
        /\ DOMAIN seen = Sides
    BY <1>3 DEF TakeInOrder, TypeOK
  <2> HIDE DEF n
  <2>3. Bytes(Trim(g, n)) \subseteq Bytes(g)
    BY <2>1, TrimInside
  <2>4. (\A t \in Sides : seen[t] \subseteq seen'[t]) /\ Bytes(g) \subseteq seen'[s]
    BY <2>2
  <2> QED BY <2>1, <2>2, <2>3, <2>4 DEF Covered
<1>4. ASSUME Advance PROVE Covered'
  <2> DEFINE s == work.side
             g == work.chunk
             run == OS!Positions(g.off, g.len)
             next == Wrap(work.seq + work.chunk.len)
  <2>1. /\ s \in Sides /\ DOMAIN pending = Sides /\ g.off \in Nat /\ g.len \in Nat
        /\ out \in [Sides -> Seq(Nat)]
    BY <1>4, WorkType DEF Advance, TypeOK
  <2>2. /\ \/ /\ next \in DOMAIN pending[s]
              /\ pending' = [pending EXCEPT ![s] = Restrict(pending[s], DOMAIN pending[s] \ {next})]
              /\ work'.side = s /\ work'.chunk = pending[s][next]
           \/ pending' = pending /\ work' = Idle
        /\ out' = [out EXCEPT ![s] = out[s] \o run] /\ seen' = seen
    BY <1>4 DEF Advance
  <2>3. \A i \in 1..Len(out[s] \o run) : (out[s] \o run)[i] \in seen[s]
    <3>1. /\ out[s] \in Seq(Nat) /\ run \in Seq(Nat) /\ Len(run) = g.len
          /\ \A i \in 1..g.len : run[i] = g.off + i - 1
      BY <2>1, PositionsType
    <3> HIDE DEF run, g
    <3>2. /\ Len(out[s] \o run) = Len(out[s]) + g.len
          /\ \A i \in 1..(Len(out[s]) + g.len) :
               (out[s] \o run)[i] = IF i <= Len(out[s]) THEN out[s][i] ELSE run[i - Len(out[s])]
      <4> DEFINE was == out[s]
                 l == Len(run)
      <4>1. was \in Seq(Nat) /\ run \in Seq(Nat) /\ l = g.len
        BY <3>1
      <4> HIDE DEF was
      <4>2. /\ Len(was \o run) = Len(was) + l
            /\ \A i \in 1..(Len(was) + l) :
                 (was \o run)[i] = IF i <= Len(was) THEN was[i] ELSE run[i - Len(was)]
        BY <4>1, ConcatProperties
      <4> HIDE DEF l
      <4> QED BY <4>1, <4>2 DEF was
    <3>3. \A i \in 1..g.len : run[i] \in Bytes(g)
      <4>1. g.off \in Nat /\ g.len \in Nat /\ \A i \in 1..g.len : run[i] = g.off + i - 1
        BY <2>1, <3>1
      <4>2. \A i \in 1..g.len : g.off + i - 1 \in g.off..(g.off + g.len - 1)
        BY <4>1
      <4> QED BY <4>1, <4>2 DEF Bytes
    <3>4. Bytes(g) \subseteq seen[s] /\ \A i \in 1..Len(out[s]) : out[s][i] \in seen[s]
      BY <2>1 DEF Covered, g
    <3>5. Len(out[s]) \in Nat
      BY <3>1, LenProperties
    <3>6. \A i \in 1..(Len(out[s]) + g.len) :
            i \in 1..Len(out[s]) \/ (~(i <= Len(out[s])) /\ i - Len(out[s]) \in 1..g.len)
      BY <2>1, <3>5
    <3> QED BY <3>2, <3>3, <3>4, <3>6
  <2> HIDE DEF next, s, g, run
  <2>4. \A t \in Sides : \A i \in 1..Len(out'[t]) : out'[t][i] \in seen'[t]
    <3>1. out'[s] = out[s] \o run /\ \A t \in Sides : t # s => out'[t] = out[t]
      BY <2>1, <2>2
    <3> QED BY <2>2, <2>3, <3>1 DEF Covered
  <2>5. \A t \in Sides : \A k \in DOMAIN pending'[t] :
          k \in DOMAIN pending[t] /\ pending'[t][k] = pending[t][k]
    <3>1. \/ pending' = [pending EXCEPT ![s] = Restrict(pending[s], DOMAIN pending[s] \ {next})]
          \/ pending' = pending
      BY <2>2
    <3>2. s \in Sides /\ DOMAIN pending = Sides
      BY <2>1
    <3> QED BY <3>1, <3>2 DEF Restrict
  <2>6. \A t \in Sides : work'.side = t => Bytes(work'.chunk) \subseteq seen'[t]
    <3>1. CASE work' = Idle
      BY <3>1 DEF Idle, Sides
    <3>2. CASE /\ next \in DOMAIN pending[s]
               /\ work'.side = s /\ work'.chunk = pending[s][next]
      <4>1. Bytes(pending[s][next]) \subseteq seen[s]
        BY <2>1, <3>2 DEF Covered
      <4> QED BY <2>2, <3>2, <4>1
    <3>3. \/ work' = Idle
          \/ /\ next \in DOMAIN pending[s]
             /\ work'.side = s /\ work'.chunk = pending[s][next]
      BY <2>2
    <3> QED BY <3>1, <3>2, <3>3
  <2> QED BY <2>2, <2>4, <2>5, <2>6 DEF Covered
<1>5. ASSUME UNCHANGED vars PROVE Covered'
  BY <1>5 DEF vars, bufs, Covered
<1> QED BY <1>1, <1>2, <1>3, <1>4, <1>5 DEF Next

\* Only captured bytes are fed, all along.
LEMMA CoveredAlways == Spec => []Covered
<1> USE AssumptionsHold
<1>1. Init => Covered
  BY DEF Init, Covered, Idle, Sides
<1>2. TypeOK /\ Covered /\ [Next]_vars => Covered'
  BY CoveredNext
<1> QED BY <1>1, <1>2, TypeCorrect, PTL DEF Spec

\* When the byte due was not captured, what was fed is all up to the first gap.
LEMMA RunIsFed ==
  ASSUME Assumptions, TypeOK, FedInOrder, InPlace, Covered, Complete,
         work = Idle, ~abandoned, NEW s \in Sides, out[s] # <<>>
  PROVE  Run(s) = out[s]
<1> DEFINE a == out[s][1]
           n == Len(out[s])
           gap == {b \in a..StreamLen : b \notin seen[s]}
           end == CHOOSE b \in gap : \A c \in gap : b <= c
<1>1. a \in Nat /\ n \in Nat /\ n # 0 /\ NextDue(s) = a + n /\ StreamLen \in Nat
  BY DueIsNat, EmptySeq DEF NextDue, TypeOK, Assumptions
<1>2. out[s] = OS!Positions(a, n) /\ a + n <= StreamLen
  BY <1>1 DEF FedInOrder, InPlace, Idle, Sides
<1>3. \A b \in a..(a + n - 1) : b \in seen[s]
  <2>1. \A i \in 1..n : out[s][i] = a + i - 1
    <3> HIDE DEF n
    <3>1. \A i \in 1..n : OS!Positions(a, n)[i] = a + i - 1
      BY <1>1, PositionsType
    <3> QED BY <1>2, <3>1
  <2>2. \A i \in 1..n : out[s][i] \in seen[s]
    BY DEF Covered
  <2>3. \A b \in a..(a + n - 1) : b - a + 1 \in 1..n /\ a + (b - a + 1) - 1 = b
    BY <1>1
  <2> QED BY <2>1, <2>2, <2>3
<1>4. a + n \notin seen[s]
  <2>1. ASSUME a + n \in seen[s] PROVE FALSE
    <3>1. \A x \in NextDue(s)..(a + n) : x \in seen[s]
      BY <1>1, <2>1
    <3> QED BY <1>1, <2>1, <3>1 DEF Complete
  <2> QED BY <2>1
<1>5. a + n \in gap /\ \A c \in gap : a + n <= c
  BY <1>1, <1>2, <1>3, <1>4
<1>6. end = a + n
  <2>1. end \in gap /\ \A c \in gap : end <= c
    BY <1>5
  <2>2. end \in Int /\ a + n \in Int
    BY <1>1, <2>1
  <2>3. end <= a + n /\ a + n <= end
    BY <1>5, <2>1
  <2> HIDE DEF end, a, n
  <2> QED BY <2>2, <2>3
<1>7. Run(s) = OS!Positions(a, end - a)
  BY DEF Run
<1> HIDE DEF end
<1>8. end - a = n
  BY <1>1, <1>6
<1> QED BY <1>2, <1>7, <1>8

\* Cutting at once what was captured gives what was cut.
LEMMA WholeFramesHold ==
  ASSUME Assumptions, TypeOK, FedInOrder, InPlace, Covered, Complete, CutAtOnce
  PROVE  WholeFrames
<1> SUFFICES ASSUME work = Idle, Settled, ~abandoned, NEW s \in Sides, out[s] # <<>>
             PROVE  /\ records[s] = Frames(Run(s), RecordHeader, RecordLen[s])
                    /\ messages[s] = Frames(HandshakeBytes(s, Frames(Run(s), RecordHeader, RecordLen[s])),
                                            MessageHeader, MessageLen[s])
  BY DEF WholeFrames
<1>1. Run(s) = out[s]
  BY RunIsFed
<1> QED BY <1>1 DEF CutAtOnce

\* As long as payload boundaries do not move: whatever was captured, in whatever
\* order, repeated or lost, the session has cut between packets the very
\* records and messages that the bytes captured without a gap hold (feedTLS,
\* advanceTLS, Feed, extractRecords and extractHandshakeMessages together).
THEOREM CutFromCapture ==
  ASSUME StreamLen < M, Uncut
  PROVE  PathSpec => []WholeFrames
<1>1. TypeOK /\ (FedInOrder /\ InPlace) /\ Covered /\ Complete /\ CutAtOnce => WholeFrames
  BY AssumptionsHold, WholeFramesHold
<1>2. Spec => []Complete
  BY NothingMissing
<1>3. Spec => [](FedInOrder /\ InPlace)
  BY InOrderDelivery
<1> QED BY <1>1, <1>2, <1>3, PathReassembles, TypeCorrect, CoveredAlways, CutAsOneStream, PTL
=============================================================================
