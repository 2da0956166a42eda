------------------------- MODULE RecordLayerProofs -------------------------
(***************************************************************************)
(* A record opens exactly when it should, and to what was sent, in every   *)
(* mode, for any lengths of keys, MACs, blocks and tags and any contents.  *)
(***************************************************************************)
EXTENDS RecordLayer, DataLemmas

-----------------------------------------------------------------------------
(* Sequences whose elements have no common type *)

\* A sequence, whatever its elements are.
List(p) == Len(p) \in Nat /\ p = [i \in 1..Len(p) |-> p[i]]

Elements(p) == {p[i] : i \in 1..Len(p)}

\* A list is a sequence over its elements.
LEMMA ListIsSeq == ASSUME NEW p, List(p), NEW S, Elements(p) \subseteq S PROVE p \in Seq(S)
<1>1. \A i \in 1..Len(p) : p[i] \in S
  BY DEF Elements
<1>2. p \in [1..Len(p) -> S]
  BY <1>1 DEF List
<1> QED BY <1>2, SeqDef DEF List

\* And the other way round.
LEMMA SeqIsList == ASSUME NEW S, NEW p \in Seq(S) PROVE List(p)
BY LenProperties DEF List

\* What is made place by place is a list.
LEMMA MadeIsList ==
  ASSUME NEW n \in Nat, NEW f
  PROVE  /\ List([i \in 1..n |-> f[i]])
         /\ Len([i \in 1..n |-> f[i]]) = n
<1> DEFINE p == [i \in 1..n |-> f[i]]
           S == {f[i] : i \in 1..n}
<1>1. p \in [1..n -> S]
  OBVIOUS
<1>2. p \in Seq(S)
  BY <1>1, SeqDef
<1>3. Len(p) = n
  BY <1>1, <1>2
<1> QED BY <1>2, <1>3, SeqIsList

\* Two lists are the same if their places are.
LEMMA ListEqual ==
  ASSUME NEW p, NEW q, List(p), List(q), Len(p) = Len(q), \A i \in 1..Len(p) : p[i] = q[i]
  PROVE  p = q
BY DEF List

\* One list behind the other ...
LEMMA ListConcat ==
  ASSUME NEW p, NEW q, List(p), List(q)
  PROVE  /\ List(p \o q) /\ Len(p \o q) = Len(p) + Len(q)
         /\ \A i \in 1..Len(p) : (p \o q)[i] = p[i]
         /\ \A i \in 1..Len(q) : (p \o q)[Len(p) + i] = q[i]
<1> DEFINE S == Elements(p) \cup Elements(q)
<1>1. p \in Seq(S) /\ q \in Seq(S)
  BY ListIsSeq
<1> HIDE DEF S
<1>2. /\ p \o q \in Seq(S) /\ Len(p \o q) = Len(p) + Len(q)
      /\ \A i \in 1..(Len(p) + Len(q)) : (p \o q)[i] = IF i <= Len(p) THEN p[i] ELSE q[i - Len(p)]
  BY <1>1, ConcatProperties
<1>3. Len(p) \in Nat /\ Len(q) \in Nat
  BY DEF List
<1>4. List(p \o q)
  BY <1>2, SeqIsList
<1>5. \A i \in 1..Len(q) : Len(p) + i \in 1..(Len(p) + Len(q)) /\ ~(Len(p) + i <= Len(p)) /\ (Len(p) + i) - Len(p) = i
  BY <1>3
<1> QED BY <1>2, <1>3, <1>4, <1>5

\* ... and a part of one.
LEMMA ListPart ==
  ASSUME NEW p, List(p), NEW i \in 0..Len(p), NEW j \in 0..Len(p), i <= j
  PROVE  /\ List(SubSeq(p, i + 1, j)) /\ Len(SubSeq(p, i + 1, j)) = j - i
         /\ \A n \in 1..(j - i) : SubSeq(p, i + 1, j)[n] = p[i + n]
<1>1. Len(p) \in Nat /\ \A n \in (i + 1)..j : n \in 1..Len(p)
  BY DEF List
<1>2. \A n \in (i + 1)..j : p[n] \in Elements(p)
  BY <1>1 DEF Elements
<1>3. i + 1 \in Int /\ j \in Int /\ j - (i + 1) + 1 = j - i
  BY <1>1
<1>4. /\ SubSeq(p, i + 1, j) \in Seq(Elements(p))
      /\ Len(SubSeq(p, i + 1, j)) = IF i + 1 <= j THEN j - (i + 1) + 1 ELSE 0
      /\ \A n \in 1..(j - (i + 1) + 1) : SubSeq(p, i + 1, j)[n] = p[i + 1 + n - 1]
  BY <1>2, <1>3, SubSeqProperties
<1>5. \A n \in 1..(j - i) : i + 1 + n - 1 = i + n
  BY <1>1
<1>6. Len(SubSeq(p, i + 1, j)) = j - i
  BY <1>1, <1>3, <1>4
<1>7. \A n \in 1..(j - i) : SubSeq(p, i + 1, j)[n] = p[i + n]
  BY <1>3, <1>4, <1>5
<1> QED BY <1>4, <1>6, <1>7, SeqIsList

\* The whole of a list is its largest part.
LEMMA ListWhole == ASSUME NEW p, List(p) PROVE SubSeq(p, 1, Len(p)) = p
<1>1. Len(p) \in Nat /\ 0 \in 0..Len(p) /\ Len(p) \in 0..Len(p) /\ 0 <= Len(p) /\ Len(p) - 0 = Len(p)
  BY DEF List
<1>2. /\ List(SubSeq(p, 0 + 1, Len(p))) /\ Len(SubSeq(p, 0 + 1, Len(p))) = Len(p) - 0
      /\ \A n \in 1..(Len(p) - 0) : SubSeq(p, 0 + 1, Len(p))[n] = p[0 + n]
  BY <1>1, ListPart
<1>3. 0 + 1 = 1 /\ \A n \in 1..Len(p) : 0 + n = n
  BY <1>1
<1> QED BY <1>1, <1>2, <1>3, ListEqual

\* Places in what a primitive made.
LEMMA CellsAre ==
  ASSUME NEW what, NEW n \in Nat
  PROVE  /\ List(Cells(what, n)) /\ Len(Cells(what, n)) = n
         /\ \A i \in 1..n : Cells(what, n)[i] = <<what, i>>
<1> DEFINE f == [i \in 1..n |-> <<what, i>>]
<1>1. List([i \in 1..n |-> f[i]]) /\ Len([i \in 1..n |-> f[i]]) = n
  BY MadeIsList
<1>2. Cells(what, n) = [i \in 1..n |-> f[i]]
  BY DEF Cells
<1> QED BY <1>1, <1>2

\* Bytes of data.
LEMMA BytesAre ==
  ASSUME NEW v, List(v)
  PROVE  /\ List(Bytes(v)) /\ Len(Bytes(v)) = Len(v)
         /\ \A i \in 1..Len(v) : Bytes(v)[i] = Data(v[i])
<1> DEFINE f == [i \in 1..Len(v) |-> Data(v[i])]
<1>1. Len(v) \in Nat /\ DOMAIN v = 1..Len(v)
  BY DEF List
<1>2. List([i \in 1..Len(v) |-> f[i]]) /\ Len([i \in 1..Len(v) |-> f[i]]) = Len(v)
  BY <1>1, MadeIsList
<1>3. Bytes(v) = [i \in 1..Len(v) |-> f[i]]
  BY <1>1 DEF Bytes
<1> QED BY <1>1, <1>2, <1>3
-----------------------------------------------------------------------------
(* Blocks *)

\* A place lies in one block, at one place of it ...
LEMMA InBlock ==
  ASSUME NEW b \in Nat \ {0}, NEW n \in Nat, NEW q \in 1..(n * b)
  PROVE  \E a \in 1..n, r \in 1..b : q = (a - 1) * b + r
<1> DEFINE d == (q - 1) \div b
           r == (q - 1) % b
<1>1. q - 1 \in Nat /\ n * b \in Nat
  OBVIOUS
<1>2. d \in Nat /\ r \in 0..(b - 1) /\ q - 1 = b * d + r
  BY <1>1
<1> HIDE DEF d, r
<1>3. b * d < n * b
  BY <1>1, <1>2
<1>4. d < n
  <2> SUFFICES ASSUME n <= d PROVE FALSE
    BY <1>2
  <2>1. n * b <= b * d
    BY <1>2
  <2>2. n * b \in Nat /\ b * d \in Nat
    BY <1>2
  <2> QED BY <1>3, <2>1, <2>2
<1>5. PICK a \in Nat : a = d + 1
  BY <1>2
<1>6. a \in 1..n /\ r + 1 \in 1..b /\ a - 1 = d
  BY <1>2, <1>4, <1>5
<1>7. (a - 1) * b = b * d /\ b * d \in Nat
  BY <1>2, <1>6
<1>8. q = (a - 1) * b + (r + 1)
  BY <1>2, <1>7
<1> QED BY <1>6, <1>8

\* ... and in no other.
LEMMA OneBlock ==
  ASSUME NEW b \in Nat \ {0}, NEW a \in Nat, NEW c \in Nat, NEW r \in 1..b, NEW t \in 1..b,
         a * b + r = c * b + t
  PROVE  a = c /\ r = t
OBVIOUS

\* So many blocks ...
LEMMA BlocksCount ==
  ASSUME NEW b \in Nat \ {0}, NEW n \in Nat
  PROVE  /\ n * b \in Nat /\ (n * b) \div b = n /\ (n * b) % b = 0
         /\ (n + 1) * b = n * b + b /\ n * b + b - b = n * b
         /\ (n > 0 => n * b >= b)
<1>1. n * b \in Nat
  OBVIOUS
<1>2. (n * b) \div b = n
  OBVIOUS
<1>3. (n * b) % b = 0
  OBVIOUS
<1>4. (n + 1) * b = n * b + b
  OBVIOUS
<1>5. n > 0 => n * b >= b
  OBVIOUS
<1> QED BY <1>1, <1>2, <1>3, <1>4, <1>5

\* ... are more than fewer.
LEMMA BlocksOrder ==
  ASSUME NEW b \in Nat \ {0}, NEW n \in Nat, NEW m \in Nat
  PROVE  (n <= m => n * b <= m * b) /\ (n < m => n * b + b <= m * b) /\ (n * b <= m * b => n <= m)
<1>1. n <= m => n * b <= m * b
  OBVIOUS
<1>2. n < m => n * b + b <= m * b
  OBVIOUS
<1>3. n * b <= m * b => n <= m
  OBVIOUS
<1> QED BY <1>1, <1>2, <1>3

\* A number without a rest is so many blocks.
LEMMA NoRest ==
  ASSUME NEW b \in Nat \ {0}, NEW n \in Nat, n % b = 0
  PROVE  \E m \in Nat : n = m * b
<1>1. n \div b \in Nat /\ n = b * (n \div b) + (n % b)
  OBVIOUS
<1> DEFINE m == n \div b
<1> HIDE DEF m
<1>2. m \in Nat /\ n = b * m + 0
  BY <1>1 DEF m
<1>3. n = m * b
  BY <1>2
<1> QED BY <1>2, <1>3

\* The first m of some blocks are put together.
Together(p, f, m, b) ==
  /\ List(p) /\ Len(p) = m * b
  /\ \A j \in 1..m, r \in 1..b : p[(j - 1) * b + r] = f[j][r]

\* One block more.
LEMMA TogetherStep ==
  ASSUME NEW b \in Nat \ {0}, NEW m \in Nat, NEW f, NEW p, Together(p, f, m, b),
         List(f[m + 1]), Len(f[m + 1]) = b
  PROVE  Together(p \o f[m + 1], f, m + 1, b)
<1> DEFINE q == p \o f[m + 1]
<1>1. List(p) /\ Len(p) = m * b /\ m * b \in Nat /\ (m + 1) * b = m * b + b
  BY BlocksCount DEF Together
<1>2. /\ List(q) /\ Len(q) = m * b + b
      /\ \A i \in 1..(m * b) : q[i] = p[i]
      /\ \A i \in 1..b : q[m * b + i] = f[m + 1][i]
  BY <1>1, ListConcat
<1> HIDE DEF q
<1>3. ASSUME NEW j \in 1..(m + 1), NEW r \in 1..b PROVE q[(j - 1) * b + r] = f[j][r]
  <2>1. CASE j = m + 1
    BY <1>2, <2>1
  <2>2. CASE j # m + 1
    <3>1. j \in 1..m /\ j - 1 \in Nat /\ j - 1 < m
      BY <2>2
    <3>2. PICK c \in Nat : c = j - 1
      BY <3>1
    <3>3. c * b + b <= m * b /\ c * b \in Nat
      BY <3>1, <3>2, BlocksOrder
    <3>4. c * b + r \in 1..(m * b)
      BY <1>1, <3>3
    <3>5. p[c * b + r] = f[j][r]
      BY <3>1, <3>2 DEF Together
    <3> QED BY <1>2, <3>2, <3>4, <3>5
  <2> QED BY <2>1, <2>2
<1>4. Together(q, f, m + 1, b)
  BY <1>1, <1>2, <1>3 DEF Together
<1> QED BY <1>4 DEF q

\* Blocks flattened are put together.
LEMMA FlattenBlocks ==
  ASSUME NEW b \in Nat \ {0}, NEW n \in Nat, NEW f, f = [j \in 1..n |-> f[j]],
         \A j \in 1..n : List(f[j]) /\ Len(f[j]) = b
  PROVE  Together(FlattenSeq(f), f, n, b)
<1> DEFINE T == {f[j] : j \in 1..n}
<1>1. f \in Seq(T) /\ Len(f) = n
  <2>1. List([j \in 1..n |-> f[j]]) /\ Len([j \in 1..n |-> f[j]]) = n
    BY MadeIsList
  <2>2. List(f) /\ Len(f) = n
    BY <2>1
  <2>3. Elements(f) \subseteq T
    BY <2>2 DEF Elements
  <2> QED BY <2>2, <2>3, ListIsSeq
<1>2. CASE n = 0
  <2>1. f = <<>>
    BY <1>1, <1>2, EmptySeq
  <2>2. FlattenSeq(f) = <<>>
    BY <2>1, FlattenEmpty
  <2>3. List(<<>>) /\ Len(<<>>) = 0
    BY EmptySeq, SeqIsList
  <2>4. 0 = 0 * b /\ 1..0 = {}
    OBVIOUS
  <2> QED BY <1>2, <2>2, <2>3, <2>4 DEF Together
<1>3. CASE n # 0
  <2>1. f # <<>>
    BY <1>1, <1>3, EmptySeq
  <2>2. PICK h : Flattens(h, f, n)
    BY FlattenExists
  <2>3. FlattenSeq(f) = h[n]
    BY <1>1, <2>1, <2>2, FlattenIs
  <2>4. \A i \in 1..n : h[i] = IF i = 1 THEN f[i] ELSE h[i - 1] \o f[i]
    BY <2>2 DEF Flattens
  <2> DEFINE W == {m \in 1..n : ~Together(h[m], f, m, b)}
  <2>5. W = {}
    <3> SUFFICES ASSUME W # {} PROVE FALSE
      OBVIOUS
    <3>1. PICK m \in W : \A j \in W : m <= j
      <4>1. W \subseteq Nat
        OBVIOUS
      <4> HIDE DEF W
      <4> QED BY <4>1, LeastNumber
    <3>2. m \in 1..n /\ ~Together(h[m], f, m, b) /\ List(f[m]) /\ Len(f[m]) = b
      OBVIOUS
    <3>3. CASE m = 1
      <4>1. h[1] = f[1] /\ 1 * b = b
        BY <2>4, <3>2, <3>3
      <4>2. \A j \in 1..1, r \in 1..b : j = 1 /\ (j - 1) * b + r = r
        OBVIOUS
      <4>3. Together(h[1], f, 1, b)
        <5>1. ASSUME NEW j \in 1..1, NEW r \in 1..b PROVE h[1][(j - 1) * b + r] = f[j][r]
          <6>1. j = 1 /\ (j - 1) * b + r = r
            BY <4>2
          <6> QED BY <4>1, <6>1
        <5>2. List(h[1]) /\ Len(h[1]) = 1 * b
          BY <3>2, <3>3, <4>1
        <5> QED BY <5>1, <5>2 DEF Together
      <4> QED BY <3>2, <3>3, <4>3
    <3>4. CASE m # 1
      <4>1. PICK k \in Nat : k = m - 1
        BY <3>2
      <4>2. k \in 1..n /\ k + 1 = m /\ k \notin W
        <5>1. k \in 1..n /\ k + 1 = m /\ ~(m <= k)
          BY <3>2, <3>4, <4>1
        <5> HIDE DEF W
        <5> QED BY <3>1, <5>1
      <4>3. Together(h[k], f, k, b)
        BY <4>2
      <4>4. h[m] = h[k] \o f[m]
        BY <2>4, <3>2, <3>4, <4>1
      <4>5. Together(h[k] \o f[k + 1], f, k + 1, b)
        <5> HIDE DEF W
        <5> QED BY <3>2, <4>2, <4>3, TogetherStep
      <4> QED BY <3>2, <4>2, <4>4, <4>5
    <3> QED BY <3>3, <3>4
  <2>6. n \in 1..n
    BY <1>3
  <2> QED BY <2>3, <2>5, <2>6
<1> QED BY <1>2, <1>3
-----------------------------------------------------------------------------
(* CBC *)

\* The chain of encrypted blocks.
Chains(c, key, iv, plain, n) ==
  c = [j \in 0..n |-> IF j = 0 THEN iv ELSE Cells(<<"block", key, Block(plain, j), c[j - 1]>>, BlockSize)]

\* The blocks of a text of any length can be chained.
LEMMA ChainExists ==
  ASSUME NEW key, NEW iv, NEW plain, NEW n \in Nat
  PROVE  \E c : Chains(c, key, iv, plain, n)
<1> DEFINE T == {m \in Nat : ~ \E c : Chains(c, key, iv, plain, m)}
<1> SUFFICES ASSUME T # {} PROVE FALSE
  OBVIOUS
<1>1. PICK m \in T : \A j \in T : m <= j
  <2>1. T \subseteq Nat
    OBVIOUS
  <2> HIDE DEF T
  <2> QED BY <2>1, LeastNumber
<1>2. CASE m = 0
  <2>1. Chains([j \in 0..0 |-> iv], key, iv, plain, 0)
    BY DEF Chains
  <2> QED BY <1>1, <1>2, <2>1
<1>3. CASE m # 0
  <2>1. PICK k \in Nat : m = k + 1
    BY <1>3
  <2>2. k \notin T
    <3>1. ~(m <= k)
      BY <2>1
    <3> HIDE DEF T
    <3> QED BY <1>1, <3>1
  <2>3. PICK c : Chains(c, key, iv, plain, k)
    BY <2>2
  <2> DEFINE next == Cells(<<"block", key, Block(plain, m), c[k]>>, BlockSize)
             g == [j \in 0..m |-> IF j = m THEN next ELSE c[j]]
  <2> HIDE DEF next
  <2>4. \A j \in 0..k : c[j] = IF j = 0 THEN iv ELSE Cells(<<"block", key, Block(plain, j), c[j - 1]>>, BlockSize)
    BY <2>3 DEF Chains
  <2>5. ASSUME NEW j \in 0..m
        PROVE  g[j] = IF j = 0 THEN iv ELSE Cells(<<"block", key, Block(plain, j), g[j - 1]>>, BlockSize)
    <3>1. CASE j = m
      <4>1. j - 1 = k /\ k \in 0..m /\ k # m /\ j # 0
        BY <2>1, <3>1
      <4>2. g[j - 1] = c[k] /\ g[j] = next
        BY <3>1, <4>1
      <4> QED BY <3>1, <4>1, <4>2 DEF next
    <3>2. CASE j # m
      <4>1. j \in 0..k /\ (j # 0 => j - 1 \in 0..m /\ j - 1 # m)
        BY <2>1, <3>2
      <4>2. g[j] = c[j] /\ (j # 0 => g[j - 1] = c[j - 1])
        BY <3>2, <4>1
      <4> HIDE DEF g
      <4> QED BY <2>4, <4>1, <4>2
    <3> QED BY <3>1, <3>2
  <2>6. Chains(g, key, iv, plain, m)
    <3>1. g = [j \in 0..m |-> g[j]]
      OBVIOUS
    <3> HIDE DEF g
    <3> QED BY <2>5, <3>1 DEF Chains
  <2> QED BY <1>1, <2>6
<1> QED BY <1>2, <1>3

\* A list of so many blocks.
Blocked(p, n) == List(p) /\ Len(p) = n * BlockSize

\* One of them.
LEMMA BlockIs ==
  ASSUME NEW p, NEW n \in Nat, Blocked(p, n), NEW j \in 1..n
  PROVE  /\ List(Block(p, j)) /\ Len(Block(p, j)) = BlockSize
         /\ \A r \in 1..BlockSize : Block(p, j)[r] = p[(j - 1) * BlockSize + r]
<1>1. BlockSize \in Nat \ {0} /\ List(p) /\ Len(p) = n * BlockSize
  BY SizesAssumption DEF Blocked
<1>2. PICK k \in Nat : k = j - 1
  OBVIOUS
<1>3. /\ k * BlockSize \in Nat /\ (k + 1) * BlockSize = k * BlockSize + BlockSize
      /\ (k < n => k * BlockSize + BlockSize <= n * BlockSize)
  BY <1>1, BlocksCount, BlocksOrder
<1>4. k + 1 = j /\ k < n
  BY <1>2
<1>5. /\ k * BlockSize \in 0..Len(p) /\ j * BlockSize \in 0..Len(p) /\ k * BlockSize <= j * BlockSize
      /\ j * BlockSize - k * BlockSize = BlockSize
  <2>1. j * BlockSize = k * BlockSize + BlockSize
    BY <1>3, <1>4
  <2> QED BY <1>1, <1>3, <1>4, <2>1
<1>6. Block(p, j) = SubSeq(p, k * BlockSize + 1, j * BlockSize)
  BY <1>2 DEF Block
<1> DEFINE u == k * BlockSize
           v == j * BlockSize
<1>7. /\ u \in 0..Len(p) /\ v \in 0..Len(p) /\ u <= v /\ v - u = BlockSize
      /\ Block(p, j) = SubSeq(p, u + 1, v)
  BY <1>5, <1>6
<1> HIDE DEF u, v
<1>8. /\ List(Block(p, j)) /\ Len(Block(p, j)) = BlockSize
      /\ \A r \in 1..BlockSize : Block(p, j)[r] = p[u + r]
  <2>1. List(p)
    BY <1>1
  <2>2. /\ List(SubSeq(p, u + 1, v)) /\ Len(SubSeq(p, u + 1, v)) = v - u
        /\ \A i \in 1..(v - u) : SubSeq(p, u + 1, v)[i] = p[u + i]
    BY <1>7, <2>1, ListPart
  <2> QED BY <1>7, <2>2
<1>9. (j - 1) * BlockSize = u
  BY <1>2 DEF u
<1> QED BY <1>8, <1>9

\* What CbcEncrypt returns.
LEMMA CbcMade ==
  ASSUME NEW key, NEW iv, NEW plain, NEW n \in Nat, Len(plain) = n * BlockSize
  PROVE  \E c : /\ Chains(c, key, iv, plain, n)
                /\ Together(CbcEncrypt(key, iv, plain), c, n, BlockSize)
<1>1. BlockSize \in Nat \ {0}
  BY SizesAssumption
<1>2. Len(plain) \div BlockSize = n
  BY <1>1, BlocksCount
<1> DEFINE c == CHOOSE f : Chains(f, key, iv, plain, n)
           f == [j \in 1..n |-> c[j]]
<1>3. Chains(c, key, iv, plain, n)
  BY ChainExists
<1>4. CbcEncrypt(key, iv, plain) = FlattenSeq(f)
  BY <1>2 DEF CbcEncrypt, Chains
<1> HIDE DEF c
<1>5. \A j \in 1..n : List(f[j]) /\ Len(f[j]) = BlockSize
  <2> TAKE j \in 1..n
  <2>1. f[j] = Cells(<<"block", key, Block(plain, j), c[j - 1]>>, BlockSize)
    BY <1>3 DEF Chains
  <2> HIDE DEF f
  <2> QED BY <1>1, <2>1, CellsAre
<1>6. Together(FlattenSeq(f), f, n, BlockSize)
  <2>1. f = [j \in 1..n |-> f[j]]
    OBVIOUS
  <2> HIDE DEF f
  <2> QED BY <1>1, <1>5, <2>1, FlattenBlocks
<1>7. Together(FlattenSeq(f), c, n, BlockSize)
  BY <1>6 DEF Together
<1> QED BY <1>3, <1>4, <1>7

\* A text x with its IV in front: the blocks of a chain, one behind the other.
Sealing(x, c, key, iv, plain, n) ==
  /\ Chains(c, key, iv, plain, n)
  /\ List(x) /\ Len(x) = n * BlockSize + BlockSize
  /\ \A j \in 0..n, r \in 1..BlockSize : x[j * BlockSize + r] = c[j][r]

\* What a CBC record holds.
LEMMA CbcSealing ==
  ASSUME NEW key, NEW iv, List(iv), Len(iv) = BlockSize, NEW plain,
         NEW n \in Nat, Len(plain) = n * BlockSize
  PROVE  \E c : Sealing(iv \o CbcEncrypt(key, iv, plain), c, key, iv, plain, n)
<1> DEFINE e == CbcEncrypt(key, iv, plain)
           x == iv \o e
           B == BlockSize
<1>1. BlockSize \in Nat \ {0} /\ n * B \in Nat
  BY SizesAssumption, BlocksCount
<1>2. PICK c : Chains(c, key, iv, plain, n) /\ Together(e, c, n, B)
  BY CbcMade
<1> HIDE DEF e
<1>3. List(e) /\ Len(e) = n * B /\ \A j \in 1..n, r \in 1..B : e[(j - 1) * B + r] = c[j][r]
  BY <1>2 DEF Together
<1>4. /\ List(x) /\ Len(x) = B + n * B
      /\ \A i \in 1..B : x[i] = iv[i]
      /\ \A i \in 1..(n * B) : x[B + i] = e[i]
  BY <1>3, ListConcat
<1> HIDE DEF x
<1>5. ASSUME NEW j \in 0..n, NEW r \in 1..B PROVE x[j * B + r] = c[j][r]
  <2>1. CASE j = 0
    <3>1. 0 * B + r = r
      BY <1>1
    <3>2. c[0] = iv
      BY <1>2 DEF Chains
    <3> QED BY <1>4, <2>1, <3>1, <3>2
  <2>2. CASE j # 0
    <3>1. PICK k \in Nat : k = j - 1
      BY <2>2
    <3>2. k + 1 = j /\ k < n /\ j \in 1..n
      BY <2>2, <3>1
    <3>3. k * B \in Nat /\ (k + 1) * B = k * B + B /\ k * B + B <= n * B
      BY <1>1, <3>2, BlocksCount, BlocksOrder
    <3>4. k * B + r \in 1..(n * B) /\ j * B + r = B + (k * B + r)
      BY <1>1, <3>2, <3>3
    <3>5. e[k * B + r] = c[j][r]
      BY <1>3, <3>1, <3>2
    <3> QED BY <1>4, <3>4, <3>5
  <2> QED BY <2>1, <2>2
<1>6. Len(x) = n * B + B
  BY <1>1, <1>4
<1>7. Sealing(x, c, key, iv, plain, n)
  BY <1>2, <1>4, <1>5, <1>6 DEF Sealing
<1>8. x = iv \o CbcEncrypt(key, iv, plain)
  BY DEF x, e
<1> HIDE DEF B
<1> QED BY <1>7, <1>8

\* What CbcDecrypt returns, once it is known what each block becomes.
LEMMA CbcOpened ==
  ASSUME NEW key, NEW y, NEW n \in Nat, Len(y) = n * BlockSize + BlockSize, NEW f,
         f = [j \in 1..n |-> Decrypt(key, Block(y, j + 1), Block(y, j))],
         \A j \in 1..n : List(f[j]) /\ Len(f[j]) = BlockSize
  PROVE  Together(CbcDecrypt(key, y), f, n, BlockSize)
<1>1. BlockSize \in Nat \ {0}
  BY SizesAssumption
<1>2. Len(y) = (n + 1) * BlockSize /\ n + 1 \in Nat
  BY <1>1, BlocksCount
<1>3. Len(y) \div BlockSize = n + 1
  BY <1>1, <1>2, BlocksCount
<1>4. Len(y) \div BlockSize - 1 = n
  BY <1>3
<1>5. CbcDecrypt(key, y) = FlattenSeq(f)
  BY <1>4 DEF CbcDecrypt
<1>6. f = [j \in 1..n |-> f[j]]
  OBVIOUS
<1>7. Together(FlattenSeq(f), f, n, BlockSize)
  BY <1>1, <1>6, FlattenBlocks
<1> QED BY <1>5, <1>7

\* The first n elements of q.
Begins(p, q, n) == List(p) /\ Len(p) = n /\ \A i \in 1..n : p[i] = q[i]

\* Under its key, what begins with the IV decrypts to the text.
LEMMA CbcExact ==
  ASSUME NEW key, NEW iv, List(iv), Len(iv) = BlockSize, NEW c, NEW n \in Nat,
         NEW plain, List(plain), Len(plain) = n * BlockSize,
         NEW x, Sealing(x, c, key, iv, plain, n),
         NEW k \in 0..n, NEW y, Begins(y, x, k * BlockSize + BlockSize)
  PROVE  Begins(CbcDecrypt(key, y), plain, k * BlockSize)
<1> DEFINE B == BlockSize
           f == [j \in 1..k |-> Decrypt(key, Block(y, j + 1), Block(y, j))]
<1>1. /\ B \in Nat \ {0} /\ k \in Nat /\ k + 1 \in Nat
      /\ List(y) /\ Len(y) = k * B + B /\ \A q \in 1..(k * B + B) : y[q] = x[q]
  BY SizesAssumption DEF Begins
<1>2. /\ \A j \in 0..n : c[j] = IF j = 0 THEN iv ELSE Cells(<<"block", key, Block(plain, j), c[j - 1]>>, B)
      /\ \A j \in 0..n, r \in 1..B : x[j * B + r] = c[j][r]
  BY DEF Sealing, Chains
<1>3. ASSUME NEW j \in 0..n PROVE List(c[j]) /\ Len(c[j]) = B
  <2>1. CASE j = 0
    BY <1>2, <2>1
  <2>2. CASE j # 0
    <3> DEFINE made == <<"block", key, Block(plain, j), c[j - 1]>>
    <3>1. c[j] = Cells(made, B)
      BY <1>2, <2>2
    <3> HIDE DEF made
    <3>2. List(Cells(made, B)) /\ Len(Cells(made, B)) = B
      BY <1>1, CellsAre
    <3> QED BY <3>1, <3>2
  <2> QED BY <2>1, <2>2
<1>4. ASSUME NEW j \in 0..k PROVE Block(y, j + 1) = c[j]
  <2>1. Len(y) = (k + 1) * B /\ j + 1 \in 1..(k + 1) /\ (j + 1) - 1 = j /\ j \in 0..n /\ j \in Nat
    BY <1>1, BlocksCount
  <2>2. /\ List(Block(y, j + 1)) /\ Len(Block(y, j + 1)) = B
        /\ \A r \in 1..B : Block(y, j + 1)[r] = y[j * B + r]
    <3>1. PICK m \in Nat : m = k + 1
      BY <1>1
    <3>2. PICK a \in 1..m : a = j + 1
      BY <2>1, <3>1
    <3>3. Len(y) = m * B
      BY <2>1, <3>1
    <3>4. /\ List(Block(y, a)) /\ Len(Block(y, a)) = B
          /\ \A r \in 1..B : Block(y, a)[r] = y[(a - 1) * B + r]
      <4> HIDE DEF B
      <4>1. Blocked(y, m)
        BY <1>1, <3>3 DEF B, Blocked
      <4>2. /\ List(Block(y, a)) /\ Len(Block(y, a)) = BlockSize
            /\ \A r \in 1..BlockSize : Block(y, a)[r] = y[(a - 1) * BlockSize + r]
        BY <3>1, <3>2, <4>1, BlockIs
      <4> QED BY <4>2 DEF B
    <3>5. a - 1 = j
      BY <2>1, <3>2
    <3> QED BY <3>2, <3>4, <3>5
  <2>3. j * B \in Nat /\ j * B <= k * B /\ k * B \in Nat
    BY <1>1, <2>1, BlocksCount, BlocksOrder
  <2>4. \A r \in 1..B : j * B + r \in 1..(k * B + B)
    BY <1>1, <2>3
  <2>5. \A r \in 1..B : Block(y, j + 1)[r] = c[j][r]
    BY <1>1, <1>2, <2>1, <2>2, <2>4
  <2>6. List(c[j]) /\ Len(c[j]) = B
    BY <1>3, <2>1
  <2> QED BY <2>2, <2>5, <2>6, ListEqual
<1>5. ASSUME NEW j \in 1..k
      PROVE  /\ f[j] = Block(plain, j)
             /\ List(f[j]) /\ Len(f[j]) = B
             /\ \A r \in 1..B : f[j][r] = plain[(j - 1) * B + r]
  <2>1. j \in 0..k /\ j - 1 \in 0..k /\ (j - 1) + 1 = j /\ j # 0 /\ j \in 0..n /\ j \in 1..n
    BY <1>1
  <2> DEFINE made == <<"block", key, Block(plain, j), c[j - 1]>>
  <2>2. Block(y, j + 1) = c[j] /\ Block(y, j) = c[j - 1]
    BY <1>4, <2>1
  <2>3. f[j] = Decrypt(key, c[j], c[j - 1])
    <3>1. f[j] = Decrypt(key, Block(y, j + 1), Block(y, j))
      OBVIOUS
    <3> HIDE DEF f
    <3> QED BY <2>2, <3>1
  <2>4. c[j] = Cells(made, B)
    BY <1>2, <2>1
  <2> HIDE DEF f
  <2>5. c[j][1][1] = made
    <3> HIDE DEF made
    <3> QED BY <1>1, <2>4, CellsAre
  <2>6. made[1] = "block" /\ made[2] = key /\ made[3] = Block(plain, j) /\ made[4] = c[j - 1]
    OBVIOUS
  <2> HIDE DEF made
  <2>7. f[j] = Block(plain, j)
    BY <2>3, <2>4, <2>5, <2>6 DEF Decrypt
  <2>8. /\ List(Block(plain, j)) /\ Len(Block(plain, j)) = B
        /\ \A r \in 1..B : Block(plain, j)[r] = plain[(j - 1) * B + r]
    <3>1. Blocked(plain, n)
      BY DEF Blocked
    <3> QED BY <2>1, <3>1, BlockIs
  <2> QED BY <2>7, <2>8
<1>6. Together(CbcDecrypt(key, y), f, k, B)
  <2>1. f = [j \in 1..k |-> Decrypt(key, Block(y, j + 1), Block(y, j))]
    OBVIOUS
  <2> HIDE DEF f
  <2> QED BY <1>1, <1>5, <2>1, CbcOpened
<1> DEFINE d == CbcDecrypt(key, y)
<1> HIDE DEF d, f
<1>7. List(d) /\ Len(d) = k * B /\ \A j \in 1..k, r \in 1..B : d[(j - 1) * B + r] = f[j][r]
  BY <1>6 DEF Together, d
<1>8. ASSUME NEW q \in 1..(k * B) PROVE d[q] = plain[q]
  <2>1. PICK j \in 1..k, r \in 1..B : q = (j - 1) * B + r
    BY <1>1, InBlock
  <2> QED BY <1>5, <1>7, <2>1
<1> QED BY <1>7, <1>8 DEF d, Begins

\* A byte of a piece that is decrypted: junk, or that of the text.
JunkByte(b) == \E r \in 1..BlockSize : b = << <<"junk">>, r>>

\* A piece, k blocks from place i on of n, decrypted under a key: nothing but
\* junk and what was there.
Revealed(d, key, other, plain, i, k, n) ==
  /\ List(d) /\ Len(d) = k * BlockSize
  /\ \A q \in 1..(k * BlockSize) :
       JunkByte(d[q]) \/ (other = key /\ i + q \in 1..(n * BlockSize) /\ d[q] = plain[i + q])

\* That is all that comes out, under any key.
LEMMA CbcPiece ==
  ASSUME NEW key, NEW s, NEW c, NEW n \in Nat, NEW plain, List(plain), Len(plain) = n * BlockSize,
         NEW x, Sealing(x, c, key, Cells(<<"nonce", s>>, BlockSize), plain, n),
         NEW i \in Nat, NEW k \in Nat, NEW y, List(y), Len(y) = k * BlockSize + BlockSize,
         i + Len(y) <= Len(x), \A q \in 1..Len(y) : y[q] = x[i + q], NEW other
  PROVE  Revealed(CbcDecrypt(other, y), key, other, plain, i, k, n)
<1> DEFINE B == BlockSize
           iv == Cells(<<"nonce", s>>, B)
           f == [j \in 1..k |-> Decrypt(other, Block(y, j + 1), Block(y, j))]
           Right(j) == \E a \in 1..n : other = key /\ i + j * B = a * B /\ f[j] = Block(plain, a)
<1>1. B \in Nat \ {0} /\ k \in Nat /\ k + 1 \in Nat
  BY SizesAssumption
<1>2. /\ \A j \in 0..n : c[j] = IF j = 0 THEN iv ELSE Cells(<<"block", key, Block(plain, j), c[j - 1]>>, B)
      /\ \A j \in 0..n, r \in 1..B : x[j * B + r] = c[j][r]
      /\ Len(x) = n * B + B
  BY DEF Sealing, Chains
<1> HIDE DEF B, iv
<1>3. ASSUME NEW j \in 1..k PROVE f[j] = Cells(<<"junk">>, B) \/ Right(j)
  <2> DEFINE block == Block(y, j + 1)
             prev == Block(y, j)
             made == block[1][1]
  <2>1. f[j] = Decrypt(other, block, prev)
    OBVIOUS
  <2> SUFFICES ASSUME f[j] # Cells(<<"junk">>, B) PROVE Right(j)
    OBVIOUS
  <2>2. f[j] = made[3] /\ made[1] = "block" /\ block = Cells(made, B) /\ made[2] = other
    <3> HIDE DEF f, block, prev
    <3> QED BY <2>1 DEF Decrypt, B
  <2>3. block[1] = y[j * B + 1]
    <3>1. PICK m \in Nat : m = k + 1
      BY <1>1
    <3>2. PICK a \in 1..m : a = j + 1
      BY <3>1
    <3>3. Blocked(y, m)
      BY <1>1, <3>1, <3>2, BlocksCount DEF B, Blocked
    <3>4. \A r \in 1..BlockSize : Block(y, a)[r] = y[(a - 1) * BlockSize + r]
      BY <3>1, <3>2, <3>3, BlockIs, ZenonT(30)
    <3>5. a - 1 = j /\ 1 \in 1..BlockSize
      BY <1>1, <3>2 DEF B
    <3> QED BY <3>2, <3>4, <3>5 DEF B
  <2> DEFINE p == i + j * B + 1
  <2>4. j * B \in Nat /\ j * B <= k * B /\ k * B \in Nat /\ n * B \in Nat
    BY <1>1, BlocksCount, BlocksOrder
  <2>5. j * B + 1 \in 1..Len(y) /\ p \in 1..((n + 1) * B) /\ p = i + (j * B + 1)
    <3>1. Len(y) = k * B + B
      BY DEF B
    <3>2. (n + 1) * B = n * B + B
      BY <1>1, BlocksCount
    <3>3. PICK u, v, w, z \in Nat : u = j * B /\ v = k * B /\ w = n * B /\ z = (n + 1) * B
      BY <1>1, <2>4, <3>2
    <3>4. u <= v /\ Len(y) = v + B /\ Len(x) = w + B /\ z = w + B /\ p = i + u + 1
      BY <1>2, <2>4, <3>1, <3>2, <3>3
    <3>5. u + 1 \in 1..Len(y) /\ i + u + 1 \in 1..z /\ i + u + 1 = i + (u + 1)
      BY <1>1, <3>4
    <3> HIDE DEF p
    <3> QED BY <3>3, <3>4, <3>5
  <2>6. block[1] = x[p]
    BY <2>3, <2>5
  <2> HIDE DEF p, block, prev
  <2>7. PICK e \in 1..(n + 1), r \in 1..B : p = (e - 1) * B + r
    <3>1. PICK m \in Nat : m = n + 1
      OBVIOUS
    <3>2. p \in 1..(m * B)
      BY <2>5, <3>1
    <3>3. \E e \in 1..m, r \in 1..B : p = (e - 1) * B + r
      BY <1>1, <3>2, InBlock
    <3> QED BY <3>1, <3>3
  <2>8. PICK a \in 0..n : a = e - 1
    BY <2>7
  <2>9. block[1] = c[a][r] /\ p = a * B + r
    BY <1>2, <2>6, <2>7, <2>8
  <2>10. PICK w : /\ c[a] = Cells(w, B)
                  /\ w = IF a = 0 THEN <<"nonce", s>> ELSE <<"block", key, Block(plain, a), c[a - 1]>>
    BY <1>2 DEF iv
  <2>11. block[1] = <<w, r>>
    BY <1>1, <2>9, <2>10, CellsAre
  <2>12. block[1] = <<made, 1>>
    <3> DEFINE v == made
    <3>1. block = Cells(v, B) /\ 1 \in 1..B
      BY <1>1, <2>2
    <3> HIDE DEF v
    <3>2. block[1] = <<v, 1>>
      BY <1>1, <3>1, CellsAre
    <3> QED BY <3>2 DEF v
  <2>13. w = made /\ r = 1
    BY <2>11, <2>12
  <2>14. a # 0
    <3> SUFFICES ASSUME a = 0 PROVE FALSE
      OBVIOUS
    <3>1. w = <<"nonce", s>>
      BY <2>10
    <3>2. w[1] = "nonce"
      BY <3>1
    <3> QED BY <2>2, <2>13, <3>2
  <2>15. w = <<"block", key, Block(plain, a), c[a - 1]>>
    BY <2>10, <2>14
  <2>16. w[2] = key /\ w[3] = Block(plain, a)
    BY <2>15
  <2>17. other = key /\ f[j] = Block(plain, a)
    BY <2>2, <2>13, <2>16
  <2>18. i + j * B = a * B
    <3>1. i + j * B + 1 = a * B + 1
      BY <2>9, <2>13 DEF p
    <3>2. a * B \in Nat
      BY <1>1, BlocksCount
    <3>3. PICK u, v \in Nat : u = j * B /\ v = a * B
      BY <2>4, <3>2
    <3>4. i + u + 1 = v + 1
      BY <3>1, <3>3
    <3>5. i + u = v
      BY <3>4
    <3> QED BY <3>3, <3>5
  <2>19. a \in 1..n
    BY <2>14
  <2> HIDE DEF f
  <2> QED BY <2>17, <2>18, <2>19
<1>4. ASSUME NEW j \in 1..k PROVE List(f[j]) /\ Len(f[j]) = B
  <2>1. CASE f[j] = Cells(<<"junk">>, B)
    BY <1>1, <2>1, CellsAre
  <2>2. CASE Right(j)
    <3>1. PICK a \in 1..n : f[j] = Block(plain, a)
      BY <2>2
    <3>2. Blocked(plain, n)
      BY DEF Blocked
    <3>3. List(Block(plain, a)) /\ Len(Block(plain, a)) = BlockSize
      BY <3>1, <3>2, BlockIs
    <3> QED BY <3>1, <3>3 DEF B
  <2> HIDE DEF f
  <2> QED BY <1>3, <2>1, <2>2
<1>5. Together(CbcDecrypt(other, y), f, k, B)
  <2>1. f = [j \in 1..k |-> Decrypt(other, Block(y, j + 1), Block(y, j))]
    OBVIOUS
  <2> HIDE DEF f
  <2> QED BY <1>1, <1>4, <2>1, CbcOpened DEF B
<1> DEFINE d == CbcDecrypt(other, y)
<1> HIDE DEF d, f
<1>6. List(d) /\ Len(d) = k * B /\ \A j \in 1..k, r \in 1..B : d[(j - 1) * B + r] = f[j][r]
  BY <1>5 DEF Together, d
<1>7. ASSUME NEW q \in 1..(k * B)
      PROVE  JunkByte(d[q]) \/ (other = key /\ i + q \in 1..(n * B) /\ d[q] = plain[i + q])
  <2>1. PICK j \in 1..k, r \in 1..B : q = (j - 1) * B + r
    BY <1>1, InBlock
  <2>2. d[q] = f[j][r]
    BY <1>6, <2>1
  <2>3. CASE f[j] = Cells(<<"junk">>, B)
    <3>1. f[j][r] = << <<"junk">>, r>>
      BY <1>1, <2>3, CellsAre
    <3> QED BY <2>2, <3>1 DEF JunkByte, B
  <2>4. CASE Right(j)
    <3>1. PICK a \in 1..n : other = key /\ i + j * B = a * B /\ f[j] = Block(plain, a)
      BY <2>4
    <3>2. f[j][r] = plain[(a - 1) * B + r]
      <4>1. \A t \in 1..BlockSize : Block(plain, a)[t] = plain[(a - 1) * BlockSize + t]
        <5>1. Blocked(plain, n)
          BY DEF Blocked
        <5> QED BY <3>1, <5>1, BlockIs
      <4> QED BY <3>1, <4>1 DEF B
    <3>3. PICK g \in Nat, h \in Nat : g = j - 1 /\ h = a - 1
      OBVIOUS
    <3>4. j * B = g * B + B /\ a * B = h * B + B /\ g * B \in Nat /\ h * B \in Nat
      <4>1. j = g + 1 /\ a = h + 1
        BY <3>3
      <4> QED BY <1>1, <4>1, BlocksCount
    <3>5. i + q = (a - 1) * B + r
      <4>1. q = g * B + r /\ (a - 1) * B = h * B
        BY <2>1, <3>3
      <4>2. i + (g * B + B) = h * B + B
        BY <3>1, <3>4
      <4>3. PICK u, v \in Nat : u = g * B /\ v = h * B
        BY <3>4
      <4>4. i + (u + B) = v + B /\ q = u + r
        BY <4>1, <4>2, <4>3
      <4>5. i + q = v + r
        BY <1>1, <4>4
      <4> QED BY <4>1, <4>3, <4>5
    <3>6. i + q \in 1..(n * B)
      <4>1. a * B <= n * B /\ n * B \in Nat
        BY <1>1, BlocksCount, BlocksOrder
      <4>2. i + q = h * B + r
        BY <3>3, <3>5
      <4> QED BY <1>1, <3>4, <4>1, <4>2
    <3> QED BY <2>2, <3>1, <3>2, <3>5, <3>6
  <2> QED BY <1>3, <2>3, <2>4
<1> QED BY <1>6, <1>7 DEF d, B, Revealed
-----------------------------------------------------------------------------
(* Keys *)

\* A sum over the first places.
LEMMA SumUpTo ==
  ASSUME NEW v, NEW n \in Nat, \A i \in 1..(n + 1) : v[i] \in Int
  PROVE  SumFunctionOnSet(v, 1..(n + 1)) = SumFunctionOnSet(v, 1..n) + v[n + 1]
<1>1. IsFiniteSet(1..n) /\ n + 1 \notin 1..n /\ 1..(n + 1) = 1..n \cup {n + 1}
  BY FS_Interval
<1>2. \A i \in 1..n \cup {n + 1} : v[i] \in Int
  BY <1>1
<1>3. PICK a : a = n + 1
  OBVIOUS
<1> DEFINE S == 1..n
<1>4. SumFunctionOnSet(v, S \cup {a}) = SumFunctionOnSet(v, S) + v[a]
  <2>1. IsFiniteSet(S) /\ a \notin S /\ \A i \in S \cup {a} : v[i] \in Int
    BY <1>1, <1>2, <1>3
  <2> HIDE DEF S
  <2> QED BY <2>1, SumInsert
<1> QED BY <1>1, <1>3, <1>4

\* The parts of the key block, each behind those before it.
LEMMA PartsAre ==
  ASSUME NEW s, s.mac \in Nat, s.key \in Nat, s.iv \in Nat
  PROVE  /\ Part(s, 1) = <<1, s.mac>>
         /\ Part(s, 2) = <<s.mac + 1, s.mac + s.mac>>
         /\ Part(s, 3) = <<s.mac + s.mac + 1, s.mac + s.mac + s.key>>
         /\ Part(s, 4) = <<s.mac + s.mac + s.key + 1, s.mac + s.mac + s.key + s.key>>
         /\ Part(s, 5) = <<s.mac + s.mac + s.key + s.key + 1, s.mac + s.mac + s.key + s.key + s.iv>>
         /\ Part(s, 6) = <<s.mac + s.mac + s.key + s.key + s.iv + 1,
                           s.mac + s.mac + s.key + s.key + s.iv + s.iv>>
<1> DEFINE v == <<s.mac, s.mac, s.key, s.key, s.iv, s.iv>>
           sum(n) == SumFunctionOnSet(v, 1..n)
<1>1. v[1] = s.mac /\ v[2] = s.mac /\ v[3] = s.key /\ v[4] = s.key /\ v[5] = s.iv /\ v[6] = s.iv
  OBVIOUS
<1>2. \A i \in 1..6 : Part(s, i) = <<sum(i - 1) + 1, sum(i - 1) + v[i]>>
  BY DEF Part
<1> HIDE DEF v
<1>3. sum(0) = 0
  <2>1. 1..0 = {}
    OBVIOUS
  <2> QED BY <2>1, SumEmpty
<1>4. ASSUME NEW n \in 0..4 PROVE sum(n + 1) = sum(n) + v[n + 1]
  <2>1. \A i \in 1..(n + 1) : i \in 1..6
    OBVIOUS
  <2>2. \A i \in 1..6 : v[i] \in Int
    <3> SUFFICES ASSUME NEW i \in 1..6 PROVE v[i] \in Int
      OBVIOUS
    <3>1. i = 1 \/ i = 2 \/ i = 3 \/ i = 4 \/ i = 5 \/ i = 6
      OBVIOUS
    <3> QED BY <1>1, <3>1
  <2>3. n \in Nat /\ \A i \in 1..(n + 1) : v[i] \in Int
    BY <2>1, <2>2
  <2> QED BY <2>3, SumUpTo
<1> HIDE DEF sum
<1>5. /\ sum(1) = s.mac /\ sum(2) = s.mac + s.mac /\ sum(3) = s.mac + s.mac + s.key
      /\ sum(4) = s.mac + s.mac + s.key + s.key /\ sum(5) = s.mac + s.mac + s.key + s.key + s.iv
  <2>1. sum(0 + 1) = sum(0) + v[0 + 1] /\ sum(1 + 1) = sum(1) + v[1 + 1] /\ sum(2 + 1) = sum(2) + v[2 + 1]
    BY <1>4
  <2>2. sum(3 + 1) = sum(3) + v[3 + 1] /\ sum(4 + 1) = sum(4) + v[4 + 1]
    BY <1>4
  <2>3. 0 + 1 = 1 /\ 1 + 1 = 2 /\ 2 + 1 = 3 /\ 3 + 1 = 4 /\ 4 + 1 = 5
    OBVIOUS
  <2> QED BY <1>1, <1>3, <2>1, <2>2, <2>3
<1>6. /\ Part(s, 1) = <<sum(0) + 1, sum(0) + v[1]>> /\ Part(s, 2) = <<sum(1) + 1, sum(1) + v[2]>>
      /\ Part(s, 3) = <<sum(2) + 1, sum(2) + v[3]>> /\ Part(s, 4) = <<sum(3) + 1, sum(3) + v[4]>>
      /\ Part(s, 5) = <<sum(4) + 1, sum(4) + v[5]>> /\ Part(s, 6) = <<sum(5) + 1, sum(5) + v[6]>>
  BY <1>2
<1>7. 0 + 1 = 1 /\ 0 + s.mac = s.mac
  OBVIOUS
<1> QED BY <1>1, <1>3, <1>5, <1>6, <1>7

\* Both sides cut the key block in the same way.
LEMMA SameKeys ==
  ASSUME NEW s \in Suites, NEW d \in Dirs
  PROVE  DirectionKeys(s, d) = PeerKeys(s, d)
<1>1. s.mac \in Nat /\ s.key \in Nat /\ s.iv \in Nat
  BY SuitesAssumption
<1> DEFINE m == s.mac
           k == s.key
           v == s.iv
<1>2. /\ Part(s, 1) = <<1, m>> /\ Part(s, 2) = <<m + 1, m + m>>
      /\ Part(s, 3) = <<m + m + 1, m + m + k>> /\ Part(s, 4) = <<m + m + k + 1, m + m + k + k>>
      /\ Part(s, 5) = <<m + m + k + k + 1, m + m + k + k + v>>
      /\ Part(s, 6) = <<m + m + k + k + v + 1, m + m + k + k + v + v>>
  BY <1>1, PartsAre
<1>3. CASE s.kind = "tls13"
  BY <1>3 DEF DirectionKeys, PeerKeys
<1>4. CASE s.kind # "tls13" /\ d = "C"
  <2>1. DirectionKeys(s, d) = [mac |-> Part(s, 1), key |-> Part(s, 3), iv |-> Part(s, 5)]
    BY <1>4 DEF DirectionKeys
  <2>2. PeerKeys(s, d) = [mac |-> <<0 + 0 * m + 1, 0 + (0 + 1) * m>>,
                          key |-> <<2 * m + 0 * k + 1, 2 * m + (0 + 1) * k>>,
                          iv  |-> <<2 * m + 2 * k + 0 * v + 1, 2 * m + 2 * k + (0 + 1) * v>>]
    BY <1>4 DEF PeerKeys
  <2>3. /\ 0 + 0 * m + 1 = 1 /\ 0 + (0 + 1) * m = m
        /\ 2 * m + 0 * k + 1 = m + m + 1 /\ 2 * m + (0 + 1) * k = m + m + k
        /\ 2 * m + 2 * k + 0 * v + 1 = m + m + k + k + 1 /\ 2 * m + 2 * k + (0 + 1) * v = m + m + k + k + v
    BY <1>1
  <2> HIDE DEF m, k, v
  <2> QED BY <1>2, <2>1, <2>2, <2>3
<1>5. CASE s.kind # "tls13" /\ d # "C"
  <2>1. DirectionKeys(s, d) = [mac |-> Part(s, 1 + 1), key |-> Part(s, 3 + 1), iv |-> Part(s, 5 + 1)]
    BY <1>5 DEF DirectionKeys
  <2>2. PeerKeys(s, d) = [mac |-> <<0 + 1 * m + 1, 0 + (1 + 1) * m>>,
                          key |-> <<2 * m + 1 * k + 1, 2 * m + (1 + 1) * k>>,
                          iv  |-> <<2 * m + 2 * k + 1 * v + 1, 2 * m + 2 * k + (1 + 1) * v>>]
    BY <1>5 DEF PeerKeys
  <2>3. /\ 0 + 1 * m + 1 = m + 1 /\ 0 + (1 + 1) * m = m + m
        /\ 2 * m + 1 * k + 1 = m + m + k + 1 /\ 2 * m + (1 + 1) * k = m + m + k + k
        /\ 2 * m + 2 * k + 1 * v + 1 = m + m + k + k + v + 1
        /\ 2 * m + 2 * k + (1 + 1) * v = m + m + k + k + v + v
        /\ 1 + 1 = 2 /\ 3 + 1 = 4 /\ 5 + 1 = 6
    BY <1>1
  <2> HIDE DEF m, k, v
  <2> QED BY <1>2, <2>1, <2>2, <2>3
<1> QED BY <1>3, <1>4, <1>5
-----------------------------------------------------------------------------
(* Pieces of a record *)

\* The bytes y of what arrived: all of x, or fewer.
Framed(y, x, whole) ==
  IF whole THEN y = x
  ELSE \E i, j \in 0..Len(x) : i <= j /\ j - i < Len(x) /\ y = SubSeq(x, i + 1, j)

\* They stand in x behind each other, from i on.
Piece(y, x, i, whole) ==
  /\ List(y) /\ i \in Nat /\ i + Len(y) <= Len(x)
  /\ \A q \in 1..Len(y) : y[q] = x[i + q]
  /\ whole => i = 0 /\ y = x
  /\ ~whole => Len(y) < Len(x)

\* What is taken for the body of a record is a piece of it.
LEMMA FramedIsPiece ==
  ASSUME NEW x, List(x), NEW whole \in BOOLEAN, NEW y, Framed(y, x, whole)
  PROVE  \E i : Piece(y, x, i, whole)
<1>1. Len(x) \in Nat
  BY DEF List
<1>2. CASE whole
  <2>1. y = x
    BY <1>2 DEF Framed
  <2>2. 0 + Len(x) <= Len(x) /\ \A q \in 1..Len(x) : x[q] = x[0 + q]
    BY <1>1
  <2>3. Piece(y, x, 0, whole)
    BY <1>1, <1>2, <2>1, <2>2 DEF Piece
  <2> QED BY <2>3
<1>3. CASE ~whole
  <2>1. PICK i \in 0..Len(x), j \in 0..Len(x) : i <= j /\ j - i < Len(x) /\ y = SubSeq(x, i + 1, j)
    BY <1>3 DEF Framed
  <2>2. List(y) /\ Len(y) = j - i /\ \A q \in 1..(j - i) : y[q] = x[i + q]
    BY <1>1, <2>1, ListPart
  <2>3. i \in Nat /\ i + Len(y) <= Len(x) /\ Len(y) < Len(x)
    BY <1>1, <2>1, <2>2
  <2>4. Piece(y, x, i, whole)
    BY <1>3, <2>2, <2>3 DEF Piece
  <2> QED BY <2>4
<1> QED BY <1>2, <1>3

\* What opening a record should come to, if it is all right or not.
Good(result, ok, type, content) ==
  /\ result # Panic
  /\ result.is = "opened" <=> ok
  /\ ok => result.content = content /\ result.type = type

\* To refuse is good when the record should not open,
LEMMA GoodRefused == ASSUME NEW type, NEW content PROVE Good(Refused, FALSE, type, content)
BY DEF Good, Refused, Panic

\* to open it to what was sent when it should.
LEMMA GoodOpened == ASSUME NEW type, NEW content PROVE Good(Opened(type, content), TRUE, type, content)
BY DEF Good, Opened, Panic

-----------------------------------------------------------------------------
(* Sealed boxes *)

\* The places of a sealed box.
LEMMA BoxIs ==
  ASSUME NEW key, NEW nonce, NEW aad, NEW plain, List(plain)
  PROVE  LET box == Box(key, nonce, aad, plain) IN
           /\ List(box) /\ Len(box) = Len(plain) + TagLen /\ Len(box) >= TagLen
           /\ \A q \in 1..Len(box) : box[q] = << <<"box", key, nonce, aad, plain>>, q>>
<1> DEFINE what == <<"box", key, nonce, aad, plain>>
           n == Len(plain) + TagLen
<1>1. n \in Nat /\ n >= TagLen
  BY SizesAssumption DEF List
<1>2. Box(key, nonce, aad, plain) = Cells(what, n)
  BY DEF Box
<1> HIDE DEF what, n
<1>3. List(Cells(what, n)) /\ Len(Cells(what, n)) = n /\ \A q \in 1..n : Cells(what, n)[q] = <<what, q>>
  BY <1>1, CellsAre
<1> QED BY <1>1, <1>2, <1>3 DEF what, n

\* A box opens under the key, nonce and data it was made with.
LEMMA BoxOpens ==
  ASSUME NEW key, NEW nonce, NEW aad, NEW plain, List(plain), NEW key2, NEW nonce2, NEW aad2
  PROVE  /\ AeadOpens(key2, nonce2, aad2, Box(key, nonce, aad, plain))
              <=> key2 = key /\ nonce2 = nonce /\ aad2 = aad
         /\ AeadPlain(Box(key, nonce, aad, plain)) = plain
<1> DEFINE box == Box(key, nonce, aad, plain)
           what == <<"box", key, nonce, aad, plain>>
<1>1. Len(box) >= TagLen /\ 1 \in 1..Len(box)
  BY BoxIs, SizesAssumption DEF List
<1>2. box[1] = <<what, 1>>
  BY <1>1, BoxIs
<1>3. box[1][1] = what
  BY <1>2
<1>4. what[1] = "box" /\ what[2] = key /\ what[3] = nonce /\ what[4] = aad /\ what[5] = plain
  OBVIOUS
<1>5. AeadPlain(box) = plain
  BY <1>3, <1>4 DEF AeadPlain
<1>6. AeadOpens(key2, nonce2, aad2, box) <=>
        what = <<"box", key2, nonce2, aad2, plain>> /\ box = Box(key2, nonce2, aad2, plain)
  <2> HIDE DEF box, what
  <2> QED BY <1>1, <1>3, <1>4 DEF AeadOpens
<1>7. what = <<"box", key2, nonce2, aad2, plain>> <=> key2 = key /\ nonce2 = nonce /\ aad2 = aad
  OBVIOUS
<1> HIDE DEF what
<1> QED BY <1>5, <1>6, <1>7

\* Less than a box does not open.
LEMMA PieceStaysShut ==
  ASSUME NEW key, NEW nonce, NEW aad, NEW plain, List(plain), NEW i \in Nat, NEW text, List(text),
         i + Len(text) <= Len(Box(key, nonce, aad, plain)), Len(text) < Len(Box(key, nonce, aad, plain)),
         \A q \in 1..Len(text) : text[q] = Box(key, nonce, aad, plain)[i + q],
         NEW key2, NEW nonce2, NEW aad2
  PROVE  ~AeadOpens(key2, nonce2, aad2, text)
<1> DEFINE box == Box(key, nonce, aad, plain)
           what == <<"box", key, nonce, aad, plain>>
<1> SUFFICES ASSUME AeadOpens(key2, nonce2, aad2, text) PROVE FALSE
  OBVIOUS
<1>1. /\ List(box) /\ Len(box) = Len(plain) + TagLen /\ Len(box) \in Nat /\ Len(text) \in Nat
      /\ \A q \in 1..Len(box) : box[q] = <<what, q>>
  BY BoxIs DEF List
<1>2. Len(text) >= TagLen /\ TagLen \in Nat \ {0}
  BY SizesAssumption DEF AeadOpens
<1>3. 1 \in 1..Len(text) /\ i + 1 \in 1..Len(box)
  BY <1>1, <1>2
<1>4. text[1] = <<what, i + 1>>
  BY <1>1, <1>3
<1>5. text[1][1] = what /\ what[5] = plain
  BY <1>4
<1>6. text = Box(key2, nonce2, aad2, plain)
  BY <1>5 DEF AeadOpens
<1>7. Len(text) = Len(plain) + TagLen
  BY <1>6, BoxIs
<1> QED BY <1>1, <1>7

\* The keys of the two sides: the same ones, or others.
Matching(k, k2, right) == IF right THEN k2 = k ELSE k2.key # k.key /\ k2.mac # k.mac

\* A GCM record opens as it should.
LEMMA GcmOpens ==
  ASSUME suite.kind = "gcm", NEW right \in BOOLEAN, NEW k, NEW k2, Matching(k, k2, right),
         NEW seq, NEW counter, NEW type, NEW content, List(content), NEW x \in Sealed(k, seq, type, content),
         NEW whole \in BOOLEAN, NEW y, Framed(y, x, whole), NEW result \in OpenGcm(k2, counter, type, y)
  PROVE  Good(result, whole /\ right /\ counter = seq, type, content)
<1> DEFINE explicit == Cells(<<"nonce", seq>>, ExplicitLen)
           aad == <<seq, type, Len(content)>>
           box == Box(k.key, <<k.iv, explicit>>, aad, content)
           head == SubSeq(y, 1, ExplicitLen)
           text == SubSeq(y, ExplicitLen + 1, Len(y))
           aad2 == <<counter, type, Len(text) - TagLen>>
           opens == Len(y) >= ExplicitLen /\ AeadOpens(k2.key, <<k2.iv, head>>, aad2, text)
<1>1. x = explicit \o box
  BY DEF Sealed
<1>2. result = IF opens THEN Opened(type, AeadPlain(text)) ELSE Refused
  BY DEF OpenGcm
<1>3. /\ ExplicitLen \in Nat /\ TagLen \in Nat /\ Len(content) \in Nat
      /\ List(explicit) /\ Len(explicit) = ExplicitLen
      /\ List(box) /\ Len(box) = Len(content) + TagLen
  <2>1. ExplicitLen \in Nat /\ TagLen \in Nat /\ Len(content) \in Nat
    BY SizesAssumption DEF List
  <2>2. List(explicit) /\ Len(explicit) = ExplicitLen
    BY <2>1, CellsAre
  <2>3. List(box) /\ Len(box) = Len(content) + TagLen
    BY BoxIs
  <2> QED BY <2>1, <2>2, <2>3
<1> HIDE DEF explicit, box
<1>4. /\ List(x) /\ Len(x) = ExplicitLen + Len(box)
      /\ \A i \in 1..ExplicitLen : x[i] = explicit[i]
      /\ \A i \in 1..Len(box) : x[ExplicitLen + i] = box[i]
  <2>1. /\ List(explicit \o box) /\ Len(explicit \o box) = Len(explicit) + Len(box)
        /\ \A i \in 1..Len(explicit) : (explicit \o box)[i] = explicit[i]
        /\ \A i \in 1..Len(box) : (explicit \o box)[Len(explicit) + i] = box[i]
    BY <1>3, ListConcat
  <2> QED BY <1>1, <1>3, <2>1
<1>5. PICK i : Piece(y, x, i, whole)
  BY <1>4, FramedIsPiece
<1>6. /\ List(y) /\ Len(y) \in Nat /\ i \in Nat /\ i + Len(y) <= Len(x) /\ \A q \in 1..Len(y) : y[q] = x[i + q]
      /\ (whole => i = 0 /\ y = x) /\ (~whole => Len(y) < Len(x))
  BY <1>5 DEF Piece, List
<1>7. Len(y) >= ExplicitLen =>
        /\ List(text) /\ Len(text) = Len(y) - ExplicitLen
        /\ \A q \in 1..(Len(y) - ExplicitLen) : text[q] = y[ExplicitLen + q]
  <2> SUFFICES ASSUME Len(y) >= ExplicitLen PROVE /\ List(text) /\ Len(text) = Len(y) - ExplicitLen
                                                  /\ \A q \in 1..(Len(y) - ExplicitLen) : text[q] = y[ExplicitLen + q]
    OBVIOUS
  <2>1. ExplicitLen \in 0..Len(y) /\ Len(y) \in 0..Len(y)
    BY <1>3, <1>6
  <2> QED BY <1>6, <2>1, ListPart
<1>8. CASE whole
  <2>1. i = 0 /\ y = x /\ Len(y) >= ExplicitLen /\ Len(y) - ExplicitLen = Len(box)
    BY <1>3, <1>4, <1>6, <1>8
  <2>2. text = box
    <3>1. \A q \in 1..Len(box) : text[q] = box[q]
      BY <1>4, <1>7, <2>1
    <3> HIDE DEF text
    <3> QED BY <1>3, <1>7, <2>1, <3>1, ListEqual
  <2>3. head = explicit
    <3>1. 0 \in 0..Len(y) /\ ExplicitLen \in 0..Len(y) /\ 0 <= ExplicitLen /\ ExplicitLen - 0 = ExplicitLen /\ 0 + 1 = 1
      BY <1>3, <1>6, <2>1
    <3>2. List(head) /\ Len(head) = ExplicitLen /\ \A q \in 1..ExplicitLen : head[q] = y[0 + q]
      BY <1>6, <3>1, ListPart
    <3>3. \A q \in 1..ExplicitLen : head[q] = explicit[q]
      BY <1>3, <1>4, <2>1, <3>2
    <3> HIDE DEF head
    <3> QED BY <1>3, <3>2, <3>3, ListEqual
  <2>4. aad2 = <<counter, type, Len(content)>>
    BY <1>3, <2>2
  <2> HIDE DEF text, head
  <2>5. opens <=> AeadOpens(k2.key, <<k2.iv, explicit>>, aad2, box)
    BY <2>1, <2>2, <2>3
  <2>6. /\ AeadOpens(k2.key, <<k2.iv, explicit>>, aad2, box)
             <=> k2.key = k.key /\ <<k2.iv, explicit>> = <<k.iv, explicit>> /\ aad2 = aad
        /\ AeadPlain(box) = content
    <3> HIDE DEF aad2, aad
    <3> QED BY BoxOpens, SMTT(30) DEF box
  <2>7. aad2 = aad <=> counter = seq
    BY <2>4
  <2> HIDE DEF aad2, aad, opens
  <2>8. opens <=> right /\ counter = seq
    BY <2>5, <2>6, <2>7 DEF Matching
  <2>9. CASE opens
    BY <1>2, <1>8, <2>2, <2>6, <2>8, <2>9, GoodOpened
  <2>10. CASE ~opens
    BY <1>2, <1>8, <2>8, <2>10, GoodRefused
  <2> QED BY <2>9, <2>10
<1>9. CASE ~whole
  <2>1. ~opens
    <3> SUFFICES ASSUME Len(y) >= ExplicitLen PROVE ~AeadOpens(k2.key, <<k2.iv, head>>, aad2, text)
      OBVIOUS
    <3>1. i + Len(text) <= Len(box) /\ Len(text) < Len(box) /\ Len(text) \in Nat
      BY <1>3, <1>4, <1>6, <1>7, <1>9
    <3>2. ASSUME NEW q \in 1..Len(text) PROVE text[q] = box[i + q]
      <4>1. ExplicitLen + q \in 1..Len(y) /\ i + q \in 1..Len(box) /\ i + (ExplicitLen + q) = ExplicitLen + (i + q)
        BY <1>3, <1>6, <1>7, <3>1, SMTT(30)
      <4> QED BY <1>4, <1>6, <1>7, <4>1
    <3>3. List(text)
      BY <1>7
    <3> DEFINE nonce == <<k.iv, explicit>>
               nonce2 == <<k2.iv, head>>
               b == Box(k.key, nonce, aad, content)
    <3>4. b = box
      BY DEF box
    <3> HIDE DEF aad2, text, aad, nonce, nonce2, b
    <3>5. i \in Nat /\ i + Len(text) <= Len(b) /\ Len(text) < Len(b) /\ \A q \in 1..Len(text) : text[q] = b[i + q]
      BY <1>6, <3>1, <3>2, <3>4
    <3>6. ~AeadOpens(k2.key, nonce2, aad2, text)
      BY <3>3, <3>5, PieceStaysShut DEF b
    <3> QED BY <3>6 DEF nonce2
  <2> HIDE DEF opens
  <2> QED BY <1>2, <1>9, <2>1, GoodRefused
<1> QED BY <1>8, <1>9

\* A record that is one box.
Boxed(k, k2, seq, counter, aad, aad2, plain, y, whole, right) ==
  /\ AeadOpens(k2.key, <<k2.iv, counter>>, aad2, y) <=> whole /\ right /\ counter = seq /\ aad2 = aad
  /\ whole => y = Box(k.key, <<k.iv, seq>>, aad, plain) /\ AeadPlain(y) = plain

\* A body that is one box opens under the key, the nonce and the data it was made with.
LEMMA BoxedOpens ==
  ASSUME NEW right \in BOOLEAN, NEW k, NEW k2, Matching(k, k2, right), NEW seq, NEW counter,
         NEW aad, NEW aad2, NEW plain, List(plain),
         NEW whole \in BOOLEAN, NEW y, Framed(y, Box(k.key, <<k.iv, seq>>, aad, plain), whole)
  PROVE  Boxed(k, k2, seq, counter, aad, aad2, plain, y, whole, right)
<1> SUFFICES /\ AeadOpens(k2.key, <<k2.iv, counter>>, aad2, y) <=> whole /\ right /\ counter = seq /\ aad2 = aad
             /\ whole => y = Box(k.key, <<k.iv, seq>>, aad, plain) /\ AeadPlain(y) = plain
  BY DEF Boxed
<1> DEFINE nonce == <<k.iv, seq>>
           nonce2 == <<k2.iv, counter>>
           b == Box(k.key, nonce, aad, plain)
           opens == AeadOpens(k2.key, nonce2, aad2, y)
<1>1. nonce2 = nonce <=> k2.iv = k.iv /\ counter = seq
  OBVIOUS
<1>2. Framed(y, b, whole)
  OBVIOUS
<1> HIDE DEF nonce, nonce2, b
<1>3. List(b)
  BY BoxIs DEF b
<1>4. PICK i : Piece(y, b, i, whole)
  BY <1>2, <1>3, FramedIsPiece
<1>5. CASE whole
  <2>1. y = b
    BY <1>4, <1>5 DEF Piece
  <2>2. /\ AeadOpens(k2.key, nonce2, aad2, b) <=> k2.key = k.key /\ nonce2 = nonce /\ aad2 = aad
        /\ AeadPlain(b) = plain
    BY BoxOpens DEF b
  <2>3. opens <=> right /\ counter = seq /\ aad2 = aad
    BY <1>1, <2>1, <2>2 DEF Matching
  <2> HIDE DEF opens
  <2>4. (opens <=> whole /\ right /\ counter = seq /\ aad2 = aad) /\ y = b /\ AeadPlain(y) = plain
    BY <1>5, <2>1, <2>2, <2>3
  <2> QED BY <2>4 DEF opens, nonce2, nonce, b
<1>6. CASE ~whole
  <2>1. /\ List(y) /\ i \in Nat /\ i + Len(y) <= Len(b) /\ \A q \in 1..Len(y) : y[q] = b[i + q]
        /\ Len(y) < Len(b)
    BY <1>4, <1>6 DEF Piece
  <2>2. ~opens
    <3>1. /\ i \in Nat /\ List(y) /\ i + Len(y) <= Len(Box(k.key, nonce, aad, plain))
          /\ Len(y) < Len(Box(k.key, nonce, aad, plain))
          /\ \A q \in 1..Len(y) : y[q] = Box(k.key, nonce, aad, plain)[i + q]
      BY <2>1 DEF b
    <3> QED BY <3>1, PieceStaysShut
  <2> QED BY <1>6, <2>2 DEF nonce2
<1> QED BY <1>5, <1>6

\* A record without an explicit nonce opens as it should.
LEMMA ImplicitOpens ==
  ASSUME suite.kind = "implicit", NEW right \in BOOLEAN, NEW k, NEW k2, Matching(k, k2, right),
         NEW seq, NEW counter, NEW type, NEW content, List(content), NEW x \in Sealed(k, seq, type, content),
         NEW whole \in BOOLEAN, NEW y, Framed(y, x, whole), NEW result \in OpenImplicit(k2, counter, type, y)
  PROVE  Good(result, whole /\ right /\ counter = seq, type, content)
<1> DEFINE aad == <<seq, type, Len(content)>>
           aad2 == <<counter, type, Len(y) - TagLen>>
           opens == AeadOpens(k2.key, <<k2.iv, counter>>, aad2, y)
           ok == whole /\ right /\ counter = seq
<1>1. x = Box(k.key, <<k.iv, seq>>, aad, content)
  BY DEF Sealed
<1>2. result = IF opens THEN Opened(type, AeadPlain(y)) ELSE Refused
  BY DEF OpenImplicit
<1>3. Len(x) = Len(content) + TagLen /\ Len(content) \in Nat /\ TagLen \in Nat
  <2>1. TagLen \in Nat /\ Len(content) \in Nat
    BY SizesAssumption DEF List
  <2> QED BY <1>1, <2>1, BoxIs
<1>4. y = x /\ counter = seq => aad2 = aad
  BY <1>3
<1> HIDE DEF aad2, aad
<1>5. /\ opens <=> whole /\ right /\ counter = seq /\ aad2 = aad
      /\ whole => y = x /\ AeadPlain(y) = content
  <2>1. Framed(y, Box(k.key, <<k.iv, seq>>, aad, content), whole)
    BY <1>1
  <2>2. Boxed(k, k2, seq, counter, aad, aad2, content, y, whole, right)
    BY <2>1, BoxedOpens
  <2> QED BY <1>1, <2>2 DEF Boxed
<1> HIDE DEF opens
<1>6. CASE ok
  BY <1>2, <1>4, <1>5, <1>6, GoodOpened
<1>7. CASE ~ok
  BY <1>2, <1>5, <1>7, GoodRefused
<1> QED BY <1>6, <1>7

\* The type is found behind the content, whatever the content ends with.
LEMMA TypeFound ==
  ASSUME NEW content, List(content), NEW t, Data(t) # Data(0), NEW zeros, List(zeros),
         \A i \in 1..Len(zeros) : zeros[i] = Data(0)
  PROVE  LET inner == content \o <<Data(t)>> \o zeros
             at    == Len(content) + 1
         IN  /\ List(inner) /\ TypeAt(inner) = at /\ inner[at] = Data(t) /\ at # 0
             /\ SubSeq(inner, 1, at - 1) = content
<1> DEFINE n == Len(content)
           front == content \o <<Data(t)>>
           inner == front \o zeros
<1>1. n \in Nat /\ List(<<Data(t)>>) /\ Len(<<Data(t)>>) = 1 /\ <<Data(t)>>[1] = Data(t)
  <2>1. <<Data(t)>> \in Seq({Data(t)})
    OBVIOUS
  <2> QED BY <2>1, SeqIsList DEF List
<1>2. /\ List(front) /\ Len(front) = n + 1
      /\ \A i \in 1..n : front[i] = content[i]
      /\ front[n + 1] = Data(t)
  <2> DEFINE one == <<Data(t)>>
  <2>1. List(one) /\ Len(one) = 1 /\ one[1] = Data(t) /\ 1 \in 1..1
    BY <1>1
  <2> HIDE DEF one
  <2>2. /\ List(content \o one) /\ Len(content \o one) = n + Len(one)
        /\ \A i \in 1..n : (content \o one)[i] = content[i]
        /\ \A i \in 1..Len(one) : (content \o one)[n + i] = one[i]
    <3>1. List(content) /\ List(one)
      BY <2>1
    <3> QED BY <3>1, ListConcat
  <2> QED BY <2>1, <2>2 DEF one
<1> HIDE DEF front
<1>3. /\ List(inner) /\ Len(inner) = n + 1 + Len(zeros) /\ Len(zeros) \in Nat
      /\ \A i \in 1..(n + 1) : inner[i] = front[i]
      /\ \A i \in 1..Len(zeros) : inner[n + 1 + i] = zeros[i]
  <2>1. /\ List(front \o zeros) /\ Len(front \o zeros) = Len(front) + Len(zeros)
        /\ \A i \in 1..Len(front) : (front \o zeros)[i] = front[i]
        /\ \A i \in 1..Len(zeros) : (front \o zeros)[Len(front) + i] = zeros[i]
    BY <1>2, ListConcat
  <2>2. Len(zeros) \in Nat
    BY DEF List
  <2> QED BY <1>2, <2>1, <2>2
<1> HIDE DEF inner
<1> DEFINE at == n + 1
<1>4. at \in Nat /\ at # 0 /\ at \in 1..Len(inner) /\ DOMAIN inner = 1..Len(inner) /\ Len(inner) \in Nat /\ at - 1 = n
  BY <1>1, <1>3 DEF List
<1>5. inner[at] = Data(t)
  BY <1>2, <1>3, <1>4
<1>6. ASSUME NEW j \in (at + 1)..Len(inner) PROVE inner[j] = Data(0)
  <2>1. PICK i \in 1..Len(zeros) : j = n + 1 + i
    <3>1. j - (n + 1) \in 1..Len(zeros) /\ j = n + 1 + (j - (n + 1))
      BY <1>1, <1>3
    <3> QED BY <3>1
  <2> QED BY <1>3, <2>1
<1> DEFINE Last0(i) == inner[i] # Data(0) /\ \A j \in (i + 1)..Len(inner) : inner[j] = Data(0)
<1>7. TypeAt(inner) = CHOOSE i \in DOMAIN inner : Last0(i)
  <2>1. ~ \A i \in DOMAIN inner : inner[i] = Data(0)
    BY <1>4, <1>5
  <2> QED BY <2>1 DEF TypeAt
<1>8. Last0(at)
  BY <1>5, <1>6
<1>9. ASSUME NEW i \in DOMAIN inner, Last0(i) PROVE i = at
  <2>1. i \in 1..Len(inner)
    BY <1>4
  <2>2. ~(i < at)
    <3> SUFFICES ASSUME i < at PROVE FALSE
      OBVIOUS
    <3>1. at \in (i + 1)..Len(inner)
      BY <1>4, <2>1
    <3> QED BY <1>5, <1>9, <3>1
  <2>3. ~(at < i)
    <3> SUFFICES ASSUME at < i PROVE FALSE
      OBVIOUS
    <3>1. i \in (at + 1)..Len(inner)
      BY <1>4, <2>1
    <3> QED BY <1>6, <1>9, <3>1
  <2> QED BY <1>4, <2>1, <2>2, <2>3
<1> HIDE DEF Last0
<1>10. TypeAt(inner) = at
  <2>1. at \in DOMAIN inner
    BY <1>4
  <2> QED BY <1>7, <1>8, <1>9, <2>1
<1>11. SubSeq(inner, 1, at - 1) = content
  <2>1. 0 \in 0..Len(inner) /\ n \in 0..Len(inner) /\ 0 <= n /\ n - 0 = n /\ 0 + 1 = 1
    BY <1>1, <1>4
  <2>2. /\ List(SubSeq(inner, 0 + 1, n)) /\ Len(SubSeq(inner, 0 + 1, n)) = n - 0
        /\ \A q \in 1..(n - 0) : SubSeq(inner, 0 + 1, n)[q] = inner[0 + q]
    BY <1>3, <2>1, ListPart
  <2> DEFINE cut == SubSeq(inner, 1, n)
  <2>3. List(cut) /\ Len(cut) = n /\ \A q \in 1..n : cut[q] = inner[0 + q]
    BY <2>1, <2>2
  <2> HIDE DEF cut
  <2>4. \A q \in 1..n : cut[q] = content[q]
    <3>1. \A q \in 1..n : 0 + q = q /\ q \in 1..(n + 1)
      BY <1>1
    <3> QED BY <1>2, <1>3, <2>3, <3>1
  <2>5. cut = content
    BY <2>3, <2>4, ListEqual
  <2> QED BY <1>4, <2>5 DEF cut
<1>12. inner = content \o <<Data(t)>> \o zeros
  BY DEF inner, front
<1> QED BY <1>3, <1>4, <1>5, <1>10, <1>11, <1>12

\* A record of TLS 1.3 opens as it should, whatever zeros it was padded with.
LEMMA Opens13 ==
  ASSUME suite.kind = "tls13", NEW right \in BOOLEAN, NEW k, NEW k2, Matching(k, k2, right),
         NEW seq, NEW counter, NEW type \in {"app", "handshake"}, NEW content, List(content),
         NEW x \in Sealed(k, seq, type, content),
         NEW whole \in BOOLEAN, NEW y, Framed(y, x, whole), NEW result \in Open13(k2, counter, y)
  PROVE  Good(result, whole /\ right /\ counter = seq, type, content)
<1>1. PICK zeros \in {<<>>, Bytes(<<0, 0>>)} :
        x = LET inner == content \o <<Data(TypeByte(type))>> \o zeros
            IN  Box(k.key, <<k.iv, seq>>, <<0, "app", Len(inner) + TagLen>>, inner)
  BY DEF Sealed
<1> DEFINE t == TypeByte(type)
           inner == content \o <<Data(t)>> \o zeros
           at == Len(content) + 1
           aad == <<0, "app", Len(inner) + TagLen>>
           aad2 == <<0, "app", Len(y)>>
           opens == AeadOpens(k2.key, <<k2.iv, counter>>, aad2, y)
<1>2. x = Box(k.key, <<k.iv, seq>>, aad, inner)
  BY <1>1
<1>3. List(zeros) /\ \A i \in 1..Len(zeros) : zeros[i] = Data(0)
  <2>1. List(<<>>) /\ Len(<<>>) = 0 /\ 1..0 = {}
    <3>1. <<>> \in Seq({}) /\ Len(<<>>) = 0 /\ 1..0 = {}
      OBVIOUS
    <3> QED BY <3>1, SeqIsList
  <2> DEFINE two == <<0, 0>>
  <2>2. List(two) /\ Len(two) = 2 /\ \A i \in 1..2 : two[i] = 0
    <3>1. two \in Seq({0}) /\ Len(two) = 2
      OBVIOUS
    <3>2. two[1] = 0 /\ two[2] = 0
      OBVIOUS
    <3>3. \A i \in 1..2 : i = 1 \/ i = 2
      OBVIOUS
    <3> HIDE DEF two
    <3>4. List(two)
      BY <3>1, SeqIsList
    <3> QED BY <3>1, <3>2, <3>3, <3>4
  <2> HIDE DEF two
  <2>3. List(Bytes(two)) /\ Len(Bytes(two)) = 2 /\ \A i \in 1..2 : Bytes(two)[i] = Data(two[i])
    BY <2>2, BytesAre
  <2>4. \A i \in 1..2 : Bytes(two)[i] = Data(0)
    BY <2>2, <2>3
  <2>5. zeros = <<>> \/ zeros = Bytes(two)
    BY <1>1 DEF two
  <2> QED BY <2>1, <2>3, <2>4, <2>5
<1>4. t \in {1, 2} /\ (t = 2 <=> type = "app") /\ Data(t) # Data(0)
  BY DEF TypeByte, Data
<1>5. /\ List(inner) /\ TypeAt(inner) = at /\ inner[at] = Data(t) /\ at # 0
      /\ SubSeq(inner, 1, at - 1) = content
  BY <1>3, <1>4, TypeFound
<1>6. (IF inner[at] = Data(TypeByte("app")) THEN "app" ELSE "handshake") = type
  <2>1. inner[at] = Data(TypeByte("app")) <=> type = "app"
    <3>1. TypeByte("app") = 2 /\ (Data(t) = Data(2) <=> t = 2)
      BY DEF TypeByte, Data
    <3> HIDE DEF inner, at, t
    <3> QED BY <1>4, <1>5, <3>1
  <2> HIDE DEF inner, at
  <2> QED BY <2>1
<1> HIDE DEF t, inner, at
<1>7. ~opens => result = Refused
  BY DEF Open13
<1>8. opens /\ AeadPlain(y) = inner => result = Opened(type, content)
  BY <1>5, <1>6 DEF Open13
<1> DEFINE ok == whole /\ right /\ counter = seq
<1>9. y = x /\ counter = seq => aad2 = aad
  <2>1. Len(x) = Len(inner) + TagLen
    BY <1>2, <1>5, BoxIs
  <2> QED BY <2>1
<1> HIDE DEF aad2, aad
<1>10. /\ opens <=> whole /\ right /\ counter = seq /\ aad2 = aad
       /\ whole => y = x /\ AeadPlain(y) = inner
  <2>1. List(inner) /\ Framed(y, Box(k.key, <<k.iv, seq>>, aad, inner), whole)
    BY <1>2, <1>5
  <2>2. Boxed(k, k2, seq, counter, aad, aad2, inner, y, whole, right)
    BY <2>1, BoxedOpens
  <2> QED BY <1>2, <2>2 DEF Boxed
<1> HIDE DEF opens
<1>11. CASE ok
  BY <1>8, <1>9, <1>10, <1>11, GoodOpened
<1>12. CASE ~ok
  BY <1>7, <1>10, <1>12, GoodRefused
<1> QED BY <1>11, <1>12
-----------------------------------------------------------------------------
(* CBC records *)

\* A text whose last block is filled with bytes p.
Padded(text, front, p, n) ==
  /\ List(text) /\ Len(text) = n * BlockSize /\ Len(text) = Len(front) + p + 1
  /\ \A q \in 1..Len(front) : text[q] = front[q]
  /\ \A q \in 1..(p + 1) : text[Len(front) + q] = Data(p)

\* A padding that fills the last block is one of those the sender may choose.
LEMMA PaddingMade ==
  ASSUME NEW front, List(front), NEW padding \in Paddings(Len(front))
  PROVE  \E p \in 0..MaxByte, n \in Nat : n > 0 /\ Padded(front \o padding, front, p, n)
<1>1. PICK p \in 0..MaxByte : /\ (Len(front) + p + 1) % BlockSize = 0
                              /\ padding = Bytes([i \in 1..(p + 1) |-> p])
  BY DEF Paddings
<1>2. BlockSize \in Nat \ {0} /\ MaxByte \in Nat /\ Len(front) \in Nat /\ p \in Nat
  BY SizesAssumption, ContentsAssumption DEF List
<1>3. PICK n \in Nat : Len(front) + p + 1 = n * BlockSize
  <2> DEFINE total == Len(front) + p + 1
  <2>1. total \in Nat
    BY <1>2
  <2>2. total % BlockSize = 0
    BY <1>1
  <2> HIDE DEF total
  <2>3. \E n \in Nat : total = n * BlockSize
    BY <1>2, <2>1, <2>2, NoRest
  <2> QED BY <2>3 DEF total
<1>4. n > 0
  <2> SUFFICES ASSUME n = 0 PROVE FALSE
    OBVIOUS
  <2>1. 0 * BlockSize = 0
    BY <1>2
  <2> QED BY <1>2, <1>3, <2>1
<1> DEFINE v == [i \in 1..(p + 1) |-> p]
<1>5. List(v) /\ Len(v) = p + 1 /\ \A i \in 1..(p + 1) : v[i] = p
  <2>1. List([i \in 1..(p + 1) |-> v[i]]) /\ Len([i \in 1..(p + 1) |-> v[i]]) = p + 1
    BY <1>2, MadeIsList
  <2>2. v = [i \in 1..(p + 1) |-> v[i]]
    OBVIOUS
  <2> QED BY <2>1, <2>2
<1>6. padding = Bytes(v)
  BY <1>1
<1> HIDE DEF v
<1>7. List(padding) /\ Len(padding) = p + 1 /\ \A i \in 1..(p + 1) : padding[i] = Data(p)
  BY <1>5, <1>6, BytesAre
<1> DEFINE text == front \o padding
<1>8. /\ List(text) /\ Len(text) = Len(front) + Len(padding)
      /\ \A i \in 1..Len(front) : text[i] = front[i]
      /\ \A i \in 1..Len(padding) : text[Len(front) + i] = padding[i]
  BY <1>7, ListConcat
<1>9. Padded(text, front, p, n)
  <2>1. Len(text) = Len(front) + p + 1 /\ Len(text) = n * BlockSize
    BY <1>2, <1>3, <1>7, <1>8
  <2> HIDE DEF text
  <2> QED BY <1>7, <1>8, <2>1 DEF Padded
<1> QED BY <1>4, <1>9

\* Bytes of data are no part of what a primitive made.
DataBytes(content) ==
  List(content) /\ \A i \in 1..Len(content) : content[i][1][1] = "data" /\ content[i][2] \in 0..MaxByte

\* A byte of data has one value.
LEMMA DataIs == ASSUME NEW v PROVE Data(v)[1][1] = "data" /\ Values(Data(v)) = {v}
BY DEF Data, Values

\* A body that is decrypted is an IV and at least one block.
LEMMA BlocksAre ==
  ASSUME NEW y, List(y)
  PROVE  /\ Blocks(y) => \E k \in Nat : k > 0 /\ Len(y) = k * BlockSize + BlockSize
         /\ \A k \in Nat : k > 0 /\ Len(y) = k * BlockSize + BlockSize => Blocks(y)
<1>1. BlockSize \in Nat \ {0} /\ Len(y) \in Nat
  BY SizesAssumption DEF List
<1>2. ASSUME Blocks(y) PROVE \E k \in Nat : k > 0 /\ Len(y) = k * BlockSize + BlockSize
  <2>1. PICK m \in Nat : Len(y) = m * BlockSize
    BY <1>1, <1>2, NoRest DEF Blocks
  <2>2. m >= 2
    <3>1. 2 * BlockSize <= m * BlockSize
      BY <1>2, <2>1 DEF Blocks
    <3> QED BY <1>1, <3>1, BlocksOrder
  <2>3. PICK k \in Nat : m = k + 1
    BY <2>2
  <2>4. k > 0
    BY <2>2, <2>3
  <2> QED BY <1>1, <2>1, <2>3, <2>4, BlocksCount
<1>3. ASSUME NEW k \in Nat, k > 0, Len(y) = k * BlockSize + BlockSize PROVE Blocks(y)
  <2>1. PICK m \in Nat : m = k + 1
    OBVIOUS
  <2>2. Len(y) = m * BlockSize
    BY <1>1, <1>3, <2>1, BlocksCount
  <2>3. Len(y) % BlockSize = 0
    <3> DEFINE u == m * BlockSize
    <3>1. u % BlockSize = 0 /\ Len(y) = u
      BY <1>1, <2>2, BlocksCount
    <3> HIDE DEF u
    <3> QED BY <3>1
  <2>4. 2 * BlockSize <= m * BlockSize
    BY <1>1, <1>3, <2>1, BlocksOrder
  <2>5. 2 * BlockSize \in Nat /\ Len(y) >= 2 * BlockSize
    BY <1>1, <2>2, <2>4
  <2> QED BY <2>3, <2>5 DEF Blocks
<1> QED BY <1>2, <1>3

\* A MAC says what it is of.
LEMMA MacIs ==
  ASSUME suite.mac \in Nat, NEW key, NEW seq, NEW type, NEW bytes
  PROVE  /\ List(Mac(key, seq, type, bytes)) /\ Len(Mac(key, seq, type, bytes)) = suite.mac
         /\ \A i \in 1..suite.mac :
              Mac(key, seq, type, bytes)[i] = << <<"mac", key, <<seq, type, Len(bytes)>>, bytes>>, i>>
<1> DEFINE what == <<"mac", key, <<seq, type, Len(bytes)>>, bytes>>
<1>1. Mac(key, seq, type, bytes) = Cells(what, suite.mac)
  BY DEF Mac
<1> HIDE DEF what
<1>2. /\ List(Cells(what, suite.mac)) /\ Len(Cells(what, suite.mac)) = suite.mac
      /\ \A i \in 1..suite.mac : Cells(what, suite.mac)[i] = <<what, i>>
  BY CellsAre
<1> QED BY <1>1, <1>2 DEF what

\* What is left without padding and MAC, and whether the MAC is right.
WithoutMac(plain, pad) == SubSeq(plain, 1, Len(plain) - pad - 1 - suite.mac)

\* With this padding the MAC is found.
MacFits(k, counter, type, plain, pad) ==
  /\ PaddingFits(plain, pad, suite.mac)
  /\ SubSeq(plain, Len(plain) - pad - 1 - suite.mac + 1, Len(plain) - pad - 1)
       = Mac(k.mac, counter, type, WithoutMac(plain, pad))

\* A record with the MAC inside opens or is refused.
LEMMA CbcResult ==
  ASSUME suite.mac \in Nat, NEW k, NEW counter, NEW type, NEW y, Blocks(y), NEW result \in OpenCbc(k, counter, type, y),
         NEW plain, plain = CbcDecrypt(k.key, y), Len(plain) \in Nat, Values(plain[Len(plain)]) \subseteq Int
  PROVE  \E pad \in Values(plain[Len(plain)]) :
           IF MacFits(k, counter, type, plain, pad) THEN result = Opened(type, WithoutMac(plain, pad))
           ELSE result = Refused
<1> DEFINE rest(pad) == Len(plain) - pad - 1
           content(pad) == SubSeq(plain, 1, rest(pad) - suite.mac)
           fits(pad) == PaddingFits(plain, pad, suite.mac)
           right(pad) == SubSeq(plain, rest(pad) - suite.mac + 1, rest(pad)) = Mac(k.mac, counter, type, content(pad))
<1>1. PICK pad \in Values(plain[Len(plain)]) :
         result = IF ~fits(pad) THEN Refused
                  ELSE IF rest(pad) < suite.mac THEN Panic
                  ELSE IF right(pad) THEN Opened(type, content(pad)) ELSE Refused
  BY DEF OpenCbc
<1>2. fits(pad) => ~(rest(pad) < suite.mac)
  <2>1. pad \in Int /\ rest(pad) \in Int
    OBVIOUS
  <2>2. fits(pad) => rest(pad) >= suite.mac
    BY DEF PaddingFits
  <2> HIDE DEF rest
  <2> QED BY <2>1, <2>2
<1>3. IF fits(pad) /\ right(pad) THEN result = Opened(type, content(pad)) ELSE result = Refused
  BY <1>1, <1>2
<1> QED BY <1>3 DEF MacFits, WithoutMac

\* The text of a record with the MAC inside.
MacText(text, k, seq, type, content, p, n) ==
  /\ List(text) /\ Len(text) = n * BlockSize /\ Len(text) = Len(content) + suite.mac + p + 1
  /\ \A q \in 1..Len(content) : text[q] = content[q]
  /\ \A q \in 1..suite.mac :
       text[Len(content) + q] = << <<"mac", k.mac, <<seq, type, Len(content)>>, content>>, q>>
  /\ \A q \in 1..(p + 1) : text[Len(content) + suite.mac + q] = Data(p)

\* Content, MAC and padding are a number of blocks.
LEMMA MacTextMade ==
  ASSUME suite.mac \in Nat, NEW k, NEW seq, NEW type, NEW content, List(content),
         NEW padding \in Paddings(Len(content \o Mac(k.mac, seq, type, content)))
  PROVE  \E p \in 0..MaxByte, n \in Nat :
           n > 0 /\ MacText((content \o Mac(k.mac, seq, type, content)) \o padding, k, seq, type, content, p, n)
<1> DEFINE mac == Mac(k.mac, seq, type, content)
           what == <<"mac", k.mac, <<seq, type, Len(content)>>, content>>
           front == content \o mac
           text == front \o padding
<1>1. List(mac) /\ Len(mac) = suite.mac /\ \A i \in 1..suite.mac : mac[i] = <<what, i>>
  BY MacIs
<1> HIDE DEF mac, what
<1>2. /\ List(front) /\ Len(front) = Len(content) + suite.mac
      /\ \A i \in 1..Len(content) : front[i] = content[i]
      /\ \A i \in 1..suite.mac : front[Len(content) + i] = mac[i]
  <2>1. /\ List(front) /\ Len(front) = Len(content) + Len(mac)
        /\ \A i \in 1..Len(content) : front[i] = content[i]
        /\ \A i \in 1..Len(mac) : front[Len(content) + i] = mac[i]
    BY <1>1, ListConcat, SMTT(30)
  <2> HIDE DEF front
  <2> QED BY <1>1, <2>1
<1>3. padding \in Paddings(Len(front))
  BY DEF mac
<1> HIDE DEF front
<1>4. PICK p \in 0..MaxByte, n \in Nat : n > 0 /\ Padded(text, front, p, n)
  BY <1>2, <1>3, PaddingMade
<1> HIDE DEF text
<1>5. Len(content) \in Nat
  BY DEF List
<1>6. /\ List(text) /\ Len(text) = n * BlockSize /\ Len(text) = Len(front) + p + 1
      /\ \A q \in 1..Len(front) : text[q] = front[q]
      /\ \A q \in 1..(p + 1) : text[Len(front) + q] = Data(p)
  BY <1>4 DEF Padded
<1>7. \A q \in 1..Len(content) : text[q] = content[q]
  BY <1>2, <1>5, <1>6
<1>8. \A q \in 1..suite.mac : text[Len(content) + q] = <<what, q>>
  <2>1. \A q \in 1..suite.mac : Len(content) + q \in 1..Len(front)
    BY <1>2, <1>5
  <2> QED BY <1>1, <1>2, <1>6, <2>1
<1>9. MacText(text, k, seq, type, content, p, n)
  BY <1>2, <1>6, <1>7, <1>8 DEF MacText, what
<1>10. text = (content \o Mac(k.mac, seq, type, content)) \o padding
  BY DEF text, front, mac
<1> QED BY <1>4, <1>9, <1>10

\* A MAC begins nowhere in the text but behind the content.
LEMMA MacPlace ==
  ASSUME suite.mac \in Nat, NEW text, NEW k, NEW seq, NEW type, NEW content, DataBytes(content), NEW p \in Nat, NEW n \in Nat,
         MacText(text, k, seq, type, content, p, n), NEW q \in 1..Len(text), NEW what, what[1] = "mac",
         text[q] = <<what, 1>>
  PROVE  q = Len(content) + 1 /\ what = <<"mac", k.mac, <<seq, type, Len(content)>>, content>>
<1> DEFINE L == Len(content)
           real == <<"mac", k.mac, <<seq, type, L>>, content>>
<1>1. L \in Nat /\ Len(text) = L + suite.mac + p + 1
  BY DEF DataBytes, List, MacText
<1>2. text[q][1][1] = "mac" /\ text[q][1] = what /\ text[q][2] = 1
  OBVIOUS
<1>3. q > L
  <2> SUFFICES ASSUME ~(q > L) PROVE FALSE
    OBVIOUS
  <2>1. q \in 1..L
    BY <1>1
  <2>2. text[q][1][1] = "data"
    BY <2>1 DEF DataBytes, MacText
  <2> QED BY <1>2, <2>2
<1>4. q <= L + suite.mac
  <2> SUFFICES ASSUME ~(q <= L + suite.mac) PROVE FALSE
    OBVIOUS
  <2>1. PICK e \in 1..(p + 1) : q = L + suite.mac + e
    <3>1. q - (L + suite.mac) \in 1..(p + 1) /\ q = L + suite.mac + (q - (L + suite.mac))
      BY <1>1, SMTT(30)
    <3> QED BY <3>1
  <2>2. text[q] = Data(p)
    BY <2>1 DEF MacText
  <2>3. text[q][1][1] = "data"
    BY <2>2, DataIs
  <2> QED BY <1>2, <2>3
<1>5. PICK e \in 1..suite.mac : q = L + e
  <2>1. q - L \in 1..suite.mac /\ q = L + (q - L)
    BY <1>1, <1>3, <1>4
  <2> QED BY <2>1
<1>6. text[q] = <<real, e>>
  BY <1>5 DEF MacText
<1> HIDE DEF real
<1>7. what = real /\ e = 1
  BY <1>2, <1>6
<1> QED BY <1>5, <1>7 DEF real

\* A record that was sent, and a body in which a right MAC is found.
MacSent(x, c, text, k, seq, type, content, p, n) ==
  /\ DataBytes(content) /\ p \in Nat /\ n \in Nat /\ MacText(text, k, seq, type, content, p, n)
  /\ Sealing(x, c, k.key, Cells(<<"nonce", seq>>, BlockSize), text, n)

\* With this padding the MAC is found in a piece of m blocks.
MacFound(y, m, plain, k, counter, type, pad) ==
  /\ m \in Nat /\ m > 0 /\ Len(y) = m * BlockSize + BlockSize /\ plain = CbcDecrypt(k.key, y)
  /\ pad \in Values(plain[Len(plain)]) /\ pad \in Nat /\ MacFits(k, counter, type, plain, pad)

\* The MAC is right only if everything is.
AllRight(whole, right, counter, seq, read, content) == whole /\ right /\ counter = seq /\ read = content

\* Where the MAC is found there is the sender's, in its place, when it is looked for under
\* the sender's key; so the content is what it was made of.
LEMMA MacFitsOnlyThere ==
  ASSUME suite.mac \in Nat \ {0}, NEW right \in BOOLEAN, NEW k, NEW k2, Matching(k, k2, right),
         NEW seq, NEW counter, NEW type, NEW content, NEW p, NEW n, NEW text, NEW c, NEW x,
         MacSent(x, c, text, k, seq, type, content, p, n),
         NEW whole \in BOOLEAN, NEW i, NEW y, NEW m, NEW plain, NEW pad,
         Piece(y, x, i, whole), MacFound(y, m, plain, k2, counter, type, pad)
  PROVE  AllRight(whole, right, counter, seq, WithoutMac(plain, pad), content)
<1> USE DEF MacSent, MacFound
<1> DEFINE B == BlockSize
           iv == Cells(<<"nonce", seq>>, B)
           front == WithoutMac(plain, pad)
           what == <<"mac", k2.mac, <<counter, type, Len(front)>>, front>>
<1>0. PICK L \in Nat, M \in Nat \ {0}, u \in Nat, v \in Nat :
        L = Len(content) /\ M = suite.mac /\ u = m * B /\ v = n * B
  <2>1. B \in Nat \ {0} /\ Len(content) \in Nat
    BY SizesAssumption DEF DataBytes, List
  <2>2. m * B \in Nat /\ n * B \in Nat
    BY <2>1, BlocksCount
  <2> QED BY <2>1, <2>2
<1>1. /\ B \in Nat \ {0}
      /\ List(text) /\ Len(text) = v /\ v = L + M + p + 1
      /\ \A q \in 1..(p + 1) : text[L + M + q] = Data(p)
  BY <1>0, SizesAssumption DEF MacText
<1>2. /\ List(y) /\ i \in Nat /\ i + Len(y) <= Len(x) /\ \A q \in 1..Len(y) : y[q] = x[i + q]
      /\ ~whole => Len(y) < Len(x)
  BY DEF Piece
<1>3. /\ List(plain) /\ Len(plain) = u
      /\ \A q \in 1..u : JunkByte(plain[q]) \/ (k2.key = k.key /\ i + q \in 1..v /\ plain[q] = text[i + q])
  <2>1. Sealing(x, c, k.key, iv, text, n) /\ List(text) /\ Len(text) = n * BlockSize
    BY <1>0, <1>1
  <2>2. Revealed(plain, k.key, k2.key, text, i, m, n)
    BY <1>2, <2>1, CbcPiece
  <2> QED BY <1>0, <2>2 DEF Revealed
<1>4. PICK D \in Nat, cut \in Nat : D = Len(plain) /\ D = cut + M + pad + 1
  <2>1. PICK D \in Nat : D = Len(plain)
    BY <1>1, <1>3
  <2>2. D - pad - 1 >= M
    BY <1>0, <2>1 DEF MacFits, PaddingFits
  <2>3. D - pad - 1 - M \in Nat /\ D = (D - pad - 1 - M) + M + pad + 1
    BY <2>2
  <2> QED BY <2>1, <2>3
<1>5. List(front) /\ Len(front) = cut
  <2>1. 0 \in 0..D /\ cut \in 0..D /\ 0 <= cut /\ cut - 0 = cut /\ 0 + 1 = 1 /\ D - pad - 1 - M = cut
    BY <1>4
  <2>2. front = SubSeq(plain, 0 + 1, cut)
    BY <1>0, <1>4, <2>1 DEF WithoutMac
  <2>3. 0 \in 0..Len(plain) /\ cut \in 0..Len(plain)
    BY <1>4, <2>1
  <2> HIDE DEF front
  <2>4. List(SubSeq(plain, 0 + 1, cut)) /\ Len(SubSeq(plain, 0 + 1, cut)) = cut - 0
    BY <1>3, <2>1, <2>3, ListPart
  <2> QED BY <2>1, <2>2, <2>4
<1>6. plain[cut + 1] = <<what, 1>>
  <2> DEFINE e == cut + M
             piece == SubSeq(plain, cut + 1, e)
             mac == Mac(k2.mac, counter, type, front)
  <2>1. /\ D - pad - 1 - M + 1 = cut + 1 /\ D - pad - 1 = e
        /\ e \in 0..D /\ cut \in 0..D /\ cut <= e /\ 1 \in 1..(e - cut) /\ 1 \in 1..M
    BY <1>4
  <2>2. piece = mac
    BY <1>0, <1>4, <2>1 DEF MacFits
  <2>3. mac[1] = <<what, 1>>
    <3> HIDE DEF front
    <3>1. suite.mac \in Nat /\ 1 \in 1..suite.mac
      BY <1>0, <2>1
    <3>2. \A j \in 1..suite.mac : Mac(k2.mac, counter, type, front)[j]
                                    = << <<"mac", k2.mac, <<counter, type, Len(front)>>, front>>, j>>
      BY <3>1, MacIs
    <3> QED BY <3>1, <3>2
  <2> HIDE DEF mac
  <2>4. piece[1] = plain[cut + 1]
    <3>1. e \in 0..Len(plain) /\ cut \in 0..Len(plain)
      BY <1>4, <2>1
    <3> HIDE DEF e
    <3>2. \A j \in 1..(e - cut) : SubSeq(plain, cut + 1, e)[j] = plain[cut + j]
      BY <1>3, <2>1, <3>1, ListPart
    <3> QED BY <2>1, <3>2
  <2> HIDE DEF piece, what
  <2> QED BY <2>2, <2>3, <2>4
<1>7. what[1] = "mac" /\ what[2] = k2.mac /\ what[3] = <<counter, type, Len(front)>> /\ what[4] = front
  OBVIOUS
<1> HIDE DEF what, front
<1>8. ~JunkByte(plain[cut + 1])
  <2> SUFFICES ASSUME NEW r, plain[cut + 1] = << <<"junk">>, r>> PROVE FALSE
    BY DEF JunkByte
  <2> DEFINE junk == <<"junk">>
  <2>1. junk[1] = "junk"
    OBVIOUS
  <2>2. what = junk
    <3>1. plain[cut + 1] = <<junk, r>>
      OBVIOUS
    <3> HIDE DEF junk
    <3> QED BY <1>6, <3>1
  <2> QED BY <1>7, <2>1, <2>2
<1>9. cut + 1 \in 1..u
  BY <1>3, <1>4
<1> DEFINE at == i + (cut + 1)
<1>10. k2.key = k.key /\ at \in 1..Len(text) /\ text[at] = <<what, 1>>
  BY <1>1, <1>3, <1>6, <1>8, <1>9
<1> DEFINE real == <<"mac", k.mac, <<seq, type, Len(content)>>, content>>
<1>11. at = L + 1 /\ what = real
  <2> HIDE DEF at
  <2>1. what[1] = "mac" /\ suite.mac \in Nat
    BY <1>7
  <2>2. at = Len(content) + 1 /\ what = real
    BY <1>10, <2>1, MacPlace
  <2> QED BY <1>0, <2>2
<1>12. k2.mac = k.mac /\ <<counter, type, Len(front)>> = <<seq, type, Len(content)>> /\ front = content
  BY <1>7, <1>11
<1>13. counter = seq /\ Len(front) = L
  BY <1>0, <1>12
<1>14. right /\ k2 = k
  BY <1>12 DEF Matching
<1>15. i = 0 /\ cut = L
  <2>1. cut = L
    BY <1>5, <1>13
  <2>2. i + (L + 1) = L + 1
    BY <1>11, <2>1
  <2>3. i \in Nat
    BY <1>2
  <2> QED BY <2>1, <2>2, <2>3
<1>16. whole
  <2> SUFFICES ASSUME ~whole PROVE FALSE
    OBVIOUS
  <2>1. Len(y) < Len(x) /\ Len(x) = v + B /\ Len(y) = u + B
    BY <1>0, <1>2 DEF Sealing
  <2>2. u < v
    BY <1>1, <2>1
  <2>3. m \in 0..n
    <3>1. n <= m => v <= u
      BY <1>0, <1>1, BlocksOrder
    <3> QED BY <2>2, <3>1
  <2>4. \A q \in 1..Len(y) : y[q] = x[q]
    <3>1. \A q \in 1..Len(y) : 0 + q = q
      BY <1>1
    <3> QED BY <1>2, <1>15, <3>1
  <2>5. List(iv) /\ Len(iv) = B
    BY <1>1, CellsAre
  <2>6. \A q \in 1..u : plain[q] = text[q]
    <3>1. Sealing(x, c, k.key, iv, text, n) /\ plain = CbcDecrypt(k.key, y) /\ List(y)
      BY <1>2, <1>14
    <3>2. List(text) /\ Len(text) = n * BlockSize /\ Len(iv) = BlockSize
      BY <1>0, <1>1, <2>5
    <3> HIDE DEF iv
    <3>3. Begins(y, x, m * BlockSize + BlockSize)
      BY <2>4, <3>1 DEF Begins
    <3>4. Begins(plain, text, m * BlockSize)
      BY <2>3, <2>5, <3>1, <3>2, <3>3, CbcExact
    <3> QED BY <1>0, <3>4 DEF Begins
  <2>7. D \in 1..u /\ D = L + M + (pad + 1)
    BY <1>3, <1>4, <1>15
  <2>8. pad + 1 \in 1..(p + 1)
    BY <1>1, <2>2, <2>7
  <2>9. plain[D] = Data(p)
    BY <1>1, <2>6, <2>7, <2>8
  <2>10. pad = p
    BY <1>4, <2>9, DataIs
  <2> QED BY <1>1, <1>3, <1>4, <2>2, <2>7, <2>10
<1> QED BY <1>12, <1>13, <1>14, <1>16 DEF front, AllRight

\* The padding byte stands for a number that can be a length.
LEMMA PadIs ==
  ASSUME NEW byte, JunkByte(byte) \/ byte[1][1] # "data" \/ \E v \in 0..MaxByte : byte = Data(v)
  PROVE  Values(byte) \subseteq 0..MaxByte
<1>1. CASE JunkByte(byte)
  <2>1. PICK r : byte = << <<"junk">>, r>>
    BY <1>1 DEF JunkByte
  <2>2. byte[1][1] = "junk"
    BY <2>1
  <2> QED BY <2>2 DEF Values
<1>2. CASE byte[1][1] # "data"
  BY <1>2 DEF Values
<1>3. CASE \E v \in 0..MaxByte : byte = Data(v)
  BY <1>3, DataIs
<1> QED BY <1>1, <1>2, <1>3

\* Every byte of a text with a MAC has such a value.
LEMMA MacTextBytes ==
  ASSUME suite.mac \in Nat, NEW k, NEW seq, NEW type, NEW content, DataBytes(content), NEW p \in 0..MaxByte, NEW n \in Nat,
         NEW text, MacText(text, k, seq, type, content, p, n), NEW q \in 1..Len(text)
  PROVE  Values(text[q]) \subseteq 0..MaxByte
<1>1. PICK L \in Nat, M \in Nat, z \in Nat : L = Len(content) /\ M = suite.mac /\ z = p /\ Len(text) = L + M + z + 1
  BY ContentsAssumption DEF DataBytes, List, MacText
<1>0. Len(text) = L + M + z + 1 /\ q \in 1..(L + M + z + 1)
  BY <1>1
<1>2. CASE q <= L
  <2>1. q \in 1..Len(content)
    BY <1>1, <1>2
  <2>2. text[q] = content[q] /\ content[q][1][1] = "data" /\ content[q][2] \in 0..MaxByte
    BY <2>1 DEF MacText, DataBytes
  <2> QED BY <2>2 DEF Values
<1>3. CASE q > L /\ q <= L + M
  <2>1. PICK e \in 1..suite.mac : q = L + e
    <3>1. q - L \in 1..M /\ q = L + (q - L)
      BY <1>1, <1>3
    <3> QED BY <1>1, <3>1
  <2> DEFINE what == <<"mac", k.mac, <<seq, type, Len(content)>>, content>>
  <2>2. text[q] = <<what, e>>
    BY <1>1, <2>1 DEF MacText
  <2>3. what[1] = "mac"
    OBVIOUS
  <2> HIDE DEF what
  <2>4. text[q][1][1] # "data"
    BY <2>2, <2>3
  <2> QED BY <2>4, PadIs
<1>4. CASE q > L + M
  <2>1. PICK e \in 1..(p + 1) : q = L + M + e
    <3>1. q - (L + M) \in 1..(z + 1) /\ q = L + M + (q - (L + M))
      BY <1>0, <1>4
    <3> QED BY <1>1, <3>1
  <2>2. text[q] = Data(p)
    BY <1>1, <2>1 DEF MacText
  <2> QED BY <2>2, PadIs
<1>5. q <= L \/ (q > L /\ q <= L + M) \/ q > L + M
  BY <1>1
<1> QED BY <1>2, <1>3, <1>4, <1>5

\* The whole record decrypts to a text whose MAC is right.
MacThere(text, k, seq, type, content, p) ==
  Values(text[Len(text)]) = {p} /\ MacFits(k, seq, type, text, p) /\ WithoutMac(text, p) = content

\* The whole text, decrypted under its key, has the MAC where its padding says.
LEMMA MacFitsThere ==
  ASSUME suite.mac \in Nat, NEW k, NEW seq, NEW type, NEW content, DataBytes(content), NEW p \in Nat, NEW n \in Nat, n > 0,
         NEW text, MacText(text, k, seq, type, content, p, n)
  PROVE  MacThere(text, k, seq, type, content, p)
<1>1. PICK L \in Nat, M \in Nat, D \in Nat : L = Len(content) /\ M = suite.mac /\ D = Len(text) /\ D = L + M + p + 1
  BY DEF DataBytes, List, MacText
<1>0. D = L + M + p + 1
  BY <1>1
<1>2. /\ List(text) /\ List(content)
      /\ \A q \in 1..L : text[q] = content[q]
      /\ \A q \in 1..(p + 1) : text[L + M + q] = Data(p)
  BY <1>1 DEF MacText, DataBytes
<1>3. Values(text[D]) = {p}
  <2>1. p + 1 \in 1..(p + 1) /\ D = L + M + (p + 1)
    BY <1>0
  <2> QED BY <1>2, <2>1, DataIs
<1>4. /\ D - p - 1 - M = L /\ D - p - 1 = L + M /\ L + 1 = 1 + L
      /\ 0 \in 0..D /\ L \in 0..D /\ L + M \in 0..D /\ 0 <= L /\ L <= L + M /\ L - 0 = L /\ L + M - L = M /\ 0 + 1 = 1
  BY <1>0
<1>5. WithoutMac(text, p) = content
  <2> DEFINE front == SubSeq(text, 0 + 1, L)
  <2>1. List(front) /\ Len(front) = L /\ \A q \in 1..L : front[q] = text[0 + q]
    <3>1. 0 \in 0..Len(text) /\ L \in 0..Len(text)
      BY <1>1, <1>4
    <3>2. /\ List(SubSeq(text, 0 + 1, L)) /\ Len(SubSeq(text, 0 + 1, L)) = L - 0
          /\ \A q \in 1..(L - 0) : SubSeq(text, 0 + 1, L)[q] = text[0 + q]
      BY <1>2, <1>4, <3>1, ListPart
    <3> QED BY <1>4, <3>2
  <2>2. \A q \in 1..L : front[q] = content[q]
    <3>1. \A q \in 1..L : 0 + q = q
      OBVIOUS
    <3> QED BY <1>2, <2>1, <3>1
  <2>3. WithoutMac(text, p) = front
    BY <1>1, <1>4 DEF WithoutMac
  <2> HIDE DEF front
  <2> QED BY <1>1, <1>2, <2>1, <2>2, <2>3, ListEqual
<1>6. SubSeq(text, L + 1, L + M) = Mac(k.mac, seq, type, content)
  <2> DEFINE mac == Mac(k.mac, seq, type, content)
             piece == SubSeq(text, L + 1, L + M)
             what == <<"mac", k.mac, <<seq, type, Len(content)>>, content>>
  <2>1. List(mac) /\ Len(mac) = M /\ \A i \in 1..M : mac[i] = <<what, i>>
    BY <1>1, MacIs, SMTT(30)
  <2>2. \A i \in 1..M : text[L + i] = <<what, i>>
    BY <1>1 DEF MacText
  <2>3. List(piece) /\ Len(piece) = M /\ \A i \in 1..M : piece[i] = text[L + i]
    <3>1. L \in 0..Len(text) /\ L + M \in 0..Len(text)
      BY <1>1, <1>4
    <3>2. PICK e : e = L + M
      OBVIOUS
    <3>3. /\ List(SubSeq(text, L + 1, e)) /\ Len(SubSeq(text, L + 1, e)) = e - L
          /\ \A i \in 1..(e - L) : SubSeq(text, L + 1, e)[i] = text[L + i]
      BY <1>2, <1>4, <3>1, <3>2, ListPart
    <3>4. piece = SubSeq(text, L + 1, e) /\ e - L = M
      BY <1>4, <3>2
    <3> HIDE DEF piece
    <3> QED BY <3>3, <3>4
  <2> HIDE DEF mac, piece, what
  <2>4. piece = mac
    BY <2>1, <2>2, <2>3, ListEqual
  <2> QED BY <2>4 DEF piece, mac
<1>7. PaddingFits(text, p, suite.mac)
  BY <1>1, SMTT(30) DEF PaddingFits
<1> QED BY <1>1, <1>3, <1>4, <1>5, <1>6, <1>7 DEF MacFits, MacThere

\* That is what is encrypted when the MAC goes inside.
MacSealed(x, text, k, seq, type, content, p, n) ==
  LET iv == Cells(<<"nonce", seq>>, BlockSize)
  IN  n > 0 /\ MacText(text, k, seq, type, content, p, n) /\ x = iv \o CbcEncrypt(k.key, iv, text)

\* A record with the MAC inside is such a text encrypted.
LEMMA MacTextSealed ==
  ASSUME suite.kind = "cbc", agreed = "macFirst", suite.mac \in Nat,
         NEW k, NEW seq, NEW type, NEW content, List(content), NEW x \in Sealed(k, seq, type, content)
  PROVE  \E text : \E p \in 0..MaxByte, n \in Nat : MacSealed(x, text, k, seq, type, content, p, n)
<1> DEFINE iv == Cells(<<"nonce", seq>>, BlockSize)
           front == content \o Mac(k.mac, seq, type, content)
<1>1. PICK padding \in Paddings(Len(front)) : x = iv \o CbcEncrypt(k.key, iv, front \o padding)
  BY DEF Sealed
<1>2. \E p \in 0..MaxByte, n \in Nat : n > 0 /\ MacText(front \o padding, k, seq, type, content, p, n)
  BY MacTextMade
<1> HIDE DEF iv, front
<1>3. PICK p \in 0..MaxByte, n \in Nat : n > 0 /\ MacText(front \o padding, k, seq, type, content, p, n)
  BY <1>2
<1> DEFINE text == front \o padding
<1>4. n > 0 /\ MacText(text, k, seq, type, content, p, n) /\ x = iv \o CbcEncrypt(k.key, iv, text)
  BY <1>1, <1>3
<1> HIDE DEF text
<1>5. MacSealed(x, text, k, seq, type, content, p, n)
  BY <1>4 DEF MacSealed, iv
<1> QED BY <1>5

\* A CBC record with the MAC inside opens as it should.
LEMMA CbcOpens ==
  ASSUME suite.kind = "cbc", agreed = "macFirst", suite.mac \in Nat \ {0},
         NEW right \in BOOLEAN, NEW k, NEW k2, Matching(k, k2, right),
         NEW seq, NEW counter, NEW type, NEW content, DataBytes(content), NEW x \in Sealed(k, seq, type, content),
         NEW whole \in BOOLEAN, NEW y, Framed(y, x, whole), NEW result \in OpenCbc(k2, counter, type, y)
  PROVE  Good(result, whole /\ right /\ counter = seq, type, content)
<1> DEFINE B == BlockSize
           iv == Cells(<<"nonce", seq>>, B)
           ok == whole /\ right /\ counter = seq
<1>1. B \in Nat \ {0} /\ List(content) /\ suite.mac \in Nat
  BY SizesAssumption DEF DataBytes
<1>4. PICK text : \E p \in 0..MaxByte, n \in Nat : MacSealed(x, text, k, seq, type, content, p, n)
  BY <1>1, MacTextSealed
<1>2. PICK p \in 0..MaxByte, n \in Nat : MacSealed(x, text, k, seq, type, content, p, n)
  BY <1>4
<1>3. n > 0 /\ MacText(text, k, seq, type, content, p, n) /\ x = iv \o CbcEncrypt(k.key, iv, text)
  BY <1>2 DEF MacSealed
<1>5. /\ MacText(text, k, seq, type, content, p, n) /\ x = iv \o CbcEncrypt(k.key, iv, text)
      /\ List(text) /\ Len(text) = n * BlockSize /\ p \in Nat
  <2>1. p \in Nat
    BY ContentsAssumption
  <2> HIDE DEF iv
  <2> QED BY <1>3, <2>1 DEF MacText
<1>6. List(iv) /\ Len(iv) = BlockSize
  BY <1>1, CellsAre
<1>7. PICK c : Sealing(x, c, k.key, iv, text, n)
  BY <1>5, <1>6, CbcSealing
<1>8. List(x) /\ Len(x) = n * BlockSize + BlockSize
  BY <1>7 DEF Sealing
<1>9. PICK i : Piece(y, x, i, whole)
  BY <1>8, FramedIsPiece
<1>10. /\ List(y) /\ i \in Nat /\ i + Len(y) <= Len(x) /\ \A q \in 1..Len(y) : y[q] = x[i + q]
       /\ whole => y = x
  BY <1>9 DEF Piece
<1>11. ok => Blocks(y)
  BY <1>3, <1>8, <1>10, BlocksAre
<1>12. CASE ~Blocks(y)
  <2>1. result = Refused
    BY <1>12 DEF OpenCbc
  <2> QED BY <1>11, <1>12, <2>1, GoodRefused
<1>13. CASE Blocks(y)
  <2>1. PICK m \in Nat : m > 0 /\ Len(y) = m * BlockSize + BlockSize
    BY <1>10, <1>13, BlocksAre
  <2>9. PICK plain : plain = CbcDecrypt(k2.key, y)
    OBVIOUS
  <2>10. PICK D : D = Len(plain)
    OBVIOUS
  <2>2. Revealed(plain, k.key, k2.key, text, i, m, n)
    <3>1. List(text) /\ Len(text) = n * BlockSize /\ List(y) /\ i \in Nat
      BY <1>5, <1>10
    <3> QED BY <1>7, <1>10, <2>1, <2>9, <3>1, CbcPiece
  <2>3. D = m * B /\ D \in Nat /\ D \in 1..(m * B)
    <3>1. m * B \in Nat /\ m * B >= B
      BY <1>1, <2>1, BlocksCount
    <3>2. D = m * B
      BY <2>2, <2>10 DEF Revealed
    <3> DEFINE u == m * B
    <3>3. u \in Nat /\ u >= B /\ D = u
      BY <3>1, <3>2
    <3> HIDE DEF u
    <3>4. D \in Nat /\ D \in 1..u
      BY <1>1, <3>3
    <3> QED BY <3>2, <3>4 DEF u
  <2>4. Values(plain[D]) \subseteq 0..MaxByte
    <3>1. JunkByte(plain[D]) \/ \E q \in 1..(n * B) : plain[D] = text[q]
      BY <2>2, <2>3 DEF Revealed
    <3>2. CASE JunkByte(plain[D])
      BY <3>2, PadIs
    <3>3. CASE \E q \in 1..(n * B) : plain[D] = text[q]
      BY <1>1, <1>5, <3>3, MacTextBytes
    <3> QED BY <3>1, <3>2, <3>3
  <2>5. PICK pad \in Values(plain[D]) :
          IF MacFits(k2, counter, type, plain, pad) THEN result = Opened(type, WithoutMac(plain, pad))
          ELSE result = Refused
    <3>1. \A v \in 0..MaxByte : v \in Int
      BY ContentsAssumption
    <3>2. Values(plain[Len(plain)]) \subseteq Int /\ Len(plain) \in Nat
      BY <2>3, <2>4, <2>10, <3>1
    <3>3. \E pad \in Values(plain[Len(plain)]) :
            IF MacFits(k2, counter, type, plain, pad) THEN result = Opened(type, WithoutMac(plain, pad))
            ELSE result = Refused
      BY <1>1, <1>13, <2>9, <3>2, CbcResult
    <3> QED BY <2>10, <3>3
  <2>6. pad \in Nat
    <3>1. pad \in 0..MaxByte
      BY <2>4
    <3> QED BY <3>1, ContentsAssumption
  <2>7. CASE MacFits(k2, counter, type, plain, pad)
    <3>1. ok /\ WithoutMac(plain, pad) = content
      <4>1. MacFound(y, m, plain, k2, counter, type, pad)
        BY <2>1, <2>6, <2>7, <2>9, <2>10 DEF MacFound
      <4> HIDE DEF B
      <4>2. Sealing(x, c, k.key, Cells(<<"nonce", seq>>, BlockSize), text, n)
        BY <1>7 DEF B
      <4> HIDE DEF iv, ok
      <4>4. p \in Nat
        BY <1>5
      <4>3. AllRight(whole, right, counter, seq, WithoutMac(plain, pad), content)
        <5>1. MacSent(x, c, text, k, seq, type, content, p, n)
          BY <1>3, <4>2, <4>4 DEF MacSent
        <5> QED BY <1>9, <4>1, <5>1, MacFitsOnlyThere
      <4> QED BY <4>3 DEF ok, AllRight
    <3>2. result = Opened(type, content)
      BY <2>5, <2>7, <3>1
    <3> QED BY <3>1, <3>2, GoodOpened
  <2>8. CASE ~MacFits(k2, counter, type, plain, pad)
    <3>1. result = Refused
      BY <2>5, <2>8
    <3>2. ~ok
      <4> SUFFICES ASSUME ok PROVE FALSE
        OBVIOUS
      <4>1. y = x /\ k2 = k /\ counter = seq
        BY <1>10 DEF Matching
      <4>2. Begins(y, x, n * BlockSize + BlockSize) /\ n \in 0..n
        <5>1. n \in 0..n
          OBVIOUS
        <5> QED BY <1>8, <4>1, <5>1 DEF Begins
      <4>3. Begins(CbcDecrypt(k.key, y), text, n * BlockSize)
        BY <1>5, <1>6, <1>7, <4>2, CbcExact
      <4>4. plain = text
        <5>1. List(plain) /\ Len(plain) = n * BlockSize /\ \A q \in 1..(n * BlockSize) : plain[q] = text[q]
          BY <2>9, <4>1, <4>3 DEF Begins
        <5> QED BY <1>5, <5>1, ListEqual
      <4>5. Values(text[Len(text)]) = {p} /\ MacFits(k, seq, type, text, p)
        <5>1. p \in Nat /\ n > 0 /\ MacText(text, k, seq, type, content, p, n) /\ suite.mac \in Nat
          BY <1>1, <1>3, <1>5
        <5> HIDE DEF iv, ok
        <5>2. MacThere(text, k, seq, type, content, p)
          BY <5>1, MacFitsThere
        <5> QED BY <5>2 DEF MacThere
      <4>6. pad = p
        <5>1. pad \in Values(plain[Len(plain)])
          BY <2>10
        <5> QED BY <4>4, <4>5, <5>1
      <4> QED BY <2>8, <4>1, <4>4, <4>5, <4>6
    <3> QED BY <3>1, <3>2, GoodRefused
  <2> QED BY <2>7, <2>8
<1> QED BY <1>12, <1>13

\* Neither an IV nor an encrypted block holds a MAC.
LEMMA SealingBytes ==
  ASSUME NEW x, NEW c, NEW key, NEW s, NEW plain, NEW n \in Nat,
         Sealing(x, c, key, Cells(<<"nonce", s>>, BlockSize), plain, n), NEW q \in 1..Len(x)
  PROVE  x[q][1][1] # "mac"
<1> DEFINE B == BlockSize
           iv == Cells(<<"nonce", s>>, B)
<1>1. B \in Nat \ {0} /\ Len(x) = (n + 1) * B
  <2>1. B \in Nat \ {0} /\ Len(x) = n * B + B
    BY SizesAssumption DEF Sealing
  <2> QED BY <2>1, BlocksCount
<1>2. /\ \A j \in 0..n : c[j] = IF j = 0 THEN iv ELSE Cells(<<"block", key, Block(plain, j), c[j - 1]>>, B)
      /\ \A j \in 0..n, r \in 1..B : x[j * B + r] = c[j][r]
  BY DEF Sealing, Chains
<1> HIDE DEF B, iv
<1>3. PICK e \in 1..(n + 1), r \in 1..B : q = (e - 1) * B + r
  <2>1. PICK m \in Nat : m = n + 1
    OBVIOUS
  <2>2. q \in 1..(m * B)
    BY <1>1, <2>1
  <2>3. \E e \in 1..m, r \in 1..B : q = (e - 1) * B + r
    BY <1>1, <2>2, InBlock
  <2> QED BY <2>1, <2>3
<1>4. PICK a \in 0..n : a = e - 1
  BY <1>3
<1>5. x[q] = c[a][r]
  BY <1>2, <1>3, <1>4
<1>6. PICK w : c[a] = Cells(w, B) /\ w = IF a = 0 THEN <<"nonce", s>> ELSE <<"block", key, Block(plain, a), c[a - 1]>>
  BY <1>2 DEF iv
<1>7. x[q] = <<w, r>>
  BY <1>1, <1>5, <1>6, CellsAre
<1>8. w[1] # "mac"
  <2>1. CASE a = 0
    <3>1. w = <<"nonce", s>>
      BY <1>6, <2>1
    <3> QED BY <3>1
  <2>2. CASE a # 0
    <3>1. w = <<"block", key, Block(plain, a), c[a - 1]>>
      BY <1>6, <2>2
    <3> QED BY <3>1
  <2> QED BY <2>1, <2>2
<1> QED BY <1>7, <1>8

\* A record with its MAC behind what is encrypted, and a body that ends with a right MAC.
EtmSent(x, front, c, text, k, seq, type, n) ==
  /\ n \in Nat /\ Sealing(front, c, k.key, Cells(<<"nonce", seq>>, BlockSize), text, n)
  /\ x = front \o Mac(k.mac, seq, type, front)

\* The record without the MAC behind it.
WithoutTag(y) == SubSeq(y, 1, Len(y) - suite.mac)

\* The MAC is found behind what it covers.
EtmFound(y, k, counter, type) ==
  /\ Len(y) >= suite.mac
  /\ SubSeq(y, Len(y) - suite.mac + 1, Len(y)) = Mac(k.mac, counter, type, WithoutTag(y))

\* The MAC is right only if everything is.
LEMMA EtmOnlyThere ==
  ASSUME suite.mac \in Nat \ {0}, NEW right \in BOOLEAN, NEW k, NEW k2, Matching(k, k2, right),
         NEW seq, NEW counter, NEW type, NEW x, NEW front, NEW c, NEW text, NEW n,
         EtmSent(x, front, c, text, k, seq, type, n),
         NEW whole \in BOOLEAN, NEW i, NEW y, Piece(y, x, i, whole), EtmFound(y, k2, counter, type)
  PROVE  AllRight(whole, right, counter, seq, WithoutTag(y), front)
<1> DEFINE mac == Mac(k.mac, seq, type, front)
           before == WithoutTag(y)
           what == <<"mac", k2.mac, <<counter, type, Len(before)>>, before>>
           real == <<"mac", k.mac, <<seq, type, Len(front)>>, front>>
<1>1. /\ n \in Nat /\ List(front) /\ x = front \o mac
      /\ Sealing(front, c, k.key, Cells(<<"nonce", seq>>, BlockSize), text, n)
  BY DEF EtmSent, Sealing
<1>2. PICK L \in Nat, M \in Nat \ {0} : L = Len(front) /\ M = suite.mac
  BY <1>1 DEF List
<1>3. List(mac) /\ Len(mac) = M /\ \A j \in 1..M : mac[j] = <<real, j>>
  BY <1>2, MacIs
<1> HIDE DEF mac
<1>4. /\ Len(x) = L + M
      /\ \A j \in 1..L : x[j] = front[j]
      /\ \A j \in 1..M : x[L + j] = <<real, j>>
  <2>1. /\ Len(front \o mac) = Len(front) + Len(mac)
        /\ \A j \in 1..Len(front) : (front \o mac)[j] = front[j]
        /\ \A j \in 1..Len(mac) : (front \o mac)[Len(front) + j] = mac[j]
    <3>1. List(front) /\ List(mac)
      BY <1>1, <1>3
    <3> QED BY <3>1, ListConcat
  <2> HIDE DEF real
  <2> QED BY <1>1, <1>2, <1>3, <2>1
<1>5. /\ List(y) /\ i \in Nat /\ i + Len(y) <= Len(x) /\ \A q \in 1..Len(y) : y[q] = x[i + q]
      /\ ~whole => Len(y) < Len(x)
  BY DEF Piece
<1>6. PICK D \in Nat, cut \in Nat : D = Len(y) /\ D = cut + M
  <2>1. PICK D \in Nat : D = Len(y)
    BY <1>5 DEF List
  <2>2. D >= M
    BY <1>2, <2>1 DEF EtmFound
  <2>3. D - M \in Nat /\ D = (D - M) + M
    BY <2>2
  <2> QED BY <2>1, <2>3
<1>7. List(before) /\ Len(before) = cut
  <2>1. 0 \in 0..D /\ cut \in 0..D /\ 0 <= cut /\ cut - 0 = cut /\ 0 + 1 = 1 /\ D - M = cut
    BY <1>6
  <2>2. before = SubSeq(y, 0 + 1, cut)
    BY <1>2, <1>6, <2>1 DEF WithoutTag
  <2>3. 0 \in 0..Len(y) /\ cut \in 0..Len(y)
    BY <1>6, <2>1
  <2> HIDE DEF before
  <2>4. List(SubSeq(y, 0 + 1, cut)) /\ Len(SubSeq(y, 0 + 1, cut)) = cut - 0
    BY <1>5, <2>1, <2>3, ListPart
  <2> QED BY <2>1, <2>2, <2>4
<1>8. y[cut + 1] = <<what, 1>>
  <2> DEFINE piece == SubSeq(y, cut + 1, D)
             mac2 == Mac(k2.mac, counter, type, before)
  <2>1. D - M + 1 = cut + 1 /\ D \in 0..D /\ cut \in 0..D /\ cut <= D /\ 1 \in 1..(D - cut) /\ 1 \in 1..M
    BY <1>6
  <2>2. piece = mac2
    BY <1>2, <1>6, <2>1 DEF EtmFound
  <2>3. mac2[1] = <<what, 1>>
    <3> HIDE DEF before
    <3>1. suite.mac \in Nat /\ 1 \in 1..suite.mac
      BY <1>2, <2>1
    <3>2. \A j \in 1..suite.mac : Mac(k2.mac, counter, type, before)[j]
                                    = << <<"mac", k2.mac, <<counter, type, Len(before)>>, before>>, j>>
      BY <3>1, MacIs
    <3> QED BY <3>1, <3>2
  <2> HIDE DEF mac2
  <2>4. piece[1] = y[cut + 1]
    <3>1. D \in 0..Len(y) /\ cut \in 0..Len(y)
      BY <1>6, <2>1
    <3>2. \A j \in 1..(D - cut) : SubSeq(y, cut + 1, D)[j] = y[cut + j]
      BY <1>5, <2>1, <3>1, ListPart
    <3> QED BY <2>1, <3>2
  <2> HIDE DEF piece, what
  <2> QED BY <2>2, <2>3, <2>4
<1>9. what[1] = "mac" /\ what[2] = k2.mac /\ what[3] = <<counter, type, Len(before)>> /\ what[4] = before
  OBVIOUS
<1> HIDE DEF what, before
<1> DEFINE at == i + (cut + 1)
<1>10. at \in 1..(L + M) /\ x[at] = <<what, 1>>
  <2>1. cut + 1 \in 1..Len(y)
    BY <1>6
  <2>2. at \in 1..(L + M)
    BY <1>4, <1>5, <1>6
  <2> HIDE DEF what
  <2> QED BY <1>5, <1>8, <2>1, <2>2
<1> HIDE DEF at
<1>11. at > L
  <2> SUFFICES ASSUME ~(at > L) PROVE FALSE
    OBVIOUS
  <2>1. at \in 1..Len(front) /\ at \in 1..L
    BY <1>2, <1>10
  <2>2. front[at][1][1] # "mac"
    BY <1>1, <2>1, SealingBytes
  <2>3. front[at] = <<what, 1>>
    BY <1>4, <1>10, <2>1
  <2> QED BY <1>9, <2>2, <2>3
<1>12. PICK e \in 1..M : at = L + e
  <2>1. at - L \in 1..M /\ at = L + (at - L)
    BY <1>10, <1>11
  <2> QED BY <2>1
<1>13. what = real /\ e = 1
  <2> HIDE DEF real
  <2>1. x[at] = <<real, e>>
    BY <1>4, <1>12
  <2> QED BY <1>10, <2>1
<1>14. k2.mac = k.mac /\ <<counter, type, Len(before)>> = <<seq, type, Len(front)>> /\ before = front
  BY <1>9, <1>13
<1>15. counter = seq /\ cut = L
  BY <1>2, <1>7, <1>14
<1>16. right
  BY <1>14 DEF Matching
<1>17. whole
  <2> SUFFICES ASSUME ~whole PROVE FALSE
    OBVIOUS
  <2>1. D < L + M
    BY <1>4, <1>5, <1>6
  <2> QED BY <1>6, <1>15, <2>1
<1> QED BY <1>14, <1>15, <1>16, <1>17 DEF AllRight, before

\* What is behind padding is the content.
LEMMA PaddedFits ==
  ASSUME NEW text, NEW content, List(content), NEW p \in Nat, NEW n, Padded(text, content, p, n)
  PROVE  /\ Values(text[Len(text)]) = {p} /\ PaddingFits(text, p, 0)
         /\ SubSeq(text, 1, Len(text) - p - 1) = content
<1>1. PICK L \in Nat, D \in Nat : L = Len(content) /\ D = Len(text) /\ D = L + p + 1
  BY DEF List, Padded
<1>2. /\ List(text) /\ \A q \in 1..L : text[q] = content[q]
      /\ \A q \in 1..(p + 1) : text[L + q] = Data(p)
  BY <1>1 DEF Padded
<1>3. D = L + p + 1
  BY <1>1
<1>4. /\ p + 1 \in 1..(p + 1) /\ D = L + (p + 1) /\ D - p - 1 = L /\ p + 1 <= D
      /\ 0 \in 0..D /\ L \in 0..D /\ 0 <= L /\ L - 0 = L /\ 0 + 1 = 1 /\ L >= 0
  BY <1>3
<1>5. Values(text[D]) = {p}
  BY <1>2, <1>4, DataIs
<1>6. PaddingFits(text, p, 0)
  BY <1>1, <1>4 DEF PaddingFits
<1> DEFINE front == SubSeq(text, 0 + 1, L)
<1>7. List(front) /\ Len(front) = L /\ \A q \in 1..L : front[q] = text[0 + q]
  <2>1. 0 \in 0..Len(text) /\ L \in 0..Len(text)
    BY <1>1, <1>4
  <2>2. /\ List(SubSeq(text, 0 + 1, L)) /\ Len(SubSeq(text, 0 + 1, L)) = L - 0
        /\ \A q \in 1..(L - 0) : SubSeq(text, 0 + 1, L)[q] = text[0 + q]
    BY <1>2, <1>4, <2>1, ListPart
  <2> QED BY <1>4, <2>2
<1>8. \A q \in 1..L : front[q] = content[q]
  <2>1. \A q \in 1..L : 0 + q = q
    OBVIOUS
  <2> QED BY <1>2, <1>7, <2>1
<1>9. SubSeq(text, 1, D - p - 1) = front
  BY <1>4
<1> HIDE DEF front
<1>10. front = content
  BY <1>1, <1>7, <1>8, ListEqual
<1> QED BY <1>1, <1>5, <1>6, <1>9, <1>10

\* A CBC record with the MAC outside opens as it should.
LEMMA CbcEtmOpens ==
  ASSUME suite.kind = "cbc", agreed = "encryptFirst", suite.mac \in Nat \ {0},
         NEW right \in BOOLEAN, NEW k, NEW k2, Matching(k, k2, right),
         NEW seq, NEW counter, NEW type, NEW content, List(content), NEW x \in Sealed(k, seq, type, content),
         NEW whole \in BOOLEAN, NEW y, Framed(y, x, whole), NEW result \in OpenCbcEtm(k2, counter, type, y)
  PROVE  Good(result, whole /\ right /\ counter = seq, type, content)
<1> DEFINE iv == Cells(<<"nonce", seq>>, BlockSize)
           ok == whole /\ right /\ counter = seq
<1>1. BlockSize \in Nat \ {0} /\ suite.mac \in Nat /\ List(iv) /\ Len(iv) = BlockSize
  BY SizesAssumption, CellsAre
<1>2. PICK padding \in Paddings(Len(content)) :
        x = LET front == iv \o CbcEncrypt(k.key, iv, content \o padding)
            IN  front \o Mac(k.mac, seq, type, front)
  BY DEF Sealed
<1>3. PICK p \in 0..MaxByte, n \in Nat : n > 0 /\ Padded(content \o padding, content, p, n)
  BY PaddingMade
<1>4. PICK text, front : /\ text = content \o padding /\ front = iv \o CbcEncrypt(k.key, iv, text)
                         /\ x = front \o Mac(k.mac, seq, type, front)
  BY <1>2
<1>5. Padded(text, content, p, n) /\ List(text) /\ Len(text) = n * BlockSize /\ p \in Nat
  <2>1. Padded(text, content, p, n)
    BY <1>3, <1>4
  <2>2. p \in Nat
    BY ContentsAssumption
  <2> HIDE DEF iv
  <2> QED BY <2>1, <2>2 DEF Padded
<1>6. PICK c : Sealing(front, c, k.key, iv, text, n)
  BY <1>1, <1>4, <1>5, CbcSealing
<1>7. List(front) /\ Len(front) = n * BlockSize + BlockSize
  BY <1>6 DEF Sealing
<1>8. EtmSent(x, front, c, text, k, seq, type, n)
  BY <1>4, <1>6 DEF EtmSent
<1> DEFINE mac == Mac(k.mac, seq, type, front)
<1>9. List(mac) /\ Len(mac) = suite.mac
  BY <1>1, MacIs
<1>10. /\ List(x) /\ Len(x) = Len(front) + suite.mac
       /\ \A j \in 1..Len(front) : x[j] = front[j]
       /\ \A j \in 1..suite.mac : x[Len(front) + j] = mac[j]
  <2> HIDE DEF mac
  <2>1. /\ List(front \o mac) /\ Len(front \o mac) = Len(front) + Len(mac)
        /\ \A j \in 1..Len(front) : (front \o mac)[j] = front[j]
        /\ \A j \in 1..Len(mac) : (front \o mac)[Len(front) + j] = mac[j]
    <3>1. List(front) /\ List(mac)
      BY <1>7, <1>9
    <3> QED BY <3>1, ListConcat
  <2>2. x = front \o mac
    BY <1>4 DEF mac
  <2> QED BY <1>9, <2>1, <2>2
<1> HIDE DEF mac
<1>11. PICK i : Piece(y, x, i, whole)
  BY <1>10, FramedIsPiece
<1> DEFINE found == EtmFound(y, k2, counter, type) /\ Blocks(WithoutTag(y))
<1>12. found => AllRight(whole, right, counter, seq, WithoutTag(y), front)
  BY <1>8, <1>11, EtmOnlyThere
<1>13. ok => found
  <2> SUFFICES ASSUME ok PROVE found
    OBVIOUS
  <2>1. y = x /\ k2 = k /\ counter = seq
    BY <1>11 DEF Piece, Matching
  <2>2. PICK L \in Nat, M \in Nat, D \in Nat : L = Len(front) /\ M = suite.mac /\ D = Len(x) /\ D = L + M
    BY <1>1, <1>7, <1>10 DEF List
  <2>3. D = L + M
    BY <2>2
  <2>4. /\ D - M = L /\ D >= M /\ D - M + 1 = L + 1 /\ D - L = M
        /\ 0 \in 0..D /\ L \in 0..D /\ D \in 0..D /\ 0 <= L /\ L <= D /\ L - 0 = L /\ 0 + 1 = 1
    BY <2>3
  <2>5. 0 \in 0..Len(x) /\ L \in 0..Len(x) /\ D \in 0..Len(x)
    BY <2>2, <2>4
  <2>6. SubSeq(x, 0 + 1, L) = front
    <3>1. /\ List(SubSeq(x, 0 + 1, L)) /\ Len(SubSeq(x, 0 + 1, L)) = L - 0
          /\ \A q \in 1..(L - 0) : SubSeq(x, 0 + 1, L)[q] = x[0 + q]
      BY <1>10, <2>4, <2>5, ListPart
    <3> DEFINE piece == SubSeq(x, 0 + 1, L)
    <3> HIDE DEF piece
    <3>2. \A q \in 1..L : 0 + q = q
      OBVIOUS
    <3>3. List(piece) /\ Len(piece) = L /\ \A q \in 1..L : piece[q] = front[q]
      BY <1>10, <2>2, <2>4, <3>1, <3>2 DEF piece
    <3>4. piece = front
      BY <1>7, <2>2, <3>3, ListEqual
    <3> QED BY <3>4 DEF piece
  <2>7. SubSeq(x, L + 1, D) = mac
    <3>1. /\ List(SubSeq(x, L + 1, D)) /\ Len(SubSeq(x, L + 1, D)) = D - L
          /\ \A q \in 1..(D - L) : SubSeq(x, L + 1, D)[q] = x[L + q]
      BY <1>10, <2>4, <2>5, ListPart
    <3> DEFINE piece == SubSeq(x, L + 1, D)
    <3> HIDE DEF piece
    <3>2. List(piece) /\ Len(piece) = M /\ \A q \in 1..M : piece[q] = mac[q]
      BY <1>10, <2>2, <2>4, <3>1 DEF piece
    <3>3. piece = mac
      BY <1>9, <2>2, <3>2, ListEqual
    <3> QED BY <3>3 DEF piece
  <2>8. WithoutTag(y) = front
    BY <2>1, <2>2, <2>4, <2>6 DEF WithoutTag
  <2>9. EtmFound(y, k2, counter, type)
    BY <2>1, <2>2, <2>4, <2>7, <2>8 DEF EtmFound, mac
  <2>10. Blocks(front)
    BY <1>3, <1>7, BlocksAre
  <2> QED BY <2>8, <2>9, <2>10
<1>14. CASE ~found
  <2>1. result = Refused
    BY <1>14 DEF OpenCbcEtm, EtmFound, WithoutTag
  <2> HIDE DEF found, ok
  <2>2. ~ok
    BY <1>13, <1>14
  <2> QED BY <2>1, <2>2, GoodRefused DEF ok
<1>15. CASE found
  <2>1. ok /\ WithoutTag(y) = front /\ k2 = k
    BY <1>12, <1>15 DEF AllRight, Matching
  <2>2. Begins(front, front, n * BlockSize + BlockSize) /\ n \in 0..n
    <3>1. n \in 0..n
      OBVIOUS
    <3> QED BY <1>7, <3>1 DEF Begins
  <2>3. Begins(CbcDecrypt(k.key, front), text, n * BlockSize)
    BY <1>1, <1>5, <1>6, <2>2, CbcExact
  <2>4. PICK plain : plain = CbcDecrypt(k.key, front)
    OBVIOUS
  <2>5. plain = text
    <3>1. List(plain) /\ Len(plain) = n * BlockSize /\ \A q \in 1..(n * BlockSize) : plain[q] = text[q]
      BY <2>3, <2>4 DEF Begins
    <3> QED BY <1>5, <3>1, ListEqual
  <2>6. PICK pad \in Values(plain[Len(plain)]) :
          result = IF PaddingFits(plain, pad, 0) THEN Opened(type, SubSeq(plain, 1, Len(plain) - pad - 1))
                   ELSE Refused
    BY <1>15, <2>1, <2>4 DEF OpenCbcEtm, EtmFound, WithoutTag
  <2>7. /\ Values(text[Len(text)]) = {p} /\ PaddingFits(text, p, 0)
        /\ SubSeq(text, 1, Len(text) - p - 1) = content
    BY <1>5, PaddedFits
  <2>8. pad = p
    BY <2>5, <2>6, <2>7
  <2>9. result = Opened(type, content)
    BY <2>5, <2>6, <2>7, <2>8
  <2> HIDE DEF found, ok
  <2> QED BY <2>1, <2>9, GoodOpened DEF ok
<1> QED BY <1>14, <1>15
-----------------------------------------------------------------------------
(* A record of any kind *)

\* The keys of the two sides are the same or differ, as the secrets do.
LEMMA KeysMatch ==
  ASSUME NEW s \in Suites, NEW d \in Dirs, NEW secret
  PROVE  Matching(Under("right", PeerKeys(s, d)), Under(secret, DirectionKeys(s, d)), secret = "right")
<1> DEFINE k == PeerKeys(s, d)
<1>1. DirectionKeys(s, d) = k
  BY SameKeys
<1> HIDE DEF k
<1>2. /\ Under("right", k).key = <<"right", k.key>> /\ Under(secret, k).key = <<secret, k.key>>
      /\ Under("right", k).mac = <<"right", k.mac>> /\ Under(secret, k).mac = <<secret, k.mac>>
  BY DEF Under
<1>3. secret # "right" => /\ Under(secret, k).key # Under("right", k).key
                          /\ Under(secret, k).mac # Under("right", k).mac
  BY <1>2
<1> QED BY <1>1, <1>3 DEF Matching, k

\* The contents are bytes.
LEMMA ContentIsData == ASSUME NEW values \in Contents PROVE DataBytes(Bytes(values))
<1>1. values \in Seq(0..MaxByte)
  BY ContentsAssumption
<1>2. List(values) /\ \A i \in 1..Len(values) : values[i] \in 0..MaxByte
  BY <1>1, SeqIsList, ElementOfSeq
<1>3. List(Bytes(values)) /\ Len(Bytes(values)) = Len(values) /\ \A i \in 1..Len(values) : Bytes(values)[i] = Data(values[i])
  BY <1>2, BytesAre
<1>4. \A v : Data(v)[1][1] = "data" /\ Data(v)[2] = v
  BY DEF Data
<1> QED BY <1>2, <1>3, <1>4 DEF DataBytes

\* What is known of a record on its way.
OnWire(r) ==
  /\ r = [is |-> "record", dir |-> r.dir, type |-> r.type, content |-> r.content, seq |-> r.seq,
          body |-> r.body, whole |-> r.whole]
  /\ r.dir \in Dirs /\ r.type \in {"app", "handshake"} /\ r.whole \in BOOLEAN
  /\ DataBytes(r.content)
  /\ \E x \in Sealed(Under("right", PeerKeys(suite, r.dir)), r.seq, r.type, r.content) : Framed(r.body, x, r.whole)

\* Both sides hold to what was agreed about encrypt-then-MAC.
EtmAgreed == agreed \in {"macFirst", "encryptFirst"} /\ (UseEncryptThenMAC <=> agreed = "encryptFirst")

\* However a record is protected, it opens as it should.
LEMMA ResultsGood ==
  ASSUME suite \in Suites, EtmAgreed, NEW r, OnWire(r), NEW counter, NEW result \in Results(r, counter)
  PROVE  Good(result, r.whole /\ master = "right" /\ counter = r.seq, r.type, r.content)
<1> DEFINE k == Under("right", PeerKeys(suite, r.dir))
           k2 == Under(master, DirectionKeys(suite, r.dir))
           right == master = "right"
<1>1. r.dir \in Dirs /\ r.type \in {"app", "handshake"} /\ r.whole \in BOOLEAN /\ DataBytes(r.content) /\ List(r.content)
  BY DEF OnWire, DataBytes
<1>2. PICK x \in Sealed(k, r.seq, r.type, r.content) : Framed(r.body, x, r.whole)
  BY DEF OnWire
<1>3. Matching(k, k2, right) /\ right \in BOOLEAN
  BY <1>1, KeysMatch
<1>4. suite.kind \in {"gcm", "implicit", "cbc", "tls13"} /\ (suite.kind = "cbc" => suite.mac \in Nat \ {0})
  BY SuitesAssumption
<1>5. /\ suite.kind = "gcm" => result \in OpenGcm(k2, counter, r.type, r.body)
      /\ suite.kind = "implicit" => result \in OpenImplicit(k2, counter, r.type, r.body)
      /\ suite.kind = "tls13" => result \in Open13(k2, counter, r.body)
      /\ suite.kind = "cbc" /\ UseEncryptThenMAC => result \in OpenCbcEtm(k2, counter, r.type, r.body)
      /\ suite.kind = "cbc" /\ ~UseEncryptThenMAC => result \in OpenCbc(k2, counter, r.type, r.body)
  BY DEF Results
<1> HIDE DEF k, k2
<1>9. PICK rt \in BOOLEAN : rt = right
  BY <1>3
<1>10. PICK wh \in BOOLEAN : wh = r.whole
  BY <1>1
<1>11. PICK type \in {"app", "handshake"} : type = r.type
  BY <1>1
<1>12. PICK seq, content, y : seq = r.seq /\ content = r.content /\ y = r.body
  OBVIOUS
<1>6. rt = right /\ wh = r.whole /\ seq = r.seq /\ type = r.type /\ content = r.content /\ y = r.body
  BY <1>9, <1>10, <1>11, <1>12
<1>7. /\ x \in Sealed(k, seq, type, content) /\ Framed(y, x, wh) /\ Matching(k, k2, rt)
      /\ DataBytes(content) /\ List(content)
  BY <1>1, <1>2, <1>3, <1>6
<1> HIDE DEF right
<1>8. Good(result, wh /\ rt /\ counter = seq, type, content)
  <2>1. CASE suite.kind = "gcm"
    <3>1. result \in OpenGcm(k2, counter, type, y)
      BY <1>5, <1>6, <2>1
    <3> QED BY <1>7, <2>1, <3>1, GcmOpens
  <2>2. CASE suite.kind = "implicit"
    <3>1. result \in OpenImplicit(k2, counter, type, y)
      BY <1>5, <1>6, <2>2
    <3> QED BY <1>7, <2>2, <3>1, ImplicitOpens
  <2>3. CASE suite.kind = "tls13"
    <3>1. result \in Open13(k2, counter, y)
      BY <1>5, <1>6, <2>3
    <3> QED BY <1>7, <2>3, <3>1, Opens13, SMTT(30)
  <2>4. CASE suite.kind = "cbc" /\ agreed = "macFirst"
    <3>1. result \in OpenCbc(k2, counter, type, y)
      BY <1>5, <1>6, <2>4 DEF EtmAgreed
    <3> QED BY <1>4, <1>7, <2>4, <3>1, CbcOpens
  <2>5. CASE suite.kind = "cbc" /\ agreed = "encryptFirst"
    <3>1. result \in OpenCbcEtm(k2, counter, type, y)
      BY <1>5, <1>6, <2>5 DEF EtmAgreed
    <3> QED BY <1>4, <1>7, <2>5, <3>1, CbcEtmOpens
  <2> QED BY <1>4, <2>1, <2>2, <2>3, <2>4, <2>5 DEF EtmAgreed
<1> QED BY <1>6, <1>8 DEF right

\* What is known of a record stays true while the session is the same.
LEMMA OnWireNext ==
  ASSUME suite' = suite, agreed' = agreed, NEW r, wire' = r, OnWire(r)
  PROVE  OnWire(wire)'
BY DEF OnWire, Sealed, Mac

\* What opening a record came to is recorded.
LEMMA DoneGood ==
  ASSUME NEW r, OnWire(r), NEW result, NEW counter,
         Good(result, r.whole /\ master = "right" /\ counter = r.seq, r.type, r.content), master' = master,
         last' = [is |-> "done", record |-> [x \in DOMAIN r \ {"body"} |-> r[x]], counter |-> counter, result |-> result]
  PROVE  OpensExactly' /\ ContentExact'
<1> DEFINE kept == [x \in DOMAIN r \ {"body"} |-> r[x]]
<1>1. DOMAIN r = {"is", "dir", "type", "content", "seq", "body", "whole"}
  BY DEF OnWire
<1>2. kept.whole = r.whole /\ kept.seq = r.seq /\ kept.type = r.type /\ kept.content = r.content
  BY <1>1
<1> HIDE DEF kept
<1>3. last'.record = kept /\ last'.result = result /\ last'.counter = counter
  BY DEF kept
<1>4. OpensExactly'
  BY <1>2, <1>3 DEF OpensExactly, Good
<1>5. ContentExact'
  BY <1>2, <1>3 DEF ContentExact, Good
<1> QED BY <1>4, <1>5

\* What holds of suite, wire and last.
RecordInv ==
  /\ suite \in Suites \cup {NoSuite}
  /\ suite = NoSuite => wire = NoRecord /\ last = NoRecord
  /\ wire # NoRecord => OnWire(wire)
  /\ OpensExactly
  /\ ContentExact

\* No suite is the one before a suite is chosen.
LEMMA SuitesKnown == NoSuite \notin Suites
BY SuitesAssumption DEF NoSuite

\* A record is sent ...
LEMMA SendKeeps ==
  ASSUME RecordInv, NEW d \in Dirs, NEW type \in {"app", "handshake"}, NEW values \in Contents,
         Send(d, type, Bytes(values))
  PROVE  RecordInv'
<1> DEFINE content == Bytes(values)
<1>1. PICK body \in Sealed(Under("right", PeerKeys(suite, d)), sendSeq[d], type, content) :
        wire' = [is |-> "record", dir |-> d, type |-> type, content |-> content, seq |-> sendSeq[d],
                 body |-> body, whole |-> TRUE]
  BY DEF Send
<1>2. suite # NoSuite /\ suite' = suite /\ agreed' = agreed /\ last' = NoRecord
  BY DEF Send, session
<1>3. PICK r : r = [is |-> "record", dir |-> d, type |-> type, content |-> content, seq |-> sendSeq[d],
                    body |-> body, whole |-> TRUE]
  OBVIOUS
<1>4. OnWire(r)
  <2>1. DataBytes(content)
    BY ContentIsData
  <2> HIDE DEF content
  <2>2. /\ r.dir = d /\ r.type = type /\ r.content = content /\ r.seq = sendSeq[d] /\ r.body = body /\ r.whole = TRUE
        /\ r = [is |-> "record", dir |-> r.dir, type |-> r.type, content |-> r.content, seq |-> r.seq,
                body |-> r.body, whole |-> r.whole]
    BY <1>3
  <2>3. Framed(r.body, body, r.whole)
    BY <2>2 DEF Framed
  <2>4. body \in Sealed(Under("right", PeerKeys(suite, r.dir)), r.seq, r.type, r.content)
    BY <1>1, <2>2
  <2>5. r.whole \in BOOLEAN /\ r.dir \in Dirs /\ r.type \in {"app", "handshake"} /\ DataBytes(r.content)
    BY <2>1, <2>2
  <2> QED BY <2>2, <2>3, <2>4, <2>5 DEF OnWire
<1>5. OnWire(wire)'
  BY <1>1, <1>2, <1>3, <1>4, OnWireNext
<1>6. OpensExactly' /\ ContentExact'
  BY <1>2 DEF OpensExactly, ContentExact
<1> QED BY <1>2, <1>5, <1>6 DEF RecordInv

\* ... lost ...
LEMMA LoseKeeps == ASSUME RecordInv, Lose PROVE RecordInv'
<1>1. wire' = NoRecord /\ suite' = suite /\ master' = master /\ last' = last
  BY DEF Lose, session
<1>2. OpensExactly' /\ ContentExact'
  BY <1>1 DEF RecordInv, OpensExactly, ContentExact
<1>3. suite' = NoSuite => wire' = NoRecord /\ last' = NoRecord
  BY <1>1 DEF RecordInv
<1> QED BY <1>1, <1>2, <1>3 DEF RecordInv

\* ... taken in part ...
LEMMA MisframeKeeps == ASSUME RecordInv, Misframe PROVE RecordInv'
<1>1. /\ wire # NoRecord /\ wire.whole /\ suite' = suite /\ agreed' = agreed /\ master' = master /\ last' = last
      /\ OnWire(wire)
  BY DEF Misframe, session, RecordInv
<1>2. PICK i \in 0..Len(wire.body), j \in 0..Len(wire.body) :
        /\ i <= j /\ j - i < Len(wire.body)
        /\ wire' = [wire EXCEPT !.body = SubSeq(@, i + 1, j), !.whole = FALSE]
  BY DEF Misframe
<1>3. PICK r : r = wire'
  OBVIOUS
<1>4. PICK x \in Sealed(Under("right", PeerKeys(suite, wire.dir)), wire.seq, wire.type, wire.content) :
        Framed(wire.body, x, wire.whole)
  BY <1>1 DEF OnWire
<1>5. x = wire.body
  BY <1>1, <1>4 DEF Framed
<1>6. /\ r.dir = wire.dir /\ r.type = wire.type /\ r.content = wire.content /\ r.seq = wire.seq
      /\ r.body = SubSeq(wire.body, i + 1, j) /\ r.whole = FALSE
      /\ r = [is |-> "record", dir |-> r.dir, type |-> r.type, content |-> r.content, seq |-> r.seq,
              body |-> r.body, whole |-> r.whole]
  <2>1. PICK w : w = wire
    OBVIOUS
  <2>2. w = [is |-> "record", dir |-> w.dir, type |-> w.type, content |-> w.content, seq |-> w.seq,
             body |-> w.body, whole |-> w.whole]
    BY <1>1, <2>1 DEF OnWire
  <2>3. PICK piece : piece = SubSeq(w.body, i + 1, j)
    OBVIOUS
  <2>4. r = [w EXCEPT !.body = piece, !.whole = FALSE]
    BY <1>2, <1>3, <2>1, <2>3
  <2>5. PICK dir, type, content, seq, bytes, whole :
          w = [is |-> "record", dir |-> dir, type |-> type, content |-> content, seq |-> seq,
               body |-> bytes, whole |-> whole]
    BY <2>2
  <2>6. r = [is |-> "record", dir |-> dir, type |-> type, content |-> content, seq |-> seq,
             body |-> piece, whole |-> FALSE]
    BY <2>4, <2>5
  <2>7. /\ r.dir = w.dir /\ r.type = w.type /\ r.content = w.content /\ r.seq = w.seq
        /\ r.body = piece /\ r.whole = FALSE
    BY <2>5, <2>6
  <2>8. r = [is |-> "record", dir |-> r.dir, type |-> r.type, content |-> r.content, seq |-> r.seq,
             body |-> r.body, whole |-> r.whole]
    BY <2>6
  <2>9. /\ r.dir = wire.dir /\ r.type = wire.type /\ r.content = wire.content /\ r.seq = wire.seq
        /\ r.whole = FALSE
    BY <2>1, <2>7
  <2>10. r.body = SubSeq(wire.body, i + 1, j)
    BY <2>1, <2>3, <2>7
  <2> QED BY <2>8, <2>9, <2>10
<1>7. Framed(r.body, x, r.whole)
  BY <1>2, <1>5, <1>6 DEF Framed
<1>8. OnWire(r)
  <2>1. r.dir \in Dirs /\ r.type \in {"app", "handshake"} /\ DataBytes(r.content) /\ r.whole \in BOOLEAN
    BY <1>1, <1>6 DEF OnWire
  <2>2. x \in Sealed(Under("right", PeerKeys(suite, r.dir)), r.seq, r.type, r.content)
    BY <1>4, <1>6
  <2> QED BY <1>6, <1>7, <2>1, <2>2 DEF OnWire
<1>9. OnWire(wire)'
  BY <1>1, <1>3, <1>8, OnWireNext
<1>10. OpensExactly' /\ ContentExact'
  BY <1>1 DEF RecordInv, OpensExactly, ContentExact
<1>11. suite' \in Suites \cup {NoSuite} /\ suite' # NoSuite
  BY <1>1 DEF RecordInv
<1> QED BY <1>9, <1>10, <1>11 DEF RecordInv

\* ... and opened: with what the session noted of encrypt-then-MAC, as it should.
LEMMA OpenKeeps == ASSUME RecordInv, suite # NoSuite => EtmAgreed, Open PROVE RecordInv'
<1>1. wire # NoRecord /\ wire' = NoRecord /\ suite' = suite /\ master' = master /\ OnWire(wire)
  BY DEF Open, session, RecordInv
<1>2. suite \in Suites /\ EtmAgreed
  BY <1>1 DEF RecordInv
<1>3. PICK r, counter : r = wire /\ counter = recvSeq[wire.dir]
  OBVIOUS
<1>4. PICK result \in Results(r, counter) :
        last' = [is |-> "done", record |-> [x \in DOMAIN r \ {"body"} |-> r[x]], counter |-> counter, result |-> result]
  BY <1>3 DEF Open
<1>5. OnWire(r)
  BY <1>1, <1>3
<1>6. Good(result, r.whole /\ master = "right" /\ counter = r.seq, r.type, r.content)
  BY <1>2, <1>5, ResultsGood
<1>7. OpensExactly' /\ ContentExact'
  BY <1>1, <1>4, <1>5, <1>6, DoneGood
<1>8. suite' \in Suites \cup {NoSuite} /\ suite' # NoSuite
  BY <1>1, <1>2, SuitesKnown
<1> QED BY <1>1, <1>7, <1>8 DEF RecordInv
=============================================================================
