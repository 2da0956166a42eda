---------------------------- MODULE TlsWireProofs ----------------------------
(***************************************************************************)
(* What a session reads in a message is what was written there, for any    *)
(* messages and any place where one is cut short; so the records that      *)
(* follow the two hellos open exactly when they should.                    *)
(***************************************************************************)
EXTENDS TlsWire, RecordLayerProofs

-----------------------------------------------------------------------------
(* Numbers and bytes *)

\* Division, with a quotient below a bound.
LEMMA Quotient ==
  ASSUME NEW b \in Nat \ {0}, NEW n \in Nat, NEW m \in Nat, n < m * b
  PROVE  \E q \in Nat, r \in Nat : q = n \div b /\ r = n % b /\ n = q * b + r /\ q < m /\ r < b
<1> DEFINE d == n \div b
           e == n % b
<1>1. d \in Nat /\ e \in Nat /\ e < b /\ n = b * d + e
  OBVIOUS
<1> HIDE DEF d, e
<1>2. n = d * b + e
  BY <1>1
<1>3. d < m
  <2> SUFFICES ASSUME m <= d PROVE FALSE
    BY <1>1
  <2>1. m * b <= d * b
    BY <1>1
  <2>2. m * b \in Nat /\ d * b \in Nat
    BY <1>1
  <2> QED BY <1>1, <1>2, <2>1, <2>2
<1>4. \E q \in Nat, r \in Nat : q = d /\ r = e /\ n = q * b + r /\ q < m /\ r < b
  BY <1>1, <1>2, <1>3
<1> QED BY <1>4 DEF d, e

\* p stands in w behind the first pos bytes.
Holds(w, pos, p) ==
  /\ pos \in Nat /\ Len(p) \in Nat /\ pos + Len(p) <= Len(w)
  /\ \A i \in 1..Len(p) : w[pos + i] = p[i]

\* b is w, or the first bytes of it.
Cut(b, w) ==
  /\ b \in Seq(Byte) /\ w \in Seq(Byte) /\ Len(b) \in Nat /\ Len(w) \in Nat
  /\ Len(b) <= Len(w) /\ \A i \in 1..Len(b) : b[i] = w[i]

\* A number is written in bytes and read back, in one ...
LEMMA OneByte ==
  ASSUME NEW n \in Nat, n < Base
  PROVE  /\ Digits(n, 1) \in Seq(Byte) /\ Len(Digits(n, 1)) = 1
         /\ \A w, pos : Holds(w, pos, Digits(n, 1)) => Number(w, pos, 1) = n
<1>1. Digits(n, 1) = <<n>>
  <2>1. n % Base = n
    BY BytesAssumption
  <2> QED BY <2>1 DEF Digits
<1>2. n \in Byte
  BY BytesAssumption DEF Byte
<1>3. <<n>> \in Seq(Byte) /\ Len(<<n>>) = 1 /\ <<n>>[1] = n
  BY <1>2
<1>4. \A w, pos : Number(w, pos, 1) = w[pos + 1]
  BY DEF Number
<1>5. \A w, pos : Holds(w, pos, <<n>>) => w[pos + 1] = n
  BY <1>3 DEF Holds
<1> QED BY <1>1, <1>3, <1>4, <1>5

\* ... and in two.
LEMMA TwoBytes ==
  ASSUME NEW n \in Nat, n < Base * Base
  PROVE  /\ Digits(n, 2) \in Seq(Byte) /\ Len(Digits(n, 2)) = 2
         /\ \A w, pos : Holds(w, pos, Digits(n, 2)) => Number(w, pos, 2) = n
<1>1. Base \in Nat \ {0}
  BY BytesAssumption
<1>2. PICK q \in Nat, r \in Nat : q = n \div Base /\ r = n % Base /\ n = q * Base + r /\ q < Base /\ r < Base
  BY <1>1, Quotient
<1>3. q % Base = q
  BY <1>1, <1>2
<1>4. Digits(n, 2) = <<q, r>>
  <2>1. Digits(n, 2) = <<(n \div Base) % Base, n % Base>>
    BY DEF Digits
  <2> QED BY <1>2, <1>3, <2>1
<1>5. q \in Byte /\ r \in Byte
  BY <1>1, <1>2 DEF Byte
<1>6. <<q, r>> \in Seq(Byte) /\ Len(<<q, r>>) = 2 /\ <<q, r>>[1] = q /\ <<q, r>>[2] = r
  BY <1>5
<1>7. \A w, pos : Number(w, pos, 2) = w[pos + 1] * Base + w[pos + 2]
  BY DEF Number
<1>8. \A w, pos : Holds(w, pos, <<q, r>>) => w[pos + 1] = q /\ w[pos + 2] = r
  BY <1>6 DEF Holds
<1>9. \A w, pos : Holds(w, pos, <<q, r>>) => Number(w, pos, 2) = q * Base + r
  BY <1>7, <1>8
<1>10. q * Base + r = n
  BY <1>2
<1> QED BY <1>4, <1>6, <1>9, <1>10

\* What is read is a number.
LEMMA NumberType ==
  ASSUME NEW b \in Seq(Byte), NEW pos \in Nat, NEW width \in {1, 2}, pos + width <= Len(b)
  PROVE  Number(b, pos, width) \in Nat
<1>1. Base \in Nat /\ Len(b) \in Nat
  BY BytesAssumption, LenProperties
<1>2. \A i \in 1..Len(b) : b[i] \in Nat
  <2>1. \A i \in 1..Len(b) : b[i] \in Byte
    BY ElementOfSeq
  <2> QED BY <1>1, <2>1 DEF Byte
<1>3. CASE width = 1
  BY <1>1, <1>2, <1>3 DEF Number
<1>4. CASE width = 2
  <2>1. Number(b, pos, width) = b[pos + 1] * Base + b[pos + 2]
    BY <1>4 DEF Number
  <2>2. PICK x \in Nat, y \in Nat : x = b[pos + 1] /\ y = b[pos + 2]
    BY <1>1, <1>2, <1>4
  <2>3. x * Base + y \in Nat
    BY <1>1
  <2> QED BY <2>1, <2>2, <2>3
<1> QED BY <1>3, <1>4
-----------------------------------------------------------------------------
(* Places *)

\* What is put behind something else stands there ...
LEMMA HoldsConcat ==
  ASSUME NEW p \in Seq(Byte), NEW q \in Seq(Byte)
  PROVE  /\ p \o q \in Seq(Byte) /\ Len(p \o q) = Len(p) + Len(q)
         /\ Holds(p \o q, 0, p) /\ Holds(p \o q, Len(p), q)
<1>1. /\ p \o q \in Seq(Byte) /\ Len(p \o q) = Len(p) + Len(q)
      /\ \A i \in 1..(Len(p) + Len(q)) : (p \o q)[i] = IF i <= Len(p) THEN p[i] ELSE q[i - Len(p)]
  BY ConcatProperties
<1>2. Len(p) \in Nat /\ Len(q) \in Nat
  BY LenProperties
<1>3. \A i \in 1..Len(q) : Len(p) + i \in 1..(Len(p) + Len(q)) /\ ~(Len(p) + i <= Len(p)) /\ (Len(p) + i) - Len(p) = i
  BY <1>2
<1>4. Holds(p \o q, 0, p)
  BY <1>1, <1>2 DEF Holds
<1>5. Holds(p \o q, Len(p), q)
  BY <1>1, <1>2, <1>3 DEF Holds
<1> QED BY <1>1, <1>4, <1>5

\* ... and something that stands in a part stands in the whole.
LEMMA HoldsIn ==
  ASSUME NEW w \in Seq(Byte), NEW pos, NEW p, Holds(w, pos, p), NEW at, NEW x, Holds(p, at, x)
  PROVE  Holds(w, pos + at, x)
<1>1. /\ pos \in Nat /\ Len(p) \in Nat /\ pos + Len(p) <= Len(w) /\ \A i \in 1..Len(p) : w[pos + i] = p[i]
      /\ at \in Nat /\ Len(x) \in Nat /\ at + Len(x) <= Len(p) /\ \A i \in 1..Len(x) : p[at + i] = x[i]
  BY DEF Holds
<1>2. Len(w) \in Nat
  BY LenProperties
<1>3. \A i \in 1..Len(x) : at + i \in 1..Len(p) /\ pos + (at + i) = (pos + at) + i
  BY <1>1
<1>4. \A i \in 1..Len(x) : w[(pos + at) + i] = x[i]
  BY <1>1, <1>3
<1> QED BY <1>1, <1>2, <1>4 DEF Holds

\* Both halves of what stands somewhere stand there.
LEMMA HoldsBoth ==
  ASSUME NEW w \in Seq(Byte), NEW pos, NEW p \in Seq(Byte), NEW q \in Seq(Byte), Holds(w, pos, p \o q)
  PROVE  Holds(w, pos, p) /\ Holds(w, pos + Len(p), q)
<1>1. Holds(p \o q, 0, p) /\ Holds(p \o q, Len(p), q) /\ pos \in Nat
  BY HoldsConcat DEF Holds
<1>2. Holds(w, pos + 0, p) /\ Holds(w, pos + Len(p), q)
  BY <1>1, HoldsIn
<1> QED BY <1>1, <1>2

\* What stands in a message stands in what is left of it, if it is there.
LEMMA HoldsCut ==
  ASSUME NEW b, NEW w, Cut(b, w), NEW pos, NEW p, Holds(w, pos, p), pos + Len(p) <= Len(b)
  PROVE  Holds(b, pos, p)
<1>1. /\ pos \in Nat /\ Len(p) \in Nat /\ Len(b) \in Nat
      /\ \A i \in 1..Len(p) : w[pos + i] = p[i]
      /\ \A i \in 1..Len(b) : b[i] = w[i]
  BY DEF Holds, Cut
<1>2. \A i \in 1..Len(p) : pos + i \in 1..Len(b)
  BY <1>1
<1> QED BY <1>1, <1>2 DEF Holds

\* It is what a part of the bytes is.
LEMMA HoldsPart ==
  ASSUME NEW b \in Seq(Byte), NEW pos, NEW p \in Seq(Byte), Holds(b, pos, p)
  PROVE  SubSeq(b, pos + 1, pos + Len(p)) = p
<1>1. /\ pos \in Nat /\ Len(p) \in Nat /\ pos + Len(p) <= Len(b) /\ Len(b) \in Nat
      /\ \A i \in 1..Len(p) : b[pos + i] = p[i]
  BY LenProperties DEF Holds
<1>2. List(b) /\ List(p)
  BY SeqIsList
<1>3. PICK j \in Nat : j = pos + Len(p)
  BY <1>1
<1>4. pos \in 0..Len(b) /\ j \in 0..Len(b) /\ pos <= j /\ j - pos = Len(p)
  BY <1>1, <1>3
<1>5. /\ List(SubSeq(b, pos + 1, j)) /\ Len(SubSeq(b, pos + 1, j)) = j - pos
      /\ \A n \in 1..(j - pos) : SubSeq(b, pos + 1, j)[n] = b[pos + n]
  BY <1>2, <1>4, ListPart
<1>6. SubSeq(b, pos + 1, j) = p
  BY <1>1, <1>2, <1>4, <1>5, ListEqual
<1> QED BY <1>3, <1>6

-----------------------------------------------------------------------------
(* Vectors *)

\* A vector is its length and its bytes; the length is read back.
LEMMA VectorIs ==
  ASSUME NEW v, NEW width \in {1, 2}, Fit(v, width)
  PROVE  /\ Vector(v, width) \in Seq(Byte) /\ v \in Seq(Byte) /\ Len(v) \in Nat
         /\ Len(Vector(v, width)) = width + Len(v)
         /\ \A w \in Seq(Byte) : \A pos : Holds(w, pos, Vector(v, width)) =>
              Holds(w, pos, Digits(Len(v), width)) /\ Holds(w, pos + width, v)
         /\ Len(Digits(Len(v), width)) = width
         /\ \A w, pos : Holds(w, pos, Digits(Len(v), width)) => Number(w, pos, width) = Len(v)
<1>1. v \in Seq(Byte) /\ Len(v) \in Nat
  BY LenProperties DEF Fit
<1>2. PICK n \in Nat : n = Len(v)
  BY <1>1
<1>3. PICK d : d = Digits(Len(v), width)
  OBVIOUS
<1>4. /\ d \in Seq(Byte) /\ Len(d) = width
      /\ \A w, pos : Holds(w, pos, d) => Number(w, pos, width) = Len(v)
  <2>1. CASE width = 1
    <3>1. n < Base
      BY <1>2, <2>1 DEF Fit
    <3> QED BY <1>2, <1>3, <2>1, <3>1, OneByte
  <2>2. CASE width = 2
    <3>1. n < Base * Base
      BY <1>2, <2>2 DEF Fit
    <3> QED BY <1>2, <1>3, <2>2, <3>1, TwoBytes
  <2> QED BY <2>1, <2>2
<1>5. Vector(v, width) = d \o v
  BY <1>3 DEF Vector
<1>6. d \o v \in Seq(Byte) /\ Len(d \o v) = width + Len(v)
  BY <1>1, <1>4, HoldsConcat
<1>7. ASSUME NEW w \in Seq(Byte), NEW pos, Holds(w, pos, d \o v)
      PROVE  Holds(w, pos, d) /\ Holds(w, pos + width, v)
  BY <1>1, <1>4, <1>7, HoldsBoth
<1> QED BY <1>1, <1>3, <1>4, <1>5, <1>6, <1>7

\* A place is known, or both it and the real one are outside.
Near(b, p, real) == p \in Nat /\ real \in Nat /\ (p = real \/ (p > Len(b) /\ real > Len(b)))

\* Behind a vector the place is known again, or outside.
LEMMA PastNear ==
  ASSUME NEW b, NEW w, Cut(b, w), NEW p, NEW pos, Near(b, p, pos),
         NEW v, NEW width \in {1, 2}, Fit(v, width), Holds(w, pos, Vector(v, width))
  PROVE  Near(b, Past(b, p, width), pos + width + Len(v))
<1>1. Len(b) \in Nat /\ Len(v) \in Nat /\ p \in Nat /\ pos \in Nat /\ w \in Seq(Byte)
  BY VectorIs DEF Cut, Near
<1>2. CASE Len(b) < p + width
  <2>1. Past(b, p, width) = Len(b) + 1
    BY <1>2 DEF Past
  <2>2. pos + width + Len(v) > Len(b)
    BY <1>1, <1>2 DEF Near
  <2> QED BY <1>1, <2>1, <2>2 DEF Near
<1>3. CASE ~(Len(b) < p + width)
  <2>1. p = pos /\ pos + width <= Len(b)
    BY <1>1, <1>3 DEF Near
  <2>2. Holds(w, pos, Digits(Len(v), width)) /\ Len(Digits(Len(v), width)) = width
    BY <1>1, VectorIs
  <2>3. Holds(b, pos, Digits(Len(v), width))
    BY <2>1, <2>2, HoldsCut
  <2>4. Number(b, pos, width) = Len(v)
    BY <2>3, VectorIs
  <2>5. Past(b, p, width) = p + width + Number(b, p, width)
    BY <1>3 DEF Past
  <2>6. Past(b, p, width) = pos + width + Len(v)
    BY <2>1, <2>4, <2>5
  <2> QED BY <1>1, <2>6 DEF Near
<1> QED BY <1>2, <1>3
-----------------------------------------------------------------------------
(* Extensions *)

\* What is to be read of an extension.
Item(e) == [tag |-> e.type, data |-> DataOf(e)]

\* An extension where it stands.
LEMMA ExtensionIs ==
  ASSUME NEW e, e.type \in Uint16, Fit(DataOf(e), 2)
  PROVE  /\ Extension(e) \in Seq(Byte) /\ DataOf(e) \in Seq(Byte) /\ Len(DataOf(e)) \in Nat
         /\ Len(Extension(e)) = 4 + Len(DataOf(e))
         /\ \A b \in Seq(Byte) : \A pos : Holds(b, pos, Extension(e)) => Holds(b, pos + 4, DataOf(e))
         /\ \A w \in Seq(Byte) : \A b, pos : Cut(b, w) /\ Holds(w, pos, Extension(e)) /\ pos + 4 <= Len(b) =>
              Number(b, pos, 2) = e.type /\ Number(b, pos + 2, 2) = Len(DataOf(e))
<1>1. PICK d, v, x : d = DataOf(e) /\ v = Vector(d, 2) /\ x = Digits(e.type, 2)
  OBVIOUS
<1>2. Fit(d, 2) /\ Extension(e) = x \o v
  BY <1>1 DEF Extension
<1>3. e.type \in Nat /\ e.type < Base * Base
  <2>1. PICK u : u = Base * Base
    OBVIOUS
  <2>2. u \in Nat
    BY <2>1, BytesAssumption
  <2>3. e.type \in 0..(u - 1)
    BY <2>1 DEF Uint16
  <2>4. e.type \in Nat /\ e.type < u
    BY <2>2, <2>3
  <2> QED BY <2>1, <2>4
<1>4. x \in Seq(Byte) /\ Len(x) = 2 /\ \A w, pos : Holds(w, pos, x) => Number(w, pos, 2) = e.type
  BY <1>1, <1>3, TwoBytes
<1>5. /\ v \in Seq(Byte) /\ d \in Seq(Byte) /\ Len(d) \in Nat /\ Len(v) = 2 + Len(d)
      /\ \A w \in Seq(Byte) : \A pos : Holds(w, pos, v) => Holds(w, pos, Digits(Len(d), 2)) /\ Holds(w, pos + 2, d)
      /\ Len(Digits(Len(d), 2)) = 2
      /\ \A w, pos : Holds(w, pos, Digits(Len(d), 2)) => Number(w, pos, 2) = Len(d)
  BY <1>1, <1>2, VectorIs
<1>6. x \o v \in Seq(Byte) /\ Len(x \o v) = 4 + Len(d)
  <2>1. x \in Seq(Byte) /\ Len(x) = 2 /\ v \in Seq(Byte) /\ Len(v) = 2 + Len(d) /\ Len(d) \in Nat
    BY <1>4, <1>5
  <2>2. x \o v \in Seq(Byte) /\ Len(x \o v) = Len(x) + Len(v)
    BY <2>1, HoldsConcat
  <2> QED BY <2>1, <2>2
<1>7. ASSUME NEW w \in Seq(Byte), NEW pos, Holds(w, pos, x \o v)
      PROVE  /\ Holds(w, pos, x) /\ pos \in Nat
             /\ Holds(w, pos + 2, Digits(Len(d), 2)) /\ Holds(w, pos + 4, d)
  <2>1. Holds(w, pos, x) /\ Holds(w, pos + 2, v) /\ pos \in Nat
    <3>1. x \in Seq(Byte) /\ Len(x) = 2 /\ v \in Seq(Byte)
      BY <1>4, <1>5
    <3>2. Holds(w, pos, x) /\ Holds(w, pos + Len(x), v)
      BY <1>7, <3>1, HoldsBoth
    <3> QED BY <3>1, <3>2 DEF Holds
  <2>2. Holds(w, pos + 2, Digits(Len(d), 2)) /\ Holds(w, (pos + 2) + 2, d)
    BY <1>5, <2>1
  <2>3. (pos + 2) + 2 = pos + 4
    BY <2>1
  <2> QED BY <2>1, <2>2, <2>3
<1>8. ASSUME NEW w \in Seq(Byte), NEW b, NEW pos, Cut(b, w), Holds(w, pos, x \o v), pos + 4 <= Len(b)
      PROVE  Number(b, pos, 2) = e.type /\ Number(b, pos + 2, 2) = Len(d)
  <2>1. Holds(w, pos, x) /\ Holds(w, pos + 2, Digits(Len(d), 2)) /\ pos \in Nat /\ Len(b) \in Nat
    BY <1>7, <1>8 DEF Cut
  <2>2. pos + Len(x) <= Len(b) /\ (pos + 2) + Len(Digits(Len(d), 2)) <= Len(b)
    <3>1. Len(x) = 2 /\ Len(Digits(Len(d), 2)) = 2
      BY <1>4, <1>5
    <3>2. PICK l \in Nat, at \in Nat : l = Len(b) /\ at = pos
      BY <2>1
    <3>3. at + 4 <= l
      BY <1>8, <3>2
    <3>4. at + 2 <= l /\ (at + 2) + 2 <= l
      BY <3>3
    <3> QED BY <3>1, <3>2, <3>4
  <2>3. Holds(b, pos, x)
    BY <1>8, <2>1, <2>2, HoldsCut
  <2>4. Holds(b, pos + 2, Digits(Len(d), 2))
    BY <1>8, <2>1, <2>2, HoldsCut
  <2> QED BY <1>4, <1>5, <2>3, <2>4
<1> QED BY <1>1, <1>2, <1>5, <1>6, <1>7, <1>8

\* The extensions stand in w one behind the other, at these places.
Laid(w, exts, off) ==
  /\ off \in [0..Len(exts) -> Nat]
  /\ \A j \in 1..Len(exts) :
       Holds(w, off[j - 1], Extension(exts[j])) /\ off[j] = off[j - 1] + Len(Extension(exts[j]))

\* Extensions one can write.
Writable(exts) ==
  /\ Len(exts) \in Nat /\ List(exts)
  /\ \A i \in 1..Len(exts) : exts[i].type \in Uint16 /\ Fit(DataOf(exts[i]), 2)

\* What fits can be written.
LEMMA FitWritable ==
  ASSUME NEW exts, ExtensionsFit(exts)
  PROVE  Writable(exts) /\ DOMAIN exts = 1..Len(exts)
<1>1. exts \in Seq(Range(exts))
  BY DEF ExtensionsFit
<1>2. List(exts) /\ Len(exts) \in Nat /\ DOMAIN exts = 1..Len(exts)
  <2> DEFINE S == Range(exts)
  <2>1. exts \in Seq(S)
    BY <1>1
  <2> HIDE DEF S
  <2> QED BY <2>1, SeqIsList, LenProperties
<1> QED BY <1>2 DEF ExtensionsFit, Writable

\* One behind the other they are laid out.
LEMMA ExtensionsLaid ==
  ASSUME NEW exts, Writable(exts), exts # <<>>, DOMAIN exts = 1..Len(exts)
  PROVE  /\ ExtensionList(exts) \in Seq(Byte)
         /\ \E off : Laid(ExtensionList(exts), exts, off) /\ off[0] = 0 /\ off[Len(exts)] = Len(ExtensionList(exts))
<1> DEFINE n == Len(exts)
           ss == [i \in 1..n |-> Extension(exts[i])]
<1>1. n \in Nat /\ n # 0
  BY EmptySeq DEF Writable, List
<1>2. \A i \in 1..n : ss[i] \in Seq(Byte) /\ ss[i] = Extension(exts[i])
  BY ExtensionIs DEF Writable
<1>3. ss \in Seq(Seq(Byte)) /\ Len(ss) = n
  <2>1. ss \in [1..n -> Seq(Byte)]
    BY <1>2
  <2> HIDE DEF n, ss
  <2> QED BY <1>1, <2>1, SeqDef, LenProperties
<1>4. ss # <<>>
  BY <1>1, <1>3, EmptySeq
<1>5. ExtensionList(exts) = FlattenSeq(ss)
  BY DEF ExtensionList, Join
<1> HIDE DEF ss, n
<1>6. PICK h : Flattens(h, ss, n)
  BY <1>1, FlattenExists
<1>7. FlattenSeq(ss) = h[n]
  BY <1>3, <1>4, <1>6, FlattenIs
<1>8. \A i \in 1..n : h[i] = IF i = 1 THEN ss[i] ELSE h[i - 1] \o ss[i]
  BY <1>6 DEF Flattens
<1> DEFINE off == [j \in 0..n |-> IF j = 0 THEN 0 ELSE Len(h[j])]
           laid(m) == /\ h[m] \in Seq(Byte)
                      /\ \A j \in 1..m : Holds(h[m], off[j - 1], ss[j]) /\ off[j] = off[j - 1] + Len(ss[j])
           W == {m \in 1..n : ~laid(m)}
<1>9. W = {}
  <2> SUFFICES ASSUME W # {} PROVE FALSE
    OBVIOUS
  <2>1. PICK m \in W : \A j \in W : m <= j
    <3>1. W \subseteq Nat
      OBVIOUS
    <3> HIDE DEF W
    <3> QED BY <3>1, LeastNumber
  <2>2. m \in 1..n /\ ~laid(m) /\ ss[m] \in Seq(Byte)
    BY <1>2
  <2>3. CASE m = 1
    <3>1. h[1] = ss[1] /\ off[0] = 0 /\ off[1] = Len(ss[1]) /\ Len(ss[1]) \in Nat
      BY <1>1, <1>8, <2>2, <2>3, LenProperties
    <3>2. Holds(ss[1], 0, ss[1])
      BY <3>1 DEF Holds
    <3>3. \A j \in 1..1 : j = 1 /\ j - 1 = 0
      OBVIOUS
    <3>4. laid(1)
      <4> HIDE DEF off
      <4> QED BY <2>2, <2>3, <3>1, <3>2, <3>3
    <3> QED BY <2>2, <2>3, <3>4
  <2>4. CASE m # 1
    <3>1. PICK k \in Nat : k = m - 1
      BY <2>2
    <3>2. k \in 1..n /\ k + 1 = m /\ ~(m <= k)
      BY <1>1, <2>2, <2>4, <3>1
    <3>3. laid(k)
      <4>1. k \notin W
        <5> HIDE DEF W
        <5> QED BY <2>1, <3>2
      <4> HIDE DEF laid
      <4> QED BY <3>2, <4>1
    <3>4. h[m] = h[k] \o ss[m] /\ off[m] = Len(h[m]) /\ off[k] = Len(h[k])
      <4>1. h[m] = h[k] \o ss[m]
        BY <1>8, <2>2, <2>4, <3>1
      <4>2. m \in 0..n /\ m # 0 /\ k \in 0..n /\ k # 0
        BY <1>1, <2>2, <3>2
      <4>3. off[m] = Len(h[m]) /\ off[k] = Len(h[k])
        BY <4>2
      <4> QED BY <4>1, <4>3
    <3> HIDE DEF off, W
    <3>5. /\ h[m] \in Seq(Byte) /\ Len(h[m]) = Len(h[k]) + Len(ss[m])
          /\ Holds(h[m], 0, h[k]) /\ Holds(h[m], Len(h[k]), ss[m])
      BY <2>2, <3>3, <3>4, HoldsConcat
    <3>6. ASSUME NEW j \in 1..m PROVE Holds(h[m], off[j - 1], ss[j]) /\ off[j] = off[j - 1] + Len(ss[j])
      <4>1. CASE j = m
        <5>1. j - 1 = k
          BY <3>1, <4>1
        <5> QED BY <3>4, <3>5, <4>1, <5>1
      <4>2. CASE j # m
        <5>1. j \in 1..k
          BY <2>2, <3>2, <4>2
        <5>2. Holds(h[k], off[j - 1], ss[j]) /\ off[j] = off[j - 1] + Len(ss[j])
          BY <3>3, <5>1
        <5>3. Holds(h[m], 0 + off[j - 1], ss[j])
          BY <3>5, <5>2, HoldsIn
        <5>4. 0 + off[j - 1] = off[j - 1]
          BY <5>2 DEF Holds
        <5> QED BY <5>2, <5>3, <5>4
      <4> QED BY <4>1, <4>2
    <3> QED BY <2>2, <3>5, <3>6
  <2> QED BY <2>3, <2>4
<1>10. laid(n) /\ \A m \in 1..n : h[m] \in Seq(Byte)
  <2>1. \A m \in 1..n : laid(m)
    <3> HIDE DEF laid
    <3> QED BY <1>9
  <2>2. n \in 1..n
    BY <1>1
  <2> HIDE DEF off
  <2> QED BY <2>1, <2>2
<1>11. off \in [0..n -> Nat] /\ off[0] = 0 /\ off[n] = Len(h[n])
  BY <1>1, <1>10, LenProperties
<1> HIDE DEF off
<1>12. Laid(h[n], exts, off)
  BY <1>2, <1>10, <1>11 DEF Laid, n
<1> QED BY <1>5, <1>7, <1>10, <1>11, <1>12 DEF n
-----------------------------------------------------------------------------
(* What Items computes *)

\* A function from each place on, by the value further on.
Onward(f, start, end, stops, item, next) ==
  f = [pos \in start..end |-> IF pos \in stops THEN <<>> ELSE item[pos] \o f[next[pos]]]

\* There is one when each place leads onward.
LEMMA OnwardExists ==
  ASSUME NEW start \in Nat, NEW end \in Nat, start <= end, NEW stops, NEW item, NEW next,
         \A pos \in start..end : pos \notin stops => next[pos] \in (pos + 1)..end
  PROVE  \E f : Onward(f, start, end, stops, item, next)
<1> DEFINE W == {s \in start..(end + 1) : \E f : Onward(f, s, end, stops, item, next)}
<1>1. end + 1 \in W
  <2> DEFINE f == [pos \in (end + 1)..end |-> <<>>]
  <2>1. (end + 1)..end = {}
    OBVIOUS
  <2>2. Onward(f, end + 1, end, stops, item, next)
    BY <2>1 DEF Onward
  <2> HIDE DEF f
  <2> QED BY <2>2
<1>2. PICK s \in W : \A t \in W : s <= t
  <2>1. W \subseteq Nat /\ W # {}
    BY <1>1
  <2> HIDE DEF W
  <2> QED BY <2>1, LeastNumber
<1>3. s \in start..(end + 1)
  OBVIOUS
<1>4. PICK f : Onward(f, s, end, stops, item, next)
  OBVIOUS
<1>5. CASE s = start
  BY <1>4, <1>5
<1>6. CASE s # start
  <2>1. PICK r \in Nat : r = s - 1
    BY <1>3, <1>6
  <2>2. r \in start..end /\ r + 1 = s /\ ~(s <= r) /\ r \in start..(end + 1)
    BY <1>3, <1>6, <2>1
  <2> DEFINE value(pos) == IF pos \in stops THEN <<>> ELSE item[pos] \o f[next[pos]]
             g == [pos \in r..end |-> IF pos \in s..end THEN f[pos] ELSE value(r)]
  <2>3. \A pos \in s..end : f[pos] = value(pos)
    BY <1>4 DEF Onward
  <2>4. \A pos \in r..end : g[pos] = value(pos)
    <3>1. \A pos \in r..end : pos = r \/ pos \in s..end
      BY <2>2
    <3>2. r \notin s..end
      BY <2>2
    <3> HIDE DEF value
    <3> QED BY <2>3, <3>1, <3>2
  <2>5. \A pos \in r..end : pos \notin stops => next[pos] \in s..end /\ next[pos] \in r..end
    BY <2>2
  <2>6. \A pos \in s..end : g[pos] = f[pos]
    BY <2>2
  <2>7. g = [pos \in r..end |-> g[pos]]
    OBVIOUS
  <2> HIDE DEF g
  <2>8. \A pos \in r..end : g[pos] = IF pos \in stops THEN <<>> ELSE item[pos] \o g[next[pos]]
    BY <2>4, <2>5, <2>6
  <2>9. Onward(g, r, end, stops, item, next)
    BY <2>7, <2>8 DEF Onward
  <2>10. r \in W
    BY <2>2, <2>9
  <2> QED
    <3> HIDE DEF W
    <3> QED BY <1>2, <2>2, <2>10
<1> QED BY <1>5, <1>6

\* Where the items of extensions end, what they are, and where the next is.
Stops(b, start) == {pos \in start..Len(b) : pos + 4 > Len(b) \/ pos + 4 + Number(b, pos + 2, 2) > Len(b)}
Next4(b, start) == [pos \in start..Len(b) |-> pos + 4 + Number(b, pos + 2, 2)]
Item4(b, start) ==
  [pos \in start..Len(b) |->
     <<[tag |-> Number(b, pos, 2), data |-> SubSeq(b, pos + 4 + 1, pos + 4 + Number(b, pos + 2, 2))]>>]

\* Items is such a function's value.
LEMMA ItemsOnward ==
  ASSUME NEW b \in Seq(Byte), NEW start \in Nat, start <= Len(b)
  PROVE  \E f : /\ Onward(f, start, Len(b), Stops(b, start), Item4(b, start), Next4(b, start))
                /\ Items(b, start, Len(b), 2, 2) = f[start]
<1>1. Len(b) \in Nat
  BY LenProperties
<1> DEFINE cell(pos) == <<[tag |-> Number(b, pos, 2), data |-> SubSeq(b, pos + 2 + 2 + 1, pos + 2 + 2 + Number(b, pos + 2, 2))]>>
           out(pos) == ~Room(pos, 2 + 2, Len(b)) \/ pos + 2 + 2 + Number(b, pos + 2, 2) > Len(b)
           A(f) == f = [pos \in start..Len(b) |->
                          IF out(pos) THEN <<>> ELSE cell(pos) \o f[pos + 2 + 2 + Number(b, pos + 2, 2)]]
           fc == CHOOSE f : A(f)
<1>2. Items(b, start, Len(b), 2, 2) = fc[start]
  BY DEF Items
<1>3. \A pos \in start..Len(b) : pos \notin Stops(b, start) => Next4(b, start)[pos] \in (pos + 1)..Len(b)
  <2> SUFFICES ASSUME NEW pos \in start..Len(b), pos \notin Stops(b, start)
               PROVE  Next4(b, start)[pos] \in (pos + 1)..Len(b)
    OBVIOUS
  <2>1. pos + 4 <= Len(b) /\ ~(pos + 4 + Number(b, pos + 2, 2) > Len(b)) /\ pos \in Nat
    BY <1>1 DEF Stops
  <2>2. Number(b, pos + 2, 2) \in Nat
    BY <1>1, <2>1, NumberType
  <2>3. Next4(b, start)[pos] = pos + 4 + Number(b, pos + 2, 2)
    BY DEF Next4
  <2> QED BY <1>1, <2>1, <2>2, <2>3
<1>4. \A pos \in start..Len(b) :
        /\ pos + 2 + 2 = pos + 4
        /\ out(pos) <=> pos \in Stops(b, start)
        /\ cell(pos) = Item4(b, start)[pos] /\ Next4(b, start)[pos] = pos + 4 + Number(b, pos + 2, 2)
  <2>1. \A pos \in start..Len(b) : pos + 2 + 2 = pos + 4
    BY <1>1
  <2>2. 2 + 2 = 4
    OBVIOUS
  <2>3. ASSUME NEW pos \in start..Len(b) PROVE out(pos) <=> pos \in Stops(b, start)
    <3>1. Room(pos, 4, Len(b)) <=> ~(pos + 4 > Len(b))
      BY <1>1 DEF Room
    <3> QED BY <2>1, <2>2, <3>1 DEF Stops
  <2>4. ASSUME NEW pos \in start..Len(b)
        PROVE  cell(pos) = Item4(b, start)[pos] /\ Next4(b, start)[pos] = pos + 4 + Number(b, pos + 2, 2)
    BY <2>1 DEF Item4, Next4
  <2> QED BY <2>1, <2>3, <2>4
<1> HIDE DEF out, cell
<1>5. ASSUME NEW f PROVE A(f) <=> Onward(f, start, Len(b), Stops(b, start), Item4(b, start), Next4(b, start))
  BY <1>4 DEF Onward
<1>6. \E f : Onward(f, start, Len(b), Stops(b, start), Item4(b, start), Next4(b, start))
  BY <1>1, <1>3, OnwardExists
<1> HIDE DEF A
<1>7. A(fc)
  BY <1>5, <1>6
<1>8. Onward(fc, start, Len(b), Stops(b, start), Item4(b, start), Next4(b, start))
  BY <1>5, <1>7
<1> HIDE DEF fc
<1> QED BY <1>2, <1>8
-----------------------------------------------------------------------------
(* The extensions read back *)

\* The first extensions, and all of them when the message is whole.
Leads(list, exts, whole) ==
  \E k \in 0..Len(exts) : /\ list = [i \in 1..k |-> Item(exts[i])]
                          /\ whole => k = Len(exts)

\* The extensions behind the j-th.
Rest(list, exts, j, whole) ==
  \E k \in j..Len(exts) : /\ list = [i \in 1..(k - j) |-> Item(exts[j + i])]
                          /\ whole => k = Len(exts)

\* One extension before the others.
LEMMA RestStep ==
  ASSUME NEW exts, Len(exts) \in Nat, NEW j \in 1..Len(exts), NEW list, NEW whole, Rest(list, exts, j, whole)
  PROVE  Rest(<<Item(exts[j])>> \o list, exts, j - 1, whole)
<1>1. PICK k \in j..Len(exts) : list = [i \in 1..(k - j) |-> Item(exts[j + i])] /\ (whole => k = Len(exts))
  BY DEF Rest
<1>2. PICK d \in Nat, c \in Nat : d = k - j /\ c = j - 1
  BY <1>1
<1> DEFINE f == [i \in 1..d |-> Item(exts[j + i])]
           g == [i \in 1..(d + 1) |-> Item(exts[c + i])]
           x == Item(exts[j])
<1>3. List(list) /\ Len(list) = d /\ \A i \in 1..d : list[i] = Item(exts[j + i])
  <2>1. list = [i \in 1..d |-> f[i]]
    BY <1>1, <1>2
  <2>2. List([i \in 1..d |-> f[i]]) /\ Len([i \in 1..d |-> f[i]]) = d
    BY MadeIsList
  <2> QED BY <2>1, <2>2
<1>4. List(g) /\ Len(g) = d + 1
  <2>1. g = [i \in 1..(d + 1) |-> g[i]]
    OBVIOUS
  <2>2. d + 1 \in Nat
    OBVIOUS
  <2> HIDE DEF g
  <2>3. List([i \in 1..(d + 1) |-> g[i]]) /\ Len([i \in 1..(d + 1) |-> g[i]]) = d + 1
    BY <2>2, MadeIsList
  <2> QED BY <2>1, <2>3
<1> HIDE DEF x
<1>5. List(<<x>>) /\ Len(<<x>>) = 1 /\ <<x>>[1] = x
  <2>1. <<x>> \in Seq({x})
    OBVIOUS
  <2> QED BY <2>1, SeqIsList
<1>6. /\ List(<<x>> \o list) /\ Len(<<x>> \o list) = 1 + d
      /\ \A i \in 1..1 : (<<x>> \o list)[i] = <<x>>[i]
      /\ \A i \in 1..d : (<<x>> \o list)[1 + i] = list[i]
  BY <1>3, <1>5, ListConcat
<1>7. ASSUME NEW i \in 1..(d + 1) PROVE (<<x>> \o list)[i] = g[i]
  <2>1. CASE i = 1
    <3>1. c + 1 = j
      BY <1>2
    <3>2. g[1] = Item(exts[c + 1])
      OBVIOUS
    <3> QED BY <1>5, <1>6, <2>1, <3>1, <3>2 DEF x
  <2>2. CASE i # 1
    <3>1. PICK r \in 1..d : i = 1 + r
      <4>1. i - 1 \in 1..d /\ i = 1 + (i - 1)
        BY <2>2
      <4> QED BY <4>1
    <3>2. c + i = j + r
      BY <1>2, <3>1
    <3>3. g[i] = Item(exts[c + i])
      OBVIOUS
    <3> HIDE DEF g
    <3> QED BY <1>3, <1>6, <3>1, <3>2, <3>3
  <2> QED BY <2>1, <2>2
<1>8. <<x>> \o list = g
  <2>1. Len(<<x>> \o list) = Len(g) /\ 1 + d = d + 1
    BY <1>4, <1>6
  <2>2. \A i \in 1..Len(<<x>> \o list) : (<<x>> \o list)[i] = g[i]
    BY <1>6, <1>7, <2>1
  <2> HIDE DEF g
  <2> QED BY <1>4, <1>6, <2>1, <2>2, ListEqual
<1>9. k \in c..Len(exts) /\ k - c = d + 1 /\ c = j - 1
  BY <1>1, <1>2
<1>10. <<x>> \o list = [i \in 1..(k - c) |-> Item(exts[c + i])]
  BY <1>8, <1>9
<1>11. Rest(<<x>> \o list, exts, c, whole)
  BY <1>1, <1>9, <1>10 DEF Rest
<1> QED BY <1>9, <1>11 DEF x

\* Behind the last there is none; before it there may be none left.
LEMMA RestNone ==
  ASSUME NEW exts, Len(exts) \in Nat, NEW j \in 0..Len(exts), NEW whole, ~whole \/ j = Len(exts)
  PROVE  Rest(<<>>, exts, j, whole)
<1>1. j - j = 0 /\ 1..0 = {} /\ j \in j..Len(exts)
  OBVIOUS
<1>2. <<>> = [i \in 1..(j - j) |-> Item(exts[j + i])]
  BY <1>1
<1> QED BY <1>1, <1>2 DEF Rest

\* The places of extensions follow each other.
LEMMA LaidWithin ==
  ASSUME NEW w, NEW exts, Len(exts) \in Nat, List(exts), Writable(exts), NEW off, Laid(w, exts, off)
  PROVE  \A j \in 0..Len(exts) : off[0] <= off[j] /\ off[j] <= off[Len(exts)]
<1> DEFINE n == Len(exts)
<1>1. \A j \in 0..n : off[j] \in Nat
  BY DEF Laid
<1>2. ASSUME NEW j \in 1..n PROVE off[j - 1] <= off[j] /\ j - 1 \in 0..n /\ j \in 0..n
  <2>1. PICK e : e = exts[j]
    OBVIOUS
  <2>2. e.type \in Uint16 /\ Fit(DataOf(e), 2)
    BY <2>1 DEF Writable
  <2>3. Len(Extension(e)) = 4 + Len(DataOf(e)) /\ Len(DataOf(e)) \in Nat
    BY <2>2, ExtensionIs
  <2>4. PICK k \in Nat : k = Len(Extension(e))
    BY <2>3
  <2>5. off[j] = off[j - 1] + k
    BY <2>1, <2>4 DEF Laid
  <2>6. j - 1 \in 0..n /\ j \in 0..n
    OBVIOUS
  <2> QED BY <1>1, <2>5, <2>6
<1> HIDE DEF n
<1>3. n \in Nat
  BY DEF n
<1> DEFINE U == {j \in 0..n : ~(off[0] <= off[j])}
           V == {d \in 0..n : ~(off[n - d] <= off[n])}
<1>4. U = {}
  <2> SUFFICES ASSUME U # {} PROVE FALSE
    OBVIOUS
  <2>1. PICK j \in U : \A i \in U : j <= i
    <3>1. U \subseteq Nat
      BY <1>3
    <3> HIDE DEF U
    <3> QED BY <3>1, LeastNumber
  <2>2. j \in 0..n /\ ~(off[0] <= off[j])
    OBVIOUS
  <2>3. j # 0
    BY <1>1, <1>3, <2>2
  <2>4. j \in 1..n /\ ~(j <= j - 1)
    BY <1>3, <2>2, <2>3
  <2>5. off[j - 1] <= off[j] /\ j - 1 \in 0..n
    BY <1>2, <2>4
  <2>6. j - 1 \notin U
    <3> HIDE DEF U
    <3> QED BY <2>1, <2>4
  <2>7. off[0] <= off[j - 1]
    BY <2>5, <2>6
  <2> QED BY <1>1, <1>3, <2>2, <2>5, <2>7
<1>5. V = {}
  <2> SUFFICES ASSUME V # {} PROVE FALSE
    OBVIOUS
  <2>1. PICK d \in V : \A c \in V : d <= c
    <3>1. V \subseteq Nat
      BY <1>3
    <3> HIDE DEF V
    <3> QED BY <3>1, LeastNumber
  <2>2. d \in 0..n /\ ~(off[n - d] <= off[n])
    OBVIOUS
  <2>3. d # 0
    <3>1. n - 0 = n /\ n \in 0..n
      BY <1>3
    <3> QED BY <1>1, <2>2, <3>1
  <2>4. PICK c \in 0..n : c = d - 1 /\ ~(d <= c)
    <3>1. d - 1 \in 0..n /\ ~(d <= d - 1)
      BY <1>3, <2>2, <2>3
    <3> QED BY <3>1
  <2>5. n - c \in 1..n /\ (n - c) - 1 = n - d /\ n - d \in 0..n
    BY <1>3, <2>2, <2>3, <2>4
  <2>6. off[n - d] <= off[n - c]
    <3>1. off[(n - c) - 1] <= off[n - c]
      BY <1>2, <2>5
    <3> QED BY <2>5, <3>1
  <2>7. c \notin V
    <3> HIDE DEF V
    <3> QED BY <2>1, <2>4
  <2>8. off[n - c] <= off[n]
    BY <2>4, <2>7
  <2>9. off[n - d] \in Nat /\ off[n - c] \in Nat /\ off[n] \in Nat
    BY <1>1, <1>3, <2>5
  <2> QED BY <2>2, <2>6, <2>8, <2>9
<1>6. ASSUME NEW j \in 0..n PROVE off[0] <= off[j] /\ off[j] <= off[n]
  <2>1. n - j \in 0..n /\ n - (n - j) = j
    BY <1>3
  <2>2. j \notin U /\ n - j \notin V
    BY <1>4, <1>5
  <2>3. off[n - (n - j)] <= off[n]
    BY <2>1, <2>2
  <2> QED BY <2>1, <2>2, <2>3
<1> QED BY <1>6 DEF n

\* Read from the place of any extension on, Items finds the others.
LEMMA ItemsRead ==
  ASSUME NEW b, NEW w, Cut(b, w), NEW exts, Writable(exts), NEW off, Laid(w, exts, off),
         off[Len(exts)] = Len(w), off[0] <= Len(b)
  PROVE  Leads(Items(b, off[0], Len(b), 2, 2), exts, Len(b) = Len(w))
<1> DEFINE n == Len(exts)
           l == Len(b)
           whole == Len(b) = Len(w)
<1>1. /\ b \in Seq(Byte) /\ w \in Seq(Byte) /\ l \in Nat /\ Len(w) \in Nat /\ l <= Len(w) /\ n \in Nat
      /\ \A j \in 0..n : off[j] \in Nat
  BY DEF Cut, Writable, Laid
<1>2. PICK start \in Nat : start = off[0] /\ start <= l
  BY <1>1
<1>3. PICK f : /\ Onward(f, start, l, Stops(b, start), Item4(b, start), Next4(b, start))
               /\ Items(b, start, l, 2, 2) = f[start]
  BY <1>1, <1>2, ItemsOnward
<1>4. ASSUME NEW j \in 1..n
      PROVE  LET e == exts[j]
                 d == Len(DataOf(e))
             IN  /\ Holds(w, off[j - 1], Extension(e)) /\ off[j] = off[j - 1] + (4 + d) /\ d \in Nat
                 /\ off[j - 1] + 4 <= l => Number(b, off[j - 1], 2) = e.type /\ Number(b, off[j - 1] + 2, 2) = d
                 /\ off[j] <= l => SubSeq(b, off[j - 1] + 4 + 1, off[j - 1] + 4 + d) = DataOf(e)
  <2>1. PICK e : e = exts[j]
    OBVIOUS
  <2>2. e.type \in Uint16 /\ Fit(DataOf(e), 2)
    BY <2>1 DEF Writable
  <2>3. PICK at, d : at = off[j - 1] /\ d = Len(DataOf(e))
    OBVIOUS
  <2>4. /\ Holds(w, at, Extension(e)) /\ off[j] = at + Len(Extension(e))
    BY <2>1, <2>3 DEF Laid
  <2>5. Len(Extension(e)) = 4 + d /\ d \in Nat /\ DataOf(e) \in Seq(Byte) /\ Extension(e) \in Seq(Byte)
    BY <2>2, <2>3, ExtensionIs
  <2>6. ASSUME at + 4 <= l PROVE Number(b, at, 2) = e.type /\ Number(b, at + 2, 2) = d
    <3>1. w \in Seq(Byte) /\ Cut(b, w) /\ Holds(w, at, Extension(e)) /\ at + 4 <= Len(b)
      BY <1>1, <2>4, <2>6
    <3> QED BY <2>2, <2>3, <3>1, ExtensionIs, SMTT(30)
  <2>7. off[j] = at + (4 + d)
    BY <2>4, <2>5
  <2>8. ASSUME off[j] <= l PROVE SubSeq(b, at + 4 + 1, at + 4 + d) = DataOf(e)
    <3>1. at + Len(Extension(e)) <= Len(b)
      BY <2>4, <2>8
    <3>2. Holds(b, at, Extension(e))
      BY <2>4, <3>1, HoldsCut
    <3>3. Holds(b, at + 4, DataOf(e))
      BY <1>1, <2>2, <3>2, ExtensionIs
    <3> QED BY <1>1, <2>3, <2>5, <3>3, HoldsPart
  <2> QED BY <2>1, <2>3, <2>4, <2>5, <2>6, <2>7, <2>8
<1>5. \A j \in 0..n : start <= off[j] /\ off[j] <= Len(w)
  <2>1. Len(exts) \in Nat /\ List(exts)
    BY DEF Writable
  <2>2. \A j \in 0..Len(exts) : off[0] <= off[j] /\ off[j] <= off[Len(exts)]
    BY <2>1, LaidWithin
  <2> QED BY <1>2, <2>2
<1> DEFINE W == {d \in 0..n : off[n - d] <= l /\ ~Rest(f[off[n - d]], exts, n - d, whole)}
<1>6. W = {}
  <2> SUFFICES ASSUME W # {} PROVE FALSE
    OBVIOUS
  <2>1. PICK d \in W : \A c \in W : d <= c
    <3>1. W \subseteq Nat
      BY <1>1
    <3> HIDE DEF W
    <3> QED BY <3>1, LeastNumber
  <2>2. d \in 0..n /\ off[n - d] <= l /\ ~Rest(f[off[n - d]], exts, n - d, whole)
    OBVIOUS
  <2>3. PICK i \in 0..n : i = n - d
    BY <1>1, <2>2
  <2>4. PICK at \in Nat : at = off[i]
    BY <1>1
  <2>5. at \in start..l /\ ~Rest(f[at], exts, i, whole)
    BY <1>1, <1>5, <2>2, <2>3, <2>4
  <2>6. f[at] = IF at \in Stops(b, start) THEN <<>> ELSE Item4(b, start)[at] \o f[Next4(b, start)[at]]
    BY <1>3, <2>5 DEF Onward
  <2>7. CASE i = n
    <3>1. at = Len(w) /\ at = l
      BY <1>1, <2>4, <2>5, <2>7
    <3>2. at \in Stops(b, start)
      BY <1>1, <2>5, <3>1 DEF Stops
    <3>3. Rest(<<>>, exts, i, whole)
      BY <1>1, <2>7, RestNone
    <3> QED BY <2>5, <2>6, <3>2, <3>3
  <2>8. CASE i # n
    <3>1. PICK j \in 1..n : j = i + 1 /\ j - 1 = i
      <4>1. i + 1 \in 1..n /\ (i + 1) - 1 = i
        BY <1>1, <2>8
      <4> QED BY <4>1
    <3>2. PICK e, m : e = exts[j] /\ m = Len(DataOf(e))
      OBVIOUS
    <3>3. /\ off[j] = at + (4 + m) /\ m \in Nat
          /\ at + 4 <= l => Number(b, at, 2) = e.type /\ Number(b, at + 2, 2) = m
          /\ off[j] <= l => SubSeq(b, at + 4 + 1, at + 4 + m) = DataOf(e)
      BY <1>4, <2>4, <3>1, <3>2
    <3>4. PICK later \in Nat : later = off[j] /\ later <= Len(w) /\ later = at + (4 + m)
      BY <1>1, <1>5, <3>1, <3>3
    <3>5. CASE at \in Stops(b, start)
      <4>1. ~whole
        <5> SUFFICES ASSUME whole PROVE FALSE
          OBVIOUS
        <5>1. later <= l
          BY <3>4
        <5>2. at + 4 <= l /\ Number(b, at + 2, 2) = m
          BY <1>1, <3>3, <3>4, <5>1
        <5>3. ~(at + 4 > l) /\ ~(at + 4 + Number(b, at + 2, 2) > l)
          BY <1>1, <3>3, <3>4, <5>1, <5>2, SMTT(30)
        <5> QED BY <3>5, <5>3 DEF Stops
      <4>2. Rest(<<>>, exts, i, whole)
        BY <1>1, <4>1, RestNone
      <4> QED BY <2>5, <2>6, <3>5, <4>2
    <3>6. CASE at \notin Stops(b, start)
      <4>1. at + 4 <= l /\ ~(at + 4 + Number(b, at + 2, 2) > l)
        BY <1>1, <2>5, <3>6 DEF Stops
      <4>2. Number(b, at, 2) = e.type /\ Number(b, at + 2, 2) = m
        BY <3>3, <4>1
      <4>3. at + 4 + m = later /\ later <= l
        BY <1>1, <3>3, <3>4, <4>1, <4>2
      <4>4. SubSeq(b, at + 4 + 1, at + 4 + m) = DataOf(e)
        BY <3>3, <3>4, <4>3
      <4>5. Next4(b, start)[at] = later
        BY <2>5, <4>2, <4>3 DEF Next4
      <4>6. Item4(b, start)[at] = <<Item(e)>>
        BY <2>5, <4>2, <4>4 DEF Item4, Item
      <4>7. f[at] = <<Item(e)>> \o f[later]
        BY <2>6, <3>6, <4>5, <4>6
      <4>8. Rest(f[later], exts, j, whole)
        <5>1. PICK c \in 0..n : c = d - 1
          <6>1. d # 0
            BY <1>1, <2>2, <2>3, <2>8
          <6>2. d - 1 \in 0..n
            BY <1>1, <2>2, <6>1
          <6> QED BY <6>2
        <5>2. ~(d <= c) /\ n - c = j
          BY <1>1, <2>2, <2>3, <3>1, <5>1
        <5>3. c \notin W
          <6> HIDE DEF W
          <6> QED BY <2>1, <5>2
        <5> HIDE DEF whole
        <5>4. off[n - c] = later /\ later <= l
          BY <3>4, <4>3, <5>2
        <5> QED BY <5>1, <5>2, <5>3, <5>4
      <4>9. Rest(<<Item(e)>> \o f[later], exts, j - 1, whole)
        <5> HIDE DEF whole
        <5> QED BY <1>1, <3>2, <4>8, RestStep
      <4> QED BY <2>5, <3>1, <4>7, <4>9
    <3> QED BY <3>5, <3>6
  <2> QED BY <2>7, <2>8
<1>7. Rest(f[start], exts, 0, whole)
  <2>1. n \in 0..n /\ n - n = 0 /\ off[0] <= l
    BY <1>1, <1>2
  <2> HIDE DEF whole
  <2> QED BY <1>2, <1>6, <2>1
<1>8. PICK k \in 0..n : f[start] = [i \in 1..(k - 0) |-> Item(exts[0 + i])] /\ (whole => k = n)
  BY <1>7 DEF Rest
<1>9. f[start] = [i \in 1..k |-> Item(exts[i])]
  <2>1. k - 0 = k /\ \A i \in 1..k : 0 + i = i
    BY <1>1
  <2> QED BY <1>8, <2>1
<1>10. Leads(f[start], exts, whole)
  BY <1>8, <1>9 DEF Leads
<1> QED BY <1>2, <1>3, <1>10

\* Extensions laid out in a part are laid out in the whole.
LEMMA LaidIn ==
  ASSUME NEW w \in Seq(Byte), NEW pos, NEW p, Holds(w, pos, p), NEW exts, NEW off, Laid(p, exts, off),
         Len(exts) \in Nat, Writable(exts)
  PROVE  Laid(w, exts, [j \in 0..Len(exts) |-> pos + off[j]])
<1> DEFINE n == Len(exts)
           new == [j \in 0..n |-> pos + off[j]]
<1>1. pos \in Nat /\ \A j \in 0..n : off[j] \in Nat
  BY DEF Holds, Laid
<1>2. new \in [0..n -> Nat]
  BY <1>1
<1>3. ASSUME NEW j \in 1..n
      PROVE  Holds(w, new[j - 1], Extension(exts[j])) /\ new[j] = new[j - 1] + Len(Extension(exts[j]))
  <2>1. j \in 0..n /\ j - 1 \in 0..n
    OBVIOUS
  <2>2. new[j] = pos + off[j] /\ new[j - 1] = pos + off[j - 1]
    BY <2>1
  <2>3. PICK x : x = Extension(exts[j])
    OBVIOUS
  <2>4. Holds(p, off[j - 1], x) /\ off[j] = off[j - 1] + Len(x)
    BY <2>3 DEF Laid
  <2>5. Holds(w, pos + off[j - 1], x)
    BY <2>4, HoldsIn
  <2>6. PICK a \in Nat, l \in Nat : a = off[j - 1] /\ l = Len(x)
    BY <1>1, <2>1, <2>4 DEF Holds
  <2>7. pos + (a + l) = (pos + a) + l
    BY <1>1
  <2>8. new[j] = new[j - 1] + l
    BY <2>2, <2>4, <2>6, <2>7
  <2> HIDE DEF new
  <2> QED BY <2>2, <2>3, <2>5, <2>6, <2>8
<1> HIDE DEF new
<1>4. Laid(w, exts, new)
  BY <1>2, <1>3 DEF Laid
<1> QED BY <1>4 DEF new

\* The extensions of a message are found behind what precedes them.
LEMMA ExtensionsRead ==
  ASSUME NEW b, NEW w, Cut(b, w), NEW exts, ExtensionsFit(exts), NEW p, NEW pos, Near(b, p, pos),
         Holds(w, pos, Extensions(exts)), pos + Len(Extensions(exts)) = Len(w)
  PROVE  Leads(ExtensionsAt(b, p), exts, Len(b) = Len(w))
<1>1. Writable(exts) /\ DOMAIN exts = 1..Len(exts) /\ Len(exts) \in Nat
  BY FitWritable DEF Writable
<1>2. PICK l \in Nat, m \in Nat : l = Len(b) /\ m = Len(w) /\ l <= m
  BY DEF Cut
<1>3. b \in Seq(Byte) /\ w \in Seq(Byte) /\ p \in Nat /\ pos \in Nat /\ pos <= m
  BY <1>2 DEF Cut, Near, Holds
<1>4. ASSUME exts # <<>>
      PROVE  LET x == ExtensionList(exts)
             IN  /\ Fit(x, 2) /\ Extensions(exts) = Vector(x, 2) /\ Len(x) \in Nat /\ pos + 2 + Len(x) = m
                 /\ Holds(w, pos, Digits(Len(x), 2)) /\ Holds(w, pos + 2, x) /\ Len(Digits(Len(x), 2)) = 2
  <2>1. PICK x : x = ExtensionList(exts)
    OBVIOUS
  <2>2. Fit(x, 2) /\ Extensions(exts) = Vector(x, 2)
    BY <1>4, <2>1 DEF ExtensionsFit, Extensions
  <2>3. Len(x) \in Nat /\ Len(Vector(x, 2)) = 2 + Len(x) /\ Len(Digits(Len(x), 2)) = 2
    BY <2>2, VectorIs
  <2>4. Holds(w, pos, Digits(Len(x), 2)) /\ Holds(w, pos + 2, x)
    BY <1>3, <2>2, VectorIs
  <2>5. pos + (2 + Len(x)) = m
    BY <1>2, <2>2, <2>3
  <2>6. pos + 2 + Len(x) = m
    BY <1>3, <2>3, <2>5
  <2> QED BY <2>1, <2>2, <2>3, <2>4, <2>6
<1>5. CASE l < p + 2
  <2>1. ExtensionsAt(b, p) = <<>>
    BY <1>2, <1>5 DEF ExtensionsAt, ItemList
  <2>2. ASSUME l = m PROVE Len(exts) = 0
    <3>1. p = pos
      BY <1>2, <1>3, <2>2 DEF Near
    <3>2. exts = <<>>
      <4> SUFFICES ASSUME exts # <<>> PROVE FALSE
        OBVIOUS
      <4>1. Len(ExtensionList(exts)) \in Nat /\ pos + 2 + Len(ExtensionList(exts)) = m
        BY <1>4
      <4>2. PICK x \in Nat : x = Len(ExtensionList(exts))
        BY <4>1
      <4> QED BY <1>3, <1>5, <2>2, <3>1, <4>1, <4>2
    <3> QED BY <3>2, EmptySeq
  <2>3. <<>> = [i \in 1..0 |-> Item(exts[i])] /\ 0 \in 0..Len(exts)
    BY <1>1
  <2> QED BY <1>2, <2>1, <2>2, <2>3 DEF Leads
<1>6. CASE ~(l < p + 2)
  <2>1. p = pos /\ p + 2 <= l
    BY <1>2, <1>3, <1>6 DEF Near
  <2>2. exts # <<>>
    <3> SUFFICES ASSUME exts = <<>> PROVE FALSE
      OBVIOUS
    <3>1. Len(Extensions(exts)) = 0
      BY EmptySeq DEF Extensions
    <3> QED BY <1>2, <1>3, <2>1, <3>1
  <2>3. PICK x : x = ExtensionList(exts)
    OBVIOUS
  <2>4. /\ Fit(x, 2) /\ Len(x) \in Nat /\ pos + 2 + Len(x) = m
        /\ Holds(w, pos, Digits(Len(x), 2)) /\ Holds(w, pos + 2, x) /\ Len(Digits(Len(x), 2)) = 2
    BY <1>4, <2>2, <2>3
  <2>5. Number(b, pos, 2) = Len(x)
    <3>1. Holds(b, pos, Digits(Len(x), 2))
      BY <1>2, <2>1, <2>4, HoldsCut
    <3> QED BY <2>4, <3>1, VectorIs
  <2>6. AtMost(p + 2 + Number(b, p, 2), Len(b)) = l
    <3>1. p + 2 + Number(b, p, 2) = m
      BY <2>1, <2>4, <2>5
    <3> QED BY <1>2, <3>1 DEF AtMost
  <2>7. ExtensionsAt(b, p) = Items(b, p + 2, Len(b), 2, 2)
    BY <1>2, <1>6, <2>6 DEF ExtensionsAt, ItemList
  <2>8. PICK off : Laid(x, exts, off) /\ off[0] = 0 /\ off[Len(exts)] = Len(x)
    BY <1>1, <2>2, <2>3, ExtensionsLaid
  <2>9. PICK at \in Nat : at = pos + 2
    BY <1>3
  <2>10. Holds(w, at, x)
    BY <2>4, <2>9
  <2> DEFINE new == [j \in 0..Len(exts) |-> at + off[j]]
  <2>11. Laid(w, exts, new)
    BY <1>1, <1>3, <2>8, <2>10, LaidIn
  <2>12. new[0] = p + 2 /\ new[Len(exts)] = Len(w)
    <3>1. new[0] = at + 0 /\ new[Len(exts)] = at + Len(x)
      BY <1>1, <2>8
    <3> HIDE DEF new
    <3> QED BY <1>2, <2>1, <2>4, <2>9, <3>1
  <2> HIDE DEF new
  <2>13. new[0] <= Len(b)
    BY <1>2, <2>1, <2>12
  <2>14. Leads(Items(b, new[0], Len(b), 2, 2), exts, Len(b) = Len(w))
    BY <1>1, <2>11, <2>12, <2>13, ItemsRead
  <2> QED BY <2>7, <2>12, <2>14
<1> QED BY <1>2, <1>5, <1>6

\* What is found was offered, and all that was when the message is whole.
LEMMA HasRead ==
  ASSUME NEW m, DOMAIN m.fields.exts = 1..Len(m.fields.exts), Len(m.fields.exts) \in Nat,
         NEW list, NEW whole, Leads(list, m.fields.exts, whole), NEW type
  PROVE  (Has(list, type) => Offered(m, type)) /\ (whole => (Has(list, type) <=> Offered(m, type)))
<1>1. PICK k \in 0..Len(m.fields.exts) :
        list = [i \in 1..k |-> Item(m.fields.exts[i])] /\ (whole => k = Len(m.fields.exts))
  BY DEF Leads
<1>2. PICK exts : exts = m.fields.exts
  OBVIOUS
<1>3. DOMAIN list = 1..k /\ \A i \in 1..k : list[i].tag = exts[i].type
  BY <1>1, <1>2 DEF Item
<1>4. \A i \in 1..k : i \in 1..Len(exts)
  BY <1>2
<1>5. Has(list, type) => Offered(m, type)
  BY <1>2, <1>3, <1>4 DEF Has, Offered
<1>6. ASSUME whole, Offered(m, type) PROVE Has(list, type)
  <2>1. k = Len(exts)
    BY <1>1, <1>2, <1>6
  <2>2. PICK i \in 1..k : exts[i].type = type
    BY <1>2, <1>6, <2>1 DEF Offered
  <2> QED BY <1>3, <2>2 DEF Has
<1> QED BY <1>5, <1>6

\* The bytes of the version named last, or others when none is.
LastVersion(list, none) ==
  LET fitting == {i \in DOMAIN list : list[i].tag = extSupportedVersions /\ Len(list[i].data) >= 2}
  IN  IF fitting = {} THEN none ELSE list[Max(fitting)].data

\* The version that is named last is the one that is named.
LEMMA VersionsRead ==
  ASSUME NEW m, ExtensionsFit(m.fields.exts), NEW list, NEW whole, Leads(list, m.fields.exts, whole), NEW none
  PROVE  \/ LastVersion(list, none) = none /\ (whole => ~Offered(m, extSupportedVersions))
         \/ Offered(m, extSupportedVersions) /\ LastVersion(list, none) = Sent(m, extSupportedVersions).data
<1> DEFINE fitting == {i \in DOMAIN list : list[i].tag = extSupportedVersions /\ Len(list[i].data) >= 2}
<1>0. PICK v : v = LastVersion(list, none) /\ v = IF fitting = {} THEN none ELSE list[Max(fitting)].data
  BY DEF LastVersion
<1>1. PICK exts : exts = m.fields.exts
  OBVIOUS
<1>2. DOMAIN exts = 1..Len(exts) /\ Len(exts) \in Nat
  BY <1>1, FitWritable DEF Writable
<1>3. PICK k \in 0..Len(exts) : list = [i \in 1..k |-> Item(exts[i])] /\ (whole => k = Len(exts))
  BY <1>1 DEF Leads
<1>4. DOMAIN list = 1..k /\ \A i \in 1..k : list[i].tag = exts[i].type /\ list[i].data = DataOf(exts[i])
  BY <1>3 DEF Item
<1>5. /\ \A i \in 1..k : i \in DOMAIN exts
      /\ \A i \in DOMAIN exts : exts[i].type = extSupportedVersions => Len(exts[i].data) >= 2
      /\ \A i, j \in DOMAIN exts : exts[i].type = exts[j].type => i = j
  BY <1>1, <1>2 DEF ExtensionsFit
<1>6. ASSUME NEW i \in 1..k, exts[i].type = extSupportedVersions
      PROVE  i \in fitting /\ list[i].data = exts[i].data
  <2>1. DataOf(exts[i]) = exts[i].data
    BY <1>6 DEF DataOf, extSNI, extSupportedVersions
  <2> QED BY <1>4, <1>5, <1>6, <2>1
<1>7. \A i \in fitting : i \in 1..k /\ exts[i].type = extSupportedVersions
  BY <1>4
<1>8. CASE fitting = {}
  <2>1. ASSUME whole, Offered(m, extSupportedVersions) PROVE FALSE
    <3>1. PICK i \in DOMAIN exts : exts[i].type = extSupportedVersions
      BY <1>1, <2>1 DEF Offered
    <3>2. i \in 1..k
      BY <1>2, <1>3, <2>1
    <3> QED BY <1>6, <1>8, <3>1, <3>2
  <2> QED BY <1>0, <1>8, <2>1
<1>9. CASE fitting # {}
  <2>1. PICK i : i \in fitting
    BY <1>9
  <2>2. i \in 1..k /\ exts[i].type = extSupportedVersions /\ i \in DOMAIN exts
    BY <1>5, <1>7, <2>1
  <2>3. fitting = {i}
    BY <1>5, <1>7, <2>1, <2>2
  <2>4. Max(fitting) = i
    <3>1. \A x \in {i} : \A y \in {i} : x >= y
      BY <2>2
    <3> QED BY <2>3, <3>1 DEF Max
  <2>5. v = exts[i].data
    BY <1>0, <1>6, <1>9, <2>2, <2>4
  <2>6. Sent(m, extSupportedVersions) = exts[i]
    <3> DEFINE j == CHOOSE j \in DOMAIN exts : exts[j].type = extSupportedVersions
    <3>1. j \in DOMAIN exts /\ exts[j].type = extSupportedVersions
      BY <2>2
    <3>2. j = i
      <4> HIDE DEF j
      <4> QED BY <1>5, <2>2, <3>1
    <3> QED BY <1>1, <3>2 DEF Sent
  <2>7. Offered(m, extSupportedVersions)
    BY <1>1, <2>2 DEF Offered
  <2> QED BY <1>0, <2>5, <2>6, <2>7
<1> QED BY <1>8, <1>9

-----------------------------------------------------------------------------
(* The messages *)

\* Six parts, one behind the other.
Parts(w, a, b, c, d, e, f) ==
  /\ w \in Seq(Byte)
  /\ Len(a) \in Nat /\ Len(b) \in Nat /\ Len(c) \in Nat /\ Len(d) \in Nat /\ Len(e) \in Nat /\ Len(f) \in Nat
  /\ Len(w) = Len(a) + Len(b) + Len(c) + Len(d) + Len(e) + Len(f)
  /\ Holds(w, 0, a) /\ Holds(w, Len(a), b) /\ Holds(w, Len(a) + Len(b), c)
  /\ Holds(w, Len(a) + Len(b) + Len(c), d) /\ Holds(w, Len(a) + Len(b) + Len(c) + Len(d), e)
  /\ Holds(w, Len(a) + Len(b) + Len(c) + Len(d) + Len(e), f)

\* They stand where the lengths of those before them say.
LEMMA PartsStand ==
  ASSUME NEW a \in Seq(Byte), NEW b \in Seq(Byte), NEW c \in Seq(Byte), NEW d \in Seq(Byte),
         NEW e \in Seq(Byte), NEW f \in Seq(Byte), NEW w, w = a \o b \o c \o d \o e \o f
  PROVE  Parts(w, a, b, c, d, e, f)
<1>0. /\ Len(a) \in Nat /\ Len(b) \in Nat /\ Len(c) \in Nat /\ Len(d) \in Nat /\ Len(e) \in Nat /\ Len(f) \in Nat
  BY LenProperties
<1>1. PICK ab : ab = a \o b
  OBVIOUS
<1>2. PICK abc : abc = ab \o c
  OBVIOUS
<1>3. PICK abcd : abcd = abc \o d
  OBVIOUS
<1>4. PICK abcde : abcde = abcd \o e
  OBVIOUS
<1>5. w = abcde \o f
  BY <1>1, <1>2, <1>3, <1>4
<1>6. ab \in Seq(Byte) /\ Len(ab) = Len(a) + Len(b)
  BY <1>1, HoldsConcat
<1>7. abc \in Seq(Byte) /\ Len(abc) = Len(ab) + Len(c)
  BY <1>2, <1>6, HoldsConcat
<1>8. abcd \in Seq(Byte) /\ Len(abcd) = Len(abc) + Len(d)
  BY <1>3, <1>7, HoldsConcat
<1>9. abcde \in Seq(Byte) /\ Len(abcde) = Len(abcd) + Len(e)
  BY <1>4, <1>8, HoldsConcat
<1>10. w \in Seq(Byte) /\ Len(w) = Len(abcde) + Len(f) /\ Holds(w, 0, abcde) /\ Holds(w, Len(abcde), f)
  BY <1>5, <1>9, HoldsConcat
<1>11. Holds(w, 0, abcd) /\ Holds(w, 0 + Len(abcd), e)
  BY <1>4, <1>8, <1>10, HoldsBoth
<1>12. Holds(w, 0, abc) /\ Holds(w, 0 + Len(abc), d)
  BY <1>3, <1>7, <1>10, <1>11, HoldsBoth
<1>13. Holds(w, 0, ab) /\ Holds(w, 0 + Len(ab), c)
  BY <1>2, <1>6, <1>10, <1>12, HoldsBoth
<1>14. Holds(w, 0, a) /\ Holds(w, 0 + Len(a), b)
  BY <1>1, <1>10, <1>13, HoldsBoth
<1>15. /\ Len(ab) = Len(a) + Len(b) /\ Len(abc) = Len(a) + Len(b) + Len(c)
       /\ Len(abcd) = Len(a) + Len(b) + Len(c) + Len(d)
       /\ Len(abcde) = Len(a) + Len(b) + Len(c) + Len(d) + Len(e)
       /\ Len(w) = Len(a) + Len(b) + Len(c) + Len(d) + Len(e) + Len(f)
  BY <1>6, <1>7, <1>8, <1>9, <1>10
<1>16. 0 + Len(a) = Len(a) /\ 0 + Len(ab) = Len(ab) /\ 0 + Len(abc) = Len(abc) /\ 0 + Len(abcd) = Len(abcd)
  BY <1>0, <1>6, <1>7, <1>8
<1> QED BY <1>0, <1>10, <1>11, <1>12, <1>13, <1>14, <1>15, <1>16 DEF Parts

\* A number of two bytes.
LEMMA Uint16Is == ASSUME NEW n \in Uint16 PROVE n \in Nat /\ n < Base * Base
<1>1. PICK u : u = Base * Base
  OBVIOUS
<1>2. u \in Nat
  BY <1>1, BytesAssumption
<1>3. n \in 0..(u - 1)
  BY <1>1 DEF Uint16
<1>4. n \in Nat /\ n < u
  BY <1>2, <1>3
<1> QED BY <1>1, <1>4

\* Extensions are bytes.
LEMMA ExtensionsType == ASSUME NEW exts, ExtensionsFit(exts) PROVE Extensions(exts) \in Seq(Byte)
<1>1. CASE exts = <<>>
  BY <1>1 DEF Extensions
<1>2. CASE exts # <<>>
  <2>1. Fit(ExtensionList(exts), 2) /\ Extensions(exts) = Vector(ExtensionList(exts), 2)
    BY <1>2 DEF ExtensionsFit, Extensions
  <2> QED BY <2>1, VectorIs
<1> QED BY <1>1, <1>2

\* The first parts of a hello.
HelloLaid(w, f) ==
  /\ w \in Seq(Byte) /\ Holds(w, 0, Digits(f.version, 2)) /\ Len(Digits(f.version, 2)) = 2
  /\ Holds(w, 2, f.random) /\ Len(f.random) = RandomLen
  /\ Holds(w, SessionAt, Vector(f.session, 1))
  /\ ExtensionsFit(f.exts)

\* Where the parts of a client's hello are ...
ClientLaid(w, f) ==
  LET suites == SessionAt + 1 + Len(f.session)
      compression == suites + 2 + Len(SuiteList(f.suites))
  IN  /\ HelloLaid(w, f)
      /\ Fit(f.session, 1) /\ Holds(w, suites, Vector(SuiteList(f.suites), 2)) /\ Fit(SuiteList(f.suites), 2)
      /\ Holds(w, compression, Vector(<<0>>, 1)) /\ Fit(<<0>>, 1)
      /\ Holds(w, compression + 1 + Len(<<0>>), Extensions(f.exts))
      /\ compression + 1 + Len(<<0>>) + Len(Extensions(f.exts)) = Len(w)

\* A client's hello is laid out so,
LEMMA ClientWritten ==
  ASSUME NEW m \in Messages, m.type = hsClientHello
  PROVE  ClientLaid(Written(m), m.fields)
<1>1. PICK f : f = m.fields
  OBVIOUS
<1>2. HelloFits(f) /\ Fit(SuiteList(f.suites), 2)
  BY <1>1, MessagesAssumption DEF hsClientHello, hsServerHello, hsCertificate, hsClientKeyExchange
<1>3. PICK a, s, c, k, x : /\ a = Digits(f.version, 2) /\ s = Vector(f.session, 1)
                           /\ c = Vector(SuiteList(f.suites), 2) /\ k = Vector(<<0>>, 1) /\ x = Extensions(f.exts)
  OBVIOUS
<1>4. PICK w : w = Written(m)
  OBVIOUS
<1>5. w = a \o f.random \o s \o c \o k \o x
  <2>1. Written(m) = ClientHello(f)
    BY <1>1 DEF Written, hsClientHello, hsServerHello, hsCertificate, hsClientKeyExchange
  <2>2. ClientHello(f) = a \o f.random \o s \o c \o k \o x
    BY <1>3, Zenon DEF ClientHello
  <2> QED BY <1>4, <2>1, <2>2
<1>6. a \in Seq(Byte) /\ Len(a) = 2
  <2>1. f.version \in Nat /\ f.version < Base * Base
    BY <1>2, Uint16Is DEF HelloFits
  <2> QED BY <1>3, <2>1, TwoBytes
<1>7. f.random \in Seq(Byte) /\ Len(f.random) = RandomLen /\ RandomLen \in Nat
  BY <1>2, BytesAssumption DEF HelloFits
<1>8. Fit(f.session, 1) /\ s \in Seq(Byte) /\ Len(s) = 1 + Len(f.session) /\ Len(f.session) \in Nat
  <2>1. Fit(f.session, 1)
    BY <1>2 DEF HelloFits
  <2> QED BY <1>3, <2>1, VectorIs
<1>9. c \in Seq(Byte) /\ Len(c) = 2 + Len(SuiteList(f.suites)) /\ Len(SuiteList(f.suites)) \in Nat
  BY <1>2, <1>3, VectorIs
<1>10. Fit(<<0>>, 1) /\ k \in Seq(Byte) /\ Len(k) = 1 + Len(<<0>>) /\ Len(<<0>>) \in Nat
  <2>1. 0 \in Byte /\ 1 < Base
    BY BytesAssumption DEF Byte
  <2>2. <<0>> \in Seq(Byte) /\ Len(<<0>>) = 1
    BY <2>1
  <2>3. Fit(<<0>>, 1)
    BY <2>1, <2>2 DEF Fit
  <2> QED BY <1>3, <2>3, VectorIs
<1>11. ExtensionsFit(f.exts) /\ x \in Seq(Byte) /\ Len(x) \in Nat
  <2>1. ExtensionsFit(f.exts)
    BY <1>2 DEF HelloFits
  <2> QED BY <1>3, <2>1, ExtensionsType, LenProperties
<1>12. Parts(w, a, f.random, s, c, k, x)
  BY <1>5, <1>6, <1>7, <1>8, <1>9, <1>10, <1>11, PartsStand
<1>13. PICK i \in Nat, j \in Nat, l \in Nat, n \in Nat :
         i = Len(f.session) /\ j = Len(SuiteList(f.suites)) /\ l = Len(<<0>>) /\ n = Len(x)
  BY <1>8, <1>9, <1>10, <1>11
<1>14. /\ w \in Seq(Byte) /\ Holds(w, 0, a) /\ Holds(w, 2, f.random) /\ Holds(w, 2 + RandomLen, s)
       /\ Holds(w, 2 + RandomLen + (1 + i), c) /\ Holds(w, 2 + RandomLen + (1 + i) + (2 + j), k)
       /\ Holds(w, 2 + RandomLen + (1 + i) + (2 + j) + (1 + l), x)
       /\ Len(w) = 2 + RandomLen + (1 + i) + (2 + j) + (1 + l) + n
  <2>1. Len(a) = 2 /\ Len(f.random) = RandomLen /\ Len(s) = 1 + i /\ Len(c) = 2 + j /\ Len(k) = 1 + l /\ Len(x) = n
    BY <1>6, <1>7, <1>8, <1>9, <1>10, <1>13
  <2> QED BY <1>12, <2>1 DEF Parts
<1>15. PICK at \in Nat : at = 2 + RandomLen /\ at = SessionAt
  BY <1>7 DEF SessionAt
<1>16. /\ Holds(w, at + 1 + i, c) /\ Holds(w, at + 1 + i + 2 + j, k) /\ Holds(w, at + 1 + i + 2 + j + 1 + l, x)
       /\ Len(w) = at + 1 + i + 2 + j + 1 + l + n
  <2>1. /\ 2 + RandomLen + (1 + i) = at + 1 + i
        /\ 2 + RandomLen + (1 + i) + (2 + j) = at + 1 + i + 2 + j
        /\ 2 + RandomLen + (1 + i) + (2 + j) + (1 + l) = at + 1 + i + 2 + j + 1 + l
        /\ 2 + RandomLen + (1 + i) + (2 + j) + (1 + l) + n = at + 1 + i + 2 + j + 1 + l + n
    BY <1>7, <1>15
  <2> QED BY <1>14, <2>1
<1>17. HelloLaid(w, f)
  BY <1>3, <1>6, <1>7, <1>11, <1>14, <1>15 DEF HelloLaid
<1>18. /\ Holds(w, SessionAt + 1 + Len(f.session), Vector(SuiteList(f.suites), 2))
       /\ Holds(w, SessionAt + 1 + Len(f.session) + 2 + Len(SuiteList(f.suites)), Vector(<<0>>, 1))
       /\ Holds(w, SessionAt + 1 + Len(f.session) + 2 + Len(SuiteList(f.suites)) + 1 + Len(<<0>>), Extensions(f.exts))
       /\ SessionAt + 1 + Len(f.session) + 2 + Len(SuiteList(f.suites)) + 1 + Len(<<0>>) + Len(Extensions(f.exts)) = Len(w)
  BY <1>3, <1>13, <1>15, <1>16
<1>19. ClientLaid(w, f)
  BY <1>2, <1>8, <1>10, <1>17, <1>18 DEF ClientLaid
<1> QED BY <1>1, <1>4, <1>19

\* ... and of a server's.
ServerLaid(w, f) ==
  LET chosen == SessionAt + 1 + Len(f.session)
  IN  /\ HelloLaid(w, f)
      /\ Fit(f.session, 1) /\ Holds(w, chosen, Digits(f.suite, 2)) /\ Len(Digits(f.suite, 2)) = 2
      /\ Holds(w, chosen + 3, Extensions(f.exts))
      /\ chosen + 3 + Len(Extensions(f.exts)) = Len(w)

\* and a server's.
LEMMA ServerWritten ==
  ASSUME NEW m \in Messages, m.type = hsServerHello
  PROVE  ServerLaid(Written(m), m.fields)
<1>1. PICK f : f = m.fields
  OBVIOUS
<1>2. HelloFits(f) /\ f.suite \in Uint16
  BY <1>1, MessagesAssumption DEF hsClientHello, hsServerHello, hsCertificate, hsClientKeyExchange
<1>3. PICK a, s, d, z, x : /\ a = Digits(f.version, 2) /\ s = Vector(f.session, 1)
                           /\ d = Digits(f.suite, 2) /\ z = <<0>> /\ x = Extensions(f.exts)
  OBVIOUS
<1>4. PICK w : w = Written(m)
  OBVIOUS
<1>5. w = a \o f.random \o s \o d \o z \o x
  <2>1. Written(m) = ServerHello(f)
    BY <1>1 DEF Written, hsClientHello, hsServerHello, hsCertificate, hsClientKeyExchange
  <2>2. ServerHello(f) = a \o f.random \o s \o d \o z \o x
    BY <1>3, Zenon DEF ServerHello
  <2> QED BY <1>4, <2>1, <2>2
<1>6. a \in Seq(Byte) /\ Len(a) = 2
  <2>1. f.version \in Nat /\ f.version < Base * Base
    BY <1>2, Uint16Is DEF HelloFits
  <2> QED BY <1>3, <2>1, TwoBytes
<1>7. f.random \in Seq(Byte) /\ Len(f.random) = RandomLen /\ RandomLen \in Nat
  BY <1>2, BytesAssumption DEF HelloFits
<1>8. Fit(f.session, 1) /\ s \in Seq(Byte) /\ Len(s) = 1 + Len(f.session) /\ Len(f.session) \in Nat
  <2>1. Fit(f.session, 1)
    BY <1>2 DEF HelloFits
  <2> QED BY <1>3, <2>1, VectorIs
<1>9. d \in Seq(Byte) /\ Len(d) = 2
  <2>1. f.suite \in Nat /\ f.suite < Base * Base
    BY <1>2, Uint16Is
  <2> QED BY <1>3, <2>1, TwoBytes
<1>10. z \in Seq(Byte) /\ Len(z) = 1
  <2>1. 0 \in Byte
    BY BytesAssumption DEF Byte
  <2> QED BY <1>3, <2>1
<1>11. ExtensionsFit(f.exts) /\ x \in Seq(Byte) /\ Len(x) \in Nat
  <2>1. ExtensionsFit(f.exts)
    BY <1>2 DEF HelloFits
  <2> QED BY <1>3, <2>1, ExtensionsType, LenProperties
<1>12. Parts(w, a, f.random, s, d, z, x)
  BY <1>5, <1>6, <1>7, <1>8, <1>9, <1>10, <1>11, PartsStand
<1>13. PICK i \in Nat, n \in Nat : i = Len(f.session) /\ n = Len(x)
  BY <1>8, <1>11
<1>14. /\ w \in Seq(Byte) /\ Holds(w, 0, a) /\ Holds(w, 2, f.random) /\ Holds(w, 2 + RandomLen, s)
       /\ Holds(w, 2 + RandomLen + (1 + i), d) /\ Holds(w, 2 + RandomLen + (1 + i) + 2 + 1, x)
       /\ Len(w) = 2 + RandomLen + (1 + i) + 2 + 1 + n
  <2>1. Len(a) = 2 /\ Len(f.random) = RandomLen /\ Len(s) = 1 + i /\ Len(d) = 2 /\ Len(z) = 1 /\ Len(x) = n
    BY <1>6, <1>7, <1>8, <1>9, <1>10, <1>13
  <2> QED BY <1>12, <2>1 DEF Parts
<1>15. PICK at \in Nat : at = 2 + RandomLen /\ at = SessionAt
  BY <1>7 DEF SessionAt
<1>16. Holds(w, at + 1 + i, d) /\ Holds(w, at + 1 + i + 3, x) /\ at + 1 + i + 3 + n = Len(w)
  <2>1. /\ 2 + RandomLen + (1 + i) = at + 1 + i
        /\ 2 + RandomLen + (1 + i) + 2 + 1 = at + 1 + i + 3
        /\ 2 + RandomLen + (1 + i) + 2 + 1 + n = at + 1 + i + 3 + n
    BY <1>7, <1>15
  <2> QED BY <1>14, <2>1
<1>17. HelloLaid(w, f)
  BY <1>3, <1>6, <1>7, <1>11, <1>14, <1>15 DEF HelloLaid
<1>18. /\ Holds(w, SessionAt + 1 + Len(f.session), Digits(f.suite, 2))
       /\ Holds(w, SessionAt + 1 + Len(f.session) + 3, Extensions(f.exts))
       /\ SessionAt + 1 + Len(f.session) + 3 + Len(Extensions(f.exts)) = Len(w)
  BY <1>3, <1>13, <1>15, <1>16
<1>19. ServerLaid(w, f)
  BY <1>3, <1>8, <1>9, <1>17, <1>18 DEF ServerLaid
<1> QED BY <1>1, <1>4, <1>19

\* The random of a hello, when it is there.
LEMMA RandomRead ==
  ASSUME NEW b, NEW w, Cut(b, w), NEW f, f.random \in Seq(Byte), HelloLaid(w, f), ~(Len(b) < SessionAt)
  PROVE  SubSeq(b, 3, SessionAt) = f.random
<1>1. RandomLen \in Nat /\ SessionAt = 2 + RandomLen /\ Len(b) \in Nat /\ b \in Seq(Byte)
  BY BytesAssumption DEF SessionAt, Cut
<1>2. Holds(w, 2, f.random) /\ Len(f.random) = RandomLen
  BY DEF HelloLaid
<1>3. 2 + Len(f.random) <= Len(b)
  BY <1>1, <1>2
<1>4. Holds(b, 2, f.random)
  BY <1>2, <1>3, HoldsCut
<1>5. SubSeq(b, 2 + 1, 2 + Len(f.random)) = f.random
  BY <1>1, <1>4, HoldsPart
<1>6. 2 + 1 = 3 /\ 2 + Len(f.random) = SessionAt
  BY <1>1, <1>2
<1> QED BY <1>5, <1>6

\* What a message that is whole is to be read as, and what is honest of one
\* that is not.
WellRead(result, m, whole) ==
  IF whole THEN result = Read(ForSession(m))
  ELSE \/ result = Error
       \/ /\ m.type = hsClientHello
          /\ result.fields.random = ForSession(m).random
          /\ (result.fields.ems => ForSession(m).ems) /\ (result.fields.etm => ForSession(m).etm)
       \/ /\ m.type = hsServerHello
          /\ result.fields.random = ForSession(m).random /\ result.fields.suite = ForSession(m).suite
          /\ result.fields.version \in {m.fields.version, ForSession(m).version}
          /\ (result.fields.ems => ForSession(m).ems) /\ (result.fields.etm => ForSession(m).etm)
       \/ m.type = hsClientKeyExchange /\ result.fields = ForSession(m)

\* A client's hello is read as it was written, as far as it goes,
LEMMA ClientRead ==
  ASSUME NEW m \in Messages, m.type = hsClientHello, NEW b, Cut(b, Written(m))
  PROVE  WellRead(parseClientHello(b), m, Len(b) = Len(Written(m)))
<1>1. PICK f, w : f = m.fields /\ w = Written(m)
  OBVIOUS
<1>2. ClientLaid(w, f) /\ Cut(b, w) /\ f.random \in Seq(Byte)
  <2>1. HelloFits(f)
    BY <1>1, MessagesAssumption DEF hsClientHello, hsServerHello, hsCertificate, hsClientKeyExchange
  <2> QED BY <1>1, <2>1, ClientWritten DEF HelloFits
<1>3. HelloLaid(w, f) /\ ExtensionsFit(f.exts)
  BY <1>2 DEF ClientLaid, HelloLaid
<1>4. PICK i, j, x : i = Len(f.session) /\ j = Len(SuiteList(f.suites)) /\ x = Extensions(f.exts)
  OBVIOUS
<1>5. /\ Fit(f.session, 1) /\ Holds(w, SessionAt, Vector(f.session, 1))
      /\ Fit(SuiteList(f.suites), 2) /\ Holds(w, SessionAt + 1 + i, Vector(SuiteList(f.suites), 2))
      /\ Fit(<<0>>, 1) /\ Holds(w, SessionAt + 1 + i + 2 + j, Vector(<<0>>, 1))
      /\ Holds(w, SessionAt + 1 + i + 2 + j + 1 + Len(<<0>>), x)
      /\ SessionAt + 1 + i + 2 + j + 1 + Len(<<0>>) + Len(x) = Len(w)
  BY <1>2, <1>3, <1>4 DEF ClientLaid, HelloLaid
<1>6. Near(b, SessionAt, SessionAt)
  BY BytesAssumption DEF Near, SessionAt
<1>7. Near(b, SuitesAt(b), SessionAt + 1 + i)
  BY <1>2, <1>4, <1>5, <1>6, PastNear DEF SuitesAt
<1>8. Near(b, CompressionAt(b), SessionAt + 1 + i + 2 + j)
  BY <1>2, <1>4, <1>5, <1>7, PastNear DEF CompressionAt
<1>9. Near(b, Past(b, CompressionAt(b), 1), SessionAt + 1 + i + 2 + j + 1 + Len(<<0>>))
  BY <1>2, <1>5, <1>8, PastNear
<1>10. PICK whole \in BOOLEAN : whole = (Len(b) = Len(w))
  OBVIOUS
<1>11. PICK list : list = ClientExtensions(b)
  OBVIOUS
<1>12. Leads(list, f.exts, whole)
  BY <1>2, <1>3, <1>4, <1>5, <1>9, <1>10, <1>11, ExtensionsRead DEF ClientExtensions
<1>13. \A type : (Has(list, type) => Offered(m, type)) /\ (whole => (Has(list, type) <=> Offered(m, type)))
  <2>1. DOMAIN m.fields.exts = 1..Len(m.fields.exts) /\ Len(m.fields.exts) \in Nat
    BY <1>1, <1>3, FitWritable DEF Writable
  <2> QED BY <1>1, <1>12, <2>1, HasRead
<1>14. ForSession(m) = [random |-> f.random, ems |-> Offered(m, extExtendedMasterSecret),
                        etm |-> Offered(m, extEncryptThenMAC)]
  BY <1>1 DEF ForSession, hsClientHello, hsServerHello
<1>15. CASE Len(b) < SessionAt
  <2>1. parseClientHello(b) = Error
    BY <1>15 DEF parseClientHello
  <2>2. ~whole
    <3>1. Len(w) \in Nat /\ Holds(w, SessionAt, Vector(f.session, 1)) /\ SessionAt <= Len(w)
      BY <1>2, <1>5 DEF Holds, Cut
    <3>2. Len(b) # Len(w)
      BY <1>2, <1>6, <1>15, <3>1 DEF Cut, Near
    <3> QED BY <1>10, <3>2
  <2> QED BY <1>1, <1>10, <2>1, <2>2 DEF WellRead
<1>16. CASE ~(Len(b) < SessionAt)
  <2>1. parseClientHello(b) = Read([random |-> SubSeq(b, 3, SessionAt), ems |-> Has(list, extExtendedMasterSecret),
                                    etm |-> Has(list, extEncryptThenMAC)])
    BY <1>11, <1>16 DEF parseClientHello
  <2>2. SubSeq(b, 3, SessionAt) = f.random
    BY <1>2, <1>3, <1>16, RandomRead
  <2>3. PICK ems \in BOOLEAN : ems = Has(list, extExtendedMasterSecret)
    BY DEF Has
  <2>4. PICK etm \in BOOLEAN : etm = Has(list, extEncryptThenMAC)
    BY DEF Has
  <2>5. PICK ems2 \in BOOLEAN : ems2 = Offered(m, extExtendedMasterSecret)
    BY DEF Offered
  <2>6. PICK etm2 \in BOOLEAN : etm2 = Offered(m, extEncryptThenMAC)
    BY DEF Offered
  <2>7. (ems => ems2) /\ (etm => etm2) /\ (whole => (ems <=> ems2) /\ (etm <=> etm2))
    BY <1>13, <2>3, <2>4, <2>5, <2>6
  <2>8. PICK result : result = parseClientHello(b)
    OBVIOUS
  <2>9. result = Read([random |-> f.random, ems |-> ems, etm |-> etm])
    BY <2>1, <2>2, <2>3, <2>4, <2>8
  <2>10. ForSession(m) = [random |-> f.random, ems |-> ems2, etm |-> etm2]
    BY <1>14, <2>5, <2>6
  <2>11. whole => result = Read(ForSession(m))
    BY <2>7, <2>9, <2>10
  <2>12. result.fields = [random |-> f.random, ems |-> ems, etm |-> etm]
    BY <2>9 DEF Read
  <2>13. /\ result.fields.random = ForSession(m).random
         /\ (result.fields.ems => ForSession(m).ems) /\ (result.fields.etm => ForSession(m).etm)
    BY <2>7, <2>10, <2>12
  <2>14. CASE whole
    BY <1>1, <1>10, <2>8, <2>11, <2>14 DEF WellRead
  <2>15. CASE ~whole
    BY <1>1, <1>10, <2>8, <2>13, <2>15 DEF WellRead, hsClientHello, hsServerHello
  <2> QED BY <2>14, <2>15
<1> QED BY <1>15, <1>16

\* The version in force.
InForce(m) ==
  IF Offered(m, extSupportedVersions)
  THEN LET v == Sent(m, extSupportedVersions).data IN v[1] * Base + v[2] ELSE m.fields.version

\* the version a server chose, in its hello or in an extension,
LEMMA VersionRead ==
  ASSUME NEW m \in Messages, m.type = hsServerHello, NEW b, Cut(b, Written(m)), 2 <= Len(b),
         NEW list, NEW whole, Leads(list, m.fields.exts, whole)
  PROVE  LET version == Number(LastVersion(list, SubSeq(b, 1, 2)), 0, 2)
         IN  version \in {m.fields.version, InForce(m)} /\ (whole => version = InForce(m))
<1>1. PICK f, w : f = m.fields /\ w = Written(m)
  OBVIOUS
<1>2. HelloLaid(w, f) /\ f.version \in Uint16 /\ ExtensionsFit(f.exts)
  <2>1. HelloFits(f)
    BY <1>1, MessagesAssumption DEF hsClientHello, hsServerHello, hsCertificate, hsClientKeyExchange
  <2> QED BY <1>1, <2>1, ServerWritten DEF HelloFits, ServerLaid
<1>3. Number(SubSeq(b, 1, 2), 0, 2) = f.version
  <2>1. PICK d : d = Digits(f.version, 2)
    OBVIOUS
  <2>2. f.version \in Nat /\ f.version < Base * Base
    BY <1>2, Uint16Is
  <2>3. d \in Seq(Byte) /\ Len(d) = 2 /\ \A u, pos : Holds(u, pos, d) => Number(u, pos, 2) = f.version
    BY <2>1, <2>2, TwoBytes
  <2>4. Holds(w, 0, d) /\ Cut(b, w) /\ b \in Seq(Byte) /\ 0 + Len(d) <= Len(b)
    BY <1>1, <1>2, <2>1, <2>3 DEF HelloLaid, Cut
  <2>5. Holds(b, 0, d)
    BY <2>4, HoldsCut
  <2>6. SubSeq(b, 0 + 1, 0 + Len(d)) = d
    BY <2>3, <2>4, <2>5, HoldsPart
  <2>7. SubSeq(b, 1, 2) = d
    BY <2>3, <2>6
  <2>8. Holds(d, 0, d)
    BY <2>3 DEF Holds
  <2> QED BY <2>3, <2>7, <2>8
<1>8. PICK none : none = SubSeq(b, 1, 2)
  OBVIOUS
<1> DEFINE v == LastVersion(list, none)
<1>4. \/ v = none /\ (whole => ~Offered(m, extSupportedVersions))
      \/ Offered(m, extSupportedVersions) /\ v = Sent(m, extSupportedVersions).data
  <2>1. ExtensionsFit(m.fields.exts)
    BY <1>1, <1>2
  <2> QED BY <2>1, VersionsRead
<1> HIDE DEF v
<1>5. Number(v, 0, 2) = v[1] * Base + v[2]
  BY DEF Number
<1>6. ASSUME v = none /\ (whole => ~Offered(m, extSupportedVersions))
      PROVE  Number(v, 0, 2) \in {m.fields.version, InForce(m)} /\ (whole => Number(v, 0, 2) = InForce(m))
  <2>1. Number(v, 0, 2) = m.fields.version
    BY <1>1, <1>3, <1>6, <1>8
  <2>2. whole => InForce(m) = m.fields.version
    BY <1>6 DEF InForce
  <2> QED BY <2>1, <2>2
<1>7. ASSUME Offered(m, extSupportedVersions) /\ v = Sent(m, extSupportedVersions).data
      PROVE  Number(v, 0, 2) \in {m.fields.version, InForce(m)} /\ (whole => Number(v, 0, 2) = InForce(m))
  <2>1. InForce(m) = v[1] * Base + v[2]
    BY <1>7 DEF InForce
  <2> QED BY <1>5, <2>1
<1>9. Number(v, 0, 2) \in {m.fields.version, InForce(m)} /\ (whole => Number(v, 0, 2) = InForce(m))
  BY <1>4, <1>6, <1>7
<1> QED BY <1>8, <1>9 DEF v

\* a server's hello,
LEMMA ServerRead ==
  ASSUME NEW m \in Messages, m.type = hsServerHello, NEW b, Cut(b, Written(m))
  PROVE  WellRead(parseServerHello(b), m, Len(b) = Len(Written(m)))
<1>1. PICK f, w : f = m.fields /\ w = Written(m)
  OBVIOUS
<1>2. ServerLaid(w, f) /\ Cut(b, w) /\ f.random \in Seq(Byte) /\ f.suite \in Uint16
  <2>1. HelloFits(f) /\ f.suite \in Uint16
    BY <1>1, MessagesAssumption DEF hsClientHello, hsServerHello, hsCertificate, hsClientKeyExchange
  <2> QED BY <1>1, <2>1, ServerWritten DEF HelloFits
<1>3. HelloLaid(w, f) /\ ExtensionsFit(f.exts)
  BY <1>2 DEF ServerLaid, HelloLaid
<1>4. PICK i, x, d : i = Len(f.session) /\ x = Extensions(f.exts) /\ d = Digits(f.suite, 2)
  OBVIOUS
<1>5. /\ Fit(f.session, 1) /\ Holds(w, SessionAt, Vector(f.session, 1))
      /\ Holds(w, SessionAt + 1 + i, d) /\ Len(d) = 2
      /\ Holds(w, SessionAt + 1 + i + 3, x) /\ SessionAt + 1 + i + 3 + Len(x) = Len(w)
  BY <1>2, <1>3, <1>4 DEF ServerLaid, HelloLaid
<1>6. PICK s \in Nat : s = SessionAt /\ s >= 2
  BY BytesAssumption DEF SessionAt
<1>7. Near(b, SessionAt, SessionAt)
  BY <1>6 DEF Near
<1>8. PICK p : p = Past(b, SessionAt, 1)
  OBVIOUS
<1>9. Near(b, p, SessionAt + 1 + i)
  BY <1>2, <1>4, <1>5, <1>7, <1>8, PastNear
<1>10. PICK at \in Nat, l \in Nat, n \in Nat : at = SessionAt + 1 + i /\ l = Len(b) /\ n = Len(w) /\ l <= n
  BY <1>2, <1>9 DEF Near, Cut
<1>11. p \in Nat /\ (p = at \/ (p > l /\ at > l)) /\ at + 3 <= n /\ at >= s + 1
  <2>1. i \in Nat /\ Len(x) \in Nat
    BY <1>4, <1>5, VectorIs DEF Holds
  <2>2. at + 3 + Len(x) = n
    BY <1>5, <1>10
  <2>3. p \in Nat /\ (p = at \/ (p > l /\ at > l))
    BY <1>9, <1>10 DEF Near
  <2> QED BY <1>6, <1>10, <2>1, <2>2, <2>3
<1>12. Near(b, p + 3, at + 3)
  BY <1>10, <1>11 DEF Near
<1>13. PICK whole \in BOOLEAN : whole = (Len(b) = Len(w))
  OBVIOUS
<1>14. PICK list : list = ExtensionsAt(b, p + 3)
  OBVIOUS
<1>15. Leads(list, f.exts, whole)
  <2>1. Holds(w, at + 3, Extensions(f.exts)) /\ at + 3 + Len(Extensions(f.exts)) = Len(w)
    BY <1>4, <1>5, <1>10
  <2> QED BY <1>2, <1>3, <1>12, <1>13, <1>14, <2>1, ExtensionsRead
<1>16. \A type : (Has(list, type) => Offered(m, type)) /\ (whole => (Has(list, type) <=> Offered(m, type)))
  <2>1. DOMAIN m.fields.exts = 1..Len(m.fields.exts) /\ Len(m.fields.exts) \in Nat
    BY <1>1, <1>3, FitWritable DEF Writable
  <2> QED BY <1>1, <1>15, <2>1, HasRead
<1>17. CASE l < s + 1 \/ l < p + 2
  <2>1. parseServerHello(b) = Error
    BY <1>6, <1>8, <1>10, <1>17 DEF parseServerHello
  <2>2. ~whole
    <3> SUFFICES ASSUME whole PROVE FALSE
      OBVIOUS
    <3>1. l = n
      BY <1>10, <1>13
    <3>2. p = at
      BY <1>10, <1>11, <3>1
    <3> QED BY <1>6, <1>10, <1>11, <1>17, <3>1, <3>2
  <2> QED BY <1>1, <1>13, <2>1, <2>2 DEF WellRead
<1>18. CASE ~(l < s + 1 \/ l < p + 2)
  <2>1. p = at /\ at + 2 <= l /\ ~(Len(b) < SessionAt) /\ 2 <= Len(b)
    BY <1>6, <1>10, <1>11, <1>18
  <2>2. SubSeq(b, 3, SessionAt) = f.random
    BY <1>2, <1>3, <2>1, RandomRead
  <2>3. Number(b, p, 2) = f.suite
    <3>1. f.suite \in Nat /\ f.suite < Base * Base
      BY <1>2, Uint16Is
    <3>2. Holds(w, at, d) /\ at + Len(d) <= Len(b)
      BY <1>5, <1>10, <2>1
    <3>3. Holds(b, at, d)
      BY <1>2, <3>2, HoldsCut
    <3> QED BY <1>4, <2>1, <3>1, <3>3, TwoBytes
  <2>6. PICK version : version = Number(LastVersion(list, SubSeq(b, 1, 2)), 0, 2)
    OBVIOUS
  <2>7. PICK real : real = InForce(m)
    OBVIOUS
  <2>8. version \in {m.fields.version, real} /\ (whole => version = real)
    <3>1. Cut(b, Written(m)) /\ 2 <= Len(b) /\ Leads(list, m.fields.exts, whole)
      BY <1>1, <1>15, <2>1
    <3> QED BY <2>6, <2>7, <3>1, VersionRead
  <2>9. PICK ems \in BOOLEAN : ems = Has(list, extExtendedMasterSecret)
    BY DEF Has
  <2>10. PICK etm \in BOOLEAN : etm = Has(list, extEncryptThenMAC)
    BY DEF Has
  <2>11. PICK ems2 \in BOOLEAN : ems2 = Offered(m, extExtendedMasterSecret)
    BY DEF Offered
  <2>12. PICK etm2 \in BOOLEAN : etm2 = Offered(m, extEncryptThenMAC)
    BY DEF Offered
  <2>13. (ems => ems2) /\ (etm => etm2) /\ (whole => (ems <=> ems2) /\ (etm <=> etm2))
    BY <1>16, <2>9, <2>10, <2>11, <2>12
  <2>14. PICK result : result = parseServerHello(b)
    OBVIOUS
  <2>15. result = Read([random |-> SubSeq(b, 3, SessionAt), suite |-> Number(b, p, 2), version |-> version,
                        ems |-> ems, etm |-> etm])
    BY <1>6, <1>8, <1>10, <1>14, <1>18, <2>6, <2>9, <2>10, <2>14 DEF parseServerHello, LastOf, LastVersion
  <2>16. ForSession(m) = [random |-> f.random, suite |-> f.suite, version |-> real, ems |-> ems2, etm |-> etm2]
    BY <1>1, <2>7, <2>11, <2>12 DEF InForce, ForSession, hsClientHello, hsServerHello
  <2>17. result = Read([random |-> f.random, suite |-> f.suite, version |-> version, ems |-> ems, etm |-> etm])
    BY <2>2, <2>3, <2>15
  <2>18. whole => result = Read(ForSession(m))
    BY <2>8, <2>13, <2>16, <2>17
  <2>19. result.fields = [random |-> f.random, suite |-> f.suite, version |-> version, ems |-> ems, etm |-> etm]
    BY <2>17 DEF Read
  <2>20. /\ result.fields.random = ForSession(m).random /\ result.fields.suite = ForSession(m).suite
         /\ result.fields.version \in {m.fields.version, ForSession(m).version}
         /\ (result.fields.ems => ForSession(m).ems) /\ (result.fields.etm => ForSession(m).etm)
    BY <2>8, <2>13, <2>16, <2>19
  <2> QED BY <1>1, <1>13, <2>14, <2>18, <2>20 DEF WellRead, hsClientHello, hsServerHello
<1> QED BY <1>10, <1>17, <1>18

\* and a key exchange.
LEMMA KeyExchangeRead ==
  ASSUME NEW m \in Messages, m.type = hsClientKeyExchange, NEW b, Cut(b, Written(m))
  PROVE  WellRead(clientKeyExchange(b), m, Len(b) = Len(Written(m)))
<1>1. PICK v, w : v = m.fields.blob /\ w = Written(m)
  OBVIOUS
<1>2. Fit(v, 2) /\ w = Vector(v, 2)
  BY <1>1, MessagesAssumption DEF Written, hsClientHello, hsServerHello, hsCertificate, hsClientKeyExchange
<1>3. /\ w \in Seq(Byte) /\ v \in Seq(Byte) /\ Len(v) \in Nat /\ Len(w) = 2 + Len(v)
      /\ \A u \in Seq(Byte) : \A pos : Holds(u, pos, w) => Holds(u, pos + 2, v)
  BY <1>2, VectorIs
<1>4. Holds(w, 0, w)
  BY <1>3 DEF Holds
<1>5. PICK p : p = Past(b, 0, 2)
  OBVIOUS
<1>6. Near(b, p, 0 + 2 + Len(v))
  <2>1. Cut(b, w) /\ Near(b, 0, 0) /\ Holds(w, 0, Vector(v, 2))
    BY <1>1, <1>2, <1>4 DEF Near
  <2> QED BY <1>2, <1>5, <2>1, PastNear
<1>7. PICK l \in Nat, n \in Nat : l = Len(b) /\ n = Len(w) /\ l <= n /\ n = 2 + Len(v)
  BY <1>1, <1>3 DEF Cut
<1>8. p \in Nat /\ (p = n \/ (p > l /\ n > l))
  BY <1>3, <1>6, <1>7 DEF Near
<1>9. ForSession(m) = [blob |-> v]
  BY <1>1 DEF ForSession, hsClientHello, hsServerHello, hsClientKeyExchange
<1>10. CASE p > l
  <2>1. clientKeyExchange(b) = Error
    BY <1>5, <1>7, <1>10 DEF clientKeyExchange
  <2>2. l # n
    BY <1>8, <1>10
  <2> QED BY <1>1, <1>7, <2>1, <2>2 DEF WellRead
<1>11. CASE ~(p > l)
  <2>1. p = n /\ l = n
    BY <1>7, <1>8, <1>11
  <2>2. Holds(w, 0 + 2, v)
    BY <1>3, <1>4
  <2>3. Holds(w, 2, v)
    BY <2>2
  <2>4. 2 + Len(v) <= Len(b) /\ b \in Seq(Byte) /\ Cut(b, w)
    BY <1>1, <1>7, <2>1 DEF Cut
  <2>5. Holds(b, 2, v)
    BY <2>3, <2>4, HoldsCut
  <2>6. SubSeq(b, 2 + 1, 2 + Len(v)) = v
    BY <1>3, <2>4, <2>5, HoldsPart
  <2>7. SubSeq(b, 3, p) = v
    BY <1>7, <2>1, <2>6
  <2>8. clientKeyExchange(b) = Read([blob |-> v])
    BY <1>5, <1>7, <1>11, <2>7 DEF clientKeyExchange
  <2> QED BY <1>1, <1>7, <1>9, <2>1, <2>8 DEF WellRead
<1> QED BY <1>10, <1>11

\* The first bytes of a message are a cut of it.
LEMMA BodyCut ==
  ASSUME NEW m \in Messages, m.type # hsCertificate, NEW b,
         \E n \in 0..Len(Written(m)) : b = SubSeq(Written(m), 1, n)
  PROVE  Cut(b, Written(m))
<1>1. PICK w : w = Written(m)
  OBVIOUS
<1>2. w \in Seq(Byte)
  <2>1. m.type \in {hsClientHello, hsServerHello, hsClientKeyExchange}
    BY MessagesAssumption
  <2>2. CASE m.type = hsClientHello
    BY <1>1, <2>2, ClientWritten DEF ClientLaid, HelloLaid
  <2>3. CASE m.type = hsServerHello
    BY <1>1, <2>3, ServerWritten DEF ServerLaid, HelloLaid
  <2>4. CASE m.type = hsClientKeyExchange
    <3>1. Fit(m.fields.blob, 2) /\ w = Vector(m.fields.blob, 2)
      BY <1>1, <2>4, MessagesAssumption DEF Written, hsClientHello, hsServerHello, hsCertificate, hsClientKeyExchange
    <3> QED BY <3>1, VectorIs
  <2> QED BY <2>1, <2>2, <2>3, <2>4
<1>3. PICK n \in 0..Len(w) : b = SubSeq(w, 1, n)
  BY <1>1
<1>4. Len(w) \in Nat /\ List(w) /\ 0 \in 0..Len(w) /\ 0 <= n /\ n - 0 = n /\ 0 + 1 = 1
  BY <1>2, LenProperties, SeqIsList
<1>5. /\ List(SubSeq(w, 0 + 1, n)) /\ Len(SubSeq(w, 0 + 1, n)) = n - 0
      /\ \A i \in 1..(n - 0) : SubSeq(w, 0 + 1, n)[i] = w[0 + i]
  BY <1>4, ListPart
<1>6. List(b) /\ Len(b) = n /\ \A i \in 1..n : b[i] = w[0 + i]
  BY <1>3, <1>4, <1>5
<1>7. \A i \in 1..n : b[i] = w[i] /\ w[i] \in Byte
  <2>1. \A i \in 1..n : 0 + i = i /\ i \in 1..Len(w)
    BY <1>4
  <2>2. \A i \in 1..Len(w) : w[i] \in Byte
    BY <1>2, ElementOfSeq
  <2> QED BY <1>6, <2>1, <2>2
<1>8. b \in Seq(Byte)
  <2>1. Elements(b) \subseteq Byte
    BY <1>6, <1>7 DEF Elements
  <2> QED BY <1>6, <2>1, ListIsSeq
<1>9. Cut(b, w)
  BY <1>2, <1>4, <1>6, <1>7, <1>8 DEF Cut
<1> QED BY <1>1, <1>9

-----------------------------------------------------------------------------
(* The invariant *)

\* The hello of a server that answered: it says what the peers agreed on.
AgreedHello ==
  /\ sent.type = hsServerHello /\ ~Short
  /\ agreed = IF Offered(sent, extEncryptThenMAC) THEN "encryptFirst" ELSE "macFirst"
  /\ Offered(sent, extEncryptThenMAC) => etmClient
  /\ seen # Unread => etmServer = Offered(sent, extEncryptThenMAC)

\* What holds of the messages, and of what the session read in them.
HelloInv ==
  /\ suite = NoSuite => /\ sent \in Messages
                        /\ \E n \in 0..Len(Written(sent)) : body = SubSeq(Written(sent), 1, n)
  /\ suite # NoSuite => seen = Unread /\ EtmAgreed
  /\ MessagesRead
  /\ agreed = "unknown" /\ sent.type = hsClientHello /\ seen # Unread /\ ~Short =>
       etmClient = Offered(sent, extEncryptThenMAC)
  /\ agreed # "unknown" /\ suite = NoSuite => AgreedHello

\* The whole invariant.
Inv == RecordInv /\ HelloInv

\* Nothing changes when its variables do not.
LEMMA RecordSame ==
  ASSUME RecordInv, suite' = suite, agreed' = agreed, master' = master, wire' = wire, last' = last
  PROVE  RecordInv'
<1>1. OpensExactly' /\ ContentExact'
  BY DEF RecordInv, OpensExactly, ContentExact
<1>2. wire' # NoRecord => OnWire(wire)'
  <2> SUFFICES ASSUME wire' # NoRecord PROVE OnWire(wire)'
    OBVIOUS
  <2>1. PICK r : r = wire
    OBVIOUS
  <2>2. OnWire(r) /\ wire' = r
    BY <2>1 DEF RecordInv
  <2> QED BY <2>2, OnWireNext
<1> QED BY <1>1, <1>2 DEF RecordInv

\* Nor does what holds of the messages.
LEMMA HelloSame ==
  ASSUME HelloInv, suite' = suite, agreed' = agreed, etmClient' = etmClient, etmServer' = etmServer,
         sent' = sent, body' = body, seen' = seen
  PROVE  HelloInv'
<1>1. MessagesRead'
  BY DEF HelloInv, MessagesRead, Short, Honest
<1>2. EtmAgreed => EtmAgreed'
  BY DEF EtmAgreed, UseEncryptThenMAC
<1>3. Short' = Short
  BY DEF Short
<1>4. AgreedHello => AgreedHello'
  BY <1>3 DEF AgreedHello
<1> QED BY <1>1, <1>2, <1>3, <1>4 DEF HelloInv

\* No record, and none opened.
LEMMA RecordEmpty ==
  ASSUME suite' \in Suites \cup {NoSuite}, wire' = NoRecord, last' = NoRecord
  PROVE  RecordInv'
BY DEF RecordInv, OpensExactly, ContentExact

\* A message is read.
LEMMA ReadIsRead ==
  ASSUME NEW m, sent' = m, NEW b, body' = b, NEW r, seen' = r, Cut(b, Written(m)),
         WellRead(r, m, Len(b) = Len(Written(m)))
  PROVE  MessagesRead'
<1>1. Len(b) \in Nat /\ Len(Written(m)) \in Nat /\ Len(b) <= Len(Written(m))
  BY DEF Cut
<1>2. Short' <=> Len(b) # Len(Written(m))
  BY <1>1 DEF Short
<1>3. CASE Len(b) = Len(Written(m))
  BY <1>2, <1>3 DEF MessagesRead, WellRead
<1>4. CASE Len(b) # Len(Written(m))
  <2>1. (seen = Error \/ Honest(seen.fields, ForSession(sent)))'
    BY <1>4 DEF WellRead, Honest, hsClientHello, hsServerHello, hsClientKeyExchange
  <2>2. Short'
    BY <1>2, <1>4
  <2> QED BY <2>1, <2>2, Zenon DEF MessagesRead
<1> QED BY <1>3, <1>4

\* What reading a message leads to.
LEMMA ReadMessageRead ==
  ASSUME sent \in Messages, \E n \in 0..Len(Written(sent)) : body = SubSeq(Written(sent), 1, n), ReadMessage
  PROVE  /\ sent' = sent /\ body' = body /\ MessagesRead' /\ Short' = Short
         /\ sent.type \in {hsClientHello, hsServerHello} /\ ~Short => seen' = Read(ForSession(sent))
<1>1. /\ sent' = sent /\ body' = body
      /\ seen' = CASE sent.type = hsClientHello -> parseClientHello(body)
                   [] sent.type = hsServerHello -> parseServerHello(body)
                   [] sent.type = hsClientKeyExchange -> clientKeyExchange(body)
                   [] OTHER -> Error
  BY DEF ReadMessage
<1>2. Short' = Short
  BY <1>1 DEF Short
<1>3. PICK m, b, r : m = sent /\ b = body /\ r = seen'
  OBVIOUS
<1>4. /\ m.type = hsClientHello => r = parseClientHello(b)
      /\ m.type = hsServerHello => r = parseServerHello(b)
      /\ m.type = hsClientKeyExchange => r = clientKeyExchange(b)
  BY <1>1, <1>3 DEF hsClientHello, hsServerHello, hsClientKeyExchange
<1>5. CASE m.type = hsCertificate
  <2>1. MessagesRead'
    BY <1>1, <1>3, <1>5 DEF MessagesRead
  <2>2. m.type \notin {hsClientHello, hsServerHello}
    BY <1>5 DEF hsClientHello, hsServerHello, hsCertificate
  <2> QED BY <1>1, <1>2, <1>3, <2>1, <2>2
<1>6. CASE m.type # hsCertificate
  <2>1. m \in Messages /\ Cut(b, Written(m))
    BY <1>3, <1>6, BodyCut
  <2>2. m.type \in {hsClientHello, hsServerHello, hsClientKeyExchange}
    BY <1>6, <2>1, MessagesAssumption
  <2>3. WellRead(r, m, Len(b) = Len(Written(m)))
    BY <1>4, <2>1, <2>2, ClientRead, ServerRead, KeyExchangeRead
  <2>4. MessagesRead'
    BY <1>1, <1>3, <2>1, <2>3, ReadIsRead
  <2>5. ASSUME ~Short PROVE r = Read(ForSession(m))
    <3>1. Len(b) = Len(Written(m))
      BY <1>3, <2>1, <2>5 DEF Short, Cut
    <3> QED BY <2>3, <3>1 DEF WellRead
  <2> QED BY <1>1, <1>2, <1>3, <2>4, <2>5
<1> QED BY <1>5, <1>6

\* What the session notes of encrypt-then-MAC in a hello that is whole.
LEMMA ReadNotes ==
  ASSUME NEW m, m.type \in {hsClientHello, hsServerHello}, NEW r, r = Read(ForSession(m))
  PROVE  r # Error /\ r.fields.etm = Offered(m, extEncryptThenMAC)
<1>1. r # Error
  BY DEF Read, Error
<1>2. r.fields = ForSession(m)
  BY DEF Read
<1>3. PICK o : o = Offered(m, extEncryptThenMAC)
  OBVIOUS
<1>4. ForSession(m).etm = o
  BY <1>3 DEF ForSession, hsClientHello, hsServerHello
<1> QED BY <1>1, <1>2, <1>3, <1>4

\* A message is read ...
LEMMA ReadHelloKeeps == ASSUME Inv, suite = NoSuite, ReadHello PROVE Inv'
<1>1. /\ suite' = suite /\ agreed' = agreed /\ master' = master /\ wire' = wire /\ last' = last
      /\ ReadMessage /\ sent \in Messages /\ seen = Unread
      /\ \E n \in 0..Len(Written(sent)) : body = SubSeq(Written(sent), 1, n)
      /\ etmClient' = IF sent.type = hsClientHello /\ seen' # Error THEN seen'.fields.etm ELSE etmClient
      /\ etmServer' = IF sent.type = hsServerHello /\ seen' # Error THEN seen'.fields.etm ELSE etmServer
  BY DEF Inv, HelloInv, ReadHello, ReadMessage
<1>2. RecordInv'
  BY <1>1, RecordSame DEF Inv
<1>3. /\ sent' = sent /\ body' = body /\ MessagesRead' /\ Short' = Short
      /\ sent.type \in {hsClientHello, hsServerHello} /\ ~Short => seen' = Read(ForSession(sent))
  BY <1>1, ReadMessageRead
<1>4. sent.type \in {hsClientHello, hsServerHello} /\ ~Short =>
        seen' # Error /\ seen'.fields.etm = Offered(sent, extEncryptThenMAC)
  BY <1>3, ReadNotes
<1>5. sent.type = hsClientHello /\ ~Short => etmClient' = Offered(sent, extEncryptThenMAC)
  BY <1>1, <1>4
<1>6. ASSUME agreed # "unknown" PROVE AgreedHello'
  <2>1. AgreedHello
    BY <1>6 DEF Inv, HelloInv
  <2>2. sent.type = hsServerHello /\ ~Short /\ sent.type # hsClientHello
    BY <2>1 DEF AgreedHello, hsClientHello, hsServerHello
  <2>3. etmServer' = Offered(sent, extEncryptThenMAC) /\ etmClient' = etmClient
    BY <1>1, <1>4, <2>2
  <2> QED BY <1>1, <1>3, <2>1, <2>3 DEF AgreedHello
<1>7. HelloInv'
  BY <1>1, <1>3, <1>5, <1>6 DEF HelloInv
<1> QED BY <1>2, <1>7 DEF Inv

\* ... answered ...
LEMMA ReplyKeeps == ASSUME Inv, suite = NoSuite, Reply PROVE Inv'
<1>1. /\ sent.type = hsClientHello /\ ~Short /\ seen # Unread
      /\ suite' = suite /\ etmClient' = etmClient /\ etmServer' = etmServer /\ wire' = wire /\ last' = last
  BY DEF Reply
<1>2. PICK m \in Messages :
        /\ m.type = hsServerHello
        /\ Offered(m, extEncryptThenMAC) => Offered(sent, extEncryptThenMAC)
        /\ sent' = m /\ body' = Written(m) /\ seen' = Unread
        /\ agreed' = IF Offered(m, extEncryptThenMAC) THEN "encryptFirst" ELSE "macFirst"
  BY DEF Reply
<1>3. RecordInv'
  <2>1. wire' = NoRecord /\ last' = NoRecord /\ suite' \in Suites \cup {NoSuite}
    BY <1>1 DEF Inv, RecordInv
  <2> QED BY <2>1, RecordEmpty
<1>4. etmClient = Offered(sent, extEncryptThenMAC)
  <2>1. agreed = "unknown"
    BY <1>1 DEF Inv, HelloInv, AgreedHello, hsClientHello, hsServerHello
  <2> QED BY <1>1, <2>1 DEF Inv, HelloInv
<1>5. Len(Written(m)) \in Nat /\ SubSeq(Written(m), 1, Len(Written(m))) = Written(m)
  <2>1. Written(m) \in Seq(Byte)
    BY <1>2, ServerWritten DEF ServerLaid, HelloLaid
  <2>2. List(Written(m))
    BY <2>1, SeqIsList
  <2> QED BY <2>2, ListWhole DEF List
<1>6. ~Short'
  BY <1>2, <1>5 DEF Short
<1>7. AgreedHello'
  BY <1>1, <1>2, <1>4, <1>6 DEF AgreedHello
<1>8. MessagesRead'
  BY <1>2 DEF MessagesRead
<1>9. sent' \in Messages /\ (\E n \in 0..Len(Written(sent)) : body = SubSeq(Written(sent), 1, n))'
  <2>1. Len(Written(m)) \in 0..Len(Written(m))
    BY <1>5
  <2> QED BY <1>2, <1>5, <2>1
<1>10. HelloInv'
  BY <1>1, <1>2, <1>7, <1>8, <1>9 DEF HelloInv
<1> QED BY <1>3, <1>10 DEF Inv

\* ... and the session begins with what it read of encrypt-then-MAC, which is what the peers
\* agreed on.
LEMMA BeginKeeps == ASSUME Inv, suite = NoSuite, Begin PROVE Inv'
<1>1. /\ agreed # "unknown" /\ sent.type = hsServerHello /\ seen # Unread
      /\ suite' \in Suites /\ seen' = Unread
      /\ agreed' = agreed /\ etmClient' = etmClient /\ etmServer' = etmServer /\ wire' = wire /\ last' = last
  BY DEF Begin
<1>2. RecordInv'
  <2>1. wire' = NoRecord /\ last' = NoRecord /\ suite' \in Suites \cup {NoSuite}
    BY <1>1 DEF Inv, RecordInv
  <2> QED BY <2>1, RecordEmpty
<1>3. AgreedHello
  BY <1>1 DEF Inv, HelloInv
<1>4. EtmAgreed'
  <2>1. PICK o \in BOOLEAN : o = Offered(sent, extEncryptThenMAC)
    BY DEF Offered
  <2>2. agreed = (IF o THEN "encryptFirst" ELSE "macFirst") /\ (o => etmClient) /\ etmServer = o
    BY <1>1, <1>3, <2>1 DEF AgreedHello
  <2> QED BY <1>1, <2>2 DEF EtmAgreed, UseEncryptThenMAC
<1>5. suite' # NoSuite
  BY <1>1, SuitesKnown
<1>6. MessagesRead'
  BY <1>1 DEF MessagesRead
<1>7. HelloInv'
  BY <1>1, <1>4, <1>5, <1>6 DEF HelloInv
<1> QED BY <1>2, <1>7 DEF Inv

\* The payload is captured and inspected: nothing of this changes.
LEMMA PayloadKeeps == ASSUME Inv, Capture \/ ReadPayload, UNCHANGED recordVars PROVE Inv'
<1>1. /\ suite' = suite /\ agreed' = agreed /\ etmClient' = etmClient /\ etmServer' = etmServer
      /\ master' = master /\ wire' = wire /\ last' = last
      /\ sent' = sent /\ body' = body /\ seen' = seen
  BY DEF Capture, ReadPayload, recordVars, session
<1> QED BY <1>1, RecordSame, HelloSame DEF Inv

\* Records come and go.
LEMMA RecordStepKeeps == ASSUME Inv, RecordStep, UNCHANGED messageVars PROVE Inv'
<1>1. /\ suite' = suite /\ agreed' = agreed /\ etmClient' = etmClient /\ etmServer' = etmServer
      /\ sent' = sent /\ body' = body /\ seen' = seen
  BY DEF RecordStep, Send, Lose, Misframe, Open, session, messageVars
<1>2. HelloInv'
  BY <1>1, HelloSame DEF Inv
<1>3. suite # NoSuite => EtmAgreed
  BY DEF Inv, HelloInv
<1>4. RecordInv'
  BY <1>3, SendKeeps, LoseKeeps, MisframeKeeps, OpenKeeps DEF Inv, RecordStep
<1> QED BY <1>2, <1>4 DEF Inv

\* The invariant holds: the records are known, and the session read in the hellos what the
\* peers agreed on there.
THEOREM InvHolds == Spec => []Inv
<1>1. Init => Inv
  <2> SUFFICES ASSUME Init PROVE Inv
    OBVIOUS
  <2>1. RecordInv
    BY DEF Init, RecordInit, RecordInv, OpensExactly, ContentExact
  <2>2. HelloInv
    BY DEF Init, RecordInit, MessageInit, HelloInv, MessagesRead
  <2> QED BY <2>1, <2>2 DEF Inv
<1>2. Inv /\ [Next]_vars => Inv'
  <2> SUFFICES ASSUME Inv, [Next]_vars PROVE Inv'
    OBVIOUS
  <2>1. CASE (Capture \/ ReadPayload) /\ UNCHANGED recordVars
    BY <2>1, PayloadKeeps
  <2>2. CASE suite = NoSuite /\ ReadHello
    BY <2>2, ReadHelloKeeps
  <2>3. CASE suite = NoSuite /\ Reply
    BY <2>3, ReplyKeeps
  <2>4. CASE suite = NoSuite /\ Begin
    BY <2>4, BeginKeeps
  <2>5. CASE RecordStep /\ UNCHANGED messageVars
    BY <2>5, RecordStepKeeps
  <2>6. CASE UNCHANGED vars
    <3>1. /\ suite' = suite /\ agreed' = agreed /\ etmClient' = etmClient /\ etmServer' = etmServer
          /\ master' = master /\ wire' = wire /\ last' = last
          /\ sent' = sent /\ body' = body /\ seen' = seen
      BY <2>6 DEF vars, recordVars, messageVars, session
    <3> QED BY <3>1, RecordSame, HelloSame DEF Inv
  <2> QED BY <2>1, <2>2, <2>3, <2>4, <2>5, <2>6 DEF Next
<1> QED BY <1>1, <1>2, PTL DEF Spec

\* A record opens exactly when it is whole, the secret is the connection's and
\* the counter stands where the sender's stood; no padding makes a slice run
\* out of its bounds (deriveTLS12, decryptTLS12, OpenTLS12CBCRecord).
THEOREM RecordsOpenExactly == Spec => []OpensExactly
<1>1. Inv => OpensExactly
  BY DEF Inv, RecordInv
<1> QED BY <1>1, InvHolds, PTL

\* What comes out of a record is what the sender put in, and nothing else
\* (OpenTLS12CBCRecord, OpenTLS12CBCRecordEtM, OpenTLS13Record).
THEOREM RecordContentExact == Spec => []ContentExact
<1>1. Inv => ContentExact
  BY DEF Inv, RecordInv
<1> QED BY <1>1, InvHolds, PTL

\* A whole message is read as it was written, one cut short is refused or read
\* honestly (parseClientHello, parseServerHello, clientKeyExchangeRSA).
THEOREM MessagesReadAsWritten == Spec => []MessagesRead
<1>1. Inv => MessagesRead
  BY DEF Inv, HelloInv
<1> QED BY <1>1, InvHolds, PTL
=============================================================================
