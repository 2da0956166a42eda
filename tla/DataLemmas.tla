----------------------------- MODULE DataLemmas -----------------------------
(***************************************************************************)
(* What the sums and concatenations of the models compute, for every input. *)
(*                                                                         *)
(* SumFunctionOnSet and FlattenSeq are recursive functions, and the        *)
(* induction theorems of the library, which take a predicate, are of no    *)
(* use to the provers.  The induction here is over sets: among the         *)
(* counterexamples there would be a smallest one.                          *)
(***************************************************************************)
EXTENDS Integers, Sequences, SequencesExt, Functions, FiniteSets, FiniteSetTheorems,
        SequenceTheorems, WellFoundedInduction, TLAPS

-----------------------------------------------------------------------------
(* Smallest counterexamples *)

\* Of some subsets of a finite set, one contains none of the others.
LEMMA MinimalSubset ==
  ASSUME NEW S, IsFiniteSet(S), NEW T, T \subseteq SUBSET S, T # {}
  PROVE  \E x \in T : \A y \in T : y \subseteq x => y = x
<1>1. IsWellFoundedOn(StrictSubsetOrdering(S), SUBSET S)
  BY FS_StrictSubsetOrderingWellFounded, FS_FiniteSubsetsOfFinite
<1>2. \E x \in T : \A y \in T : <<y, x>> \notin StrictSubsetOrdering(S)
  BY <1>1, WFMin
<1> QED BY <1>2 DEF StrictSubsetOrdering

\* Of some natural numbers, one is the least.
LEMMA LeastNumber ==
  ASSUME NEW T, T \subseteq Nat, T # {}
  PROVE  \E x \in T : \A y \in T : x <= y
<1> DEFINE R == {p \in Nat \X Nat : p[1] < p[2]}
<1>1. IsWellFoundedOn(R, Nat)
  BY NatLessThanWellFounded DEF OpToRel
<1>2. \E x \in T : \A y \in T : <<y, x>> \notin R
  <2> HIDE DEF R
  <2> QED BY <1>1, WFMin
<1>3. PICK x \in T : \A y \in T : <<y, x>> \notin R
  BY <1>2
<1>4. \A y \in T : ~(y < x)
  BY <1>3
<1> QED BY <1>3, <1>4

-----------------------------------------------------------------------------
(* Sums over finite sets *)

\* The element of a set that its fold takes first.
Least(s) == CHOOSE x \in s : TRUE

\* h[s] is the sum of v over s, for the subsets s of S, as the folds of the
\* library compute it.
SumsUp(h, v, S) ==
  h = [s \in SUBSET S |-> IF s = {} THEN 0 ELSE v[Least(s)] + h[s \ {Least(s)}]]

\* It is one of the set's elements.
LEMMA LeastIn == ASSUME NEW s, s # {} PROVE Least(s) \in s
BY DEF Least

\* There is one such function only ...
LEMMA SumUnique ==
  ASSUME NEW S, IsFiniteSet(S), NEW v, NEW g, NEW h, SumsUp(g, v, S), SumsUp(h, v, S)
  PROVE  g = h
<1> DEFINE T == {s \in SUBSET S : g[s] # h[s]}
<1>1. \A s \in SUBSET S : s # {} => s \ {Least(s)} \in SUBSET S /\ Least(s) \in s
  BY LeastIn
<1>2. T = {}
  <2> SUFFICES ASSUME T # {} PROVE FALSE
    OBVIOUS
  <2>1. PICK s \in T : \A y \in T : y \subseteq s => y = s
    <3> HIDE DEF T
    <3>1. T \subseteq SUBSET S
      BY DEF T
    <3> QED BY <3>1, MinimalSubset
  <2>2. CASE s = {}
    BY <2>2 DEF SumsUp
  <2>3. CASE s # {}
    <3>1. s \ {Least(s)} \in SUBSET S /\ s \ {Least(s)} # s /\ s \ {Least(s)} \subseteq s
      BY <1>1, <2>3
    <3>2. g[s \ {Least(s)}] = h[s \ {Least(s)}]
      BY <2>1, <3>1
    <3>3. /\ g[s] = v[Least(s)] + g[s \ {Least(s)}]
          /\ h[s] = v[Least(s)] + h[s \ {Least(s)}]
      BY <2>3 DEF SumsUp
    <3> QED BY <3>2, <3>3
  <2> QED BY <2>2, <2>3
<1>3. g = [s \in SUBSET S |-> g[s]] /\ h = [s \in SUBSET S |-> h[s]]
  BY DEF SumsUp
<1> QED BY <1>2, <1>3

\* ... it restricts to the subsets of a subset ...
LEMMA SumRestricts ==
  ASSUME NEW S, NEW v, NEW h, SumsUp(h, v, S), NEW U \in SUBSET S
  PROVE  SumsUp([s \in SUBSET U |-> h[s]], v, U)
<1> DEFINE k == [s \in SUBSET U |-> h[s]]
<1>1. \A s \in SUBSET U : k[s] = IF s = {} THEN 0 ELSE v[Least(s)] + k[s \ {Least(s)}]
  <2> TAKE s \in SUBSET U
  <2>1. s \in SUBSET S /\ s \ {Least(s)} \in SUBSET U
    OBVIOUS
  <2>2. h[s] = IF s = {} THEN 0 ELSE v[Least(s)] + h[s \ {Least(s)}]
    BY <2>1 DEF SumsUp
  <2> QED BY <2>1, <2>2
<1> QED BY <1>1 DEF SumsUp

\* ... and there is one.
LEMMA SumExists ==
  ASSUME NEW S, IsFiniteSet(S), NEW v
  PROVE  \E h : SumsUp(h, v, S)
<1> DEFINE T == {U \in SUBSET S : ~ \E h : SumsUp(h, v, U)}
<1> SUFFICES ASSUME T # {} PROVE FALSE
  OBVIOUS
<1>1. PICK U \in T : \A y \in T : y \subseteq U => y = U
  <2> HIDE DEF T
  <2>1. T \subseteq SUBSET S
    BY DEF T
  <2> QED BY <2>1, MinimalSubset
<1>2. U \in SUBSET S /\ IsFiniteSet(U) /\ ~ \E h : SumsUp(h, v, U)
  BY FS_Subset
<1> DEFINE sum(W) == CHOOSE h : SumsUp(h, v, W)
<1>3. \A W \in SUBSET U : W # U => SumsUp(sum(W), v, W)
  BY <1>1, <1>2
<1> DEFINE k == [s \in SUBSET U |-> IF s = {} THEN 0 ELSE v[Least(s)] + sum(s \ {Least(s)})[s \ {Least(s)}]]
<1>4. \A s \in SUBSET U : s # U => k[s] = sum(s)[s]
  <2> SUFFICES ASSUME NEW s \in SUBSET U, s # U PROVE k[s] = sum(s)[s]
    OBVIOUS
  <2>1. SumsUp(sum(s), v, s)
    BY <1>3
  <2>2. CASE s = {}
    BY <2>1, <2>2 DEF SumsUp
  <2>3. CASE s # {}
    <3> DEFINE W == s \ {Least(s)}
    <3>1. W \in SUBSET U /\ W # U /\ W \in SUBSET s /\ IsFiniteSet(W)
      BY <1>2, FS_Subset
    <3>2. SumsUp(sum(W), v, W)
      BY <1>3, <3>1
    <3>3. SumsUp([w \in SUBSET W |-> sum(s)[w]], v, W)
      <4> HIDE DEF sum, W
      <4> QED BY <2>1, <3>1, SumRestricts
    <3>4. sum(W) = [w \in SUBSET W |-> sum(s)[w]]
      <4> HIDE DEF sum, W
      <4> QED BY <3>1, <3>2, <3>3, SumUnique
    <3>5. sum(W)[W] = sum(s)[W]
      BY <3>4
    <3>6. sum(s)[s] = v[Least(s)] + sum(s)[W]
      <4> HIDE DEF sum
      <4> QED BY <2>1, <2>3 DEF SumsUp
    <3> QED BY <2>3, <3>5, <3>6
  <2> QED BY <2>2, <2>3
<1>5. SumsUp(k, v, U)
  <2>1. \A s \in SUBSET U : s # {} => k[s] = v[Least(s)] + k[s \ {Least(s)}]
    <3> TAKE s \in SUBSET U
    <3> HAVE s # {}
    <3>1. s \ {Least(s)} \in SUBSET U /\ s \ {Least(s)} # U
      BY LeastIn
    <3>2. k[s \ {Least(s)}] = sum(s \ {Least(s)})[s \ {Least(s)}]
      <4> HIDE DEF sum, k
      <4> QED BY <1>4, <3>1
    <3>3. k[s] = v[Least(s)] + sum(s \ {Least(s)})[s \ {Least(s)}]
      <4> HIDE DEF sum
      <4> QED OBVIOUS
    <3> QED BY <3>2, <3>3
  <2>2. {} \in SUBSET U /\ k[{}] = 0 /\ k = [s \in SUBSET U |-> k[s]]
    OBVIOUS
  <2> HIDE DEF k
  <2>3. \A s \in SUBSET U : k[s] = IF s = {} THEN 0 ELSE v[Least(s)] + k[s \ {Least(s)}]
    BY <2>1, <2>2
  <2> QED BY <2>2, <2>3 DEF SumsUp
<1> QED BY <1>2, <1>5

-----------------------------------------------------------------------------
(* SumFunctionOnSet *)

\* A function that gives the sums over the subsets of S.
LEMMA SumIs ==
  ASSUME NEW S, IsFiniteSet(S), NEW v, NEW h, SumsUp(h, v, S)
  PROVE  \A s \in SUBSET S : SumFunctionOnSet(v, s) = h[s]
<1> SUFFICES ASSUME NEW s \in SUBSET S PROVE SumFunctionOnSet(v, s) = h[s]
  OBVIOUS
<1> DEFINE g == CHOOSE f : SumsUp(f, v, s)
<1>1. IsFiniteSet(s)
  BY FS_Subset
<1>2. SumsUp(g, v, s)
  BY <1>1, SumExists
<1>3. SumsUp([t \in SUBSET s |-> h[t]], v, s)
  BY SumRestricts
<1>4. g = [t \in SUBSET s |-> h[t]]
  <2> HIDE DEF g
  <2> QED BY <1>1, <1>2, <1>3, SumUnique
<1>5. SumFunctionOnSet(v, s) = g[s]
  BY DEF SumFunctionOnSet, FoldFunctionOnSet, MapThenFoldSet, SumsUp, Least
<1> QED BY <1>4, <1>5

\* The sum over no elements.
LEMMA SumEmpty == ASSUME NEW v PROVE SumFunctionOnSet(v, {}) = 0
<1>1. SumsUp([s \in SUBSET {} |-> 0], v, {})
  BY DEF SumsUp
<1>2. SumFunctionOnSet(v, {}) = [s \in SUBSET {} |-> 0][{}]
  BY <1>1, SumIs, FS_EmptySet
<1> QED BY <1>2

\* One step of the fold.
LEMMA SumStep ==
  ASSUME NEW S, IsFiniteSet(S), NEW v, S # {}
  PROVE  SumFunctionOnSet(v, S) = v[Least(S)] + SumFunctionOnSet(v, S \ {Least(S)})
<1>1. PICK h : SumsUp(h, v, S)
  BY SumExists
<1>2. h[S] = v[Least(S)] + h[S \ {Least(S)}]
  BY <1>1 DEF SumsUp
<1>3. SumFunctionOnSet(v, S) = h[S] /\ SumFunctionOnSet(v, S \ {Least(S)}) = h[S \ {Least(S)}]
  BY <1>1, SumIs
<1> QED BY <1>2, <1>3

\* Sums of integers are integers, sums of natural numbers natural numbers.
LEMMA SumType ==
  ASSUME NEW S, IsFiniteSet(S), NEW v, \A x \in S : v[x] \in Int
  PROVE  /\ SumFunctionOnSet(v, S) \in Int
         /\ (\A x \in S : v[x] >= 0) => SumFunctionOnSet(v, S) >= 0
<1> DEFINE good(s) == /\ SumFunctionOnSet(v, s) \in Int
                      /\ (\A x \in s : v[x] >= 0) => SumFunctionOnSet(v, s) >= 0
           T == {s \in SUBSET S : ~good(s)}
<1> SUFFICES ASSUME T # {} PROVE FALSE
  OBVIOUS
<1>1. PICK s \in T : \A y \in T : y \subseteq s => y = s
  <2> HIDE DEF T
  <2>1. T \subseteq SUBSET S
    BY DEF T
  <2> QED BY <2>1, MinimalSubset
<1>2. CASE s = {}
  BY <1>2, SumEmpty
<1>3. CASE s # {}
  <2>1. s \ {Least(s)} \in SUBSET S /\ s \ {Least(s)} \subseteq s /\ s \ {Least(s)} # s
    BY <1>3, LeastIn
  <2>2. good(s \ {Least(s)})
    <3> HIDE DEF good
    <3> QED BY <1>1, <2>1
  <2>3. SumFunctionOnSet(v, s) = v[Least(s)] + SumFunctionOnSet(v, s \ {Least(s)})
    BY <1>3, SumStep, FS_Subset
  <2>4. v[Least(s)] \in Int /\ Least(s) \in s
    BY <1>3, LeastIn
  <2> QED BY <2>2, <2>3, <2>4
<1> QED BY <1>2, <1>3

\* Any element may be taken first.
LEMMA SumRemove ==
  ASSUME NEW S, IsFiniteSet(S), NEW v, \A x \in S : v[x] \in Int, NEW a \in S
  PROVE  SumFunctionOnSet(v, S) = v[a] + SumFunctionOnSet(v, S \ {a})
<1> DEFINE sum(s) == SumFunctionOnSet(v, s)
           good(s) == \A x \in s : sum(s) = v[x] + sum(s \ {x})
           T == {s \in SUBSET S : ~good(s)}
<1> SUFFICES ASSUME T # {} PROVE FALSE
  OBVIOUS
<1>1. PICK s \in T : \A y \in T : y \subseteq s => y = s
  <2> HIDE DEF T
  <2>1. T \subseteq SUBSET S
    BY DEF T
  <2> QED BY <2>1, MinimalSubset
<1> HIDE DEF sum
<1>2. PICK x \in s : sum(s) # v[x] + sum(s \ {x})
  BY <1>1
<1> DEFINE y == Least(s)
<1>3. y \in s /\ sum(s) = v[y] + sum(s \ {y})
  BY <1>2, LeastIn, SumStep, FS_Subset DEF sum
<1> HIDE DEF y
<1>4. x # y
  BY <1>2, <1>3
<1>5. good(s \ {x}) /\ good(s \ {y})
  <2>1. s \ {x} \in SUBSET S /\ s \ {x} # s /\ s \ {y} \in SUBSET S /\ s \ {y} # s
    BY <1>2, <1>3
  <2> HIDE DEF good
  <2> QED BY <2>1, <1>1
<1>6. /\ sum(s \ {x}) = v[y] + sum((s \ {x}) \ {y})
      /\ sum(s \ {y}) = v[x] + sum((s \ {y}) \ {x})
  BY <1>2, <1>3, <1>4, <1>5
<1>7. (s \ {x}) \ {y} = (s \ {y}) \ {x}
  OBVIOUS
<1>8. sum((s \ {x}) \ {y}) \in Int /\ v[x] \in Int /\ v[y] \in Int
  BY <1>2, <1>3, SumType, FS_Subset DEF sum
<1>9. \A p, q, r \in Int : p + (q + r) = q + (p + r)
  OBVIOUS
<1>10. v[y] + (v[x] + sum((s \ {x}) \ {y})) = v[x] + (v[y] + sum((s \ {x}) \ {y}))
  BY <1>8, <1>9
<1> QED BY <1>2, <1>3, <1>6, <1>7, <1>10

\* The sum depends on the values over the set only.
LEMMA SumSame ==
  ASSUME NEW S, IsFiniteSet(S), NEW v, NEW w, \A x \in S : v[x] = w[x]
  PROVE  SumFunctionOnSet(v, S) = SumFunctionOnSet(w, S)
<1>1. PICK h : SumsUp(h, v, S)
  BY SumExists
<1>2. SumsUp(h, w, S)
  <2>1. \A s \in SUBSET S : s # {} => v[Least(s)] = w[Least(s)]
    BY LeastIn
  <2> QED BY <1>1, <2>1 DEF SumsUp
<1> QED BY <1>1, <1>2, SumIs

\* One value changes ...
LEMMA SumUpdate ==
  ASSUME NEW S, IsFiniteSet(S), NEW v, NEW w, NEW a \in S,
         \A x \in S : v[x] \in Int /\ w[x] \in Int, \A x \in S \ {a} : v[x] = w[x]
  PROVE  SumFunctionOnSet(w, S) = SumFunctionOnSet(v, S) + (w[a] - v[a])
<1>1. /\ SumFunctionOnSet(v, S) = v[a] + SumFunctionOnSet(v, S \ {a})
      /\ SumFunctionOnSet(w, S) = w[a] + SumFunctionOnSet(w, S \ {a})
  BY SumRemove
<1>2. IsFiniteSet(S \ {a})
  BY FS_RemoveElement
<1>3. SumFunctionOnSet(v, S \ {a}) = SumFunctionOnSet(w, S \ {a})
  BY <1>2, SumSame
<1>4. SumFunctionOnSet(v, S \ {a}) \in Int
  BY <1>2, SumType
<1>5. \A p, q, r \in Int : q + r = (p + r) + (q - p)
  OBVIOUS
<1> QED BY <1>1, <1>3, <1>4, <1>5

\* ... or one element is new.
LEMMA SumInsert ==
  ASSUME NEW S, IsFiniteSet(S), NEW v, NEW a, a \notin S, \A x \in S \union {a} : v[x] \in Int
  PROVE  SumFunctionOnSet(v, S \union {a}) = SumFunctionOnSet(v, S) + v[a]
<1>1. IsFiniteSet(S \union {a}) /\ (S \union {a}) \ {a} = S
  BY FS_AddElement
<1>2. SumFunctionOnSet(v, S \union {a}) = v[a] + SumFunctionOnSet(v, (S \union {a}) \ {a})
  BY <1>1, SumRemove
<1>3. SumFunctionOnSet(v, S) \in Int /\ v[a] \in Int
  BY SumType
<1>4. SumFunctionOnSet(v, S \union {a}) = v[a] + SumFunctionOnSet(v, S)
  BY <1>1, <1>2
<1> QED BY <1>3, <1>4

\* Both at once: w on U is v on the finite set S but for the value at a, which
\* changes or is new.
ChangesAt(a, v, S, w, U) ==
  /\ IsFiniteSet(S) /\ U = S \union {a}
  /\ \A x \in S : v[x] \in Int
  /\ \A x \in U : w[x] \in Int
  /\ \A x \in S : x # a => w[x] = v[x]

\* The sum changes by the difference at a.
LEMMA SumWith ==
  ASSUME NEW S, NEW v, NEW w, NEW a, NEW U, ChangesAt(a, v, S, w, U)
  PROVE  SumFunctionOnSet(w, U) = SumFunctionOnSet(v, S) + (w[a] - (IF a \in S THEN v[a] ELSE 0))
<1>0. /\ IsFiniteSet(S) /\ U = S \union {a}
      /\ \A x \in S : v[x] \in Int
      /\ \A x \in U : w[x] \in Int
      /\ \A x \in S : x # a => w[x] = v[x]
  BY DEF ChangesAt
<1>1. SumFunctionOnSet(v, S) \in Int /\ w[a] \in Int
  BY <1>0, SumType
<1>2. CASE a \in S
  <2>1. \A x \in S \ {a} : v[x] = w[x]
    BY <1>0
  <2>2. U = S /\ \A x \in S : v[x] \in Int /\ w[x] \in Int
    BY <1>0, <1>2
  <2>3. SumFunctionOnSet(w, S) = SumFunctionOnSet(v, S) + (w[a] - v[a])
    BY <1>0, <1>2, <2>1, <2>2, SumUpdate
  <2> QED BY <1>2, <2>2, <2>3
<1>3. CASE a \notin S
  <2>1. IsFiniteSet(U) /\ a \in U /\ U \ {a} = S
    BY <1>0, <1>3, FS_AddElement
  <2>2. SumFunctionOnSet(w, U) = w[a] + SumFunctionOnSet(w, U \ {a})
    BY <1>0, <2>1, SumRemove
  <2>3. \A x \in S : v[x] = w[x]
    BY <1>0, <1>3
  <2>4. SumFunctionOnSet(w, S) = SumFunctionOnSet(v, S)
    BY <1>0, <2>3, SumSame
  <2>5. SumFunctionOnSet(w, U) = w[a] + SumFunctionOnSet(v, S)
    BY <2>1, <2>2, <2>4
  <2> QED BY <1>1, <1>3, <2>5
<1> QED BY <1>2, <1>3

\* Nothing adds up to nothing.
LEMMA SumZero ==
  ASSUME NEW S, IsFiniteSet(S), NEW v, \A x \in S : v[x] = 0
  PROVE  SumFunctionOnSet(v, S) = 0
<1> DEFINE T == {s \in SUBSET S : SumFunctionOnSet(v, s) # 0}
<1> SUFFICES ASSUME T # {} PROVE FALSE
  OBVIOUS
<1>1. PICK s \in T : \A y \in T : y \subseteq s => y = s
  <2> HIDE DEF T
  <2>1. T \subseteq SUBSET S
    BY DEF T
  <2> QED BY <2>1, MinimalSubset
<1>2. s # {}
  BY SumEmpty
<1>3. SumFunctionOnSet(v, s \ {Least(s)}) = 0
  BY <1>1, <1>2, LeastIn
<1>4. SumFunctionOnSet(v, s) = v[Least(s)] + SumFunctionOnSet(v, s \ {Least(s)})
  BY <1>2, SumStep, FS_Subset
<1>5. v[Least(s)] = 0
  BY <1>2, LeastIn
<1> QED BY <1>3, <1>4, <1>5

\* The sums over the parts of a set add up to the sum over the set: g[x] is the
\* part that x is in.
LEMMA SumParts ==
  ASSUME NEW S, IsFiniteSet(S), NEW v, \A x \in S : v[x] \in Int,
         NEW K, IsFiniteSet(K), NEW g, \A x \in S : g[x] \in K
  PROVE  SumFunctionOnSet([k \in K |-> SumFunctionOnSet(v, {x \in S : g[x] = k})], K) = SumFunctionOnSet(v, S)
<1> DEFINE part(s, k) == {x \in s : g[x] = k}
           parts(s) == [k \in K |-> SumFunctionOnSet(v, part(s, k))]
           good(s) == SumFunctionOnSet(parts(s), K) = SumFunctionOnSet(v, s)
           T == {s \in SUBSET S : ~good(s)}
<1> SUFFICES ASSUME T # {} PROVE FALSE
  OBVIOUS
<1>1. PICK s \in T : \A y \in T : y \subseteq s => y = s
  <2> HIDE DEF T
  <2>1. T \subseteq SUBSET S
    BY DEF T
  <2> QED BY <2>1, MinimalSubset
<1>2. \A r \in SUBSET S : \A k \in K : IsFiniteSet(part(r, k)) /\ parts(r)[k] \in Int
  <2> SUFFICES ASSUME NEW r \in SUBSET S, NEW k \in K PROVE IsFiniteSet(part(r, k)) /\ parts(r)[k] \in Int
    OBVIOUS
  <2> DEFINE P == part(r, k)
  <2>1. P \in SUBSET S /\ \A x \in P : v[x] \in Int
    OBVIOUS
  <2>2. parts(r)[k] = SumFunctionOnSet(v, P)
    OBVIOUS
  <2> HIDE DEF P, parts
  <2>3. IsFiniteSet(P)
    BY <2>1, FS_Subset
  <2>4. SumFunctionOnSet(v, P) \in Int
    BY <2>1, <2>3, SumType
  <2> QED BY <2>2, <2>3, <2>4 DEF P
<1>3. CASE s = {}
  <2>1. \A k \in K : parts(s)[k] = 0
    <3> SUFFICES ASSUME NEW k \in K PROVE parts(s)[k] = 0
      OBVIOUS
    <3>1. part(s, k) = {}
      BY <1>3
    <3>2. parts(s)[k] = SumFunctionOnSet(v, part(s, k))
      OBVIOUS
    <3> HIDE DEF parts, part
    <3> QED BY <3>1, <3>2, SumEmpty
  <2>2. SumFunctionOnSet(v, s) = 0
    BY <1>3, SumEmpty
  <2> DEFINE w == parts(s)
  <2>3. SumFunctionOnSet(w, K) = 0
    <3>1. \A k \in K : w[k] = 0
      BY <2>1
    <3> HIDE DEF w
    <3> QED BY <3>1, SumZero
  <2> QED BY <1>1, <2>2, <2>3
<1>4. CASE s # {}
  <2>1. PICK y \in s : TRUE
    BY <1>4
  <2> DEFINE r == s \ {y}
             a == g[y]
             w == parts(s)
             u == parts(r)
  <2>2. s \in SUBSET S /\ r \in SUBSET S /\ r \subseteq s /\ r # s /\ y \in S /\ a \in K
    BY <1>1, <2>1
  <2>3. good(r)
    <3> HIDE DEF good
    <3> QED BY <1>1, <2>2
  <2>4. \A k \in K \ {a} : u[k] = w[k]
    <3> SUFFICES ASSUME NEW k \in K \ {a} PROVE u[k] = w[k]
      OBVIOUS
    <3>1. part(r, k) = part(s, k)
      OBVIOUS
    <3>2. u[k] = SumFunctionOnSet(v, part(r, k)) /\ w[k] = SumFunctionOnSet(v, part(s, k))
      OBVIOUS
    <3> HIDE DEF part, u, w
    <3> QED BY <3>1, <3>2
  <2>5. w[a] = v[y] + u[a]
    <3> DEFINE P == part(s, a)
    <3>1. P \in SUBSET S /\ y \in P /\ part(r, a) = P \ {y} /\ \A x \in P : v[x] \in Int
      BY <2>1, <2>2
    <3>2. u[a] = SumFunctionOnSet(v, part(r, a)) /\ w[a] = SumFunctionOnSet(v, P)
      BY <2>2
    <3>3. IsFiniteSet(P)
      BY <1>2, <2>2
    <3> HIDE DEF P, u, w, part
    <3>4. SumFunctionOnSet(v, P) = v[y] + SumFunctionOnSet(v, P \ {y})
      BY <3>1, <3>3, SumRemove
    <3> QED BY <3>1, <3>2, <3>4
  <2>6. \A k \in K : u[k] \in Int /\ w[k] \in Int
    BY <1>2, <2>2
  <2>7. SumFunctionOnSet(u, K) = SumFunctionOnSet(v, r)
    BY <2>3
  <2>8. IsFiniteSet(s) /\ v[y] \in Int /\ \A x \in s : v[x] \in Int
    BY <2>2, FS_Subset
  <2>9. SumFunctionOnSet(v, s) = v[y] + SumFunctionOnSet(v, r)
    BY <2>1, <2>8, SumRemove
  <2>10. ~(SumFunctionOnSet(w, K) = SumFunctionOnSet(v, s))
    BY <1>1
  <2> HIDE DEF u, w, a, r, good, T, part
  <2>11. SumFunctionOnSet(w, K) = SumFunctionOnSet(u, K) + (w[a] - u[a])
    BY <2>2, <2>4, <2>6, SumUpdate
  <2>12. SumFunctionOnSet(v, s) \in Int
    BY <2>8, SumType
  <2>13. SumFunctionOnSet(u, K) \in Int
    BY <2>6, SumType
  <2> QED BY <2>2, <2>5, <2>6, <2>7, <2>8, <2>9, <2>10, <2>11, <2>12, <2>13
<1> QED BY <1>3, <1>4

-----------------------------------------------------------------------------
(* FlattenSeq *)

\* h[i] is the first i sequences of ss one after the other, for i up to n.
Flattens(h, ss, n) == h = [i \in 1..n |-> IF i = 1 THEN ss[i] ELSE h[i - 1] \o ss[i]]

\* There is one such function only ...
LEMMA FlattenUnique ==
  ASSUME NEW ss, NEW n \in Nat, NEW g, NEW h, Flattens(g, ss, n), Flattens(h, ss, n)
  PROVE  g = h
<1> DEFINE T == {i \in 1..n : g[i] # h[i]}
<1>1. T = {}
  <2> SUFFICES ASSUME T # {} PROVE FALSE
    OBVIOUS
  <2>1. PICK i \in T : \A j \in T : i <= j
    <3>1. T \subseteq Nat
      OBVIOUS
    <3> HIDE DEF T
    <3> QED BY <3>1, LeastNumber
  <2>2. i \in 1..n /\ (i - 1 \in 1..n => g[i - 1] = h[i - 1])
    BY <2>1
  <2>3. CASE i = 1
    BY <2>1, <2>3 DEF Flattens
  <2>4. CASE i # 1
    <3>1. i - 1 \in 1..n
      BY <2>2, <2>4
    <3>2. g[i] = g[i - 1] \o ss[i] /\ h[i] = h[i - 1] \o ss[i]
      BY <2>2, <2>4 DEF Flattens
    <3> QED BY <2>1, <2>2, <3>1, <3>2
  <2> QED BY <2>3, <2>4
<1>2. g = [i \in 1..n |-> g[i]] /\ h = [i \in 1..n |-> h[i]]
  BY DEF Flattens
<1> QED BY <1>1, <1>2

\* ... and there is one.
LEMMA FlattenExists ==
  ASSUME NEW ss, NEW n \in Nat
  PROVE  \E h : Flattens(h, ss, n)
<1> DEFINE T == {m \in Nat : ~ \E h : Flattens(h, ss, m)}
<1> SUFFICES ASSUME T # {} PROVE FALSE
  OBVIOUS
<1>1. PICK m \in T : \A j \in T : m <= j
  <2>1. T \subseteq Nat
    OBVIOUS
  <2> HIDE DEF T
  <2> QED BY <2>1, LeastNumber
<1>2. CASE m = 0
  <2>1. Flattens([i \in 1..0 |-> ss[i]], ss, 0)
    BY DEF Flattens
  <2> QED BY <1>1, <1>2, <2>1
<1>3. CASE m # 0
  <2>1. m - 1 \in Nat /\ m - 1 \notin T
    BY <1>1, <1>3
  <2>2. PICK h : Flattens(h, ss, m - 1)
    BY <2>1
  <2> DEFINE k == [i \in 1..m |-> IF i = m THEN (IF m = 1 THEN ss[m] ELSE h[m - 1] \o ss[m]) ELSE h[i]]
  <2>3. ASSUME NEW i \in 1..m
        PROVE  k[i] = IF i = 1 THEN ss[i] ELSE k[i - 1] \o ss[i]
    <3>1. i # 1 => k[i - 1] = h[i - 1]
      <4>1. i # 1 => i - 1 \in 1..m /\ i - 1 # m
        BY <1>1
      <4> QED BY <4>1
    <3>2. CASE i = m
      <4>1. k[i] = IF m = 1 THEN ss[m] ELSE h[m - 1] \o ss[m]
        BY <3>2
      <4> HIDE DEF k
      <4> QED BY <3>1, <3>2, <4>1
    <3>3. CASE i # m
      <4>1. i \in 1..(m - 1)
        BY <1>1, <3>3
      <4>2. h[i] = IF i = 1 THEN ss[i] ELSE h[i - 1] \o ss[i]
        BY <2>2, <4>1 DEF Flattens
      <4>3. k[i] = h[i]
        BY <3>3
      <4> HIDE DEF k
      <4> QED BY <3>1, <4>2, <4>3
    <3> QED BY <3>2, <3>3
  <2>4. k = [i \in 1..m |-> k[i]]
    OBVIOUS
  <2> HIDE DEF k
  <2>5. Flattens(k, ss, m)
    BY <2>3, <2>4 DEF Flattens
  <2> QED BY <1>1, <2>5
<1> QED BY <1>2, <1>3

\* The function whose last value FlattenSeq is.
LEMMA FlattenIs ==
  ASSUME NEW T, NEW ss \in Seq(T), ss # <<>>, NEW h, Flattens(h, ss, Len(ss))
  PROVE  FlattenSeq(ss) = h[Len(ss)]
<1> DEFINE n == Len(ss)
           g == CHOOSE f : Flattens(f, ss, n)
<1>1. n \in Nat /\ n # 0
  BY EmptySeq
<1>2. Flattens(g, ss, n)
  <2> HIDE DEF n
  <2> QED BY <1>1, FlattenExists
<1>3. g = h
  <2> HIDE DEF g
  <2> QED BY <1>1, <1>2, FlattenUnique
<1>4. FlattenSeq(ss) = g[n]
  BY <1>1 DEF FlattenSeq, Flattens
<1> QED BY <1>3, <1>4

\* Nothing flattens to nothing ...
LEMMA FlattenEmpty == FlattenSeq(<<>>) = <<>>
BY DEF FlattenSeq

\* ... and one sequence more is appended (of sequences over a set, so that
\* the result is one, too).
LEMMA FlattenAppend ==
  ASSUME NEW S, NEW ss \in Seq(Seq(S)), NEW x \in Seq(S)
  PROVE  FlattenSeq(Append(ss, x)) = FlattenSeq(ss) \o x
<1> DEFINE n == Len(ss)
           more == Append(ss, x)
<1>1. /\ more \in Seq(Seq(S)) /\ more # <<>> /\ Len(more) = n + 1 /\ n \in Nat
      /\ \A i \in 1..n : more[i] = ss[i]
      /\ more[n + 1] = x /\ n + 1 \in Nat /\ n + 1 \in 1..(n + 1)
  BY AppendProperties, LenProperties
<1> HIDE DEF n, more
<1>2. PICK m \in Nat : m = n + 1 /\ m - 1 = n /\ m \in 1..m /\ (m = 1 <=> n = 0)
  BY <1>1
<1>3. PICK h : Flattens(h, more, m)
  BY FlattenExists
<1>4. FlattenSeq(more) = IF n = 0 THEN x ELSE h[n] \o x
  <2>1. FlattenSeq(more) = h[m]
    BY <1>1, <1>2, <1>3, FlattenIs
  <2>2. \A i \in 1..m : h[i] = IF i = 1 THEN more[i] ELSE h[i - 1] \o more[i]
    BY <1>3 DEF Flattens
  <2>3. h[m] = IF m = 1 THEN more[m] ELSE h[m - 1] \o more[m]
    BY <1>2, <2>2
  <2>4. more[m] = x
    BY <1>1, <1>2
  <2> QED BY <1>2, <2>1, <2>3, <2>4
<1>5. CASE n = 0
  <2>1. ss = <<>>
    BY <1>5, EmptySeq DEF n
  <2>2. FlattenSeq(ss) \o x = x
    BY <2>1, FlattenEmpty, ConcatEmptySeq
  <2> QED BY <1>4, <1>5, <2>2 DEF more
<1>6. CASE n # 0
  <2>1. ss # <<>>
    BY <1>6, EmptySeq DEF n
  <2> DEFINE k == [i \in 1..n |-> h[i]]
  <2>2. ASSUME NEW i \in 1..n
        PROVE  k[i] = IF i = 1 THEN ss[i] ELSE k[i - 1] \o ss[i]
    <3>1. i \in 1..m /\ (i # 1 => i - 1 \in 1..n) /\ more[i] = ss[i]
      BY <1>1, <1>2
    <3>2. h[i] = IF i = 1 THEN more[i] ELSE h[i - 1] \o more[i]
      BY <1>3, <3>1 DEF Flattens
    <3> QED BY <3>1, <3>2
  <2>3. k = [i \in 1..n |-> k[i]] /\ n \in 1..n
    BY <1>1, <1>6
  <2>4. k[n] = h[n]
    BY <2>3
  <2> HIDE DEF k
  <2>5. Flattens(k, ss, n)
    BY <2>2, <2>3 DEF Flattens
  <2>6. FlattenSeq(ss) = k[n]
    BY <2>1, <2>5, FlattenIs DEF n
  <2> QED BY <1>4, <1>6, <2>4, <2>6 DEF more
<1> QED BY <1>5, <1>6

\* What is flattened is a sequence over the same set.
LEMMA FlattenType ==
  ASSUME NEW S, NEW ss \in Seq(Seq(S))
  PROVE  FlattenSeq(ss) \in Seq(S)
<1> DEFINE T == {m \in Nat : \E t \in Seq(Seq(S)) : Len(t) = m /\ FlattenSeq(t) \notin Seq(S)}
<1>1. T = {}
  <2> SUFFICES ASSUME T # {} PROVE FALSE
    OBVIOUS
  <2>1. PICK m \in T : \A j \in T : m <= j
    <3>1. T \subseteq Nat
      OBVIOUS
    <3> HIDE DEF T
    <3> QED BY <3>1, LeastNumber
  <2>2. PICK t \in Seq(Seq(S)) : Len(t) = m /\ FlattenSeq(t) \notin Seq(S)
    BY <2>1
  <2>3. t # <<>>
    BY <2>2, FlattenEmpty, EmptySeq
  <2>4. PICK u \in Seq(Seq(S)), x \in Seq(S) : t = Append(u, x)
    BY <2>3, SequenceEmptyOrAppend
  <2>5. Len(u) \in Nat /\ m = Len(u) + 1
    BY <2>2, <2>4, AppendProperties, LenProperties
  <2>6. Len(u) \notin T
    <3> HIDE DEF T
    <3>1. m \in Nat
      BY <2>5
    <3> QED BY <2>1, <2>5, <3>1
  <2>7. FlattenSeq(u) \in Seq(S)
    BY <2>5, <2>6
  <2>8. FlattenSeq(t) = FlattenSeq(u) \o x
    BY <2>4, FlattenAppend
  <2> QED BY <2>2, <2>7, <2>8, ConcatProperties
<1>2. Len(ss) \in Nat
  BY LenProperties
<1> QED BY <1>1, <1>2

\* One sequence more may also be put in front.
LEMMA FlattenCons ==
  ASSUME NEW S, NEW ss \in Seq(Seq(S)), NEW x \in Seq(S)
  PROVE  FlattenSeq(<<x>> \o ss) = x \o FlattenSeq(ss)
<1> DEFINE T == {m \in Nat : \E t \in Seq(Seq(S)) : /\ Len(t) = m
                                                    /\ FlattenSeq(<<x>> \o t) # x \o FlattenSeq(t)}
           U == Seq(S)
<1>1. T = {}
  <2> SUFFICES ASSUME T # {} PROVE FALSE
    OBVIOUS
  <2>1. PICK m \in T : \A j \in T : m <= j
    <3>1. T \subseteq Nat
      OBVIOUS
    <3> HIDE DEF T
    <3> QED BY <3>1, LeastNumber
  <2>2. PICK t \in Seq(U) : Len(t) = m /\ FlattenSeq(<<x>> \o t) # x \o FlattenSeq(t)
    BY <2>1
  <2>3. <<x>> = Append(<<>>, x) /\ <<x>> \in Seq(U) /\ <<>> \in Seq(U)
    OBVIOUS
  <2>4. CASE t = <<>>
    <3>1. <<x>> \o t = <<x>>
      BY <2>3, <2>4, ConcatEmptySeq
    <3>2. FlattenSeq(<<x>>) = <<>> \o x
      BY <2>3, FlattenAppend, FlattenEmpty
    <3>3. <<>> \o x = x \o <<>>
      BY ConcatEmptySeq
    <3> QED BY <2>2, <2>4, <3>1, <3>2, <3>3, FlattenEmpty
  <2>5. CASE t # <<>>
    <3>1. PICK u \in Seq(U), y \in U : t = Append(u, y)
      <4> HIDE DEF U
      <4> QED BY <2>5, SequenceEmptyOrAppend
    <3>2. Len(u) \in Nat /\ m = Len(u) + 1
      <4> HIDE DEF U
      <4> QED BY <2>2, <3>1, AppendProperties, LenProperties
    <3>3. Len(u) \notin T
      <4> HIDE DEF T
      <4>1. m \in Nat
        BY <3>2
      <4> QED BY <2>1, <3>2, <4>1
    <3>4. FlattenSeq(<<x>> \o u) = x \o FlattenSeq(u)
      BY <3>2, <3>3
    <3>5. <<x>> \o u \in Seq(U) /\ <<x>> \o t = Append(<<x>> \o u, y)
      <4>1. x \in U
        OBVIOUS
      <4> HIDE DEF U
      <4>2. <<y>> \in Seq(U) /\ t = u \o <<y>>
        BY <3>1, AppendIsConcat
      <4>3. (<<x>> \o u) \o <<y>> = <<x>> \o t
        <5> DEFINE xs == <<x>>
                   ys == <<y>>
        <5>1. xs \in Seq(U) /\ ys \in Seq(U) /\ u \in Seq(U)
          BY <2>3, <3>1, <4>2
        <5> HIDE DEF T, xs, ys
        <5>2. (xs \o u) \o ys = xs \o (u \o ys)
          BY <5>1, ConcatAssociative
        <5> QED BY <4>2, <5>2 DEF xs, ys
      <4>4. <<x>> \o u \in Seq(U)
        BY <2>3, ConcatProperties
      <4> QED BY <4>3, <4>4, AppendIsConcat
    <3>6. FlattenSeq(<<x>> \o t) = FlattenSeq(<<x>> \o u) \o y
      BY <3>5, FlattenAppend
    <3>7. FlattenSeq(t) = FlattenSeq(u) \o y /\ FlattenSeq(u) \in Seq(S)
      BY <3>1, FlattenAppend, FlattenType
    <3>8. (x \o FlattenSeq(u)) \o y = x \o (FlattenSeq(u) \o y)
      <4>1. FlattenSeq(u) \in Seq(S) /\ y \in Seq(S)
        BY <3>1, <3>7
      <4> HIDE DEF T, U
      <4> QED BY <4>1, ConcatAssociative
    <3> QED BY <2>2, <3>4, <3>6, <3>7, <3>8
  <2> QED BY <2>4, <2>5
<1>2. Len(ss) \in Nat
  BY LenProperties
<1> QED BY <1>1, <1>2
=============================================================================
