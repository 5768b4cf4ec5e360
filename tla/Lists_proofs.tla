----------------------------- MODULE Lists_proofs -----------------------------
(* Facts about lists, numbers and sums, for the proofs of the components. *)
EXTENDS Lists, Functions, FiniteSetsExt, SequencesExt, SequenceTheorems, FiniteSetTheorems, TLAPS

IsSequence(s) == \E S : s \in Seq(S)

\* Append, whatever the elements are.
LEMMA Appended ==
  ASSUME NEW s, NEW e, IsSequence(s)
  PROVE  /\ IsSequence(Append(s, e))
         /\ Len(s) \in Nat
         /\ Len(Append(s, e)) = Len(s) + 1
         /\ \A i \in 1..Len(s) : Append(s, e)[i] = s[i]
         /\ Append(s, e)[Len(s) + 1] = e
<1>1. PICK S : s \in Seq(S)
  BY DEF IsSequence
<1> DEFINE T == S \cup {e}
<1>2. s \in Seq(T) /\ e \in T
  BY <1>1
<1> HIDE DEF T
<1>3. QED
  BY <1>2, AppendProperties DEF IsSequence

\* Induction, for a set of numbers.
LEMMA NatSets ==
  ASSUME NEW T, 0 \in T, \A n \in Nat : n \in T => n + 1 \in T
  PROVE  \A n \in Nat : n \in T
<1> SUFFICES ASSUME Nat \ T # {} PROVE FALSE
  OBVIOUS
<1>1. PICK m \in Nat \ T : \A l \in Nat \ T : <<l, m>> \notin OpToRel(<, Nat)
  BY WFMin, NatLessThanWellFounded, Zenon
<1>2. \A l \in Nat \ T : ~(l < m)
  BY <1>1, Zenon DEF OpToRel
<1>3. m - 1 \in Nat /\ m - 1 < m
  OBVIOUS
<1>4. m - 1 \in T
  BY <1>2, <1>3
<1> QED
  BY <1>3, <1>4

-----------------------------------------------------------------------------
(* Positions of a list by their rank *)

Rank(at, i) == Cardinality({j \in at : j <= i})

\* Ranks count the positions 1 .. n, n being how many there are.
LEMMA Ranks ==
  ASSUME NEW n \in Nat, NEW at \in SUBSET (1..n)
  PROVE  /\ IsFiniteSet(at) /\ Cardinality(at) \in Nat
         /\ \A i \in at : Rank(at, i) \in 1..Cardinality(at)
         /\ \A i, j \in at : i < j => Rank(at, i) < Rank(at, j)
         /\ \A k \in 1..Cardinality(at) : \E i \in at : Rank(at, i) = k
<1>1. IsFiniteSet(at) /\ Cardinality(at) \in Nat
  <2>1. IsFiniteSet(1..n)
    BY FS_Interval
  <2> QED
    BY <2>1, FS_Subset, FS_CardinalityType
<1>2. ASSUME NEW i \in at
      PROVE  Rank(at, i) \in 1..Cardinality(at)
  <2>1. {j \in at : j <= i} \in SUBSET at /\ {i} \in SUBSET {j \in at : j <= i}
    OBVIOUS
  <2>2. /\ IsFiniteSet({j \in at : j <= i}) /\ Rank(at, i) <= Cardinality(at)
        /\ Rank(at, i) \in Nat
    BY <1>1, <2>1, FS_Subset, FS_CardinalityType DEF Rank
  <2>3. IsFiniteSet({j \in at : j <= i}) /\ {j \in at : j <= i} # {}
    BY <2>1, <2>2
  <2>4. Rank(at, i) # 0
    BY <2>3, FS_EmptySet DEF Rank
  <2> QED
    BY <1>1, <2>2, <2>4
<1>3. ASSUME NEW i \in at, NEW j \in at, i < j
      PROVE  Rank(at, i) < Rank(at, j)
  <2> DEFINE low  == {l \in at : l <= i}
             high == {l \in at : l <= j}
  <2>0. i \in Nat /\ j \in Nat /\ at \subseteq Nat
    OBVIOUS
  <2>1. low \in SUBSET high /\ j \in high /\ j \notin low /\ high \in SUBSET at
    <3>1. \A l \in at : l <= i => l <= j
      BY <1>3, <2>0
    <3>2. ~(j <= i) /\ j <= j
      BY <1>3, <2>0
    <3> QED
      BY <3>1, <3>2
  <2>2. IsFiniteSet(high)
    BY <1>1, <2>1, FS_Subset
  <2>3. Cardinality(low) <= Cardinality(high) /\ Cardinality(low) # Cardinality(high)
    <3> HIDE DEF low, high
    <3> QED
      BY <2>1, <2>2, FS_Subset
  <2> QED
    BY <1>2, <2>3 DEF Rank
<1>4. ASSUME NEW k \in 1..Cardinality(at)
      PROVE  \E i \in at : Rank(at, i) = k
  <2> DEFINE f == [i \in at |-> Rank(at, i)]
             ks == 1..Cardinality(at)
  <2>1. f \in [at -> ks]
    BY <1>2
  <2>2. \A i, j \in at : f[i] = f[j] => i = j
    BY <1>2, <1>3
  <2>3. f \in Injection(at, ks)
    <3> HIDE DEF f, ks
    <3> QED
      BY <2>1, <2>2 DEF Injection, IsInjective
  <2>4. IsFiniteSet(ks) /\ Cardinality(ks) = Cardinality(at)
    BY <1>1, FS_Interval
  <2>5. f \in Surjection(at, ks)
    <3> HIDE DEF f, ks
    <3> QED
      BY <2>3, <2>4, FS_Injection
  <2>6. \A l \in ks : \E i \in at : f[i] = l
    <3> HIDE DEF f, ks
    <3> QED
      BY <2>5 DEF Surjection
  <2> QED
    BY <1>4, <2>6
<1> QED
  BY <1>1, <1>2, <1>3, <1>4

PickedBy(f, s, at) ==
  /\ f \in [1..Cardinality(at) -> at]
  /\ \A k \in 1..Cardinality(at) : Picked(s, at)[k] = s[f[k]]
  /\ \A k, l \in 1..Cardinality(at) : f[k] = f[l] => k = l

\* What is picked: an element at one of the positions for each, none twice.
LEMMA PickedFromThere ==
  ASSUME NEW s, NEW n \in Nat, NEW at \in SUBSET (1..n)
  PROVE  /\ Cardinality(at) \in Nat
         /\ Len(Picked(s, at)) = Cardinality(at)
         /\ Picked(s, at) = [k \in 1..Cardinality(at) |-> Picked(s, at)[k]]
         /\ \E f : PickedBy(f, s, at)
<1> DEFINE ks == 1..Cardinality(at)
           f == [k \in ks |-> CHOOSE i \in at : Rank(at, i) = k]
<1>1. Cardinality(at) \in Nat
  BY Ranks
<1>2. ASSUME NEW k \in ks PROVE f[k] \in at /\ Rank(at, f[k]) = k
  <2>1. \E i \in at : Rank(at, i) = k
    BY Ranks
  <2> QED
    BY <2>1
<1>3. Picked(s, at) = [k \in ks |-> s[f[k]]]
  BY DEF Picked, Rank
<1>4. f \in [ks -> at]
  BY <1>2
<1>5. \A k, l \in ks : f[k] = f[l] => k = l
  BY <1>2
<1>6. Len(Picked(s, at)) = Cardinality(at)
  BY <1>1, <1>3
<1>7. PickedBy(f, s, at)
  BY <1>3, <1>4, <1>5 DEF PickedBy
<1> HIDE DEF f
<1> QED
  BY <1>1, <1>3, <1>6, <1>7

\* Picking keeps a list a list, of the same elements.
LEMMA PickedIsList ==
  ASSUME NEW S, NEW s \in Seq(S), NEW at \in SUBSET (1..Len(s))
  PROVE  /\ Picked(s, at) \in Seq(S)
         /\ Len(Picked(s, at)) = Cardinality(at)
         /\ Cardinality(at) \in Nat
         /\ \A k \in 1..Cardinality(at) : \E i \in at : Picked(s, at)[k] = s[i]
<1> DEFINE c == Cardinality(at)
<1>1. /\ c \in Nat /\ Len(Picked(s, at)) = c
      /\ Picked(s, at) = [k \in 1..c |-> Picked(s, at)[k]]
      /\ \E f : PickedBy(f, s, at)
  BY PickedFromThere, LenProperties, Zenon
<1>2. PICK f : PickedBy(f, s, at)
  BY <1>1
<1>3. \A k \in 1..c : f[k] \in at /\ Picked(s, at)[k] = s[f[k]]
  BY <1>2 DEF PickedBy
<1>4. \A k \in 1..c : Picked(s, at)[k] \in S
  BY <1>3, ElementOfSeq
<1> HIDE DEF c
<1>5. Picked(s, at) \in [1..c -> S]
  BY <1>1, <1>4
<1> QED
  BY <1>1, <1>3, <1>5 DEF c

\* A list without repetition has none after picking.
LEMMA PickedDistinct ==
  ASSUME NEW S, NEW s \in Seq(S), NEW at \in SUBSET (1..Len(s)),
         \A i, j \in 1..Len(s) : s[i] = s[j] => i = j
  PROVE  \A k, l \in 1..Cardinality(at) : Picked(s, at)[k] = Picked(s, at)[l] => k = l
<1>1. PICK f : PickedBy(f, s, at)
  BY PickedFromThere, LenProperties, Zenon
<1>2. \A k \in 1..Cardinality(at) : f[k] \in 1..Len(s) /\ Picked(s, at)[k] = s[f[k]]
  BY <1>1 DEF PickedBy
<1> QED
  BY <1>1, <1>2 DEF PickedBy

\* Picking everything changes nothing.
LEMMA PickedAll ==
  ASSUME NEW S, NEW s \in Seq(S)
  PROVE  Picked(s, 1..Len(s)) = s
<1> DEFINE n == Len(s)
<1>0. n \in Nat
  BY LenProperties
<1>1. IsFiniteSet(1..n) /\ Cardinality(1..n) = n
  BY <1>0, FS_Interval
<1>2. ASSUME NEW i \in 1..n PROVE Rank(1..n, i) = i
  <2>1. {j \in 1..n : j <= i} = 1..i /\ 1 \in Int /\ i \in Int
    BY <1>0
  <2>2. Cardinality(1..i) = i
    BY <2>1, FS_Interval
  <2> QED
    BY <2>1, <2>2 DEF Rank
<1>3. \A k \in 1..n : (CHOOSE i \in 1..n : Rank(1..n, i) = k) = k
  BY <1>2
<1>4. Picked(s, 1..n) = [k \in 1..Cardinality(1..n) |-> s[CHOOSE i \in 1..n : Rank(1..n, i) = k]]
  BY DEF Picked, Rank
<1>5. Picked(s, 1..n) = [k \in 1..n |-> s[k]]
  BY <1>1, <1>3, <1>4
<1> QED
  BY <1>0, <1>5

UpTo(at, m) == {i \in at : i <= m}

BeginsWith(w, p, c) == \A k \in 1..c : p[k] = w[k]

\* Picking from the beginning of a list gives the beginning of what is picked.
LEMMA PickedPrefix ==
  ASSUME NEW s, NEW t, NEW n \in Nat, NEW at \in SUBSET (1..n), NEW m \in 0..n,
         \A i \in UpTo(at, m) : t[i] = s[i]
  PROVE  /\ Cardinality(UpTo(at, m)) \in Nat /\ Cardinality(UpTo(at, m)) <= Cardinality(at)
         /\ BeginsWith(Picked(s, at), Picked(t, UpTo(at, m)), Cardinality(UpTo(at, m)))
<1> DEFINE low == UpTo(at, m)
<1> USE DEF UpTo
<1>0. at \subseteq Nat /\ m \in Nat
  OBVIOUS
<1>1. low \in SUBSET at /\ low \in SUBSET (1..n)
  OBVIOUS
<1>2. /\ IsFiniteSet(at) /\ Cardinality(at) \in Nat
      /\ \A i, j \in at : i < j => Rank(at, i) < Rank(at, j)
      /\ \A i \in at : Rank(at, i) \in 1..Cardinality(at)
  BY Ranks, Zenon
<1>3. Cardinality(low) \in Nat /\ Cardinality(low) <= Cardinality(at)
  BY <1>1, <1>2, FS_Subset, FS_CardinalityType
<1>4. \A k \in 1..Cardinality(low) : \E i \in low : Rank(low, i) = k
  BY <1>1, Ranks, Zenon
<1>5. \A i \in low : Rank(low, i) = Rank(at, i)
  <2>1. ASSUME NEW i \in low PROVE {j \in low : j <= i} = {j \in at : j <= i}
    <3>1. i \in Nat /\ i <= m
      BY <1>0
    <3>2. \A j \in at : j <= i => j <= m
      BY <1>0, <3>1
    <3> QED
      BY <3>2
  <2> QED
    BY <2>1 DEF Rank
<1>6. ASSUME NEW k \in 1..Cardinality(low)
      PROVE  Picked(t, low)[k] = Picked(s, at)[k]
  <2> DEFINE i == CHOOSE j \in low : Rank(low, j) = k
             l == CHOOSE j \in at : Rank(at, j) = k
  <2>1. i \in low /\ Rank(low, i) = k
    BY <1>4
  <2>2. i \in at /\ Rank(at, i) = k
    BY <1>1, <1>5, <2>1
  <2>3. l \in at /\ Rank(at, l) = k
    BY <2>2
  <2>4. Picked(t, low)[k] = t[i] /\ Picked(s, at)[k] = s[l]
    <3>1. k \in 1..Cardinality(at)
      BY <1>2, <1>3
    <3> QED
      BY <3>1 DEF Picked, Rank
  <2> HIDE DEF i, l
  <2>5. i = l
    <3>1. i \in Nat /\ l \in Nat /\ k \in Nat
      BY <1>3, <2>2, <2>3
    <3>2. ~(i < l) /\ ~(l < i)
      BY <1>2, <2>2, <2>3, <3>1
    <3> QED
      BY <3>1, <3>2
  <2> QED
    BY <2>1, <2>4, <2>5
<1> QED
  BY <1>3, <1>6 DEF BeginsWith

\* What is picked at the rank of a position is what stands there.
LEMMA PickedAtRank ==
  ASSUME NEW s, NEW n \in Nat, NEW at \in SUBSET (1..n), NEW i \in at
  PROVE  Rank(at, i) \in 1..Cardinality(at) /\ Picked(s, at)[Rank(at, i)] = s[i]
<1> DEFINE r == Rank(at, i)
           l == CHOOSE j \in at : Rank(at, j) = r
<1>1. r \in 1..Cardinality(at) /\ Cardinality(at) \in Nat
  BY Ranks
<1>2. \A j, h \in at : j < h => Rank(at, j) < Rank(at, h)
  BY Ranks
<1>3. l \in at /\ Rank(at, l) = r
  OBVIOUS
<1>4. Picked(s, at)[r] = s[l]
  BY <1>1 DEF Picked, Rank
<1> HIDE DEF l
<1>5. l = i
  <2>1. i \in Nat /\ l \in Nat /\ r \in Nat
    BY <1>1, <1>3
  <2>2. ~(i < l) /\ ~(l < i)
    BY <1>2, <1>3, <2>1
  <2> QED
    BY <2>1, <2>2
<1> QED
  BY <1>1, <1>4, <1>5

\* Some positions of a list have a last one.
LEMMA LastOfSome ==
  ASSUME NEW n \in Nat, NEW at \in SUBSET (1..n), at # {}
  PROVE  \E i \in at : \A j \in at : j <= i
<1> DEFINE T == {m \in Nat : \A a \in SUBSET (1..m) : a # {} => \E i \in a : \A j \in a : j <= i}
<1>1. 0 \in T
  <2>1. \A a \in SUBSET (1..0) : a = {}
    OBVIOUS
  <2> QED
    BY <2>1
<1>2. ASSUME NEW m \in Nat, m \in T
      PROVE  m + 1 \in T
  <2>1. ASSUME NEW a \in SUBSET (1..(m + 1)), a # {}
        PROVE  \E i \in a : \A j \in a : j <= i
    <3>1. \A j \in a : j <= m + 1 /\ j \in Nat
      OBVIOUS
    <3>2. CASE m + 1 \in a
      BY <3>1, <3>2
    <3>3. CASE m + 1 \notin a
      <4>1. a \in SUBSET (1..m)
        BY <3>3
      <4> QED
        BY <1>2, <2>1, <4>1
    <3> QED
      BY <3>2, <3>3
  <2> QED
    BY <2>1
<1> HIDE DEF T
<1>3. \A m \in Nat : m \in T
  BY <1>1, <1>2, NatSets
<1>4. n \in T
  BY <1>3
<1> QED
  BY <1>4 DEF T

-----------------------------------------------------------------------------
(* Numbers: the ends of a set, divisors *)

\* Some numbers have a least one.
LEMMA LeastOfSome ==
  ASSUME NEW S \in SUBSET Nat, S # {}
  PROVE  Min(S) \in S /\ \A y \in S : Min(S) <= y
<1> DEFINE T == {n \in Nat : \A m \in 0..n : m \notin S}
<1>1. SUFFICES ASSUME ~\E x \in S : \A y \in S : x <= y PROVE FALSE
  BY DEF Min
<1>2. 0 \in T
  BY <1>1
<1>3. ASSUME NEW n \in Nat, n \in T PROVE n + 1 \in T
  <2>1. \A y \in S : y >= n + 1
    BY <1>3
  <2>2. n + 1 \notin S
    BY <1>1, <2>1
  <2> QED
    BY <1>3, <2>2
<1>4. \A n \in Nat : n \in T
  <2> HIDE DEF T
  <2> QED
    BY <1>2, <1>3, NatSets
<1>5. PICK y \in S : y \in Nat
  OBVIOUS
<1>6. y \in T
  BY <1>4
<1> QED
  BY <1>5, <1>6

\* Finitely many numbers have a greatest one.
LEMMA GreatestOfSome ==
  ASSUME NEW S \in SUBSET Nat, S # {}, IsFiniteSet(S)
  PROVE  Max(S) \in S /\ \A y \in S : Max(S) >= y
<1> DEFINE Topped(R) == R # {} => \E x \in R : \A y \in R : x >= y
           T == {n \in Nat : \A R \in SUBSET S : Cardinality(R) <= n => Topped(R)}
<1>1. \A R \in SUBSET S : IsFiniteSet(R) /\ Cardinality(R) \in Nat
  BY FS_Subset, FS_CardinalityType
<1>2. 0 \in T
  BY <1>1, FS_EmptySet
<1>3. ASSUME NEW n \in Nat, n \in T PROVE n + 1 \in T
  <2> SUFFICES ASSUME NEW R \in SUBSET S, Cardinality(R) <= n + 1, R # {} PROVE Topped(R)
    OBVIOUS
  <2>1. PICK z \in R : TRUE
    OBVIOUS
  <2>2. Cardinality(R \ {z}) <= n /\ R \ {z} \in SUBSET S
    BY <1>1, <2>1, FS_RemoveElement
  <2>3. Topped(R \ {z})
    BY <1>3, <2>2
  <2>4. CASE R \ {z} = {}
    <3>1. R = {z}
      BY <2>1, <2>4
    <3> QED
      BY <2>1, <3>1
  <2>5. CASE R \ {z} # {}
    <3>1. PICK x \in R \ {z} : \A y \in R \ {z} : x >= y
      BY <2>3, <2>5
    <3>2. CASE z >= x
      <4>1. \A y \in R : z >= y
        BY <3>1, <3>2, <2>1
      <4> QED
        BY <2>1, <4>1
    <3>3. CASE ~(z >= x)
      <4>1. \A y \in R : x >= y
        BY <3>1, <3>3, <2>1
      <4> QED
        BY <3>1, <4>1
    <3> QED
      BY <3>2, <3>3
  <2> QED
    BY <2>4, <2>5
<1>4. \A n \in Nat : n \in T
  <2> HIDE DEF T
  <2> QED
    BY <1>2, <1>3, NatSets
<1>5. Topped(S)
  BY <1>1, <1>4
<1> QED
  BY <1>5 DEF Max

\* What finitely many arguments give is finite.
LEMMA FiniteImage ==
  ASSUME NEW f, IsFiniteSet(DOMAIN f)
  PROVE  IsFiniteSet({f[x] : x \in DOMAIN f})
<1> DEFINE S == DOMAIN f
           T == {f[x] : x \in S}
           g == [x \in S |-> f[x]]
<1>1. g \in Surjection(S, T)
  BY DEF Surjection, IsInjective
<1> QED
  BY <1>1, FS_Surjection

LEMMA Divides ==
  ASSUME NEW u \in Nat, NEW r \in Nat \ {0}, u % r = 0
  PROVE  u \div r \in Nat /\ u = r * (u \div r)
OBVIOUS

LEMMA SmallerDivisor ==
  ASSUME NEW u \in Nat \ {0}, NEW r \in Nat \ {0}, NEW q \in Nat \ {0}, u % r = 0, u % q = 0
  PROVE  /\ u \div r \in Nat \ {0}
         /\ r < q => u \div q < u \div r
<1> DEFINE x == u \div r
           y == u \div q
<1>1. x \in Nat /\ u = r * x /\ y \in Nat /\ u = q * y
  BY Divides
<1> HIDE DEF x, y
<1>2. x # 0 /\ y # 0
  BY <1>1
<1>3. ASSUME r < q, x <= y PROVE FALSE
  <2>1. r * x <= r * y
    BY <1>1, <1>3
  <2>2. r * y < q * y
    BY <1>1, <1>2, <1>3
  <2> QED
    BY <1>1, <2>1, <2>2
<1> QED
  BY <1>1, <1>2, <1>3 DEF x, y

\* What a quotient is, and how it grows with what is divided.
LEMMA Quotient ==
  ASSUME NEW u \in Nat, NEW d \in Nat \ {0}
  PROVE  u \div d \in Nat /\ d * (u \div d) <= u /\ u < d * (u \div d) + d
OBVIOUS

LEMMA QuotientGrows ==
  ASSUME NEW u \in Nat, NEW v \in Nat, NEW d \in Nat \ {0}
  PROVE  /\ u <= v => u \div d <= v \div d
         /\ u + d <= v => u \div d < v \div d
<1> DEFINE x == u \div d
           y == v \div d
<1>1. /\ x \in Nat /\ d * x <= u /\ u < d * x + d
      /\ y \in Nat /\ d * y <= v /\ v < d * y + d
  BY Quotient
<1> HIDE DEF x, y
<1>2. ASSUME u <= v, y < x PROVE FALSE
  <2>1. d * (y + 1) <= d * x
    BY <1>1, <1>2
  <2>2. d * (y + 1) = d * y + d
    BY <1>1
  <2> QED
    BY <1>1, <1>2, <2>1, <2>2
<1>3. ASSUME u + d <= v, y <= x PROVE FALSE
  <2>1. d * y <= d * x
    BY <1>1, <1>3
  <2> QED
    BY <1>1, <1>3, <2>1
<1> QED
  BY <1>1, <1>2, <1>3 DEF x, y

-----------------------------------------------------------------------------
(* Sums of functions *)

\* FoldFunction(+, 0, f) is g[DOMAIN f] of the g that is its own SumBody.
SumBody(f, T, g) ==
  [s \in SUBSET T |-> IF s = {} THEN 0 ELSE LET x == CHOOSE x \in s : TRUE IN f[x] + g[s \ {x}]]

SumsOf(f) == CHOOSE g : g = SumBody(f, DOMAIN f, g)

LEMMA TotalIsSum ==
  ASSUME NEW f
  PROVE  FoldFunction(+, 0, f) = SumsOf(f)[DOMAIN f]
BY DEF FoldFunction, FoldFunctionOnSet, MapThenFoldSet, SumBody, SumsOf

LEMMA PartialSumsExist ==
  ASSUME NEW f, IsFiniteSet(DOMAIN f)
  PROVE  SumsOf(f) = SumBody(f, DOMAIN f, SumsOf(f))
<1> DEFINE T == DOMAIN f
           Upto(n) == {s \in SUBSET T : Cardinality(s) <= n}
           Step(g, s) == IF s = {} THEN 0 ELSE LET x == CHOOSE x \in s : TRUE IN f[x] + g[s \ {x}]
           Fits(g, n) == g = [s \in Upto(n) |-> Step(g, s)]
           Good == {n \in Nat : \E g : Fits(g, n)}
<1>1. \A s \in SUBSET T : IsFiniteSet(s) /\ Cardinality(s) \in Nat
  BY FS_Subset, FS_CardinalityType
<1>2. \A s \in SUBSET T : s # {} =>
        /\ (CHOOSE x \in s : TRUE) \in s
        /\ s \ {CHOOSE x \in s : TRUE} \in SUBSET T
        /\ Cardinality(s \ {CHOOSE x \in s : TRUE}) = Cardinality(s) - 1
  BY <1>1, FS_RemoveElement
<1>3. 0 \in Good
  <2> DEFINE g == [s \in Upto(0) |-> 0]
  <2>1. \A s \in Upto(0) : s = {}
    BY <1>1, FS_EmptySet
  <2>2. Fits(g, 0)
    BY <2>1
  <2> HIDE DEF g, Fits
  <2> QED
    BY <2>2
<1>4. ASSUME NEW n \in Nat, n \in Good PROVE n + 1 \in Good
  <2>1. PICK g : Fits(g, n)
    BY <1>4
  <2> DEFINE h == [s \in Upto(n + 1) |-> Step(g, s)]
  <2>2. \A s \in Upto(n + 1) : s # {} => s \ {CHOOSE x \in s : TRUE} \in Upto(n) \cap Upto(n + 1)
    BY <1>1, <1>2, <1>4
  <2>3. \A s \in Upto(n) \cap Upto(n + 1) : h[s] = g[s]
    BY <2>1
  <2>4. \A s \in Upto(n + 1) : Step(h, s) = Step(g, s)
    <3> HIDE DEF h, Upto
    <3> QED
      BY <2>2, <2>3
  <2>5. Fits(h, n + 1)
    <3> HIDE DEF Step
    <3> QED
      BY <2>4
  <2> HIDE DEF h, Fits
  <2> QED
    BY <2>5
<1>5. \A n \in Nat : n \in Good
  <2> HIDE DEF Good
  <2> QED
    BY <1>3, <1>4, NatSets
<1>6. Cardinality(T) \in Nat /\ \A s \in SUBSET T : Cardinality(s) <= Cardinality(T)
  BY FS_Subset, FS_CardinalityType
<1>7. Upto(Cardinality(T)) = SUBSET T
  BY <1>6
<1>8. \E g : g = SumBody(f, T, g)
  <2>1. PICK g : Fits(g, Cardinality(T))
    <3> HIDE DEF Fits
    <3> QED
      BY <1>5, <1>6
  <2>2. g = [s \in SUBSET T |-> Step(g, s)]
    BY <1>7, <2>1
  <2> QED
    BY <2>2 DEF SumBody
<1> QED
  BY <1>8 DEF SumsOf

\* A sum of numbers is a number; one of numbers that are nowhere greater is not greater,
\* and where one is less it is less.
LEMMA SumsCompare ==
  ASSUME NEW f, NEW g, DOMAIN f = DOMAIN g, IsFiniteSet(DOMAIN f),
         \A x \in DOMAIN f : f[x] \in Nat /\ g[x] \in Nat /\ f[x] <= g[x]
  PROVE  /\ FoldFunction(+, 0, f) \in Nat /\ FoldFunction(+, 0, g) \in Nat
         /\ FoldFunction(+, 0, f) <= FoldFunction(+, 0, g)
         /\ (\E x \in DOMAIN f : f[x] < g[x]) => FoldFunction(+, 0, f) < FoldFunction(+, 0, g)
<1> DEFINE T == DOMAIN f
           F == SumsOf(f)
           G == SumsOf(g)
           Least(s) == CHOOSE x \in s : TRUE
           Compared(s) == /\ F[s] \in Nat /\ G[s] \in Nat /\ F[s] <= G[s]
                          /\ (\E x \in s : f[x] < g[x]) => F[s] < G[s]
           Good == {n \in Nat : \A s \in SUBSET T : Cardinality(s) <= n => Compared(s)}
<1>1. /\ F = SumBody(f, T, F) /\ G = SumBody(g, T, G)
  BY PartialSumsExist
<1>2. /\ F[{}] = 0 /\ G[{}] = 0
      /\ \A s \in SUBSET T : s # {} =>
           /\ F[s] = f[Least(s)] + F[s \ {Least(s)}]
           /\ G[s] = g[Least(s)] + G[s \ {Least(s)}]
  <2> HIDE DEF F, G
  <2> QED
    BY <1>1 DEF SumBody
<1>3. \A s \in SUBSET T : IsFiniteSet(s) /\ Cardinality(s) \in Nat
  BY FS_Subset, FS_CardinalityType
<1>4. \A s \in SUBSET T : s # {} =>
        /\ Least(s) \in s
        /\ s \ {Least(s)} \in SUBSET T
        /\ Cardinality(s \ {Least(s)}) = Cardinality(s) - 1
  BY <1>3, FS_RemoveElement
<1> HIDE DEF F, G, Least
<1>5. 0 \in Good
  <2>1. \A s \in SUBSET T : Cardinality(s) <= 0 => s = {}
    BY <1>3, FS_EmptySet
  <2>2. Compared({})
    BY <1>2
  <2> HIDE DEF Compared
  <2> QED
    BY <2>1, <2>2
<1>6. ASSUME NEW n \in Nat, n \in Good PROVE n + 1 \in Good
  <2> SUFFICES ASSUME NEW s \in SUBSET T, Cardinality(s) <= n + 1 PROVE Compared(s)
    OBVIOUS
  <2>1. CASE s = {}
    BY <1>2, <2>1
  <2>2. CASE s # {}
    <3> DEFINE x == Least(s)
               r == s \ {Least(s)}
    <3>1. x \in T /\ x \in s /\ r \in SUBSET T /\ Cardinality(r) <= n
      BY <1>3, <1>4, <2>2
    <3>2. Compared(r)
      BY <1>6, <3>1
    <3>3. F[s] = f[x] + F[r] /\ G[s] = g[x] + G[r]
      BY <1>2, <2>2
    <3>4. f[x] \in Nat /\ g[x] \in Nat /\ f[x] <= g[x]
      BY <3>1
    <3>5. (\E y \in s : f[y] < g[y]) => f[x] < g[x] \/ \E y \in r : f[y] < g[y]
      OBVIOUS
    <3> HIDE DEF x, r
    <3> QED
      BY <3>2, <3>3, <3>4, <3>5
  <2> QED
    BY <2>1, <2>2
<1>7. \A n \in Nat : n \in Good
  <2> HIDE DEF Good
  <2> QED
    BY <1>5, <1>6, NatSets
<1>8. Cardinality(T) \in Nat
  BY <1>3
<1>9. Compared(T)
  BY <1>7, <1>8
<1> QED
  BY <1>9, TotalIsSum DEF F, G

\* Whichever argument is set apart, a sum is its value and the sum of the others.
LEMMA SumsTakeAny ==
  ASSUME NEW f, IsFiniteSet(DOMAIN f), \A x \in DOMAIN f : f[x] \in Nat
  PROVE  \A s \in SUBSET DOMAIN f :
           /\ SumsOf(f)[s] \in Nat
           /\ \A x \in s : SumsOf(f)[s] = f[x] + SumsOf(f)[s \ {x}]
<1> DEFINE T == DOMAIN f
           F == SumsOf(f)
           Least(s) == CHOOSE x \in s : TRUE
           Parted(s) == F[s] \in Nat /\ \A x \in s : F[s] = f[x] + F[s \ {x}]
           Good == {n \in Nat : \A s \in SUBSET T : Cardinality(s) <= n => Parted(s)}
<1>1. F = SumBody(f, T, F)
  BY PartialSumsExist
<1>2. F[{}] = 0 /\ \A s \in SUBSET T : s # {} => F[s] = f[Least(s)] + F[s \ {Least(s)}]
  <2> HIDE DEF F
  <2> QED
    BY <1>1 DEF SumBody
<1>3. \A s \in SUBSET T : IsFiniteSet(s) /\ Cardinality(s) \in Nat
  BY FS_Subset, FS_CardinalityType
<1>4. \A s \in SUBSET T : \A x \in s :
        s \ {x} \in SUBSET T /\ Cardinality(s \ {x}) = Cardinality(s) - 1
  BY <1>3, FS_RemoveElement
<1> HIDE DEF F
<1>5. 0 \in Good
  <2>1. \A s \in SUBSET T : Cardinality(s) <= 0 => s = {}
    BY <1>3, FS_EmptySet
  <2>2. Parted({})
    BY <1>2
  <2> HIDE DEF Parted
  <2> QED
    BY <2>1, <2>2
<1>6. ASSUME NEW n \in Nat, n \in Good PROVE n + 1 \in Good
  <2> SUFFICES ASSUME NEW s \in SUBSET T, Cardinality(s) <= n + 1 PROVE Parted(s)
    OBVIOUS
  <2>1. CASE s = {}
    BY <1>2, <2>1
  <2>2. CASE s # {}
    <3> DEFINE y == Least(s)
    <3>1. y \in s /\ F[s] = f[y] + F[s \ {y}]
      BY <1>2, <2>2
    <3> HIDE DEF y
    <3>2. \A x \in s : s \ {x} \in SUBSET T /\ Cardinality(s \ {x}) <= n
      BY <1>3, <1>4
    <3>3. \A x \in s : Parted(s \ {x})
      <4> HIDE DEF Parted
      <4> QED
        BY <1>6, <3>2
    <3>4. F[s] \in Nat
      BY <3>1, <3>3
    <3>5. ASSUME NEW x \in s, x # y PROVE F[s] = f[x] + F[s \ {x}]
      <4>1. F[s \ {y}] = f[x] + F[(s \ {y}) \ {x}]
        BY <3>1, <3>3, <3>5
      <4>2. F[s \ {x}] = f[y] + F[(s \ {x}) \ {y}]
        BY <3>1, <3>3, <3>5
      <4>3. (s \ {y}) \ {x} = (s \ {x}) \ {y}
        OBVIOUS
      <4>4. f[x] \in Nat /\ f[y] \in Nat /\ F[s \ {x}] \in Nat /\ F[s \ {y}] \in Nat
        BY <3>1, <3>3
      <4>5. (s \ {x}) \ {y} \in SUBSET T /\ Cardinality((s \ {x}) \ {y}) <= n
        BY <3>1, <3>2, <3>5, <1>4, <1>3
      <4>6. F[(s \ {x}) \ {y}] \in Nat
        BY <1>6, <4>5
      <4> QED
        BY <3>1, <4>1, <4>2, <4>3, <4>4, <4>6
    <3> QED
      BY <3>1, <3>4, <3>5
  <2> QED
    BY <2>1, <2>2
<1>7. \A n \in Nat : n \in Good
  <2> HIDE DEF Good
  <2> QED
    BY <1>5, <1>6, NatSets
<1>8. \A s \in SUBSET T : Parted(s)
  <2> HIDE DEF Parted
  <2> QED
    BY <1>3, <1>7
<1> QED
  BY <1>8 DEF F

\* One argument more adds its value.
LEMMA SumOneMore ==
  ASSUME NEW f, NEW g, NEW i \in DOMAIN g, DOMAIN f = DOMAIN g \ {i}, IsFiniteSet(DOMAIN g),
         \A x \in DOMAIN g : g[x] \in Nat, \A x \in DOMAIN f : f[x] = g[x]
  PROVE  /\ FoldFunction(+, 0, f) \in Nat
         /\ FoldFunction(+, 0, g) = FoldFunction(+, 0, f) + g[i]
<1> DEFINE T == DOMAIN f
           F == SumsOf(f)
           G == SumsOf(g)
           Least(s) == CHOOSE x \in s : TRUE
           Good == {n \in Nat : \A s \in SUBSET T : Cardinality(s) <= n => F[s] = G[s]}
<1>0. IsFiniteSet(T) /\ T \in SUBSET DOMAIN g
  BY FS_Subset
<1>1. F = SumBody(f, T, F) /\ G = SumBody(g, DOMAIN g, G)
  BY <1>0, PartialSumsExist
<1>2. /\ F[{}] = 0 /\ G[{}] = 0
      /\ \A s \in SUBSET T : s # {} => /\ F[s] = f[Least(s)] + F[s \ {Least(s)}]
                                       /\ G[s] = g[Least(s)] + G[s \ {Least(s)}]
  <2> HIDE DEF F, G
  <2> QED
    BY <1>0, <1>1 DEF SumBody
<1>3. \A s \in SUBSET T : IsFiniteSet(s) /\ Cardinality(s) \in Nat
  BY <1>0, FS_Subset, FS_CardinalityType
<1>4. \A s \in SUBSET T : s # {} =>
        Least(s) \in s /\ s \ {Least(s)} \in SUBSET T /\ Cardinality(s \ {Least(s)}) = Cardinality(s) - 1
  BY <1>3, FS_RemoveElement
<1> HIDE DEF F, G, Least
<1>5. 0 \in Good
  <2>1. \A s \in SUBSET T : Cardinality(s) <= 0 => s = {}
    BY <1>3, FS_EmptySet
  <2> QED
    BY <1>2, <2>1
<1>6. ASSUME NEW n \in Nat, n \in Good PROVE n + 1 \in Good
  <2> SUFFICES ASSUME NEW s \in SUBSET T, Cardinality(s) <= n + 1 PROVE F[s] = G[s]
    OBVIOUS
  <2>1. CASE s = {}
    BY <1>2, <2>1
  <2>2. CASE s # {}
    <3>1. s \ {Least(s)} \in SUBSET T /\ Cardinality(s \ {Least(s)}) <= n /\ Least(s) \in T
      BY <1>3, <1>4, <2>2
    <3>2. F[s \ {Least(s)}] = G[s \ {Least(s)}]
      BY <1>6, <3>1
    <3> QED
      BY <1>2, <2>2, <3>1, <3>2
  <2> QED
    BY <2>1, <2>2
<1>7. \A n \in Nat : n \in Good
  <2> HIDE DEF Good
  <2> QED
    BY <1>5, <1>6, NatSets
<1>8. F[T] = G[T]
  BY <1>3, <1>7
<1>9. F[T] \in Nat /\ G[DOMAIN g] = g[i] + G[DOMAIN g \ {i}]
  BY <1>0, SumsTakeAny DEF F, G
<1>10. FoldFunction(+, 0, f) = F[T] /\ FoldFunction(+, 0, g) = G[DOMAIN g]
  BY TotalIsSum, Zenon DEF F, G
<1>11. g[i] \in Nat /\ DOMAIN g \ {i} = T
  OBVIOUS
<1> HIDE DEF T
<1>12. F[T] \in Nat /\ G[DOMAIN g] = F[T] + g[i]
  BY <1>8, <1>9, <1>11
<1> QED
  BY <1>10, <1>12, Zenon

\* Where no value rises, the sum falls by what any one of them does.
LEMMA SumsFall ==
  ASSUME NEW f, NEW g, DOMAIN f = DOMAIN g, IsFiniteSet(DOMAIN f), NEW i \in DOMAIN f,
         \A x \in DOMAIN f : f[x] \in Nat /\ g[x] \in Nat /\ g[x] <= f[x]
  PROVE  /\ FoldFunction(+, 0, f) \in Nat /\ FoldFunction(+, 0, g) \in Nat
         /\ f[i] - g[i] <= FoldFunction(+, 0, f) - FoldFunction(+, 0, g)
<1> DEFINE T == DOMAIN f \ {i}
           ff == [x \in T |-> f[x]]
           gg == [x \in T |-> g[x]]
<1>1. DOMAIN ff = T /\ DOMAIN gg = T /\ IsFiniteSet(T)
  BY FS_Subset
<1>2. \A x \in T : ff[x] = f[x] /\ gg[x] = g[x]
  OBVIOUS
<1> HIDE DEF ff, gg, T
<1>3. /\ i \in DOMAIN f /\ DOMAIN ff = DOMAIN f \ {i} /\ IsFiniteSet(DOMAIN f)
      /\ \A x \in DOMAIN f : f[x] \in Nat
      /\ \A x \in DOMAIN ff : ff[x] = f[x]
  BY <1>1, <1>2 DEF T
<1>4. /\ i \in DOMAIN g /\ DOMAIN gg = DOMAIN g \ {i} /\ IsFiniteSet(DOMAIN g)
      /\ \A x \in DOMAIN g : g[x] \in Nat
      /\ \A x \in DOMAIN gg : gg[x] = g[x]
  BY <1>1, <1>2 DEF T
<1>5. /\ DOMAIN gg = DOMAIN ff /\ IsFiniteSet(DOMAIN gg)
      /\ \A x \in DOMAIN gg : gg[x] \in Nat /\ ff[x] \in Nat /\ gg[x] <= ff[x]
  BY <1>1, <1>2 DEF T
<1> DEFINE x == FoldFunction(+, 0, f)
           y == FoldFunction(+, 0, g)
           xx == FoldFunction(+, 0, ff)
           yy == FoldFunction(+, 0, gg)
<1>6. xx \in Nat /\ x = xx + f[i]
  BY <1>3, SumOneMore, Zenon
<1>7. yy \in Nat /\ y = yy + g[i]
  BY <1>4, SumOneMore, Zenon
<1>8. yy <= xx
  BY <1>5, SumsCompare, Zenon
<1> HIDE DEF x, y, xx, yy
<1>9. x \in Nat /\ y \in Nat /\ f[i] - g[i] <= x - y
  BY <1>3, <1>4, <1>6, <1>7, <1>8
<1> QED
  BY <1>9, Zenon DEF x, y

-----------------------------------------------------------------------------
(* Lists in an order *)

\* What comes before each position of a list of n, as a strict order of them all.
OrdersAll(before, n) ==
  /\ \A i \in 1..n : before[i] \in SUBSET (1..n) /\ i \notin before[i]
  /\ \A i, j \in 1..n : i = j \/ i \in before[j] \/ j \in before[i]
  /\ \A i, j \in 1..n : i \in before[j] => before[i] \in SUBSET before[j]

\* The place f[k] in s of the element k of a: all of them, the first ones first.
Standing(f, a, s, before) ==
  /\ f \in [1..Len(s) -> 1..Len(s)]
  /\ \A k \in 1..Len(s) : a[k] = s[f[k]]
  /\ \A k, l \in 1..Len(s) : k < l => f[k] \in before[f[l]]
  /\ \A i \in 1..Len(s) : \E k \in 1..Len(s) : f[k] = i

\* A list arranged in an order has the same elements, each once, and what comes before stands before.
LEMMA ArrangedInOrder ==
  ASSUME NEW S, NEW s \in Seq(S), NEW before, OrdersAll(before, Len(s))
  PROVE  /\ Arranged(s, before) \in Seq(S) /\ Len(Arranged(s, before)) = Len(s)
         /\ \E f : Standing(f, Arranged(s, before), s, before)
<1> DEFINE n == Len(s)
           P == 1..n
           c == [i \in P |-> Cardinality(before[i]) + 1]
           f == [k \in P |-> CHOOSE i \in P : Cardinality(before[i]) = k - 1]
<1>0. n \in Nat /\ DOMAIN s = P /\ IsFiniteSet(P) /\ Cardinality(P) = n
  BY LenProperties, FS_Interval
<1>1. \A i \in P : IsFiniteSet(before[i]) /\ Cardinality(before[i]) \in Nat
  BY <1>0, FS_Subset, FS_CardinalityType DEF OrdersAll
<1>2. ASSUME NEW i \in P, NEW j \in P, i \in before[j]
      PROVE  Cardinality(before[i]) < Cardinality(before[j])
  <2>1. before[i] \in SUBSET before[j] /\ before[i] # before[j]
    BY <1>2 DEF OrdersAll
  <2> QED
    BY <1>1, <2>1, FS_Subset
<1>3. \A i, j \in P : Cardinality(before[i]) = Cardinality(before[j]) => i = j
  BY <1>1, <1>2 DEF OrdersAll
<1>4. ASSUME NEW i \in P PROVE c[i] \in P
  <2>1. before[i] \in SUBSET (P \ {i})
    BY DEF OrdersAll
  <2>2. IsFiniteSet(P \ {i}) /\ Cardinality(P \ {i}) = n - 1
    BY <1>0, FS_RemoveElement
  <2>3. Cardinality(before[i]) <= n - 1
    BY <2>1, <2>2, FS_Subset
  <2> QED
    BY <1>0, <1>1, <2>3
<1>5. c \in Surjection(P, P)
  <2>1. c \in [P -> P]
    BY <1>4
  <2>2. \A i, j \in P : c[i] = c[j] => i = j
    BY <1>1, <1>3
  <2>3. c \in Injection(P, P)
    <3> HIDE DEF c, P
    <3> QED
      BY <2>1, <2>2 DEF Injection, IsInjective
  <2> HIDE DEF c, P
  <2> QED
    BY <1>0, <2>3, FS_Injection
<1>6. ASSUME NEW k \in P PROVE f[k] \in P /\ Cardinality(before[f[k]]) = k - 1
  <2>1. PICK i \in P : c[i] = k
    <3> HIDE DEF c, P
    <3> QED
      BY <1>5 DEF Surjection
  <2>2. Cardinality(before[i]) = k - 1
    BY <1>0, <1>1, <2>1
  <2> QED
    BY <2>2
<1>7. f \in [P -> P]
  BY <1>6
<1>8. Arranged(s, before) = [k \in P |-> s[f[k]]]
  BY <1>0 DEF Arranged
<1>9. ASSUME NEW k \in P, NEW l \in P, k < l PROVE f[k] \in before[f[l]]
  <2>1. ~(f[l] \in before[f[k]]) /\ f[k] # f[l]
    BY <1>0, <1>2, <1>6, <1>9
  <2> QED
    BY <1>6, <2>1 DEF OrdersAll
<1>10. ASSUME NEW i \in P PROVE \E k \in P : f[k] = i
  <2>1. c[i] \in P
    BY <1>4
  <2>2. f[c[i]] \in P /\ Cardinality(before[f[c[i]]]) = c[i] - 1
    <3> HIDE DEF c, f
    <3> QED
      BY <1>6, <2>1
  <2>3. Cardinality(before[f[c[i]]]) = Cardinality(before[i])
    BY <1>1, <2>2
  <2> HIDE DEF c, f
  <2> QED
    BY <1>3, <2>1, <2>2, <2>3
<1>11. Arranged(s, before) \in [P -> S]
  BY <1>6, <1>8, ElementOfSeq
<1>12. Arranged(s, before) \in Seq(S) /\ Len(Arranged(s, before)) = n
  BY <1>0, <1>11
<1>13. \A k \in P : Arranged(s, before)[k] = s[f[k]]
  BY <1>8
<1> HIDE DEF f
<1>14. Standing(f, Arranged(s, before), s, before)
  BY <1>7, <1>9, <1>10, <1>13 DEF Standing
<1> QED
  BY <1>12, <1>14

\* A finite set as a list has its elements and no other, each once.
LEMMA SetAsList ==
  ASSUME NEW S, IsFiniteSet(S)
  PROVE  /\ SetToSeq(S) \in Seq(S)
         /\ {SetToSeq(S)[j] : j \in 1 .. Len(SetToSeq(S))} = S
         /\ \A i, j \in 1 .. Len(SetToSeq(S)) : SetToSeq(S)[i] = SetToSeq(S)[j] => i = j
<1> DEFINE n == Cardinality(S)
           f == SetToSeq(S)
<1>1. n \in Nat /\ ExistsBijection(1..n, S)
  BY FS_CardinalityType
<1>2. \E g \in [1..n -> S] : IsInjective(g)
  BY <1>1 DEF ExistsBijection, Bijection, Injection
<1>3. f \in [1..n -> S] /\ IsInjective(f)
  BY <1>2 DEF SetToSeq
<1>4. Cardinality(1..n) = n
  <2>1. 1 \in Int /\ n \in Int
    BY <1>1
  <2>2. Cardinality(1..n) = IF 1 > n THEN 0 ELSE n - 1 + 1
    <3> HIDE DEF n
    <3> QED
      BY <2>1, FS_Interval
  <2> QED
    BY <1>1, <2>2
<1>5. f \in Surjection(1..n, S)
  <2> DEFINE I == 1..n
  <2>1. f \in Injection(I, S) /\ Cardinality(I) = Cardinality(S)
    BY <1>3, <1>4 DEF Injection
  <2> HIDE DEF I, f
  <2>2. f \in Surjection(I, S)
    BY <2>1, FS_Injection
  <2> QED
    BY <2>2 DEF I
<1>6. \A i, j \in 1..n : f[i] = f[j] => i = j
  BY <1>3 DEF IsInjective
<1> HIDE DEF f
<1>7. \A s \in S : \E j \in 1..n : f[j] = s
  BY <1>5 DEF Surjection
<1>8. f \in Seq(S) /\ Len(f) = n
  BY <1>1, <1>3, LenProperties
<1> QED
  BY <1>3, <1>6, <1>7, <1>8 DEF f

=============================================================================
