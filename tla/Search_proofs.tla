--------------------------- MODULE Search_proofs ---------------------------
(***************************************************************************)
(* Paging in every mode, for every corpus, page size, filter and any       *)
(* number of commits: with one retriever the pages of a session tile the   *)
(* answer and a null next_cursor means that nothing is left; with both,    *)
(* the fused order respects what they agree on.                            *)
(***************************************************************************)
EXTENDS Search, Lists_proofs

-----------------------------------------------------------------------------
(* Facts about cutting sequences *)

\* Take returns the first hits of a list and never more than there are.
LEMMA TakeIsPrefix ==
  ASSUME NEW S, NEW s \in Seq(S), NEW n \in Nat
  PROVE  /\ Take(s, n) \in Seq(S)
         /\ Len(Take(s, n)) = Smaller(n, Len(s))
         /\ \A i \in 1..Smaller(n, Len(s)) : Take(s, n)[i] = s[i]
  BY DEF Take, Smaller

\* A window of a list.
LEMMA Window ==
  ASSUME NEW S, NEW s \in Seq(S), NEW o \in Nat, NEW e \in o..Len(s)
  PROVE  /\ SubSeq(s, o + 1, e) \in Seq(S)
         /\ Len(SubSeq(s, o + 1, e)) = e - o
         /\ \A i \in 1..(e - o) : SubSeq(s, o + 1, e)[i] = s[o + i]
  OBVIOUS

\* The page cut out of the first o + n hits is the page cut out of all hits.
LEMMA PageOfTake ==
  ASSUME NEW S, NEW s \in Seq(S), NEW o \in 0..Len(s), NEW n \in Nat
  PROVE  SubSeq(Take(s, o + n), o + 1, Smaller(o + n, Len(Take(s, o + n))))
           = SubSeq(s, o + 1, Smaller(o + n, Len(s)))
<1> DEFINE t == Take(s, o + n)
           e == Smaller(o + n, Len(s))
<1>1. t \in Seq(S) /\ Len(t) = e /\ \A i \in 1..e : t[i] = s[i]
  <2>1. o + n \in Nat
    OBVIOUS
  <2> QED
    BY <2>1, TakeIsPrefix
<1>2. e \in o..Len(s) /\ e <= o + n
  BY DEF Smaller
<1>3. Smaller(o + n, Len(t)) = e
  BY <1>1, <1>2 DEF Smaller
<1> HIDE DEF t, e
<1>4. /\ SubSeq(t, o + 1, e) \in Seq(S)
      /\ Len(SubSeq(t, o + 1, e)) = e - o
      /\ \A i \in 1..(e - o) : SubSeq(t, o + 1, e)[i] = t[o + i]
  BY <1>1, <1>2, Window
<1>5. /\ SubSeq(s, o + 1, e) \in Seq(S)
      /\ Len(SubSeq(s, o + 1, e)) = e - o
      /\ \A i \in 1..(e - o) : SubSeq(s, o + 1, e)[i] = s[o + i]
  BY <1>2, Window
<1>6. \A i \in 1..(e - o) : t[o + i] = s[o + i]
  BY <1>1, <1>2
<1>7. SubSeq(t, o + 1, e) = SubSeq(s, o + 1, e)
  BY <1>2, <1>4, <1>5, <1>6, SeqEqual
<1> QED
  BY <1>3, <1>7 DEF t, e

\* What was served, and the part of the next page the budget keeps.
LEMMA PagesJoin ==
  ASSUME NEW S, NEW s \in Seq(S), NEW o \in Nat, NEW e \in o..Len(s),
         NEW kept \in 0..(e - o)
  PROVE  SubSeq(s, 1, o) \o SubSeq(SubSeq(s, o + 1, e), 1, kept)
           = SubSeq(s, 1, o + kept)
<1> DEFINE a == SubSeq(s, 1, o)
           p == SubSeq(s, o + 1, e)
           b == SubSeq(p, 1, kept)
           t == SubSeq(s, 1, o + kept)
<1>0. kept \in Nat /\ e \in Nat /\ Len(s) \in Nat /\ o + kept <= e /\ e <= Len(s)
  BY LenProperties
<1>1. a \in Seq(S) /\ Len(a) = o /\ \A i \in 1..o : a[i] = s[i]
  OBVIOUS
<1>2. p \in Seq(S) /\ Len(p) = e - o /\ \A i \in 1..(e - o) : p[i] = s[o + i]
  BY Window
<1>3. b \in Seq(S) /\ Len(b) = kept /\ \A i \in 1..kept : b[i] = p[i]
  BY <1>2
<1>4. /\ t \in Seq(S) /\ Len(t) = o + kept
      /\ \A i \in 1..(o + kept) : t[i] = s[i]
  OBVIOUS
<1> HIDE DEF a, p, b, t
<1>5. /\ a \o b \in Seq(S) /\ Len(a \o b) = o + kept
      /\ \A i \in 1..(o + kept) : (a \o b)[i] = IF i <= o THEN a[i] ELSE b[i - o]
  BY <1>1, <1>3, ConcatProperties
<1>6. ASSUME NEW i \in 1..(o + kept) PROVE (a \o b)[i] = t[i]
  <2>0. i \in Nat /\ 1 <= i /\ i <= o + kept
    BY <1>0
  <2>1. CASE i <= o
    <3>1. i \in 1..o
      BY <2>0, <2>1
    <3> QED
      BY <3>1, <2>1, <1>1, <1>4, <1>5
  <2>2. CASE ~(i <= o)
    <3>1. i - o \in 1..kept /\ i - o \in 1..(e - o)
      BY <1>0, <2>0, <2>2
    <3>2. (a \o b)[i] = p[i - o]
      BY <2>2, <3>1, <1>3, <1>5
    <3>3. p[i - o] = s[o + (i - o)] /\ o + (i - o) = i
      BY <2>0, <3>1, <1>2
    <3> QED
      BY <3>2, <3>3, <1>4
  <2> QED
    BY <2>1, <2>2
<1>7. a \o b = t
  BY <1>4, <1>5, <1>6, SeqEqual
<1> QED
  BY <1>7 DEF a, b, p, t

\* An order of a finite set is a list over any set that contains it.
LEMMA OrdersAreLists ==
  ASSUME NEW S, IsFiniteSet(S), NEW T, S \subseteq T, NEW s \in Orders(S)
  PROVE  s \in Seq(T) /\ Len(s) = Cardinality(S)
<1>1. Cardinality(S) \in Nat
  BY FS_CardinalityType
<1>2. s \in [1..Cardinality(S) -> T]
  BY DEF Orders
<1> QED
  BY <1>1, <1>2

-----------------------------------------------------------------------------
(* Facts about filtering *)

Distinct(s) == \A i, j \in 1..Len(s) : s[i] = s[j] => i = j

\* What is kept of a list.
LEMMA KeptIsList ==
  ASSUME NEW S, NEW s \in Seq(S), NEW ok
  PROVE  /\ OnlyIn(s, ok) \in Seq(S)
         /\ \A k1 \in 1..Len(OnlyIn(s, ok)) : OnlyIn(s, ok)[k1] \in ok
         /\ Distinct(s) => Distinct(OnlyIn(s, ok))
<1> DEFINE on == {i \in 1..Len(s) : s[i] \in ok}
<1>1. on \in SUBSET (1..Len(s)) /\ OnlyIn(s, ok) = Picked(s, on) /\ \A i \in on : s[i] \in ok
  BY DEF OnlyIn
<1> HIDE DEF on
<1>2. /\ Picked(s, on) \in Seq(S)
      /\ Len(Picked(s, on)) = Cardinality(on)
      /\ \A k1 \in 1..Cardinality(on) : \E i \in on : Picked(s, on)[k1] = s[i]
  BY <1>1, PickedIsList
<1>3. Distinct(s) =>
        \A k1, l \in 1..Cardinality(on) : Picked(s, on)[k1] = Picked(s, on)[l] => k1 = l
  BY <1>1, PickedDistinct DEF Distinct
<1> QED
  BY <1>1, <1>2, <1>3 DEF Distinct

\* Filtering the beginning of a list gives the beginning of the filtered list.
LEMMA KeptPrefix ==
  ASSUME NEW S, NEW s \in Seq(S), NEW ok, NEW m \in Nat
  PROVE  /\ Len(OnlyIn(Take(s, m), ok)) <= Len(OnlyIn(s, ok))
         /\ OnlyIn(Take(s, m), ok) = Take(OnlyIn(s, ok), Len(OnlyIn(Take(s, m), ok)))
<1> DEFINE n   == Len(s)
           e   == Smaller(m, n)
           t   == Take(s, m)
           on  == {i \in 1..n : s[i] \in ok}
           low == {i \in 1..Len(t) : t[i] \in ok}
<1>1. n \in Nat /\ e \in 0..n
  BY LenProperties DEF Smaller
<1>2. t \in Seq(S) /\ Len(t) = e /\ \A i \in 1..e : t[i] = s[i]
  BY TakeIsPrefix
<1>3. low = UpTo(on, e) /\ on \in SUBSET (1..n) /\ low \in SUBSET (1..Len(t))
  <2> HIDE DEF e, t
  <2> QED
    BY <1>1, <1>2 DEF UpTo
<1>4. \A i \in UpTo(on, e) : t[i] = s[i]
  BY <1>2, <1>3
<1>5. OnlyIn(t, ok) = Picked(t, low) /\ OnlyIn(s, ok) = Picked(s, on)
  BY DEF OnlyIn
<1> HIDE DEF n, e, t, on, low
<1>6. /\ Cardinality(low) \in Nat /\ Cardinality(low) <= Cardinality(on)
      /\ \A k1 \in 1..Cardinality(low) : Picked(t, low)[k1] = Picked(s, on)[k1]
  <2>1. /\ Cardinality(UpTo(on, e)) \in Nat /\ Cardinality(UpTo(on, e)) <= Cardinality(on)
        /\ BeginsWith(Picked(s, on), Picked(t, UpTo(on, e)), Cardinality(UpTo(on, e)))
    BY <1>1, <1>3, <1>4, PickedPrefix, Zenon
  <2> QED
    BY <1>3, <2>1 DEF BeginsWith
<1>7. /\ Picked(t, low) \in Seq(S) /\ Len(Picked(t, low)) = Cardinality(low)
      /\ Picked(s, on) \in Seq(S) /\ Len(Picked(s, on)) = Cardinality(on)
  BY <1>2, <1>3, PickedIsList DEF n
<1> DEFINE p == Picked(t, low)
           w == Picked(s, on)
           c == Cardinality(low)
<1>8. Take(w, c) \in Seq(S) /\ Len(Take(w, c)) = c /\ \A i \in 1..c : Take(w, c)[i] = w[i]
  <2>1. Smaller(c, Len(w)) = c
    BY <1>6, <1>7 DEF Smaller
  <2> QED
    BY <1>6, <1>7, <2>1, TakeIsPrefix
<1>9. p = Take(w, c)
  <2> HIDE DEF p, w, c
  <2> QED
    BY <1>6, <1>7, <1>8, SeqEqual DEF p, w, c
<1> QED
  BY <1>5, <1>6, <1>7, <1>9 DEF t

\* Of the first m elements of a list as many are kept as the list has none to drop.
LEMMA KeptCount ==
  ASSUME NEW S, IsFiniteSet(S), NEW s \in Seq(S), Distinct(s), NEW ok, NEW m \in Nat
  PROVE  /\ Cardinality(Elements(s) \ ok) \in Nat
         /\ Smaller(m, Len(s)) <= Len(OnlyIn(Take(s, m), ok)) + Cardinality(Elements(s) \ ok)
<1> DEFINE n    == Len(s)
           e    == Smaller(m, n)
           t    == Take(s, m)
           low  == {i \in 1..Len(t) : t[i] \in ok}
           bad  == {i \in 1..e : s[i] \notin ok}
           lost == Elements(s) \ ok
           f    == [i \in bad |-> s[i]]
<1>1. n \in Nat /\ e \in Nat /\ e <= n /\ DOMAIN s = 1..n
  BY LenProperties DEF Smaller
<1>2. t \in Seq(S) /\ Len(t) = e /\ \A i \in 1..e : t[i] = s[i]
  BY TakeIsPrefix
<1>3. low = (1..e) \ bad /\ bad \in SUBSET (1..e)
  <2> HIDE DEF e, t
  <2> QED
    BY <1>2
<1>4. IsFiniteSet(1..e) /\ Cardinality(1..e) = e
  BY <1>1, FS_Interval
<1>5. Elements(s) \in SUBSET S /\ lost \in SUBSET S
  BY <1>1, ElementOfSeq DEF Elements
<1>6. IsFiniteSet(lost) /\ Cardinality(lost) \in Nat
  BY <1>5, FS_Subset, FS_CardinalityType
<1>7. \A i \in bad : i \in 1..n /\ s[i] \in lost
  <2> HIDE DEF e
  <2> QED
    BY <1>1 DEF Elements
<1>8. f \in [bad -> lost] /\ \A i, j \in bad : f[i] = f[j] => i = j
  <2> HIDE DEF bad, lost
  <2> QED
    BY <1>7 DEF Distinct
<1> HIDE DEF n, e, t, low, bad, lost, f
<1>9. f \in Injection(bad, lost)
  BY <1>8 DEF Injection, IsInjective
<1>10. IsFiniteSet(bad) /\ Cardinality(bad) <= Cardinality(lost)
  BY <1>6, <1>9, FS_Injection
<1>11. Cardinality(low) = e - Cardinality(bad) /\ Cardinality(bad) \in Nat
  <2>1. Cardinality((1..e) \ bad) = Cardinality(1..e) - Cardinality((1..e) \cap bad)
    BY <1>4, FS_Difference
  <2>2. (1..e) \cap bad = bad
    BY <1>3
  <2> QED
    BY <1>3, <1>4, <1>10, <2>1, <2>2, FS_CardinalityType
<1>12. Len(OnlyIn(t, ok)) = Cardinality(low)
  <2>1. OnlyIn(t, ok) = Picked(t, low) /\ low \in SUBSET (1..Len(t))
    BY DEF OnlyIn, low
  <2> QED
    BY <1>2, <2>1, PickedIsList
<1>13. e <= Cardinality(low) + Cardinality(lost) /\ Cardinality(low) \in Int
  BY <1>1, <1>6, <1>10, <1>11
<1> QED
  BY <1>6, <1>12, <1>13 DEF e, t, n, lost

\* A list that is in the filter already goes through it as it is.
LEMMA KeptAll ==
  ASSUME NEW S, NEW s \in Seq(S), NEW ok, \A i \in 1..Len(s) : s[i] \in ok
  PROVE  OnlyIn(s, ok) = s
<1>1. {i \in 1..Len(s) : s[i] \in ok} = 1..Len(s)
  OBVIOUS
<1> QED
  BY <1>1, PickedAll DEF OnlyIn

\* The beginning of a beginning.
LEMMA TakeOfTake ==
  ASSUME NEW S, NEW s \in Seq(S), NEW m \in Nat, NEW n \in Nat
  PROVE  Take(Take(s, m), n) = Take(s, Smaller(m, n))
<1> DEFINE e == Smaller(m, n)
<1>1. e \in Nat /\ Len(s) \in Nat
  BY LenProperties DEF Smaller
<1>2. /\ Take(s, m) \in Seq(S) /\ Len(Take(s, m)) = Smaller(m, Len(s))
      /\ \A i \in 1..Smaller(m, Len(s)) : Take(s, m)[i] = s[i]
  BY TakeIsPrefix
<1>3. /\ Take(s, e) \in Seq(S) /\ Len(Take(s, e)) = Smaller(e, Len(s))
      /\ \A i \in 1..Smaller(e, Len(s)) : Take(s, e)[i] = s[i]
  BY <1>1, TakeIsPrefix
<1> DEFINE t == Take(s, m)
<1>4. /\ Take(t, n) \in Seq(S) /\ Len(Take(t, n)) = Smaller(n, Len(t))
      /\ \A i \in 1..Smaller(n, Len(t)) : Take(t, n)[i] = t[i]
  BY <1>2, TakeIsPrefix
<1>5. Smaller(n, Smaller(m, Len(s))) = Smaller(e, Len(s))
  BY <1>1 DEF Smaller
<1>6. \A i \in 1..Smaller(e, Len(s)) : i \in 1..Smaller(m, Len(s))
  BY <1>1 DEF Smaller
<1> HIDE DEF e, t
<1> QED
  BY <1>2, <1>3, <1>4, <1>5, <1>6, SeqEqual DEF t, e

-----------------------------------------------------------------------------
(* Facts about the fused order *)

\* A strict total order of a finite set.
TotallyOrders(R, S) ==
  /\ \A c \in S : <<c, c>> \notin R
  /\ \A c, d \in S : c # d => <<c, d>> \in R \/ <<d, c>> \in R
  /\ \A c, d, e \in S : <<c, d>> \in R /\ <<d, e>> \in R => <<c, e>> \in R

SortedBy(R, s) == \A i, j \in DOMAIN s : i < j => <<s[i], s[j]>> \in R

\* The place of an element: one more than the elements ahead of it.
Place(R, S, c) == Cardinality({d \in S : <<d, c>> \in R} \cup {c})

\* Sorting is possible: everything takes its place.
LEMMA SortedExists ==
  ASSUME NEW S, IsFiniteSet(S), NEW R, TotallyOrders(R, S)
  PROVE  \E s \in Orders(S) : SortedBy(R, s)
<1> DEFINE n  == Cardinality(S)
           ks == 1..n
           f  == [c \in S |-> Place(R, S, c)]
           upto(c) == {d \in S : <<d, c>> \in R} \cup {c}
<1>1. n \in Nat /\ IsFiniteSet(ks) /\ Cardinality(ks) = n
  <2>1. n \in Nat
    BY FS_CardinalityType
  <2> QED
    BY <2>1, FS_Interval
<1>2. ASSUME NEW c \in S
      PROVE  f[c] \in ks /\ IsFiniteSet(upto(c)) /\ f[c] = Cardinality(upto(c))
  <2> DEFINE u == upto(c)
  <2>1. u \in SUBSET S /\ u # {} /\ f[c] = Cardinality(u)
    BY DEF Place
  <2> HIDE DEF u, f
  <2>2. IsFiniteSet(u) /\ Cardinality(u) <= n /\ Cardinality(u) \in Nat
    BY <2>1, FS_Subset, FS_CardinalityType
  <2>3. Cardinality(u) # 0
    BY <2>1, <2>2, FS_EmptySet
  <2> QED
    BY <1>1, <2>1, <2>2, <2>3 DEF u
<1>2a. \A c \in S : f[c] \in Nat
  <2>1. \A c \in S : f[c] \in 1..n
    BY <1>2
  <2> HIDE DEF f, n
  <2> QED
    BY <1>1, <2>1
<1>3. ASSUME NEW c \in S, NEW d \in S, <<c, d>> \in R
      PROVE  f[c] < f[d]
  <2> DEFINE u == upto(c)
             v == upto(d)
  <2>1. u \in SUBSET v /\ d \in v /\ d \notin u
    <3>1. d # c /\ <<d, c>> \notin R
      BY <1>3 DEF TotallyOrders
    <3>2. \A e \in S : <<e, c>> \in R => <<e, d>> \in R
      BY <1>3 DEF TotallyOrders
    <3> QED
      BY <1>3, <3>1, <3>2
  <2>2. IsFiniteSet(v) /\ f[c] = Cardinality(u) /\ f[d] = Cardinality(v)
    BY <1>2
  <2> HIDE DEF u, v, f
  <2>3. Cardinality(u) <= Cardinality(v) /\ Cardinality(u) # Cardinality(v)
    BY <2>1, <2>2, FS_Subset
  <2>4. f[c] \in Nat /\ f[d] \in Nat
    BY <1>1, <1>2a
  <2> QED
    BY <2>2, <2>3, <2>4
<1>4. \A c, d \in S : f[c] = f[d] => c = d
  <2> HIDE DEF f
  <2>1. \A c, d \in S : c # d => f[c] < f[d] \/ f[d] < f[c]
    BY <1>3, Zenon DEF TotallyOrders
  <2> QED
    BY <1>2a, <2>1
<1>5. f \in Injection(S, ks)
  <2>1. f = [c \in S |-> f[c]]
    OBVIOUS
  <2> HIDE DEF f, ks
  <2> QED
    BY <1>2, <1>4, <2>1 DEF Injection, IsInjective
<1>6. f \in Surjection(S, ks)
  <2> HIDE DEF f, ks, n
  <2> QED
    BY <1>1, <1>5, FS_Injection DEF n
<1>7. \A k1 \in ks : \E c \in S : f[c] = k1
  <2> HIDE DEF f, ks
  <2> QED
    BY <1>6 DEF Surjection
<1> DEFINE s == [k1 \in ks |-> CHOOSE c \in S : f[c] = k1]
<1>8. \A k1 \in ks : s[k1] \in S /\ f[s[k1]] = k1
  <2> HIDE DEF f, ks
  <2> QED
    BY <1>7
<1>9. s \in [ks -> S] /\ DOMAIN s = ks
  BY <1>8
<1> HIDE DEF s, f
<1>10. \A c \in S : s[f[c]] = c /\ f[c] \in ks
  BY <1>2, <1>4, <1>8
<1>11. Elements(s) = S
  BY <1>8, <1>9, <1>10 DEF Elements
<1>12. s \in Orders(S)
  BY <1>9, <1>11 DEF Orders
<1>13. SortedBy(R, s)
  <2> SUFFICES ASSUME NEW i \in ks, NEW j \in ks, i < j PROVE <<s[i], s[j]>> \in R
    BY <1>9 DEF SortedBy
  <2>1. s[i] \in S /\ s[j] \in S /\ f[s[i]] = i /\ f[s[j]] = j /\ i # j
    BY <1>1, <1>8
  <2>2. <<s[j], s[i]>> \in R => j < i
    BY <1>3, <2>1
  <2> QED
    BY <1>1, <2>1, <2>2 DEF TotallyOrders
<1> QED
  BY <1>12, <1>13

\* Multiplication by a number keeps an order, by a positive one also reflects it.
LEMMA Times ==
  ASSUME NEW x \in Nat, NEW y \in Nat, NEW z \in Nat
  PROVE  /\ (x * z) \in Nat
         /\ x <= y => (x * z) <= (y * z)
         /\ z > 0 /\ x < y => (x * z) < (y * z)
         /\ z > 0 /\ (x * z) <= (y * z) => x <= y
<1>1. (x * z) \in Nat /\ (y * z) \in Nat
  OBVIOUS
<1>2. x <= y => (x * z) <= (y * z)
  OBVIOUS
<1>3. z > 0 /\ x < y => (x * z) < (y * z)
  OBVIOUS
<1>4. z > 0 /\ (x * z) <= (y * z) => x <= y
  BY <1>1, <1>3
<1> QED
  BY <1>1, <1>2, <1>3, <1>4

\* Fractions, compared without dividing, are in one order.
LEMMA FractionsAreOrdered ==
  ASSUME NEW a \in Nat, NEW b \in Nat, NEW c \in Nat, NEW d \in Nat, NEW e \in Nat,
         NEW f \in Nat, b > 0, d > 0, f > 0,
         (a * d) >= (c * b), (c * f) >= (e * d)
  PROVE  /\ (a * f) >= (e * b)
         /\ (a * d) > (c * b) \/ (c * f) > (e * d) => (a * f) > (e * b)
<1>1. /\ (a * d) \in Nat /\ (c * b) \in Nat /\ (c * f) \in Nat /\ (e * d) \in Nat
      /\ (a * f) \in Nat /\ (e * b) \in Nat
  OBVIOUS
<1>2. ((a * d) * f) >= ((c * b) * f) /\ ((c * f) * b) >= ((e * d) * b)
  BY <1>1, Times
<1>3. /\ ((a * d) * f) = ((a * f) * d)
      /\ ((c * b) * f) = ((c * f) * b)
      /\ ((e * d) * b) = ((e * b) * d)
  OBVIOUS
<1>4. ((a * f) * d) \in Nat /\ ((c * f) * b) \in Nat /\ ((e * b) * d) \in Nat
  BY <1>1
<1>5. ((a * f) * d) >= ((e * b) * d)
  BY <1>2, <1>3, <1>4
<1>6. (a * f) >= (e * b)
  BY <1>1, <1>5, Times
<1>7. ASSUME (a * d) > (c * b) \/ (c * f) > (e * d) PROVE (a * f) > (e * b)
  <2>1. ((a * d) * f) > ((c * b) * f) \/ ((c * f) * b) > ((e * d) * b)
    BY <1>1, <1>7, Times
  <2>2. ((a * f) * d) > ((e * b) * d)
    BY <1>2, <1>3, <1>4, <2>1
  <2>3. (a * f) # (e * b)
    BY <1>1, <1>4, <2>2
  <2> QED
    BY <1>1, <1>6, <2>3
<1> QED
  BY <1>6, <1>7

Either == Elements(lex) \cup Elements(vec)
Sorting == {p \in Either \X Either : Ahead(p[1], p[2])}

\* A rank is a position, and zero off the list.
LEMMA RankIsPosition ==
  ASSUME NEW S, NEW s \in Seq(S), NEW c
  PROVE  /\ c \in Elements(s) => RankIn(s, c) \in 1..Len(s) /\ s[RankIn(s, c)] = c
         /\ c \notin Elements(s) => RankIn(s, c) = 0
         /\ RankIn(s, c) \in Nat
<1>1. DOMAIN s = 1..Len(s) /\ Len(s) \in Nat
  BY LenProperties
<1>2. c \in Elements(s) <=> \E i \in DOMAIN s : s[i] = c
  BY DEF Elements
<1>3. CASE c \in Elements(s)
  <2>1. RankIn(s, c) \in 1..Len(s) /\ s[RankIn(s, c)] = c
    BY <1>1, <1>2, <1>3 DEF RankIn
  <2> QED
    BY <1>1, <1>3, <2>1
<1>4. CASE c \notin Elements(s)
  BY <1>2, <1>4 DEF RankIn
<1> QED
  BY <1>3, <1>4

\* The score of a chunk that some list holds is a positive fraction.
LEMMA ScoreIsFraction ==
  ASSUME NEW l \in Nat, NEW v \in Nat, l # 0 \/ v # 0
  PROVE  /\ Score(l, v)[1] \in Nat /\ Score(l, v)[2] \in Nat
         /\ Score(l, v)[1] > 0 /\ Score(l, v)[2] > 0
<1>1. RrfK \in Nat /\ RrfK > 0
  BY SearchAssumption
<1>2. ((RrfK + l) * (RrfK + v)) \in Nat /\ ((RrfK + l) * (RrfK + v)) > 0
  <2> DEFINE x == RrfK + l
             y == RrfK + v
  <2>1. x \in Nat /\ y \in Nat /\ x > 0 /\ y > 0
    BY <1>1
  <2> HIDE DEF x, y
  <2>2. (x * y) \in Nat /\ (x * y) > 0
    BY <2>1
  <2> QED
    BY <2>2 DEF x, y
<1>3. CASE v = 0
  BY <1>1, <1>3 DEF Score
<1>4. CASE v # 0 /\ l = 0
  BY <1>1, <1>4 DEF Score
<1>5. CASE v # 0 /\ l # 0
  <2>1. 2 * RrfK + l + v \in Nat /\ 2 * RrfK + l + v > 0
    BY <1>1
  <2> QED
    BY <1>2, <1>5, <2>1 DEF Score
<1> QED
  BY <1>3, <1>4, <1>5

Num(c) == Score(RankIn(lex, c), RankIn(vec, c))[1]
Den(c) == Score(RankIn(lex, c), RankIn(vec, c))[2]

Above(c, d) == (Num(c) * Den(d)) > (Num(d) * Den(c))
Level(c, d) == (Num(c) * Den(d)) = (Num(d) * Den(c))

\* The sort key in those terms.
LEMMA AheadMeans ==
  ASSUME NEW c, NEW d
  PROVE  Ahead(c, d) <=>
           \/ Above(c, d)
           \/ Level(c, d) /\ RankIn(lex, c) # 0
                /\ (RankIn(lex, d) = 0 \/ RankIn(lex, c) < RankIn(lex, d))
           \/ Level(c, d) /\ RankIn(lex, c) = RankIn(lex, d) /\ c < d
  BY DEF Ahead, Above, Level, Num, Den

\* The sort key is a strict total order of the chunks either list holds.
LEMMA AheadIsOrder ==
  ASSUME lex \in Seq(Chunks), vec \in Seq(Chunks)
  PROVE  IsFiniteSet(Either) /\ Either \subseteq Chunks /\ TotallyOrders(Sorting, Either)
<1>1. Either \subseteq Chunks
  BY ElementOfSeq, LenProperties DEF Either, Elements
<1>2. IsFiniteSet(Either) /\ Either \subseteq Nat
  BY <1>1, SearchAssumption, FS_Subset
<1>3. ASSUME NEW c \in Either
      PROVE  /\ RankIn(lex, c) \in Nat /\ RankIn(vec, c) \in Nat
             /\ Num(c) \in Nat /\ Den(c) \in Nat /\ Num(c) > 0 /\ Den(c) > 0
  <2>1. RankIn(lex, c) \in Nat /\ RankIn(vec, c) \in Nat
    BY RankIsPosition
  <2>2. RankIn(lex, c) # 0 \/ RankIn(vec, c) # 0
    <3>1. c \in Elements(lex) => RankIn(lex, c) \in 1..Len(lex)
      BY RankIsPosition
    <3>2. c \in Elements(vec) => RankIn(vec, c) \in 1..Len(vec)
      BY RankIsPosition
    <3> QED
      BY <3>1, <3>2 DEF Either
  <2> QED
    BY <2>1, <2>2, ScoreIsFraction DEF Num, Den
<1>4. \A c, d \in Either : (Num(c) * Den(d)) \in Nat
  BY <1>3
<1>5. ASSUME NEW c \in Either PROVE ~Ahead(c, c)
  <2>1. c \in Nat /\ (Num(c) * Den(c)) \in Nat
    BY <1>2, <1>4
  <2> QED
    BY <1>3, <2>1, AheadMeans DEF Above, Level
<1>6. ASSUME NEW c \in Either, NEW d \in Either, c # d
      PROVE  Ahead(c, d) \/ Ahead(d, c)
  <2>1. /\ c \in Nat /\ d \in Nat /\ (Num(c) * Den(d)) \in Nat /\ (Num(d) * Den(c)) \in Nat
        /\ RankIn(lex, c) \in Nat /\ RankIn(lex, d) \in Nat
    BY <1>2, <1>3, <1>4
  <2>2. Above(c, d) \/ Above(d, c) \/ (Level(c, d) /\ Level(d, c))
    BY <2>1 DEF Above, Level
  <2> QED
    BY <1>6, <2>1, <2>2, AheadMeans
<1>7. ASSUME NEW c \in Either, NEW d \in Either, NEW e \in Either, Ahead(c, d), Ahead(d, e)
      PROVE  Ahead(c, e)
  <2>1. /\ c \in Nat /\ d \in Nat /\ e \in Nat
        /\ RankIn(lex, c) \in Nat /\ RankIn(lex, d) \in Nat /\ RankIn(lex, e) \in Nat
    BY <1>2, <1>3
  <2>2. /\ (Num(c) * Den(d)) \in Nat /\ (Num(d) * Den(c)) \in Nat
        /\ (Num(d) * Den(e)) \in Nat /\ (Num(e) * Den(d)) \in Nat
        /\ (Num(c) * Den(e)) \in Nat /\ (Num(e) * Den(c)) \in Nat
    BY <1>4
  <2>3. /\ (Num(c) * Den(d)) >= (Num(d) * Den(c))
        /\ (Num(d) * Den(e)) >= (Num(e) * Den(d))
    BY <1>7, <2>2, AheadMeans DEF Above, Level
  <2>4. /\ (Num(c) * Den(e)) >= (Num(e) * Den(c))
        /\ (Num(c) * Den(d)) > (Num(d) * Den(c)) \/ (Num(d) * Den(e)) > (Num(e) * Den(d))
             => (Num(c) * Den(e)) > (Num(e) * Den(c))
    BY <1>3, <2>3, FractionsAreOrdered
  <2>5. /\ Above(c, e) \/ Level(c, e)
        /\ Above(c, d) \/ Above(d, e) => Above(c, e)
    BY <2>2, <2>4 DEF Above, Level
  <2> QED
    BY <1>7, <2>1, <2>5, AheadMeans
<1>8. \A c, d \in Either : <<c, d>> \in Sorting <=> Ahead(c, d)
  BY DEF Sorting
<1>9. TotallyOrders(Sorting, Either)
  BY <1>5, <1>6, <1>7, <1>8, Zenon DEF TotallyOrders
<1> QED
  BY <1>1, <1>2, <1>9

InOrder(s) == \A i, j \in DOMAIN s : i < j => Ahead(s[i], s[j])

\* What fuse_with_inputs returns: the beginning of the sorted union.
LEMMA FusedIsSorted ==
  ASSUME lex \in Seq(Chunks), vec \in Seq(Chunks), NEW n \in Nat
  PROVE  /\ Fused(n) \in Seq(Chunks)
         /\ InOrder(Fused(n))
         /\ \A i \in DOMAIN Fused(n) : Fused(n)[i] \in Either
<1> DEFINE s == CHOOSE s \in Orders(Either) : \A i, j \in DOMAIN s : i < j => Ahead(s[i], s[j])
<1>1. IsFiniteSet(Either) /\ Either \subseteq Chunks /\ TotallyOrders(Sorting, Either)
  BY AheadIsOrder
<1>2. PICK t \in Orders(Either) : SortedBy(Sorting, t)
  BY <1>1, SortedExists
<1>3. \A i, j \in DOMAIN t : i < j => Ahead(t[i], t[j])
  BY <1>2 DEF SortedBy, Sorting
<1>4. s \in Orders(Either) /\ InOrder(s)
  BY <1>2, <1>3 DEF InOrder
<1>5. Fused(n) = Take(s, n)
  BY DEF Fused, Either
<1> HIDE DEF s
<1>6. s \in Seq(Chunks) /\ s \in Seq(Either)
  BY <1>1, <1>4, OrdersAreLists
<1>7. DOMAIN s = 1..Len(s) /\ Len(s) \in Nat
  BY <1>6, LenProperties
<1>8. /\ Take(s, n) \in Seq(Chunks) /\ Len(Take(s, n)) = Smaller(n, Len(s))
      /\ \A i \in 1..Smaller(n, Len(s)) : Take(s, n)[i] = s[i]
  BY <1>6, TakeIsPrefix
<1>9. /\ DOMAIN Take(s, n) = 1..Smaller(n, Len(s))
      /\ \A i \in 1..Smaller(n, Len(s)) : i \in DOMAIN s
  BY <1>7, <1>8, LenProperties DEF Smaller
<1>10. \A i \in DOMAIN s : s[i] \in Either
  BY <1>6, <1>7, ElementOfSeq
<1> QED
  BY <1>4, <1>5, <1>8, <1>9, <1>10 DEF InOrder

\* Better in every list that holds the other one: a higher score.
LEMMA BetterScoresMore ==
  ASSUME NEW lc \in Nat, NEW vc \in Nat, NEW ld \in Nat, NEW vd \in Nat,
         ld # 0 \/ vd # 0,
         ld # 0 => lc # 0 /\ lc < ld,
         vd # 0 => vc # 0 /\ vc < vd
  PROVE  (Score(lc, vc)[1] * Score(ld, vd)[2]) > (Score(ld, vd)[1] * Score(lc, vc)[2])
<1> DEFINE x == RrfK + lc
           y == RrfK + vc
           z == RrfK + ld
           w == RrfK + vd
<1>1. /\ x \in Nat /\ y \in Nat /\ z \in Nat /\ w \in Nat
      /\ x > 0 /\ y > 0 /\ z > 0 /\ w > 0
      /\ ld # 0 => x < z
      /\ vd # 0 => y < w
  BY SearchAssumption
<1>2. /\ vc = 0 => Score(lc, vc)[1] = 1 /\ Score(lc, vc)[2] = x
      /\ lc = 0 /\ vc # 0 => Score(lc, vc)[1] = 1 /\ Score(lc, vc)[2] = y
      /\ lc # 0 /\ vc # 0 => Score(lc, vc)[1] = x + y /\ Score(lc, vc)[2] = (x * y)
  <2>1. 2 * RrfK + lc + vc = x + y
    BY SearchAssumption
  <2> QED
    BY <2>1 DEF Score
<1>3. /\ vd = 0 => Score(ld, vd)[1] = 1 /\ Score(ld, vd)[2] = z
      /\ ld = 0 /\ vd # 0 => Score(ld, vd)[1] = 1 /\ Score(ld, vd)[2] = w
      /\ ld # 0 /\ vd # 0 => Score(ld, vd)[1] = z + w /\ Score(ld, vd)[2] = (z * w)
  <2>1. 2 * RrfK + ld + vd = z + w
    BY SearchAssumption
  <2> QED
    BY <2>1 DEF Score
<1> HIDE DEF x, y, z, w
<1>4. CASE vd = 0
  <2>1. lc # 0 /\ x < z /\ Score(ld, vd)[1] = 1 /\ Score(ld, vd)[2] = z
    BY <1>1, <1>3, <1>4
  <2>2. CASE vc = 0
    BY <1>1, <1>2, <2>1, <2>2
  <2>3. CASE vc # 0
    <3>1. (x * y) < (z * y) /\ (x * z) > 0
      BY <1>1, <2>1, Times
    <3>2. ((x + y) * z) = (x * z) + (z * y)
      BY <1>1
    <3>3. ((x + y) * z) > (x * y)
      BY <1>1, <3>1, <3>2
    <3> QED
      BY <1>1, <1>2, <2>1, <2>3, <3>3
  <2> QED
    BY <2>2, <2>3
<1>5. CASE vd # 0 /\ ld = 0
  <2>1. vc # 0 /\ y < w /\ Score(ld, vd)[1] = 1 /\ Score(ld, vd)[2] = w
    BY <1>1, <1>3, <1>5
  <2>2. CASE lc = 0
    BY <1>1, <1>2, <2>1, <2>2
  <2>3. CASE lc # 0
    <3>1. (y * x) < (w * x) /\ (y * w) > 0
      BY <1>1, <2>1, Times
    <3>2. ((x + y) * w) = (w * x) + (y * w) /\ (x * y) = (y * x)
      BY <1>1
    <3>3. ((x + y) * w) > (x * y)
      BY <1>1, <3>1, <3>2
    <3> QED
      BY <1>1, <1>2, <2>1, <2>3, <3>3
  <2> QED
    BY <2>2, <2>3
<1>6. CASE vd # 0 /\ ld # 0
  <2>1. x < z /\ y < w /\ lc # 0 /\ vc # 0
    BY <1>1, <1>6
  <2>2. (x * z) \in Nat /\ (y * w) \in Nat /\ (x * z) > 0 /\ (y * w) > 0
    BY <1>1
  <2>3. (y * (x * z)) < (w * (x * z)) /\ (x * (y * w)) < (z * (y * w))
    BY <1>1, <2>1, <2>2, Times
  <2>4. /\ ((x + y) * (z * w)) = (w * (x * z)) + (z * (y * w))
        /\ ((z + w) * (x * y)) = (y * (x * z)) + (x * (y * w))
    BY <1>1
  <2>5. /\ (y * (x * z)) \in Nat /\ (w * (x * z)) \in Nat
        /\ (x * (y * w)) \in Nat /\ (z * (y * w)) \in Nat
    BY <1>1, <2>2
  <2>6. ((x + y) * (z * w)) > ((z + w) * (x * y))
    BY <2>3, <2>4, <2>5
  <2> QED
    BY <1>2, <1>3, <1>6, <2>1, <2>6
<1> QED
  BY <1>4, <1>5, <1>6

\* What both lists agree on, the fused order says too.
LEMMA FusedAgrees ==
  ASSUME lex \in Seq(Chunks), vec \in Seq(Chunks), NEW c \in Either, NEW d \in Either,
         Ahead(d, c)
  PROVE  ~(NeverBelow(lex, c, d) /\ NeverBelow(vec, c, d))
<1> SUFFICES ASSUME NeverBelow(lex, c, d), NeverBelow(vec, c, d) PROVE FALSE
  OBVIOUS
<1> DEFINE lc == RankIn(lex, c)
           vc == RankIn(vec, c)
           ld == RankIn(lex, d)
           vd == RankIn(vec, d)
<1>1. /\ lc \in Nat /\ vc \in Nat /\ ld \in Nat /\ vd \in Nat
      /\ (c \in Elements(lex) => lc # 0) /\ (c \in Elements(vec) => vc # 0)
      /\ (d \in Elements(lex) => ld # 0) /\ (d \in Elements(vec) => vd # 0)
      /\ (d \notin Elements(lex) => ld = 0) /\ (d \notin Elements(vec) => vd = 0)
  <2>1. ASSUME NEW s \in Seq(Chunks), NEW e
        PROVE  /\ RankIn(s, e) \in Nat
               /\ e \in Elements(s) => RankIn(s, e) # 0
               /\ e \notin Elements(s) => RankIn(s, e) = 0
    <3>1. e \in Elements(s) => RankIn(s, e) \in 1..Len(s)
      BY RankIsPosition
    <3> QED
      BY <3>1, RankIsPosition
  <2> QED
    BY <2>1
<1>2. /\ ld # 0 \/ vd # 0
      /\ ld # 0 => lc # 0 /\ lc < ld
      /\ vd # 0 => vc # 0 /\ vc < vd
  BY <1>1 DEF NeverBelow, Either
<1>3. (Num(c) * Den(d)) > (Num(d) * Den(c))
  BY <1>1, <1>2, BetterScoresMore DEF Num, Den
<1>4. (Num(d) * Den(c)) \in Nat /\ (Num(c) * Den(d)) \in Nat
  <2>1. lc # 0 \/ vc # 0
    BY <1>2
  <2>2. Num(c) \in Nat /\ Den(c) \in Nat /\ Num(d) \in Nat /\ Den(d) \in Nat
    BY <1>1, <1>2, <2>1, ScoreIsFraction DEF Num, Den
  <2> QED
    BY <2>2
<1>5. (Num(d) * Den(c)) >= (Num(c) * Den(d))
  BY <1>4, AheadMeans DEF Above, Level
<1> QED
  BY <1>3, <1>4, <1>5

-----------------------------------------------------------------------------
(* A search that fetches too little returns a beginning of the answer *)

\* got is a beginning of all, of at most n hits; of n or of all of them when no
\* more are lost than there are to spare.
CutsTo(got, all, n, lost, spare) ==
  \E m \in 0..Len(all) :
    /\ got = Take(all, m)
    /\ m <= n
    /\ lost <= spare => m = Smaller(n, Len(all))

\* p is the page behind the first o hits of all.
Follows(p, all, o, n, lost, spare) ==
  \E e \in o..Len(all) :
    /\ p = SubSeq(all, o + 1, e)
    /\ e <= o + n
    /\ lost <= spare => e = Smaller(o + n, Len(all))

\* n hits of the first w, filtered.
LEMMA FilteredCut ==
  ASSUME NEW S, IsFiniteSet(S), NEW s \in Seq(S), Distinct(s), NEW ok,
         NEW n \in Nat, NEW w \in Nat, NEW spare \in Int, n + spare <= w
  PROVE  CutsTo(Take(OnlyIn(Take(s, w), ok), n), OnlyIn(s, ok), n,
                Cardinality(Elements(s) \ ok), spare)
<1> DEFINE all  == OnlyIn(s, ok)
           got  == OnlyIn(Take(s, w), ok)
           c    == Len(got)
           lost == Cardinality(Elements(s) \ ok)
           m    == Smaller(c, n)
<1>1. got \in Seq(S) /\ all \in Seq(S)
  <2>1. Take(s, w) \in Seq(S)
    BY TakeIsPrefix
  <2> QED
    BY <2>1, KeptIsList
<1>2. c \in Nat /\ Len(all) \in Nat /\ Len(s) \in Nat
  BY <1>1, LenProperties
<1>3. c <= Len(all) /\ got = Take(all, c)
  BY KeptPrefix
<1>4. lost \in Nat /\ Smaller(w, Len(s)) <= c + lost
  BY KeptCount
<1>5. m \in 0..Len(all) /\ m <= n /\ m \in Nat
  BY <1>2, <1>3 DEF Smaller
<1>6. Len(s) <= w => c = Len(all)
  <2>1. SUFFICES ASSUME Len(s) <= w PROVE Take(s, w) = s
    OBVIOUS
  <2>2. Take(s, w) = SubSeq(s, 1, Len(s))
    BY <1>2, <2>1 DEF Take, Smaller
  <2> QED
    BY <2>2, SubSeqFull
<1> HIDE DEF all, got, c, lost, m
<1>7. Take(got, n) = Take(all, m)
  BY <1>1, <1>2, <1>3, TakeOfTake DEF m
<1>8. lost <= spare => m = Smaller(n, Len(all))
  BY <1>2, <1>3, <1>4, <1>6 DEF m, Smaller
<1>9. CutsTo(Take(got, n), all, n, lost, spare)
  BY <1>5, <1>7, <1>8 DEF CutsTo
<1> QED
  BY <1>9 DEF got, all, lost

\* Nothing is cut but at n.
LEMMA PlainCut ==
  ASSUME NEW S, NEW s \in Seq(S), NEW n \in Nat, NEW lost, NEW spare
  PROVE  CutsTo(Take(s, n), s, n, lost, spare)
<1> DEFINE m == Smaller(n, Len(s))
<1>1. m \in 0..Len(s) /\ m <= n /\ Smaller(m, Len(s)) = m
  BY LenProperties DEF Smaller
<1>2. Take(s, n) = Take(s, m)
  BY <1>1 DEF Take
<1> QED
  BY <1>1, <1>2 DEF CutsTo

\* The page cut out of such a beginning.
LEMMA PageOfCut ==
  ASSUME NEW S, NEW s \in Seq(S), NEW o \in 0..Len(s), NEW n \in Nat, NEW got,
         NEW lost, NEW spare, CutsTo(got, s, o + n, lost, spare)
  PROVE  Follows(SubSeq(got, o + 1, Smaller(o + n, Len(got))), s, o, n, lost, spare)
<1>1. PICK m \in 0..Len(s) :
        /\ got = Take(s, m)
        /\ m <= o + n
        /\ lost <= spare => m = Smaller(o + n, Len(s))
  BY DEF CutsTo
<1>2. Len(s) \in Nat /\ m \in Nat /\ o \in Nat /\ Smaller(m, Len(s)) = m
  BY LenProperties DEF Smaller
<1>3. got \in Seq(S) /\ Len(got) = m /\ \A i \in 1..m : got[i] = s[i]
  BY <1>1, <1>2, TakeIsPrefix
<1>4. Smaller(o + n, Len(got)) = m
  BY <1>1, <1>2, <1>3 DEF Smaller
<1>5. CASE o <= m
  <2>1. m \in o..Len(s) /\ m \in o..Len(got)
    BY <1>2, <1>3, <1>5
  <2>2. /\ SubSeq(got, o + 1, m) \in Seq(S)
        /\ Len(SubSeq(got, o + 1, m)) = m - o
        /\ \A i \in 1..(m - o) : SubSeq(got, o + 1, m)[i] = got[o + i]
    BY <1>2, <1>3, <2>1, Window
  <2>3. /\ SubSeq(s, o + 1, m) \in Seq(S)
        /\ Len(SubSeq(s, o + 1, m)) = m - o
        /\ \A i \in 1..(m - o) : SubSeq(s, o + 1, m)[i] = s[o + i]
    BY <1>2, <2>1, Window
  <2>4. \A i \in 1..(m - o) : got[o + i] = s[o + i]
    BY <1>2, <1>3, <1>5
  <2>5. SubSeq(got, o + 1, m) = SubSeq(s, o + 1, m)
    BY <2>2, <2>3, <2>4, SeqEqual
  <2> QED
    BY <1>1, <1>4, <2>1, <2>5 DEF Follows
<1>6. CASE ~(o <= m)
  <2>1. SubSeq(got, o + 1, m) = <<>> /\ SubSeq(s, o + 1, o) = <<>>
    <3>1. o + 1 > m /\ o + 1 > o
      BY <1>2, <1>6
    <3> QED
      BY <1>2, <1>3, <3>1, SubSeqEmpty
  <2>2. o \in o..Len(s) /\ o <= o + n
    BY <1>2
  <2>3. ~(lost <= spare)
    BY <1>1, <1>2, <1>6 DEF Smaller
  <2> QED
    BY <1>4, <2>1, <2>2, <2>3 DEF Follows
<1> QED
  BY <1>2, <1>5, <1>6

-----------------------------------------------------------------------------
(* The inductive invariant *)

\* Retrieval results name no chunk twice, and a mode asks its own retrievers.
Typed ==
  /\ TypeOK
  /\ Distinct(fts) /\ Distinct(lance)
  /\ mode = "lexical" => pc \notin {"lance", "filter", "hydrate"}
  /\ mode = "vector" => pc # "fts"

\* No session is ahead of the corpus, and the session's state hangs together.
Sane ==
  /\ at <= rev
  /\ cursor # NoCursor => cursor.rev <= rev
  /\ cursor = NoCursor /\ client # "done" => served = <<>>
  /\ client = "done" => cursor = NoCursor /\ pc = "idle"
  /\ pc # "idle" => k > 0

\* How many of the rows a retriever fetches are lost, and how many may be.
Lost  == Cardinality(Dropped)
Spare == IF mode = "lexical" THEN GlobOverfetch ELSE Overfetch * StoreOverfetch - 1

\* What a client holds between two pages.
Held ==
  mode # "hybrid" =>
    /\ cursor # NoCursor /\ Current(cursor.rev) =>
         cursor.offset <= Len(Answer) /\ served = SubSeq(Answer, 1, cursor.offset)
    /\ client = "done" /\ Current(at) /\ Lost <= Spare => served = Answer

Fetched == Take(lance, LanceLimit(offset + k))

\* What a call that began on the present corpus has read of it.
UnderWay ==
  mode # "hybrid" /\ Current(at) =>
    /\ pc # "idle" => offset <= Len(Answer) /\ served = SubSeq(Answer, 1, offset)
    /\ pc = "filter" => vec = Fetched
    /\ pc = "hydrate" => vec = Take(Filtered(Fetched), Overfetch * (offset + k))
    /\ pc = "fuse" => CutsTo(Hits, Answer, offset + k, Lost, Spare)
    /\ pc = "respond" => Follows(page, Answer, offset, k, Lost, Spare)

PagingInv == Typed /\ Sane /\ Held /\ UnderWay

\* A query is of one of three modes and its filters pass chunks.
LEMMA QueryTyped ==
  ASSUME TypeOK
  PROVE  mode \in {"lexical", "vector", "hybrid"} /\ matching \in SUBSET Chunks
         /\ globbed \in BOOLEAN
<1> DEFINE q == [mode |-> mode, matching |-> matching, globbed |-> globbed]
<1>1. q \in [mode: {"lexical", "vector", "hybrid"}, matching: SUBSET Chunks, globbed: BOOLEAN]
  BY SearchAssumption DEF TypeOK
<1>2. q.mode = mode /\ q.matching = matching /\ q.globbed = globbed
  OBVIOUS
<1> HIDE DEF q
<1> QED
  BY <1>1, <1>2

\* What one retriever would return without a limit is a list of chunks.
LEMMA AnswerIsList ==
  ASSUME Typed, mode # "hybrid"
  PROVE  Answer \in Seq(Chunks) /\ Len(Answer) \in Nat /\ Distinct(Answer)
<1>1. fts \in Seq(Chunks) /\ lance \in Seq(Chunks) /\ Distinct(fts) /\ Distinct(lance)
  BY DEF Typed, TypeOK
<1>2. /\ Passing(fts) \in Seq(Chunks) /\ Distinct(Passing(fts))
      /\ Filtered(lance) \in Seq(Chunks) /\ Distinct(Filtered(lance))
  BY <1>1, KeptIsList DEF Passing, Filtered
<1>3. mode = "lexical" \/ mode = "vector"
  BY QueryTyped DEF Typed
<1>4. Answer \in {Passing(fts), fts, Filtered(lance)}
  BY <1>3 DEF Answer
<1> QED
  BY <1>1, <1>2, <1>4, LenProperties

\* A call reads the corpus and changes nothing in it.
LEMMA CallsOnlyRead ==
  ASSUME UNCHANGED <<corpus, query>>
  PROVE  /\ Answer' = Answer /\ Lost' = Lost /\ Spare' = Spare
         /\ UNCHANGED <<fts, lance, rows, rev, dirty, commits, mode, matching, globbed>>
         /\ \A r : Current(r)' <=> Current(r)
<1>1. UNCHANGED <<fts, lance, rows, rev, dirty, commits, mode, matching, globbed>>
  BY DEF corpus, query
<1>2. Answer' = Answer
  BY <1>1 DEF Answer, Passing, Filtered
<1>3. Lost' = Lost
  BY <1>1 DEF Lost, Dropped
<1> QED
  BY <1>1, <1>2, <1>3 DEF Spare, Current

\* The order of a set names nothing twice.
LEMMA OrdersAreDistinct ==
  ASSUME NEW S, IsFiniteSet(S), NEW s \in Orders(S)
  PROVE  Distinct(s)
<1> DEFINE n  == Cardinality(S)
           ks == 1..n
<1>1. n \in Nat /\ IsFiniteSet(ks) /\ Cardinality(ks) = n
  <2>1. n \in Nat
    BY FS_CardinalityType
  <2> QED
    BY <2>1, FS_Interval
<1>2. s \in [ks -> S] /\ Elements(s) = S /\ Len(s) = n
  BY <1>1, OrdersAreLists DEF Orders
<1> HIDE DEF n, ks
<1>3. s \in Surjection(ks, S)
  BY <1>2 DEF Surjection, Elements
<1>4. s \in Injection(ks, S)
  BY <1>1, <1>3, FS_SurjSameCardinalityImpliesInj DEF n
<1> QED
  BY <1>2, <1>4 DEF Distinct, Injection, IsInjective, ks

\* Whatever the ingesting process does to SQLite: the matches stay such a list.
LEMMA MatchesStayList ==
  ASSUME NEW S, S \subseteq Chunks, NEW s \in Orders(S)
  PROVE  s \in Seq(Chunks) /\ Distinct(s)
<1>1. IsFiniteSet(S)
  BY SearchAssumption, FS_Subset
<1> QED
  BY <1>1, OrdersAreLists, OrdersAreDistinct

\* A vector in its place among the others.
LEMMA InsertedIsList ==
  ASSUME NEW S, NEW s \in Seq(S), Distinct(s), NEW c \in S, c \notin Elements(s),
         NEW i \in 0..Len(s)
  PROVE  LET t == SubSeq(s, 1, i) \o <<c>> \o SubSeq(s, i + 1, Len(s))
         IN  t \in Seq(S) /\ Distinct(t)
<1> DEFINE n == Len(s)
           a == SubSeq(s, 1, i)
           b == SubSeq(s, i + 1, n)
           m == a \o <<c>>
           t == m \o b
<1>1. n \in Nat /\ i \in Nat /\ i <= n /\ DOMAIN s = 1..n
  BY LenProperties
<1>2. a \in Seq(S) /\ Len(a) = i /\ \A j \in 1..i : a[j] = s[j]
  BY <1>1
<1>3. b \in Seq(S) /\ Len(b) = n - i /\ \A j \in 1..(n - i) : b[j] = s[i + j]
  <2>1. n \in i..Len(s)
    BY <1>1
  <2> HIDE DEF n
  <2> QED
    BY <1>1, <2>1, Window
<1>4. <<c>> \in Seq(S) /\ Len(<<c>>) = 1 /\ <<c>>[1] = c
  OBVIOUS
<1> HIDE DEF n, a, b
<1>5. /\ m \in Seq(S) /\ Len(m) = i + 1
      /\ \A j \in 1..(i + 1) : m[j] = IF j <= i THEN s[j] ELSE c
  BY <1>1, <1>2, <1>4, ConcatProperties
<1> HIDE DEF m
<1>6. /\ t \in Seq(S) /\ Len(t) = n + 1
      /\ \A j \in 1..(n + 1) : t[j] = IF j <= i + 1 THEN m[j] ELSE b[j - (i + 1)]
  BY <1>1, <1>3, <1>5, ConcatProperties
<1> DEFINE old(j) == IF j <= i THEN j ELSE j - 1
<1> HIDE DEF t
<1>7. ASSUME NEW j \in 1..(n + 1)
      PROVE  IF j = i + 1 THEN t[j] = c ELSE t[j] = s[old(j)] /\ old(j) \in 1..n
  <2>0. j \in Nat /\ j >= 1 /\ j <= n + 1
    BY <1>1
  <2>1. CASE j <= i
    <3>1. j \in 1..(i + 1) /\ j <= i + 1 /\ j # i + 1 /\ j \in 1..n
      BY <1>1, <2>0, <2>1
    <3> QED
      BY <1>5, <1>6, <2>1, <3>1
  <2>2. CASE j = i + 1
    <3>1. j \in 1..(i + 1) /\ j <= i + 1 /\ ~(j <= i)
      BY <1>1, <2>0, <2>2
    <3> QED
      BY <1>5, <1>6, <2>2, <3>1
  <2>3. CASE j > i + 1
    <3>1. /\ j - (i + 1) \in 1..(n - i) /\ i + (j - (i + 1)) = j - 1
          /\ ~(j <= i + 1) /\ ~(j <= i) /\ j # i + 1 /\ j - 1 \in 1..n
      BY <1>1, <2>0, <2>3
    <3>2. t[j] = b[j - (i + 1)] /\ b[j - (i + 1)] = s[i + (j - (i + 1))]
      BY <1>3, <1>6, <3>1
    <3> QED
      BY <3>1, <3>2
  <2> QED
    BY <1>1, <2>0, <2>1, <2>2, <2>3
<1>8. \A j \in 1..n : s[j] # c
  BY <1>1 DEF Elements
<1>9. Distinct(t)
  <2> SUFFICES ASSUME NEW j \in 1..(n + 1), NEW l \in 1..(n + 1), t[j] = t[l] PROVE j = l
    BY <1>6 DEF Distinct
  <2>1. CASE j = i + 1 \/ l = i + 1
    BY <1>7, <1>8, <2>1
  <2>2. CASE j # i + 1 /\ l # i + 1
    <3>1. s[old(j)] = s[old(l)] /\ old(j) \in 1..n /\ old(l) \in 1..n
      BY <1>7, <2>2
    <3>2. old(j) = old(l)
      BY <3>1 DEF Distinct, n
    <3> QED
      BY <1>1, <2>2, <3>2
  <2> QED
    BY <2>1, <2>2
<1> QED
  BY <1>6, <1>9 DEF t, m, a, b, n

\* An empty session over any corpus: nothing served, nothing read.
LEMMA PagingInit == Init => PagingInv
<1> SUFFICES ASSUME Init PROVE PagingInv
  OBVIOUS
<1>1. PICK q \in Queries : mode = q.mode /\ matching = q.matching /\ globbed = q.globbed
  BY DEF Init
<1>2. [mode |-> mode, matching |-> matching, globbed |-> globbed] \in Queries
  <2>1. q \in [mode: {"lexical", "vector", "hybrid"}, matching: SUBSET Chunks, globbed: BOOLEAN]
    BY SearchAssumption
  <2>2. q = [mode |-> q.mode, matching |-> q.matching, globbed |-> q.globbed]
    BY <2>1
  <2> QED
    BY <1>1, <2>2
<1>3. fts \in Seq(Chunks) /\ Distinct(fts)
  <2>1. PICK found \in SUBSET (rows \cap Findable) : fts \in Orders(found)
    BY DEF Init
  <2>2. found \subseteq Chunks
    BY <2>1 DEF Init
  <2> QED
    BY <2>1, <2>2, MatchesStayList
<1>4. lance \in Seq(Chunks) /\ Distinct(lance)
  <2>1. PICK embedded \in SUBSET Chunks : lance \in Orders(embedded)
    BY DEF Init
  <2> QED
    BY <2>1, MatchesStayList
<1>5. <<>> \in Seq(Chunks)
  OBVIOUS
<1>6. TypeOK
  <2>1. /\ rev \in Nat /\ dirty \in BOOLEAN /\ at \in Nat /\ offset \in Nat /\ k \in Nat
        /\ commits \in 0..MaxCommits
    <3>1. rev = 0 /\ dirty = FALSE /\ commits = 0 /\ at = 0 /\ offset = 0 /\ k = 0
      BY DEF Init
    <3>2. 0 \in 0..MaxCommits
      BY SearchAssumption
    <3> QED
      BY <3>1, <3>2
  <2>2. cursor \in [offset: Nat \ {0}, rev: Nat] \cup {NoCursor}
    BY DEF Init
  <2>3. served \in Seq(Chunks) /\ lex \in Seq(Chunks) /\ vec \in Seq(Chunks) /\ page \in Seq(Chunks)
    BY <1>5 DEF Init
  <2> QED
    BY <1>2, <1>3, <1>4, <2>1, <2>2, <2>3 DEF Init, TypeOK
<1>7. Typed
  BY <1>3, <1>4, <1>6 DEF Init, Typed
<1> QED
  BY <1>7 DEF Init, PagingInv, Sane, Held, UnderWay

\* A commit leaves the process dirty, and a dirty corpus is current for nobody.
LEMMA CommitKeeps ==
  ASSUME PagingInv, Commit, rows' \in SUBSET Chunks,
         fts' \in Seq(Chunks), Distinct(fts'), lance' \in Seq(Chunks), Distinct(lance')
  PROVE  PagingInv'
<1>0. /\ UNCHANGED <<rev, mode, matching, globbed, client, cursor, served, pc, at, offset, k,
                     lex, vec, page>>
      /\ dirty' = TRUE /\ commits' = commits + 1 /\ commits < MaxCommits
  BY DEF Commit, query, session, call
<1>1. TypeOK'
  <2>1. commits + 1 \in 0..MaxCommits
    BY <1>0, SearchAssumption DEF PagingInv, Typed, TypeOK
  <2> QED
    BY <1>0, <2>1 DEF PagingInv, Typed, TypeOK
<1>2. Typed'
  BY <1>0, <1>1 DEF PagingInv, Typed
<1>3. Sane'
  BY <1>0 DEF PagingInv, Sane
<1>4. \A r : ~Current(r)'
  BY <1>0 DEF Current
<1> QED
  BY <1>2, <1>3, <1>4 DEF PagingInv, Held, UnderWay

\* LexicalRetriever::search returns a beginning of the matches that pass.
LEMMA LexicalCuts ==
  ASSUME Typed, mode = "lexical", NEW n \in Nat
  PROVE  CutsTo(LexicalHits(n), Answer, n, Lost, Spare)
<1>1. fts \in Seq(Chunks) /\ Distinct(fts) /\ IsFiniteSet(Chunks) /\ GlobOverfetch \in Nat
  BY SearchAssumption DEF Typed, TypeOK
<1>2. CASE globbed
  <2>1. n + GlobOverfetch \in Nat /\ n + GlobOverfetch <= n + GlobOverfetch /\ GlobOverfetch \in Int
    BY <1>1
  <2>2. CutsTo(Take(OnlyIn(Take(fts, n + GlobOverfetch), matching), n), OnlyIn(fts, matching), n,
               Cardinality(Elements(fts) \ matching), GlobOverfetch)
    BY <1>1, <2>1, FilteredCut
  <2> QED
    BY <1>2, <2>2 DEF LexicalHits, Answer, Passing, Lost, Dropped, Spare
<1>3. CASE ~globbed
  <2>1. CutsTo(Take(fts, n), fts, n, Lost, Spare)
    BY <1>1, PlainCut
  <2> QED
    BY <1>3, <2>1 DEF LexicalHits, Answer
<1> QED
  BY <1>2, <1>3

\* How much further LanceDB is asked for than a page needs.
LEMMA OverfetchSpares ==
  ASSUME NEW n \in Nat, n > 0
  PROVE  /\ LanceLimit(n) \in Nat /\ n + (Overfetch * StoreOverfetch - 1) <= LanceLimit(n)
         /\ (Overfetch * StoreOverfetch - 1) \in Int
         /\ (Overfetch * n) \in Nat /\ n <= (Overfetch * n)
<1>1. Overfetch \in Nat /\ Overfetch > 0 /\ StoreOverfetch \in Nat /\ StoreOverfetch > 0
  BY SearchAssumption
<1>2. ASSUME NEW q \in Nat, q > 0
      PROVE  n + (q - 1) <= (n * q) /\ n <= (q * n)
  <2>1. PICK p \in Nat : n = p + 1
    <3>1. n - 1 \in Nat /\ n = (n - 1) + 1
      OBVIOUS
    <3> QED
      BY <3>1
  <2>2. (1 * p) <= (q * p) /\ 1 * p = p /\ (q * p) \in Nat
    BY <1>2, <2>1, Times
  <2>3. ((p + 1) * q) = (q * p) + q
    BY <2>1
  <2>4. (n * q) = (q * p) + q /\ (q * n) = (q * p) + q
    BY <2>1, <2>3
  <2>5. p + q <= (q * p) + q /\ n + (q - 1) = p + q /\ n <= p + q
    BY <1>2, <2>1, <2>2
  <2> QED
    BY <1>2, <2>2, <2>4, <2>5
<1> DEFINE q == Overfetch * StoreOverfetch
<1>3. q \in Nat /\ q > 0
  BY <1>1
<1>4. LanceLimit(n) = (n * q) /\ (n * q) \in Nat
  BY <1>1 DEF LanceLimit
<1> HIDE DEF q
<1>5. n + (q - 1) <= (n * q) /\ q - 1 \in Int
  BY <1>2, <1>3
<1>6. n <= (Overfetch * n) /\ (Overfetch * n) \in Nat
  BY <1>1, <1>2
<1> QED
  BY <1>4, <1>5, <1>6 DEF q

\* LanceVectorStore::search and hydrate_chunks, with nothing changed in between.
LEMMA VectorCuts ==
  ASSUME Typed, mode = "vector", NEW n \in Nat, n > 0
  PROVE  LET v == Take(Filtered(Take(lance, LanceLimit(n))), Overfetch * n)
         IN  CutsTo(Take(Existing(v), n), Answer, n, Lost, Spare)
<1> DEFINE live == rows \cap matching
           w    == LanceLimit(n)
           got  == OnlyIn(Take(lance, w), live)
           big  == Overfetch * n
           v    == Take(got, big)
<1>1. lance \in Seq(Chunks) /\ Distinct(lance) /\ IsFiniteSet(Chunks)
  BY SearchAssumption DEF Typed, TypeOK
<1>2. w \in Nat /\ n + (Overfetch * StoreOverfetch - 1) <= w
      /\ (Overfetch * StoreOverfetch - 1) \in Int /\ big \in Nat /\ n <= big
  BY OverfetchSpares
<1>3. Take(lance, w) \in Seq(Chunks)
  <2> HIDE DEF w
  <2> QED
    BY <1>1, <1>2, TakeIsPrefix
<1>4. got \in Seq(Chunks) /\ \A i \in 1..Len(got) : got[i] \in live
  <2> HIDE DEF live, w
  <2> QED
    BY <1>3, KeptIsList
<1>5. /\ v \in Seq(Chunks) /\ Len(v) = Smaller(big, Len(got))
      /\ \A i \in 1..Smaller(big, Len(got)) : v[i] = got[i]
  <2> HIDE DEF got, big
  <2> QED
    BY <1>2, <1>4, TakeIsPrefix
<1>6. Existing(v) = v
  <2>1. \A i \in 1..Len(v) : v[i] \in rows
    <3>1. Len(got) \in Nat /\ big \in Nat
      BY <1>2, <1>4, LenProperties
    <3> HIDE DEF got, big, v
    <3>2. \A i \in 1..Len(v) : i \in 1..Len(got)
      BY <1>5, <3>1 DEF Smaller
    <3> QED
      BY <1>4, <1>5, <3>2 DEF live
  <2> HIDE DEF v
  <2> QED
    BY <1>5, <2>1, KeptAll DEF Existing
<1>7. Take(v, n) = Take(got, n)
  <2>1. Smaller(big, n) = n
    BY <1>2 DEF Smaller
  <2> HIDE DEF got, big
  <2>2. Take(Take(got, big), n) = Take(got, Smaller(big, n))
    BY <1>2, <1>4, TakeOfTake
  <2> QED
    BY <2>1, <2>2
<1>8. CutsTo(Take(got, n), OnlyIn(lance, live), n, Cardinality(Elements(lance) \ live),
             Overfetch * StoreOverfetch - 1)
  <2> HIDE DEF live, w
  <2> QED
    BY <1>1, <1>2, FilteredCut DEF got
<1>9. CutsTo(Take(got, n), Answer, n, Lost, Spare)
  BY <1>8 DEF Answer, Filtered, Lost, Dropped, Spare
<1> QED
  BY <1>6, <1>7, <1>9 DEF Filtered

-----------------------------------------------------------------------------
(* The steps of a call *)

LEMMA BeginKeeps ==
  ASSUME PagingInv, NEW n \in PageSizes, Begin(n)
  PROVE  PagingInv'
<1>1. n \in Nat /\ n > 0
  BY SearchAssumption
<1>2. /\ UNCHANGED <<corpus, query>> /\ UNCHANGED <<client, cursor, served, lex, vec, page>>
      /\ at' = rev /\ k' = n /\ pc' = (IF mode = "vector" THEN "lance" ELSE "fts")
      /\ offset' = (IF cursor = NoCursor THEN 0 ELSE cursor.offset)
      /\ (cursor # NoCursor => cursor.rev = rev) /\ client # "done"
  BY DEF Begin, session
<1>3. Typed /\ Sane /\ Held /\ UnderWay
  BY DEF PagingInv
<1>4. /\ Answer' = Answer /\ Lost' = Lost /\ Spare' = Spare
      /\ UNCHANGED <<fts, lance, rows, rev, dirty, commits, mode, matching, globbed>>
      /\ \A r : Current(r)' <=> Current(r)
  BY <1>2, CallsOnlyRead
<1>5. offset' \in Nat
  BY <1>2, <1>3 DEF Typed, TypeOK
<1>6. Typed'
  BY <1>1, <1>2, <1>3, <1>4, <1>5 DEF Typed, TypeOK
<1>7. Sane'
  BY <1>1, <1>2, <1>3, <1>4 DEF Sane, Typed, TypeOK
<1>8. Held'
  BY <1>2, <1>3, <1>4 DEF Held
<1>9. UnderWay'
  <2> SUFFICES ASSUME mode # "hybrid", Current(rev)
               PROVE  offset' <= Len(Answer) /\ served = SubSeq(Answer, 1, offset')
    BY <1>2, <1>4 DEF UnderWay
  <2>1. Len(Answer) \in Nat
    BY <1>3, AnswerIsList
  <2>2. CASE cursor = NoCursor
    <3>1. served = <<>> /\ offset' = 0
      BY <1>2, <1>3, <2>2 DEF Sane
    <3>2. SubSeq(Answer, 1, 0) = <<>>
      BY SubSeqEmpty
    <3> QED
      BY <2>1, <3>1, <3>2
  <2>3. CASE cursor # NoCursor
    BY <1>2, <1>3, <2>3 DEF Held
  <2> QED
    BY <2>2, <2>3
<1> QED
  BY <1>6, <1>7, <1>8, <1>9 DEF PagingInv

LEMMA StaleCursorKeeps ==
  ASSUME PagingInv, StaleCursor
  PROVE  PagingInv'
<1>1. /\ UNCHANGED <<corpus, query>> /\ UNCHANGED <<pc, at, offset, k, lex, vec, page>>
      /\ pc = "idle" /\ client' = "start" /\ cursor' = NoCursor /\ served' = <<>>
  BY DEF StaleCursor, call
<1>2. UNCHANGED <<fts, lance, rows, rev, dirty, commits, mode, matching, globbed>>
  BY <1>1, CallsOnlyRead
<1>3. Typed'
  BY <1>1, <1>2 DEF PagingInv, Typed, TypeOK
<1>4. Sane'
  BY <1>1, <1>2 DEF PagingInv, Sane
<1> QED
  BY <1>1, <1>3, <1>4 DEF PagingInv, Held, UnderWay

\* The steps in the middle of a call change what it has read and nothing else.
LEMMA ReadsKeep ==
  ASSUME PagingInv, UNCHANGED <<corpus, query, session>>, UNCHANGED <<at, offset, k>>,
         pc # "idle", pc' # "idle", pc' \in {"fts", "lance", "filter", "hydrate", "fuse", "respond"},
         mode = "lexical" => pc' \notin {"lance", "filter", "hydrate"},
         mode = "vector" => pc' # "fts",
         lex' \in Seq(Chunks), vec' \in Seq(Chunks), page' \in Seq(Chunks),
         mode # "hybrid" /\ Current(at) =>
           /\ pc' = "filter" => vec' = Fetched
           /\ pc' = "hydrate" => vec' = Take(Filtered(Fetched), Overfetch * (offset + k))
           /\ pc' = "fuse" => CutsTo(Hits', Answer, offset + k, Lost, Spare)
           /\ pc' = "respond" => Follows(page', Answer, offset, k, Lost, Spare)
  PROVE  PagingInv'
<1>1. Typed /\ Sane /\ Held /\ UnderWay
  BY DEF PagingInv
<1>2. /\ Answer' = Answer /\ Lost' = Lost /\ Spare' = Spare
      /\ UNCHANGED <<fts, lance, rows, rev, dirty, commits, mode, matching, globbed>>
      /\ \A r : Current(r)' <=> Current(r)
  BY CallsOnlyRead
<1>3. UNCHANGED <<client, cursor, served>>
  BY DEF session
<1>4. Typed'
  BY <1>1, <1>2, <1>3 DEF Typed, TypeOK
<1>5. Sane'
  BY <1>1, <1>2, <1>3 DEF Sane
<1>6. Held'
  BY <1>1, <1>2, <1>3 DEF Held
<1>7. Fetched' = Fetched /\ \A s : Filtered(s)' = Filtered(s)
  BY <1>2 DEF Fetched, Filtered, LanceLimit
<1>8. UnderWay'
  <2> SUFFICES ASSUME mode # "hybrid", Current(at)
               PROVE  /\ offset <= Len(Answer) /\ served = SubSeq(Answer, 1, offset)
                      /\ pc' = "filter" => vec' = Fetched'
                      /\ pc' = "hydrate" =>
                           vec' = Take(Filtered(Fetched)', Overfetch * (offset + k))
                      /\ pc' = "fuse" => CutsTo(Hits', Answer, offset + k, Lost, Spare)
                      /\ pc' = "respond" => Follows(page', Answer, offset, k, Lost, Spare)
    BY <1>2, <1>3 DEF UnderWay
  <2>1. offset <= Len(Answer) /\ served = SubSeq(Answer, 1, offset)
    BY <1>1 DEF UnderWay
  <2>2. Filtered(Fetched)' = Filtered(Fetched)
    BY <1>2, <1>7 DEF Filtered
  <2> QED
    BY <1>7, <2>1, <2>2
<1> QED
  BY <1>4, <1>5, <1>6, <1>8 DEF PagingInv

\* The numbers and lists of a call under way.
LEMMA CallTyped ==
  ASSUME PagingInv
  PROVE  /\ offset \in Nat /\ k \in Nat /\ offset + k \in Nat
         /\ FanoutFor(offset + k) \in Nat
         /\ mode # "hybrid" => FanoutFor(offset + k) = offset + k
         /\ pc # "idle" => offset + k > 0
         /\ fts \in Seq(Chunks) /\ lance \in Seq(Chunks)
         /\ lex \in Seq(Chunks) /\ vec \in Seq(Chunks) /\ page \in Seq(Chunks)
<1>1. offset \in Nat /\ k \in Nat /\ (pc # "idle" => k > 0)
  BY DEF PagingInv, Typed, TypeOK, Sane
<1>2. \A n \in Nat : (n * Fanout) \in Nat
  BY SearchAssumption
<1>3. FanoutFor(offset + k) \in Nat
  BY <1>1, <1>2 DEF FanoutFor
<1> QED
  BY <1>1, <1>3 DEF FanoutFor, PagingInv, Typed, TypeOK

LEMMA ReadFtsKeeps ==
  ASSUME PagingInv, ReadFts
  PROVE  PagingInv'
<1> DEFINE n == FanoutFor(offset + k)
<1>1. /\ UNCHANGED <<corpus, query, session>> /\ UNCHANGED <<at, offset, k, vec, page>>
      /\ pc = "fts" /\ lex' = LexicalHits(n)
      /\ pc' = (IF mode = "hybrid" THEN "lance" ELSE "fuse")
  BY DEF ReadFts
<1>2. n \in Nat /\ fts \in Seq(Chunks) /\ vec \in Seq(Chunks) /\ page \in Seq(Chunks)
  BY CallTyped
<1>3. LexicalHits(n) \in Seq(Chunks)
  <2> HIDE DEF n
  <2>1. n + GlobOverfetch \in Nat
    BY <1>2, SearchAssumption
  <2>2. Take(fts, n) \in Seq(Chunks) /\ Take(fts, n + GlobOverfetch) \in Seq(Chunks)
    BY <1>2, <2>1, TakeIsPrefix
  <2>3. Passing(Take(fts, n + GlobOverfetch)) \in Seq(Chunks)
    BY <2>2, KeptIsList DEF Passing
  <2>4. Take(Passing(Take(fts, n + GlobOverfetch)), n) \in Seq(Chunks)
    BY <1>2, <2>3, TakeIsPrefix
  <2> QED
    BY <2>2, <2>4 DEF LexicalHits
<1>4. mode # "hybrid" => mode = "lexical"
  BY <1>1, QueryTyped DEF PagingInv, Typed
<1>5. mode # "hybrid" => CutsTo(Hits', Answer, offset + k, Lost, Spare)
  <2> SUFFICES ASSUME mode # "hybrid" PROVE CutsTo(Hits', Answer, offset + k, Lost, Spare)
    OBVIOUS
  <2>1. Hits' = LexicalHits(offset + k)
    <3>1. n = offset + k
      BY CallTyped
    <3>2. mode' = "lexical"
      BY <1>1, <1>4 DEF query
    <3> QED
      BY <1>1, <3>1, <3>2 DEF Hits
  <2>2. offset + k \in Nat
    BY CallTyped
  <2> QED
    BY <1>4, <2>1, <2>2, LexicalCuts DEF PagingInv
<1> HIDE DEF n
<1> QED
  BY <1>1, <1>2, <1>3, <1>4, <1>5, ReadsKeep

LEMMA QueryLanceKeeps ==
  ASSUME PagingInv, QueryLance
  PROVE  PagingInv'
<1>1. /\ UNCHANGED <<corpus, query, session>> /\ UNCHANGED <<at, offset, k, lex, page>>
      /\ pc = "lance" /\ pc' = "filter"
      /\ vec' = Take(lance, LanceLimit(FanoutFor(offset + k)))
  BY DEF QueryLance
<1>2. \A n \in Nat : LanceLimit(n) \in Nat
  BY SearchAssumption DEF LanceLimit
<1>3. vec' \in Seq(Chunks) /\ lex' \in Seq(Chunks) /\ page' \in Seq(Chunks)
  <2>1. LanceLimit(FanoutFor(offset + k)) \in Nat /\ lance \in Seq(Chunks)
    BY <1>2, CallTyped
  <2>2. Take(lance, LanceLimit(FanoutFor(offset + k))) \in Seq(Chunks)
    BY <2>1, TakeIsPrefix
  <2> QED
    BY <1>1, <2>2, CallTyped
<1>4. mode # "lexical"
  BY <1>1 DEF PagingInv, Typed
<1>5. mode # "hybrid" => vec' = Fetched
  BY <1>1, CallTyped DEF Fetched
<1> QED
  BY <1>1, <1>3, <1>4, <1>5, ReadsKeep

LEMMA FilterChunksKeeps ==
  ASSUME PagingInv, FilterChunks
  PROVE  PagingInv'
<1>1. /\ UNCHANGED <<corpus, query, session>> /\ UNCHANGED <<at, offset, k, lex, page>>
      /\ pc = "filter" /\ pc' = "hydrate"
      /\ vec' = Take(Filtered(vec), Overfetch * FanoutFor(offset + k))
  BY DEF FilterChunks
<1>2. vec' \in Seq(Chunks) /\ lex' \in Seq(Chunks) /\ page' \in Seq(Chunks)
  <2>1. Filtered(vec) \in Seq(Chunks)
    BY CallTyped, KeptIsList DEF Filtered
  <2>2. (Overfetch * FanoutFor(offset + k)) \in Nat
    BY CallTyped, SearchAssumption
  <2>3. Take(Filtered(vec), Overfetch * FanoutFor(offset + k)) \in Seq(Chunks)
    BY <2>1, <2>2, TakeIsPrefix
  <2> QED
    BY <1>1, <2>3, CallTyped
<1>3. mode # "lexical"
  BY <1>1 DEF PagingInv, Typed
<1>4. mode # "hybrid" /\ Current(at) => vec' = Take(Filtered(Fetched), Overfetch * (offset + k))
  BY <1>1, CallTyped DEF PagingInv, UnderWay
<1> QED
  BY <1>1, <1>2, <1>3, <1>4, ReadsKeep

LEMMA HydrateKeeps ==
  ASSUME PagingInv, Hydrate
  PROVE  PagingInv'
<1>1. /\ UNCHANGED <<corpus, query, session>> /\ UNCHANGED <<at, offset, k, lex, page>>
      /\ pc = "hydrate" /\ pc' = "fuse"
      /\ vec' = Take(Existing(vec), FanoutFor(offset + k))
  BY DEF Hydrate
<1>2. vec' \in Seq(Chunks) /\ lex' \in Seq(Chunks) /\ page' \in Seq(Chunks)
  <2>1. Existing(vec) \in Seq(Chunks)
    BY CallTyped, KeptIsList DEF Existing
  <2>2. Take(Existing(vec), FanoutFor(offset + k)) \in Seq(Chunks)
    BY <2>1, CallTyped, TakeIsPrefix
  <2> QED
    BY <1>1, <2>2, CallTyped
<1>3. mode # "hybrid" => mode = "vector"
  BY <1>1, QueryTyped DEF PagingInv, Typed
<1>4. ASSUME mode # "hybrid", Current(at)
      PROVE  CutsTo(Hits', Answer, offset + k, Lost, Spare)
  <2> DEFINE v == Take(Filtered(Take(lance, LanceLimit(offset + k))), Overfetch * (offset + k))
  <2>1. vec = v
    BY <1>1, <1>4 DEF PagingInv, UnderWay, Fetched
  <2>2. Hits' = Take(Existing(v), offset + k)
    <3>1. mode' = "vector"
      BY <1>1, <1>3, <1>4 DEF query
    <3>2. FanoutFor(offset + k) = offset + k
      BY <1>4, CallTyped
    <3> HIDE DEF v
    <3> QED
      BY <1>1, <2>1, <3>1, <3>2 DEF Hits
  <2>3. offset + k \in Nat /\ offset + k > 0
    BY <1>1, CallTyped
  <2> QED
    BY <1>3, <1>4, <2>2, <2>3, VectorCuts DEF PagingInv
<1> QED
  BY <1>1, <1>2, <1>4, ReadsKeep

LEMMA FuseKeeps ==
  ASSUME PagingInv, Fuse
  PROVE  PagingInv'
<1>1. /\ UNCHANGED <<corpus, query, session>> /\ UNCHANGED <<at, offset, k, lex, vec>>
      /\ pc = "fuse" /\ pc' = "respond"
      /\ page' = SubSeq(Hits, offset + 1, Smaller(offset + k, Len(Hits)))
  BY DEF Fuse
<1>2. Hits \in Seq(Chunks)
  <2>1. mode \in {"lexical", "vector", "hybrid"}
    BY QueryTyped DEF PagingInv, Typed
  <2>2. Fused(offset + k) \in Seq(Chunks)
    BY CallTyped, FusedIsSorted
  <2> QED
    BY <2>1, <2>2, CallTyped DEF Hits
<1>3. page' \in Seq(Chunks) /\ lex' \in Seq(Chunks) /\ vec' \in Seq(Chunks)
  <2> DEFINE e == Smaller(offset + k, Len(Hits))
  <2>1. offset \in Nat /\ e \in Nat /\ e <= Len(Hits)
    BY <1>2, CallTyped, LenProperties DEF Smaller
  <2> HIDE DEF e
  <2>2. SubSeq(Hits, offset + 1, e) \in Seq(Chunks)
    BY <1>2, <2>1, SubSeqProperties, ElementOfSeq
  <2> QED
    BY <1>1, <2>2, CallTyped DEF e
<1>4. ASSUME mode # "hybrid", Current(at)
      PROVE  Follows(page', Answer, offset, k, Lost, Spare)
  <2>1. Answer \in Seq(Chunks) /\ Len(Answer) \in Nat
    BY <1>4, AnswerIsList DEF PagingInv
  <2>2. offset \in 0..Len(Answer) /\ k \in Nat
    BY <1>1, <1>4, <2>1, CallTyped DEF PagingInv, UnderWay
  <2>3. CutsTo(Hits, Answer, offset + k, Lost, Spare)
    BY <1>1, <1>4 DEF PagingInv, UnderWay
  <2>4. Follows(SubSeq(Hits, offset + 1, Smaller(offset + k, Len(Hits))),
                Answer, offset, k, Lost, Spare)
    BY <2>1, <2>2, <2>3, PageOfCut
  <2> QED
    BY <1>1, <2>4
<1> QED
  BY <1>1, <1>3, <1>4, ReadsKeep

LEMMA RespondKeeps ==
  ASSUME PagingInv, Respond
  PROVE  PagingInv'
<1>1. PICK kept \in 0..Len(page), truncated \in BOOLEAN :
        /\ page # <<>> => kept > 0
        /\ kept < Len(page) => truncated
        /\ truncated => page # <<>>
        /\ served' = served \o SubSeq(page, 1, kept)
        /\ IF More(kept, truncated)
           THEN /\ client' = "paging"
                /\ cursor' = [offset |-> offset + kept, rev |-> CursorRev]
           ELSE /\ client' = "done"
                /\ cursor' = NoCursor
  BY DEF Respond
<1>2. /\ pc = "respond" /\ pc' = "idle" /\ UNCHANGED <<corpus, query>> /\ at' = at
      /\ offset' = 0 /\ k' = 0 /\ lex' = <<>> /\ vec' = <<>> /\ page' = <<>>
  BY DEF Respond
<1>3. Typed /\ Sane /\ Held /\ UnderWay
  BY DEF PagingInv
<1>4. /\ Answer' = Answer /\ Lost' = Lost /\ Spare' = Spare
      /\ UNCHANGED <<fts, lance, rows, rev, dirty, commits, mode, matching, globbed>>
      /\ \A r : Current(r)' <=> Current(r)
  BY <1>2, CallsOnlyRead
<1>5. /\ page \in Seq(Chunks) /\ served \in Seq(Chunks) /\ Len(page) \in Nat
      /\ offset \in Nat /\ k \in Nat /\ k > 0 /\ at \in Nat /\ kept \in Nat /\ at <= rev
  BY <1>2, <1>3, LenProperties DEF Typed, TypeOK, Sane
<1>6. served' \in Seq(Chunks)
  <2>1. SubSeq(page, 1, kept) \in Seq(Chunks)
    BY <1>5, SubSeqProperties, ElementOfSeq
  <2> QED
    BY <1>1, <1>5, <2>1, ConcatProperties
<1>7. <<>> \in Seq(Chunks)
  OBVIOUS
<1>8. ASSUME client' \in {"paging", "done"},
             cursor' \in [offset: Nat \ {0}, rev: Nat] \cup {NoCursor}
      PROVE  Typed'
  BY <1>2, <1>3, <1>4, <1>5, <1>6, <1>7, <1>8 DEF Typed, TypeOK
<1>9. ASSUME mode # "hybrid", Current(at)
      PROVE  /\ offset + kept <= Len(Answer) /\ served' = SubSeq(Answer, 1, offset + kept)
             /\ ~More(kept, truncated) /\ Lost <= Spare => offset + kept = Len(Answer)
  <2>1. Answer \in Seq(Chunks) /\ Len(Answer) \in Nat
    BY <1>3, <1>9, AnswerIsList
  <2>2. /\ offset <= Len(Answer) /\ served = SubSeq(Answer, 1, offset)
        /\ Follows(page, Answer, offset, k, Lost, Spare)
    BY <1>2, <1>3, <1>9 DEF UnderWay
  <2>3. PICK e \in offset..Len(Answer) :
          /\ page = SubSeq(Answer, offset + 1, e)
          /\ e <= offset + k
          /\ Lost <= Spare => e = Smaller(offset + k, Len(Answer))
    BY <2>2 DEF Follows
  <2>4. Len(page) = e - offset /\ e \in Nat
    BY <1>5, <2>1, <2>3, Window
  <2>5. kept \in 0..(e - offset)
    BY <1>5, <2>4
  <2>6. served' = SubSeq(Answer, 1, offset + kept)
    <3>1. SubSeq(Answer, 1, offset) \o SubSeq(SubSeq(Answer, offset + 1, e), 1, kept)
            = SubSeq(Answer, 1, offset + kept)
      BY <1>5, <2>1, <2>3, <2>5, PagesJoin
    <3> QED
      BY <1>1, <2>2, <2>3, <3>1
  <2>7. ~More(kept, truncated) => kept # k /\ kept = Len(page)
    <3>1. truncated => kept > 0
      BY <1>1
    <3> QED
      BY <1>1, <1>5, <3>1 DEF More
  <2>8. ~More(kept, truncated) /\ Lost <= Spare => offset + kept = Len(Answer)
    BY <1>5, <2>1, <2>3, <2>4, <2>7 DEF Smaller
  <2> QED
    BY <1>5, <2>1, <2>5, <2>6, <2>8
<1>10. CASE More(kept, truncated)
  <2>1. client' = "paging" /\ cursor' = [offset |-> offset + kept, rev |-> at]
    BY <1>1, <1>10 DEF CursorRev
  <2>2. offset + kept > 0
    BY <1>10 DEF More
  <2>3. cursor' \in [offset: Nat \ {0}, rev: Nat] /\ cursor' # NoCursor
    BY <1>5, <2>1, <2>2, SearchAssumption
  <2>4. Typed'
    BY <1>8, <2>1, <2>3
  <2>5. Sane'
    BY <1>2, <1>4, <1>5, <2>1, <2>3 DEF Sane
  <2>6. Held'
    BY <1>4, <1>9, <2>1 DEF Held
  <2> QED
    BY <1>2, <2>4, <2>5, <2>6 DEF PagingInv, UnderWay
<1>11. CASE ~More(kept, truncated)
  <2>1. client' = "done" /\ cursor' = NoCursor
    BY <1>1, <1>11
  <2>2. Typed'
    BY <1>8, <2>1
  <2>3. Sane'
    BY <1>2, <1>4, <1>5, <2>1 DEF Sane
  <2>4. mode # "hybrid" /\ Current(at) /\ Lost <= Spare => served' = Answer
    <3>1. mode # "hybrid" => Answer \in Seq(Chunks)
      BY <1>3, AnswerIsList
    <3> QED
      BY <1>9, <1>11, <3>1, SubSeqFull
  <2>5. Held'
    BY <1>2, <1>4, <2>1, <2>4 DEF Held
  <2> QED
    BY <1>2, <2>2, <2>3, <2>5 DEF PagingInv, UnderWay
<1> QED
  BY <1>10, <1>11

-----------------------------------------------------------------------------
(* The steps of the ingesting process *)

LEMMA IngestKeeps ==
  ASSUME PagingInv, Ingest
  PROVE  PagingInv'
<1>1. /\ fts \in Seq(Chunks) /\ lance \in Seq(Chunks) /\ rows \in SUBSET Chunks
      /\ Distinct(fts) /\ Distinct(lance) /\ rev \in Nat
  BY DEF PagingInv, Typed, TypeOK
<1>2. Elements(fts) \subseteq Chunks
  BY <1>1, ElementOfSeq, LenProperties DEF Elements
<1>3. ASSUME NEW c \in Chunks, PurgeRows(c)
      PROVE  PagingInv'
  <2>1. /\ Commit /\ rows' = rows \ {c} /\ lance' = lance
        /\ fts' \in Orders(Elements(fts) \ {c})
    BY <1>3 DEF PurgeRows
  <2>2. Elements(fts) \ {c} \subseteq Chunks
    BY <1>2
  <2>3. fts' \in Seq(Chunks) /\ Distinct(fts')
    BY <2>1, <2>2, MatchesStayList
  <2> QED
    BY <1>1, <2>1, <2>3, CommitKeeps
<1>4. ASSUME NEW c \in Chunks, PurgeVector(c)
      PROVE  PagingInv'
  <2>1. /\ Commit /\ rows' = rows /\ fts' = fts
        /\ lance' = OnlyIn(lance, Elements(lance) \ {c})
    BY <1>4 DEF PurgeVector
  <2>2. lance' \in Seq(Chunks) /\ Distinct(lance')
    BY <1>1, <2>1, KeptIsList
  <2> QED
    BY <1>1, <2>1, <2>2, CommitKeeps
<1>5. ASSUME NEW c \in Chunks, NEW found \in SUBSET {c}, StoreRows(c, found)
      PROVE  PagingInv'
  <2>1. /\ Commit /\ rows' = rows \cup {c} /\ lance' = lance
        /\ fts' \in Orders(Elements(fts) \cup (found \cap Findable))
    BY <1>5 DEF StoreRows
  <2>2. Elements(fts) \cup (found \cap Findable) \subseteq Chunks
    BY <1>2
  <2>3. fts' \in Seq(Chunks) /\ Distinct(fts')
    BY <2>1, <2>2, MatchesStayList
  <2>4. rows' \in SUBSET Chunks
    BY <1>1, <2>1
  <2> QED
    BY <1>1, <2>1, <2>3, <2>4, CommitKeeps
<1>6. ASSUME NEW c \in Chunks, NEW i \in 0..Cardinality(Chunks), StoreVector(c, i)
      PROVE  PagingInv'
  <2>1. /\ Commit /\ rows' = rows /\ fts' = fts
        /\ c \notin Elements(lance) /\ i <= Len(lance)
        /\ lance' = SubSeq(lance, 1, i) \o <<c>> \o SubSeq(lance, i + 1, Len(lance))
    BY <1>6 DEF StoreVector
  <2>2. i \in 0..Len(lance)
    <3>1. i \in Nat /\ Len(lance) \in Nat
      BY <1>1, SearchAssumption, FS_CardinalityType, LenProperties
    <3> QED
      BY <2>1, <3>1
  <2>3. lance' \in Seq(Chunks) /\ Distinct(lance')
    BY <1>1, <2>1, <2>2, InsertedIsList
  <2> QED
    BY <1>1, <2>1, <2>3, CommitKeeps
<1>7. CASE BumpRevision
  <2>1. /\ rev' = rev + 1 /\ dirty' = FALSE
        /\ UNCHANGED <<fts, lance, rows, commits, mode, matching, globbed, client, cursor, served,
                       pc, at, offset, k, lex, vec, page>>
    BY <1>7 DEF BumpRevision, query, session, call
  <2>2. Typed /\ Sane /\ rev + 1 \in Nat /\ at \in Nat
        /\ (cursor # NoCursor => cursor.rev \in Nat)
    BY <1>1 DEF PagingInv, Typed, TypeOK
  <2>3. Typed'
    BY <2>1, <2>2 DEF Typed, TypeOK
  <2>4. at < rev' /\ (cursor # NoCursor => cursor.rev < rev')
    BY <1>1, <2>1, <2>2 DEF Sane
  <2>5. Sane'
    BY <1>1, <2>1, <2>2, <2>4 DEF Sane
  <2>6. ~Current(at)' /\ (cursor' # NoCursor => ~Current(cursor.rev)')
    BY <1>1, <2>1, <2>2, <2>4 DEF Current
  <2> QED
    BY <2>3, <2>5, <2>6 DEF PagingInv, Held, UnderWay
<1> QED
  BY <1>3, <1>4, <1>5, <1>6, <1>7 DEF Ingest

\* The step of the invariant, one case per action.
LEMMA PagingStep == PagingInv /\ [Next]_vars => PagingInv'
<1> SUFFICES ASSUME PagingInv, [Next]_vars PROVE PagingInv'
  OBVIOUS
<1>1. CASE UNCHANGED vars
  <2>1. UNCHANGED <<corpus, query, session, call>>
    BY <1>1 DEF vars
  <2>2. /\ Answer' = Answer /\ Lost' = Lost /\ Spare' = Spare
        /\ UNCHANGED <<fts, lance, rows, rev, dirty, commits, mode, matching, globbed>>
        /\ \A r : Current(r)' <=> Current(r)
    BY <2>1, CallsOnlyRead
  <2>3. UNCHANGED <<client, cursor, served, pc, at, offset, k, lex, vec, page>>
    BY <2>1 DEF session, call
  <2>4. Typed' /\ Sane'
    BY <2>2, <2>3 DEF PagingInv, Typed, TypeOK, Sane
  <2>5. Held'
    BY <2>2, <2>3 DEF PagingInv, Held
  <2>6. Fetched' = Fetched /\ Filtered(Fetched)' = Filtered(Fetched)
    BY <2>2, <2>3 DEF Fetched, Filtered, LanceLimit
  <2>7. mode # "hybrid" => Hits' = Hits
    <3>1. mode # "hybrid" => mode = "lexical" \/ mode = "vector"
      BY QueryTyped DEF PagingInv, Typed
    <3> QED
      BY <2>2, <2>3, <3>1 DEF Hits
  <2>8. UnderWay'
    BY <2>2, <2>3, <2>6, <2>7 DEF PagingInv, UnderWay
  <2> QED
    BY <2>4, <2>5, <2>8 DEF PagingInv
<1>2. CASE Call
  BY <1>2, BeginKeeps, StaleCursorKeeps, ReadFtsKeeps, QueryLanceKeeps, FilterChunksKeeps,
     HydrateKeeps, FuseKeeps, RespondKeeps
     DEF Call
<1>3. CASE Ingest
  BY <1>3, IngestKeeps
<1> QED
  BY <1>1, <1>2, <1>3 DEF Next

LEMMA PagingInvHolds == Spec => []PagingInv
  BY PagingInit, PagingStep, PTL DEF Spec

-----------------------------------------------------------------------------
(* The theorems *)

\* Every list a call or a session holds is a list of chunks and a cursor that
\* is handed out points past the first hit, in all three modes.
THEOREM PagingTypeOK == Spec => []TypeOK
<1>1. PagingInv => TypeOK
  BY DEF PagingInv, Typed
<1> QED
  BY <1>1, PagingInvHolds, PTL

\* search_with_opts with one retriever, for any corpus, filter, page sizes,
\* budget cuts and any interleaving with an ingesting process: while a cursor
\* is accepted and no run is under way, the pages so far are the beginning of
\* one unlimited search.
THEOREM PagesAlwaysTile == Spec => []PagesTile
<1>1. PagingInv => PagesTile
  <2> SUFFICES ASSUME PagingInv, mode # "hybrid", cursor # NoCursor, Current(cursor.rev)
               PROVE  served = Take(Answer, cursor.offset)
    BY DEF PagesTile
  <2>1. cursor.offset <= Len(Answer) /\ served = SubSeq(Answer, 1, cursor.offset)
    BY DEF PagingInv, Held
  <2>2. cursor.offset \in Nat /\ Len(Answer) \in Nat
    BY AnswerIsList DEF PagingInv, Typed, TypeOK
  <2> QED
    BY <2>1, <2>2 DEF Take, Smaller
<1> QED
  BY <1>1, PagingInvHolds, PTL

\* And a null next_cursor, with no more rows dropped behind the fetch than the
\* over-fetch of PATH_GLOB_OVERFETCH or of the vector store makes up for, means
\* that the client holds every hit.
THEOREM NullIsTheEnd == Spec => []NullMeansNoMore
<1>1. PagingInv => NullMeansNoMore
  <2> SUFFICES ASSUME PagingInv, mode # "hybrid", client = "done", Current(at), Lost <= Spare
               PROVE  Len(served) = Len(Answer)
    BY DEF NullMeansNoMore, Lost, Spare
  <2> QED
    BY DEF PagingInv, Held
<1> QED
  BY <1>1, PagingInvHolds, PTL

\* With one retriever no hit is served twice in a session over one state of the
\* corpus; with both it may be (run hybrid_pages).
THEOREM OneRetrieverNeverRepeats == Spec => [](mode # "hybrid" => NoRepeat)
<1>1. PagingInv => (mode # "hybrid" => NoRepeat)
  <2> SUFFICES ASSUME PagingInv, mode # "hybrid", cursor # NoCursor, Current(cursor.rev),
                      NEW i \in DOMAIN served, NEW j \in DOMAIN served, served[i] = served[j]
               PROVE  i = j
    BY DEF NoRepeat
  <2>1. cursor.offset <= Len(Answer) /\ served = SubSeq(Answer, 1, cursor.offset)
    BY DEF PagingInv, Held
  <2>2. /\ cursor.offset \in Nat /\ Answer \in Seq(Chunks) /\ Len(Answer) \in Nat
        /\ Distinct(Answer)
    BY AnswerIsList DEF PagingInv, Typed, TypeOK
  <2> DEFINE o == cursor.offset
             a == Answer
  <2> HIDE DEF o, a
  <2>3. /\ o \in Nat /\ a \in Seq(Chunks) /\ Len(a) \in Nat /\ Distinct(a) /\ o <= Len(a)
        /\ served = SubSeq(a, 1, o)
    BY <2>1, <2>2 DEF o, a
  <2>4. i \in 1..Len(a) /\ j \in 1..Len(a) /\ served[i] = a[i] /\ served[j] = a[j]
    BY <2>3
  <2> QED
    BY <2>3, <2>4 DEF Distinct
<1> QED
  BY <1>1, PagingInvHolds, PTL

\* fuse_with_inputs: of two hits of one page, the one that no retriever puts
\* below the other comes first, for any two lists, rrf_k and page size.
THEOREM FusionAlwaysAgrees == Spec => []FusionAgrees
<1>1. PagingInv => FusionAgrees
  <2> SUFFICES ASSUME PagingInv, mode = "hybrid", NEW i \in DOMAIN Hits, NEW j \in DOMAIN Hits,
                      j < i
               PROVE  ~(NeverBelow(lex, Hits[i], Hits[j]) /\ NeverBelow(vec, Hits[i], Hits[j]))
    BY DEF FusionAgrees
  <2>1. Hits = Fused(offset + k)
    BY DEF Hits
  <2>2. lex \in Seq(Chunks) /\ vec \in Seq(Chunks) /\ offset + k \in Nat
    BY CallTyped
  <2>3. /\ InOrder(Fused(offset + k))
        /\ \A l \in DOMAIN Fused(offset + k) : Fused(offset + k)[l] \in Either
    BY <2>2, FusedIsSorted
  <2>4. Hits[i] \in Either /\ Hits[j] \in Either /\ Ahead(Hits[j], Hits[i])
    BY <2>1, <2>3 DEF InOrder
  <2> QED
    BY <2>2, <2>4, FusedAgrees
<1> QED
  BY <1>1, PagingInvHolds, PTL

=============================================================================
