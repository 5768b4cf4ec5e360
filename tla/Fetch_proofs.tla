----------------------------- MODULE Fetch_proofs -----------------------------
(***************************************************************************)
(* What is read back is what is stored (Fetch): proved for every store,    *)
(* whatever blocks its documents have, every request, budget and number of *)
(* neighbours, and any writes of another process between the statements.   *)
(* First the lines of a text and what a budget leaves of them, then the    *)
(* Markdown of the blocks, the chunks around one, the counts; then the     *)
(* invariant, one lemma per action.                                        *)
(***************************************************************************)
EXTENDS Fetch, Lists_proofs

-----------------------------------------------------------------------------
(* Fetch: the lines of a text *)

NewLines(chars) == {i \in DOMAIN chars : chars[i] = "nl"}
BreaksOf(chars) == Picked([i \in DOMAIN chars |-> i], NewLines(chars))
Before(chars, p) == Cardinality({j \in 1 .. p - 1 : chars[j] = "nl"})

\* The newlines of a text and those before a position are counted.
LEMMA BreaksCounted ==
  ASSUME NEW chars \in Seq(Chars)
  PROVE  /\ DOMAIN chars = 1..Len(chars) /\ Len(chars) \in Nat
         /\ NewLines(chars) \in SUBSET (1..Len(chars))
         /\ Cardinality(NewLines(chars)) \in Nat
         /\ \A p \in 1 .. Len(chars) + 1 :
              Before(chars, p) \in Nat /\ Before(chars, p) <= Cardinality(NewLines(chars))
<1>1. DOMAIN chars = 1..Len(chars) /\ Len(chars) \in Nat
  BY LenProperties
<1>2. NewLines(chars) \in SUBSET (1..Len(chars))
  BY <1>1 DEF NewLines
<1>3. IsFiniteSet(NewLines(chars)) /\ Cardinality(NewLines(chars)) \in Nat
  BY <1>1, <1>2, Ranks
<1>4. ASSUME NEW p \in 1 .. Len(chars) + 1
      PROVE  Before(chars, p) \in Nat /\ Before(chars, p) <= Cardinality(NewLines(chars))
  <2>1. {j \in 1 .. p - 1 : chars[j] = "nl"} \subseteq NewLines(chars)
    BY <1>1 DEF NewLines
  <2> QED
    BY <1>3, <2>1, FS_Subset, FS_CardinalityType DEF Before
<1> QED
  BY <1>1, <1>2, <1>3, <1>4

\* The k-th newline lies before a position if k newlines do.
LEMMA BreakBefore ==
  ASSUME NEW chars \in Seq(Chars), NEW k \in 1..Cardinality(NewLines(chars))
  PROVE  /\ BreaksOf(chars)[k] \in NewLines(chars)
         /\ \A p \in 1 .. Len(chars) + 1 : BreaksOf(chars)[k] < p <=> k <= Before(chars, p)
         /\ Before(chars, BreaksOf(chars)[k] + 1) = k
<1> DEFINE n  == Len(chars)
           at == NewLines(chars)
           id == [i \in DOMAIN chars |-> i]
<1>1. DOMAIN chars = 1..n /\ n \in Nat /\ at \in SUBSET (1..n) /\ Cardinality(at) \in Nat
  BY BreaksCounted
<1>2. IsFiniteSet(at)
  BY <1>1, Ranks
<1>3. PICK i \in at : Rank(at, i) = k
  BY <1>1, Ranks
<1>4. Picked(id, at)[k] = id[i]
  <2> HIDE DEF at, id
  <2> QED
    BY <1>1, <1>3, PickedAtRank
<1>5. BreaksOf(chars)[k] = i
  BY <1>1, <1>3, <1>4 DEF BreaksOf
<1>6. i \in 1..n /\ k \in Nat
  BY <1>1
<1>7. ASSUME NEW p \in 1 .. n + 1
      PROVE  i < p <=> k <= Before(chars, p)
  <2> DEFINE under == {j \in 1 .. p - 1 : chars[j] = "nl"}
             upto  == {j \in at : j <= i}
  <2>1. under \in SUBSET at /\ upto \in SUBSET at
    BY <1>1 DEF NewLines
  <2>2. IsFiniteSet(under) /\ IsFiniteSet(upto) /\ Cardinality(under) \in Nat /\ Cardinality(upto) = k
    BY <1>2, <1>3, <2>1, FS_Subset, FS_CardinalityType DEF Rank
  <2>3. CASE i < p
    <3>1. upto \subseteq under
      BY <1>1, <1>6, <2>3 DEF NewLines
    <3> QED
      BY <2>2, <2>3, <3>1, FS_Subset DEF Before
  <2>4. CASE ~(i < p)
    <3>1. under \subseteq upto /\ i \in upto /\ i \notin under
      BY <1>1, <1>3, <1>6, <2>4 DEF NewLines
    <3>2. under # upto
      BY <3>1
    <3>3. Cardinality(under) < Cardinality(upto)
      <4> HIDE DEF under, upto
      <4> QED
        BY <2>2, <3>1, <3>2, FS_Subset
    <3> QED
      BY <2>2, <2>4, <3>3 DEF Before
  <2> QED
    BY <2>3, <2>4
<1>8. Before(chars, i + 1) = k
  <2>1. {j \in 1 .. (i + 1) - 1 : chars[j] = "nl"} = {j \in at : j <= i}
    BY <1>1, <1>6 DEF NewLines
  <2> QED
    BY <1>3, <2>1 DEF Before, Rank
<1> QED
  BY <1>3, <1>5, <1>7, <1>8

\* One position further there is one newline more, or none.
LEMMA BeforeNext ==
  ASSUME NEW chars, NEW p \in Nat \ {0}
  PROVE  /\ Before(chars, 1) = 0
         /\ Before(chars, p) \in Nat
         /\ Before(chars, p + 1) = Before(chars, p) + (IF chars[p] = "nl" THEN 1 ELSE 0)
<1> DEFINE under == {j \in 1 .. p - 1 : chars[j] = "nl"}
<1>1. Before(chars, 1) = 0
  <2>1. {j \in 1 .. 1 - 1 : chars[j] = "nl"} = {}
    OBVIOUS
  <2> QED
    BY <2>1, FS_EmptySet DEF Before
<1>2. IsFiniteSet(under) /\ Cardinality(under) \in Nat
  <2>1. IsFiniteSet(1 .. p - 1)
    BY FS_Interval
  <2> QED
    BY <2>1, FS_Subset, FS_CardinalityType
<1>3. {j \in 1 .. (p + 1) - 1 : chars[j] = "nl"} = IF chars[p] = "nl" THEN under \cup {p} ELSE under
  OBVIOUS
<1>4. p \notin under
  OBVIOUS
<1>5. Cardinality(under \cup {p}) = Cardinality(under) + 1
  <2> HIDE DEF under
  <2> QED
    BY <1>2, <1>4, FS_AddElement
<1> QED
  BY <1>1, <1>2, <1>3, <1>5 DEF Before

From(chars, k) == IF k = 1 THEN 1 ELSE BreaksOf(chars)[k - 1] + 1
To(chars, k) == IF k <= Cardinality(NewLines(chars)) THEN BreaksOf(chars)[k] - 1 ELSE Len(chars)

\* There is one segment more than there are newlines.
LEMMA SegmentsAre ==
  ASSUME NEW chars \in Seq(Chars)
  PROVE  /\ Segments(chars) = [k \in 1 .. Cardinality(NewLines(chars)) + 1 |-> <<From(chars, k), To(chars, k)>>]
         /\ Len(Segments(chars)) = Cardinality(NewLines(chars)) + 1
<1> DEFINE id == [i \in DOMAIN chars |-> i]
           c  == Cardinality(NewLines(chars))
<1>1. DOMAIN chars = 1..Len(chars) /\ Len(chars) \in Nat /\ NewLines(chars) \in SUBSET (1..Len(chars)) /\ c \in Nat
  BY BreaksCounted
<1>2. Len(id) = Len(chars)
  BY <1>1, LenProperties
<1>3. {i \in 1..Len(id) : id[i] \in {j \in DOMAIN chars : chars[j] = "nl"}} = NewLines(chars)
  BY <1>1, <1>2 DEF NewLines
<1>4. OnlyIn(id, {i \in DOMAIN chars : chars[i] = "nl"}) = BreaksOf(chars)
  BY <1>3 DEF OnlyIn, BreaksOf
<1>5. Len(BreaksOf(chars)) = c
  BY <1>1, PickedFromThere DEF BreaksOf
<1>6. Segments(chars) = [k \in 1 .. c + 1 |-> <<From(chars, k), To(chars, k)>>]
  <2> HIDE DEF id
  <2>1. Segments(chars) =
          [k \in 1 .. Len(BreaksOf(chars)) + 1 |->
             <<IF k = 1 THEN 1 ELSE BreaksOf(chars)[k - 1] + 1,
               IF k <= Len(BreaksOf(chars)) THEN BreaksOf(chars)[k] - 1 ELSE Len(chars)>>]
    BY <1>4 DEF Segments, id
  <2> QED
    BY <2>1, <1>5 DEF From, To
<1>7. Len(Segments(chars)) = c + 1
  BY <1>1, <1>6, LenProperties
<1> QED
  BY <1>6, <1>7

\* A segment is an interval of the text, and a position is in the segment its row counts.
LEMMA SegmentHolds ==
  ASSUME NEW chars \in Seq(Chars), NEW k \in 1 .. Cardinality(NewLines(chars)) + 1
  PROVE  /\ From(chars, k) \in 1 .. Len(chars) + 1
         /\ To(chars, k) \in From(chars, k) - 1 .. Len(chars)
         /\ Before(chars, From(chars, k)) = k - 1
         /\ \A p \in 1 .. Len(chars) :
              /\ From(chars, k) <= p <=> k <= 1 + Before(chars, p)
              /\ chars[p] # "nl" => (p <= To(chars, k) <=> 1 + Before(chars, p) <= k)
<1> DEFINE n == Len(chars)
           c == Cardinality(NewLines(chars))
<1>1. /\ n \in Nat /\ NewLines(chars) \in SUBSET (1..n) /\ c \in Nat
      /\ \A p \in 1 .. n + 1 : Before(chars, p) \in Nat /\ Before(chars, p) <= c
      /\ \A p \in 1..n : chars[p] = "nl" <=> p \in NewLines(chars)
  BY BreaksCounted DEF NewLines
<1>2. ASSUME NEW j \in 1..c
      PROVE  /\ BreaksOf(chars)[j] \in 1..n
             /\ chars[BreaksOf(chars)[j]] = "nl"
             /\ Before(chars, BreaksOf(chars)[j] + 1) = j
             /\ \A p \in 1 .. n + 1 : BreaksOf(chars)[j] < p <=> j <= Before(chars, p)
  BY <1>1, BreakBefore DEF NewLines
<1>3. k \in Nat /\ (k # 1 => k - 1 \in 1..c)
  BY <1>1
<1> DEFINE at == From(chars, k)
<1>4. /\ at \in 1 .. n + 1 /\ Before(chars, at) = k - 1
      /\ \A p \in 1..n : at <= p <=> k <= 1 + Before(chars, p)
  <2>1. CASE k = 1
    <3>1. Before(chars, 1) = 0
      BY BeforeNext, 1 \in Nat \ {0}
    <3> QED
      BY <1>1, <2>1, <3>1 DEF From
  <2>2. CASE k # 1
    <3>1. k - 1 \in 1..c /\ at = BreaksOf(chars)[k - 1] + 1
      BY <1>3, <2>2 DEF From
    <3>2. at \in 1 .. n + 1 /\ Before(chars, at) = k - 1
      BY <1>1, <1>2, <3>1
    <3>3. ASSUME NEW p \in 1..n PROVE at <= p <=> k <= 1 + Before(chars, p)
      <4>1. BreaksOf(chars)[k - 1] < p <=> k - 1 <= Before(chars, p)
        BY <1>1, <1>2, <3>1
      <4>2. BreaksOf(chars)[k - 1] \in Nat /\ Before(chars, p) \in Nat
        BY <1>1, <1>2, <3>1
      <4> QED
        BY <3>1, <4>1, <4>2, <1>3
    <3> QED
      BY <3>2, <3>3
  <2> QED
    BY <2>1, <2>2
<1>5. To(chars, k) \in at - 1 .. n
  <2>1. CASE k <= c
    <3>1. k \in 1..c /\ To(chars, k) = BreaksOf(chars)[k] - 1
      BY <1>3, <2>1 DEF To
    <3>2. BreaksOf(chars)[k] \in 1..n /\ Before(chars, BreaksOf(chars)[k] + 1) = k
      BY <1>2, <3>1
    <3>3. at <= BreaksOf(chars)[k] 
      <4>1. SUFFICES k <= 1 + Before(chars, BreaksOf(chars)[k])
        BY <1>4, <3>2
      <4> DEFINE b == BreaksOf(chars)[k]
      <4>2. b \in Nat \ {0}
        BY <1>1, <3>2
      <4>3. Before(chars, b) \in Nat /\ Before(chars, b + 1) <= Before(chars, b) + 1
        <5> HIDE DEF b
        <5>1. /\ Before(chars, b) \in Nat
              /\ Before(chars, b + 1) = Before(chars, b) + (IF chars[b] = "nl" THEN 1 ELSE 0)
          BY <4>2, BeforeNext
        <5> QED
          BY <5>1
      <4> QED
        BY <3>2, <4>3, <1>3
    <3> QED
      BY <1>1, <1>4, <3>1, <3>2, <3>3
  <2>2. CASE ~(k <= c)
    BY <1>1, <1>4, <2>2 DEF To
  <2> QED
    BY <2>1, <2>2
<1>6. ASSUME NEW p \in 1..n, chars[p] # "nl"
      PROVE  p <= To(chars, k) <=> 1 + Before(chars, p) <= k
  <2>1. CASE k <= c
    <3>1. k \in 1..c /\ To(chars, k) = BreaksOf(chars)[k] - 1
      BY <1>3, <2>1 DEF To
    <3>2. BreaksOf(chars)[k] \in 1..n /\ BreaksOf(chars)[k] # p
          /\ (BreaksOf(chars)[k] < p <=> k <= Before(chars, p))
      BY <1>1, <1>2, <1>6, <3>1
    <3>3. Before(chars, p) \in Nat /\ p \in Nat /\ BreaksOf(chars)[k] \in Nat
      BY <1>1, <3>2
    <3> QED
      BY <1>3, <3>1, <3>2, <3>3
  <2>2. CASE ~(k <= c)
    <3>1. k = c + 1 /\ To(chars, k) = n
      BY <1>1, <2>2 DEF To
    <3> QED
      BY <1>1, <3>1
  <2> QED
    BY <2>1, <2>2
<1> QED
  BY <1>4, <1>5, <1>6

\* The lines are the segments, without an empty last one.
LEMMA LinesAre ==
  ASSUME NEW chars \in Seq(Chars)
  PROVE  LET c == Cardinality(NewLines(chars))
             l == Len(LinesOf(chars))
         IN /\ c \in Nat
            /\ l = IF To(chars, c + 1) < From(chars, c + 1) THEN c ELSE c + 1
            /\ \A k \in 1..l : LinesOf(chars)[k] = <<From(chars, k), To(chars, k)>>
            /\ \A p \in 1 .. Len(chars) : chars[p] # "nl" => 1 + Before(chars, p) <= l
<1> DEFINE c   == Cardinality(NewLines(chars))
           all == Segments(chars)
           l   == Len(LinesOf(chars))
<1>1. /\ Len(chars) \in Nat /\ c \in Nat
      /\ \A p \in 1 .. Len(chars) + 1 : Before(chars, p) \in Nat /\ Before(chars, p) <= c
  BY BreaksCounted
<1>2. all = [k \in 1 .. c + 1 |-> <<From(chars, k), To(chars, k)>>] /\ Len(all) = c + 1
  BY SegmentsAre
<1>3. all[Len(all)] = <<From(chars, c + 1), To(chars, c + 1)>>
  BY <1>1, <1>2
<1>4. LinesOf(chars) = IF To(chars, c + 1) < From(chars, c + 1) THEN SubSeq(all, 1, c) ELSE all
  <2>1. LinesOf(chars) = IF all[Len(all)][2] < all[Len(all)][1] THEN SubSeq(all, 1, Len(all) - 1) ELSE all
    BY DEF LinesOf
  <2>2. Len(all) - 1 = c
    BY <1>1, <1>2
  <2>3. all[Len(all)][2] = To(chars, c + 1) /\ all[Len(all)][1] = From(chars, c + 1)
    BY <1>3
  <2> QED
    BY <2>1, <2>2, <2>3
<1>5. Len(SubSeq(all, 1, c)) = c /\ \A i \in 1..c : SubSeq(all, 1, c)[i] = all[i]
  <2> DEFINE S == {all[i] : i \in 1 .. c + 1}
  <2>1. \A i \in 1..c : all[i] \in S
    BY <1>1
  <2>2. Len(SubSeq(all, 1, c)) = IF 1 <= c THEN c - 1 + 1 ELSE 0
    <3> HIDE DEF S, all, c
    <3> QED
      BY <1>1, <2>1, SubSeqProperties, 1 \in Int, c \in Int
  <2>3. \A i \in 1 .. c - 1 + 1 : SubSeq(all, 1, c)[i] = all[1 + i - 1]
    <3> HIDE DEF S, all, c
    <3> QED
      BY <1>1, <2>1, SubSeqProperties, 1 \in Int, c \in Int
  <2> QED
    BY <1>1, <2>2, <2>3
<1>6. /\ l = IF To(chars, c + 1) < From(chars, c + 1) THEN c ELSE c + 1
      /\ \A k \in 1..l : LinesOf(chars)[k] = <<From(chars, k), To(chars, k)>>
  <2>1. CASE To(chars, c + 1) < From(chars, c + 1)
    <3>1. LinesOf(chars) = SubSeq(all, 1, c) /\ l = c
      BY <1>4, <1>5, <2>1
    <3> QED
      BY <1>1, <1>2, <1>5, <2>1, <3>1
  <2>2. CASE ~(To(chars, c + 1) < From(chars, c + 1))
    BY <1>1, <1>2, <1>4, <2>2
  <2> QED
    BY <2>1, <2>2
<1>7. ASSUME NEW p \in 1 .. Len(chars), chars[p] # "nl"
      PROVE  1 + Before(chars, p) <= l
  <2>1. Before(chars, p) \in Nat /\ Before(chars, p) <= c
    BY <1>1
  <2>2. CASE To(chars, c + 1) < From(chars, c + 1)
    <3>1. c + 1 \in 1 .. c + 1
      BY <1>1
    <3>2. /\ From(chars, c + 1) \in 1 .. Len(chars) + 1 /\ To(chars, c + 1) \in From(chars, c + 1) - 1 .. Len(chars)
          /\ From(chars, c + 1) <= p <=> c + 1 <= 1 + Before(chars, p)
          /\ p <= To(chars, c + 1) <=> 1 + Before(chars, p) <= c + 1
      BY <1>7, <3>1, SegmentHolds
    <3> QED
      BY <1>1, <1>6, <2>1, <2>2, <3>2
  <2>3. CASE ~(To(chars, c + 1) < From(chars, c + 1))
    BY <1>1, <1>6, <2>1, <2>3
  <2> QED
    BY <2>2, <2>3
<1> QED
  BY <1>1, <1>6, <1>7

\* Further on there are no fewer newlines before.
LEMMA BeforeGrows ==
  ASSUME NEW chars \in Seq(Chars), NEW p \in 1 .. Len(chars) + 1, NEW q \in 1 .. Len(chars) + 1, p <= q
  PROVE  Before(chars, p) <= Before(chars, q)
<1> DEFINE A == {j \in 1 .. p - 1 : chars[j] = "nl"}
           B == {j \in 1 .. q - 1 : chars[j] = "nl"}
<1>1. p \in Nat /\ q \in Nat
  BY LenProperties
<1>2. A \subseteq B
  BY <1>1
<1>3. IsFiniteSet(B)
  <2>1. IsFiniteSet(1 .. q - 1)
    BY <1>1, FS_Interval
  <2> QED
    BY <2>1, FS_Subset
<1>4. Cardinality(A) <= Cardinality(B)
  <2> HIDE DEF A, B
  <2> QED
    BY <1>2, <1>3, FS_Subset
<1> QED
  BY <1>4 DEF Before

\* The newlines of a part of a text.
LEMMA PartOfText ==
  ASSUME NEW chars \in Seq(Chars), NEW lo \in 1 .. Len(chars) + 1, NEW m \in Nat, lo + m - 1 <= Len(chars)
  PROVE  LET sub == SubSeq(chars, lo, lo + m - 1)
         IN /\ sub \in Seq(Chars) /\ Len(sub) = m
            /\ \A q \in 1..m : sub[q] = chars[lo + q - 1]
            /\ \A q \in 1 .. m + 1 : Before(chars, lo + q - 1) = Before(chars, lo) + Before(sub, q)
<1> DEFINE sub == SubSeq(chars, lo, lo + m - 1)
<1>1. Len(chars) \in Nat /\ lo \in Nat \ {0} /\ lo + m - 1 \in Int
      /\ \A i \in lo .. lo + m - 1 : chars[i] \in Chars
  BY LenProperties
<1>2. sub \in Seq(Chars) /\ Len(sub) = m /\ \A q \in 1..m : sub[q] = chars[lo + q - 1]
  <2> DEFINE hi == lo + m - 1
  <2>1. hi \in Int /\ lo \in Int /\ hi - lo + 1 = m
    BY <1>1
  <2> HIDE DEF hi
  <2>2. /\ SubSeq(chars, lo, hi) \in Seq(Chars)
        /\ Len(SubSeq(chars, lo, hi)) = IF lo <= hi THEN hi - lo + 1 ELSE 0
        /\ \A i \in 1 .. hi - lo + 1 : SubSeq(chars, lo, hi)[i] = chars[lo + i - 1]
    <3>1. \A i \in lo .. hi : chars[i] \in Chars
      BY <1>1 DEF hi
    <3> QED
      BY <2>1, <3>1, SubSeqProperties
  <2>3. (IF lo <= hi THEN hi - lo + 1 ELSE 0) = m
    BY <1>1, <2>1
  <2> QED
    BY <2>1, <2>2, <2>3 DEF hi
<1> HIDE DEF sub
<1> DEFINE T == {k \in Nat : k <= m => Before(chars, lo + k) = Before(chars, lo) + Before(sub, k + 1)}
<1>3. 0 \in T
  <2>1. Before(chars, lo) \in Nat /\ Before(sub, 1) = 0
    <3>1. 1 \in Nat \ {0}
      OBVIOUS
    <3> QED
      BY <1>1, <3>1, BeforeNext
  <2> QED
    BY <1>1, <2>1
<1>4. ASSUME NEW k \in Nat, k \in T
      PROVE  k + 1 \in T
  <2> SUFFICES ASSUME k + 1 <= m
               PROVE  Before(chars, lo + (k + 1)) = Before(chars, lo) + Before(sub, (k + 1) + 1)
    OBVIOUS
  <2>1. Before(chars, lo + k) = Before(chars, lo) + Before(sub, k + 1)
    BY <1>4
  <2>2. sub[k + 1] = chars[lo + k]
    <3>1. k + 1 \in 1..m /\ lo + (k + 1) - 1 = lo + k
      BY <1>1
    <3> QED
      BY <1>2, <3>1
  <2>3. /\ Before(chars, lo + k) \in Nat
        /\ Before(chars, (lo + k) + 1) = Before(chars, lo + k) + (IF chars[lo + k] = "nl" THEN 1 ELSE 0)
    <3>1. lo + k \in Nat \ {0}
      BY <1>1
    <3> QED
      BY <3>1, BeforeNext
  <2>4. /\ Before(sub, k + 1) \in Nat
        /\ Before(sub, (k + 1) + 1) = Before(sub, k + 1) + (IF sub[k + 1] = "nl" THEN 1 ELSE 0)
    <3>1. k + 1 \in Nat \ {0}
      OBVIOUS
    <3> QED
      BY <3>1, BeforeNext
  <2>5. Before(chars, lo) \in Nat
    BY <1>1, BeforeNext
  <2>6. lo + (k + 1) = (lo + k) + 1
    BY <1>1
  <2> QED
    BY <2>1, <2>2, <2>3, <2>4, <2>5, <2>6
<1>5. \A k \in Nat : k \in T
  <2> HIDE DEF T
  <2> QED
    BY <1>3, <1>4, NatSets
<1>6. ASSUME NEW q \in 1 .. m + 1
      PROVE  Before(chars, lo + q - 1) = Before(chars, lo) + Before(sub, q)
  <2>1. q - 1 \in Nat /\ q - 1 <= m /\ lo + (q - 1) = lo + q - 1 /\ (q - 1) + 1 = q
    BY <1>1
  <2>2. q - 1 \in T
    BY <1>5, <2>1
  <2> QED
    BY <2>1, <2>2
<1> QED
  BY <1>2, <1>6 DEF sub

\* The end of a part that is not empty is on its last line, unless the part ends with a newline.
LEMMA EndOfPart ==
  ASSUME NEW sub \in Seq(Chars)
  PROVE  LET l == Len(LinesOf(sub))
             m == Len(sub)
         IN /\ l \in Nat /\ m \in Nat
            /\ l <= 1 + Before(sub, m + 1)
            /\ l # 1 + Before(sub, m + 1) => l = Before(sub, m + 1)
            /\ m = 0 => l = 0
            /\ m > 0 => l >= 1
            /\ (m > 0 /\ l = 1 + Before(sub, m + 1)) => sub[m] # "nl" /\ 1 + Before(sub, m) = l
<1> DEFINE c == Cardinality(NewLines(sub))
           l == Len(LinesOf(sub))
           m == Len(sub)
<1>1. /\ m \in Nat /\ c \in Nat
      /\ \A p \in 1 .. m + 1 : Before(sub, p) \in Nat /\ Before(sub, p) <= c
  BY BreaksCounted
<1>2. l = IF To(sub, c + 1) < From(sub, c + 1) THEN c ELSE c + 1
  BY LinesAre
<1>3. Before(sub, m + 1) = c
  <2>1. {j \in 1 .. (m + 1) - 1 : sub[j] = "nl"} = NewLines(sub)
    BY <1>1, BreaksCounted DEF NewLines
  <2> QED
    BY <2>1 DEF Before
<1>4. /\ To(sub, c + 1) = m
      /\ From(sub, c + 1) \in 1 .. m + 1 /\ Before(sub, From(sub, c + 1)) = c
  <2>1. c + 1 \in 1 .. c + 1
    BY <1>1
  <2>2. From(sub, c + 1) \in 1 .. m + 1 /\ Before(sub, From(sub, c + 1)) = (c + 1) - 1
    <3> DEFINE k == c + 1
    <3> HIDE DEF k
    <3>1. k \in 1 .. Cardinality(NewLines(sub)) + 1
      BY <2>1 DEF k
    <3>2. From(sub, k) \in 1 .. m + 1 /\ Before(sub, From(sub, k)) = k - 1
      BY <3>1, SegmentHolds
    <3> QED
      BY <3>2 DEF k
  <2> QED
    BY <1>1, <2>2 DEF To
<1>5. m = 0 => l = 0
  <2> SUFFICES ASSUME m = 0 PROVE l = 0
    OBVIOUS
  <2>1. From(sub, c + 1) = 1
    BY <1>4
  <2>2. Before(sub, 1) = 0
    <3>1. 1 \in Nat \ {0}
      OBVIOUS
    <3> QED
      BY <3>1, BeforeNext
  <2> QED
    BY <1>2, <1>4, <2>1, <2>2
<1>6. ASSUME m > 0 PROVE l >= 1
  <2> SUFFICES ASSUME c = 0 PROVE To(sub, c + 1) >= From(sub, c + 1)
    BY <1>1, <1>2, <1>4
  <2>1. From(sub, c + 1) = 1
    BY DEF From
  <2> QED
    BY <1>1, <1>4, <1>6, <2>1
<1>7. ASSUME m > 0, l = 1 + c PROVE sub[m] # "nl" /\ 1 + Before(sub, m) = l
  <2>1. From(sub, c + 1) <= m
    BY <1>1, <1>2, <1>4, <1>7
  <2>2. m \in 1 .. m /\ c + 1 \in 1 .. c + 1 /\ m \in Nat \ {0}
    BY <1>1, <1>7
  <2>3. c + 1 <= 1 + Before(sub, m)
    BY <2>1, <2>2, SegmentHolds
  <2>4. Before(sub, m + 1) = Before(sub, m) + (IF sub[m] = "nl" THEN 1 ELSE 0) /\ Before(sub, m) \in Nat
    BY <2>2, BeforeNext
  <2> QED
    BY <1>1, <1>3, <1>7, <2>3, <2>4
<1> QED
  BY <1>1, <1>2, <1>3, <1>5, <1>6, <1>7

\* The size of an interval of a text.
LEMMA SizeOfInterval ==
  ASSUME NEW lo \in Int, NEW hi \in Int
  PROVE  Cardinality(lo .. hi) = IF lo > hi THEN 0 ELSE hi - lo + 1
BY FS_Interval

\* What is visible of m characters of a text from lo on, where line from begins, and the line they end on.
CutShown(chars, from, lo, m, e) ==
  /\ e \in Nat
  /\ m > 0 => e >= from
  /\ \A p \in 1 .. Len(chars) : (chars[p] # "nl" /\ p \in lo .. lo + m - 1) => 1 + Before(chars, p) \in from .. e
  /\ \A p \in 1 .. Len(chars) :
       (chars[p] # "nl" /\ p \notin lo .. lo + m - 1 /\ 1 + Before(chars, p) \in from .. e) =>
         /\ 1 + Before(chars, p) = e
         /\ \E q \in 1 .. Len(chars) : chars[q] # "nl" /\ q \in lo .. lo + m - 1 /\ 1 + Before(chars, q) = e

LineBegins(chars, from, lo) ==
  /\ Before(chars, lo) = from - 1
  /\ \A p \in 1 .. Len(chars) : lo <= p <=> from <= 1 + Before(chars, p)

LEMMA CutHolds ==
  ASSUME NEW chars \in Seq(Chars), NEW from \in Nat \ {0}, NEW lo \in Nat \ {0}, LineBegins(chars, from, lo),
         NEW m \in Nat, lo + m <= Len(chars),
         NEW e \in Int, e = from - 1 + Len(LinesOf(SubSeq(chars, lo, lo + m - 1)))
  PROVE  CutShown(chars, from, lo, m, e)
<1> DEFINE n   == Len(chars)
           sub == SubSeq(chars, lo, lo + m - 1)
           l   == Len(LinesOf(sub))
<1>1. n \in Nat /\ \A p \in 1 .. n + 1 : Before(chars, p) \in Nat
  BY BreaksCounted
<1>3. /\ lo \in 1 .. n + 1 /\ Before(chars, lo) = from - 1
      /\ \A p \in 1..n : lo <= p <=> from <= 1 + Before(chars, p)
  BY <1>1 DEF LineBegins
<1>4. /\ sub \in Seq(Chars) /\ Len(sub) = m
      /\ \A q \in 1..m : sub[q] = chars[lo + q - 1]
      /\ \A q \in 1 .. m + 1 : Before(chars, lo + q - 1) = Before(chars, lo) + Before(sub, q)
  <2>1. lo + m - 1 <= n
    BY <1>1, <1>3
  <2> QED
    BY <1>3, <2>1, PartOfText
<1>5. /\ \A q \in 1 .. m + 1 : Before(sub, q) \in Nat
      /\ \A q \in 1 .. m : sub[q] # "nl" => 1 + Before(sub, q) <= l
  <2> HIDE DEF sub
  <2> QED
    BY <1>4, BreaksCounted, LinesAre
<1>6. /\ l \in Nat /\ l <= 1 + Before(sub, m + 1)
      /\ l # 1 + Before(sub, m + 1) => l = Before(sub, m + 1)
      /\ m = 0 => l = 0
      /\ m > 0 => l >= 1
      /\ (m > 0 /\ l = 1 + Before(sub, m + 1)) => sub[m] # "nl" /\ 1 + Before(sub, m) = l
  <2> HIDE DEF sub
  <2> QED
    BY <1>4, EndOfPart
<1>7. e = from - 1 + l /\ e \in Nat /\ (m > 0 => e >= from)
  BY <1>3, <1>6
<1> HIDE DEF sub, l, n
<1>9. ASSUME NEW p \in 1..n, chars[p] # "nl", p \in lo .. lo + m - 1
      PROVE  1 + Before(chars, p) \in from .. e
  <2> DEFINE q == p - lo + 1
  <2>1. p \in Nat /\ q \in 1..m /\ q \in 1 .. m + 1 /\ lo + q - 1 = p
    BY <1>1, <1>3, <1>9
  <2> HIDE DEF q
  <2>3. sub[q] # "nl"
    BY <1>4, <1>9, <2>1
  <2>4. 1 + Before(sub, q) <= l /\ Before(sub, q) \in Nat
    BY <1>5, <2>1, <2>3
  <2>5. Before(chars, p) = from - 1 + Before(sub, q)
    <3>1. Before(chars, lo + q - 1) = Before(chars, lo) + Before(sub, q)
      BY <1>4, <2>1
    <3> QED
      BY <1>3, <2>1, <3>1
  <2> QED
    BY <1>3, <1>6, <1>7, <2>4, <2>5
<1>10. ASSUME NEW p \in 1..n, chars[p] # "nl", p \notin lo .. lo + m - 1, 1 + Before(chars, p) \in from .. e
       PROVE  /\ 1 + Before(chars, p) = e
              /\ \E q \in 1..n : chars[q] # "nl" /\ q \in lo .. lo + m - 1 /\ 1 + Before(chars, q) = e
  <2>1. p \in Nat /\ Before(chars, p) \in Nat /\ p \in 1 .. n + 1
    BY <1>1
  <2>2. from <= 1 + Before(chars, p) /\ 1 + Before(chars, p) <= e
    BY <1>3, <1>7, <1>10, <2>1
  <2>3. lo <= p /\ lo + m <= p
    BY <1>3, <1>10, <2>1, <2>2
  <2>4. lo + m \in 1 .. n + 1
    BY <1>1, <1>3, <2>1, <2>3
  <2>5. Before(chars, lo + m) <= Before(chars, p)
    BY <2>1, <2>3, <2>4, BeforeGrows DEF n
  <2>6. Before(chars, lo + m) = from - 1 + Before(sub, m + 1) /\ Before(sub, m + 1) \in Nat
    <3>1. m + 1 \in 1 .. m + 1 /\ lo + (m + 1) - 1 = lo + m
      BY <1>3
    <3>2. Before(chars, lo + (m + 1) - 1) = Before(chars, lo) + Before(sub, m + 1) /\ Before(sub, m + 1) \in Nat
      BY <1>4, <1>5, <3>1
    <3> QED
      BY <1>3, <3>1, <3>2
  <2>7. l = 1 + Before(sub, m + 1) /\ 1 + Before(chars, p) = e
    <3>1. from - 1 + Before(sub, m + 1) <= Before(chars, p)
      BY <2>5, <2>6
    <3>2. 1 + Before(chars, p) <= from - 1 + l /\ l \in Nat
      BY <1>6, <1>7, <2>2
    <3>3. l # Before(sub, m + 1)
      BY <2>1, <2>6, <3>1, <3>2
    <3>4. l = 1 + Before(sub, m + 1)
      BY <1>6, <3>3
    <3>5. 1 + Before(chars, p) = from - 1 + l
      <4> DEFINE x == Before(chars, p)
                 y == Before(sub, m + 1)
      <4>1. x \in Nat /\ y \in Nat /\ from - 1 + y <= x /\ 1 + x <= from - 1 + l /\ l = 1 + y
        BY <2>1, <2>6, <3>1, <3>2, <3>4
      <4> HIDE DEF x, y
      <4>2. 1 + x = from - 1 + l
        BY <4>1
      <4> QED
        BY <4>2 DEF x
    <3> QED
      BY <1>7, <3>4, <3>5
  <2>8. m # 0
    BY <1>6, <2>6, <2>7
  <2> DEFINE q == lo + m - 1
  <2>9. m \in 1..m /\ m \in 1 .. m + 1 /\ q \in 1..n /\ q \in lo .. lo + m - 1
    BY <1>1, <1>3, <2>4, <2>8
  <2>10. sub[m] # "nl" /\ 1 + Before(sub, m) = l
    BY <1>6, <2>7, <2>8
  <2>11. chars[q] # "nl" /\ Before(chars, q) = Before(chars, lo) + Before(sub, m) /\ Before(sub, m) \in Nat
    BY <1>4, <1>5, <2>9, <2>10
  <2>12. 1 + Before(chars, q) = e
    <3> DEFINE y == Before(sub, m)
    <3>1. y \in Nat /\ Before(chars, q) = from - 1 + y /\ l = 1 + y
      BY <1>3, <2>10, <2>11
    <3> HIDE DEF y
    <3> QED
      BY <1>7, <3>1
  <2> QED
    BY <2>7, <2>9, <2>11, <2>12
<1> QED
  BY <1>3, <1>7, <1>9, <1>10 DEF n, CutShown

\* What a cut range shows, and the line it names its end.
LEMMA CutRange ==
  ASSUME NEW chars \in Seq(Chars), NEW from \in 1 .. Len(LinesOf(chars)),
         NEW m \in Nat, From(chars, from) + m <= Len(chars)
  PROVE  LET lo == From(chars, from)
             hi == lo + m - 1
             e  == from - 1 + Len(LinesOf(SubSeq(chars, lo, hi)))
         IN /\ CutShown(chars, from, lo, m, e)
            /\ Cardinality(lo .. hi) <= m
<1> DEFINE lo == From(chars, from)
           hi == lo + m - 1
           e  == from - 1 + Len(LinesOf(SubSeq(chars, lo, hi)))
<1>1. /\ Len(chars) \in Nat /\ Cardinality(NewLines(chars)) \in Nat
      /\ DOMAIN chars = 1 .. Len(chars)
  BY BreaksCounted
<1>2. from \in 1 .. Cardinality(NewLines(chars)) + 1
  <2>1. Len(LinesOf(chars)) = IF To(chars, Cardinality(NewLines(chars)) + 1) < From(chars, Cardinality(NewLines(chars)) + 1)
                              THEN Cardinality(NewLines(chars)) ELSE Cardinality(NewLines(chars)) + 1
    BY LinesAre
  <2> QED
    BY <1>1, <2>1
<1>3. /\ lo \in Nat \ {0} /\ from \in Nat \ {0} /\ Before(chars, lo) = from - 1
      /\ \A p \in 1 .. Len(chars) : lo <= p <=> from <= 1 + Before(chars, p)
  BY <1>1, <1>2, SegmentHolds
<1>4. SubSeq(chars, lo, hi) \in Seq(Chars)
  <2>1. lo \in Int /\ hi \in Int /\ hi <= Len(chars)
    BY <1>1, <1>3
  <2>2. \A i \in lo .. hi : chars[i] \in Chars
    BY <1>1, <1>3, <2>1
  <2> HIDE DEF lo, hi
  <2> QED
    BY <2>1, <2>2, SubSeqProperties
<1>5. e \in Int
  <2>1. Len(LinesOf(SubSeq(chars, lo, hi))) \in Nat
    <3> DEFINE sub == SubSeq(chars, lo, hi)
    <3> HIDE DEF sub
    <3> QED
      BY <1>4, EndOfPart DEF sub
  <2> QED
    BY <1>3, <2>1
<1>6. CutShown(chars, from, lo, m, e)
  <2>1. lo + m <= Len(chars) /\ e = from - 1 + Len(LinesOf(SubSeq(chars, lo, lo + m - 1)))
    OBVIOUS
  <2> HIDE DEF lo, e
  <2>2. lo \in Nat \ {0} /\ from \in Nat \ {0} /\ e \in Int /\ LineBegins(chars, from, lo)
    BY <1>3, <1>5 DEF LineBegins
  <2> QED
    BY <2>1, <2>2, CutHolds
<1>8. Cardinality(lo .. hi) <= m
  <2>1. lo \in Int /\ hi \in Int
    BY <1>3
  <2>2. Cardinality(lo .. hi) = IF lo > hi THEN 0 ELSE hi - lo + 1
    <3> HIDE DEF lo, hi
    <3> QED
      BY <2>1, SizeOfInterval
  <2> QED
    BY <1>3, <2>2
<1> QED
  BY <1>6, <1>8

\* A range the budget cuts.
LEMMA CutTiles ==
  ASSUME NEW chars \in Seq(Chars), NEW from \in 1 .. Len(LinesOf(chars)),
         NEW m \in Nat, From(chars, from) + m <= Len(chars),
         NEW a, a.request.from = from, a.request.tokens \in Nat, m = a.request.tokens * 4, a.truncated,
         a.text = <<From(chars, from), From(chars, from) + m - 1>>,
         a.end = from - 1 + Len(LinesOf(SubSeq(chars, a.text[1], a.text[2])))
  PROVE  SpanTiles(a, chars) /\ a.end \in Nat
<1> DEFINE lo == From(chars, from)
           hi == lo + m - 1
           e  == from - 1 + Len(LinesOf(SubSeq(chars, lo, hi)))
<1>1. Len(chars) \in Nat /\ DOMAIN chars = 1 .. Len(chars)
  BY BreaksCounted
<1>2. CutShown(chars, from, lo, m, e) /\ Cardinality(lo .. hi) <= m
  BY CutRange
<1>3. a.end = e /\ InText(a) = lo .. hi
  BY DEF InText
<1>4. m > 0 <=> a.request.tokens > 0
  OBVIOUS
<1> DEFINE visible == {p \in DOMAIN chars : chars[p] # "nl"}
<1>5. ASSUME NEW p \in 1 .. Len(chars) PROVE Row(chars, p) = 1 + Before(chars, p)
  BY DEF Row, Before
<1>6. /\ e \in Nat
      /\ m > 0 => e >= from
      /\ \A p \in 1 .. Len(chars) : (chars[p] # "nl" /\ p \in lo .. hi) => 1 + Before(chars, p) \in from .. e
      /\ \A p \in 1 .. Len(chars) :
           (chars[p] # "nl" /\ p \notin lo .. hi /\ 1 + Before(chars, p) \in from .. e) =>
             /\ 1 + Before(chars, p) = e
             /\ \E q \in 1 .. Len(chars) : chars[q] # "nl" /\ q \in lo .. hi /\ 1 + Before(chars, q) = e
  <2> HIDE DEF lo, e
  <2> QED
    BY <1>2 DEF CutShown
<1> HIDE DEF lo, hi, e
<1>7. \A p \in visible : (p \in InText(a)) => Row(chars, p) \in a.request.from .. a.end
  BY <1>1, <1>6, <1>3, <1>5
<1>8. ASSUME NEW p \in visible \ InText(a), Row(chars, p) \in a.request.from .. a.end
       PROVE  Row(chars, p) = a.end /\ \E q \in visible \cap InText(a) : Row(chars, q) = a.end
  <2>1. p \in 1 .. Len(chars) /\ chars[p] # "nl" /\ p \notin lo .. hi /\ 1 + Before(chars, p) \in from .. e
    BY <1>1, <1>3, <1>5, <1>8
  <2>2. PICK q \in 1 .. Len(chars) : chars[q] # "nl" /\ q \in lo .. hi /\ 1 + Before(chars, q) = e
    BY <1>6, <2>1
  <2>3. q \in visible \cap InText(a) /\ Row(chars, q) = a.end
    BY <1>1, <1>3, <1>5, <2>2
  <2>4. Row(chars, p) = a.end
    BY <1>6, <1>3, <1>5, <2>1
  <2> QED
    BY <2>3, <2>4
<1>9. a.end \in Nat /\ Cardinality(InText(a)) <= a.request.tokens * 4 /\ (a.request.tokens > 0 => a.end >= a.request.from)
  BY <1>2, <1>6, <1>3, <1>4
<1> QED
  BY <1>7, <1>8, <1>9 DEF SpanTiles

\* Whole lines: what is visible of them, and of a text with no such lines.
LEMMA LinesHold ==
  ASSUME NEW chars \in Seq(Chars), NEW from \in 1 .. Len(LinesOf(chars)), NEW last \in from .. Len(LinesOf(chars))
  PROVE  /\ From(chars, from) \in Nat \ {0} /\ To(chars, last) \in Nat
         /\ LinesOf(chars)[from] = <<From(chars, from), To(chars, from)>>
         /\ LinesOf(chars)[last] = <<From(chars, last), To(chars, last)>>
         /\ To(chars, last) <= Len(chars)
         /\ \A p \in 1 .. Len(chars) :
              chars[p] # "nl" => (p \in From(chars, from) .. To(chars, last) <=> 1 + Before(chars, p) \in from .. last)
<1> DEFINE c == Cardinality(NewLines(chars))
           l == Len(LinesOf(chars))
<1>1. /\ Len(chars) \in Nat /\ c \in Nat
      /\ \A p \in 1 .. Len(chars) + 1 : Before(chars, p) \in Nat
  BY BreaksCounted
<1>2. /\ l = IF To(chars, c + 1) < From(chars, c + 1) THEN c ELSE c + 1
      /\ \A k \in 1..l : LinesOf(chars)[k] = <<From(chars, k), To(chars, k)>>
  BY LinesAre
<1>3. from \in 1 .. c + 1 /\ last \in 1 .. c + 1 /\ from \in 1..l /\ last \in 1..l
      /\ from \in Nat \ {0} /\ last \in Nat \ {0}
  <2>1. l \in Nat /\ l <= c + 1
    BY <1>1, <1>2
  <2> QED
    BY <1>1, <2>1
<1>4. /\ From(chars, from) \in 1 .. Len(chars) + 1
      /\ \A p \in 1 .. Len(chars) : From(chars, from) <= p <=> from <= 1 + Before(chars, p)
  BY <1>3, SegmentHolds
<1>5. /\ From(chars, last) \in 1 .. Len(chars) + 1
      /\ To(chars, last) \in From(chars, last) - 1 .. Len(chars)
      /\ \A p \in 1 .. Len(chars) : chars[p] # "nl" => (p <= To(chars, last) <=> 1 + Before(chars, p) <= last)
  BY <1>3, SegmentHolds
<1>6. From(chars, from) \in Nat \ {0} /\ To(chars, last) \in Nat /\ To(chars, last) <= Len(chars)
  BY <1>1, <1>4, <1>5
<1>7. ASSUME NEW p \in 1 .. Len(chars), chars[p] # "nl"
      PROVE  p \in From(chars, from) .. To(chars, last) <=> 1 + Before(chars, p) \in from .. last
  <2>1. p \in Nat /\ Before(chars, p) \in Nat
    BY <1>1
  <2>2. (From(chars, from) <= p <=> from <= 1 + Before(chars, p)) /\ (p <= To(chars, last) <=> 1 + Before(chars, p) <= last)
    BY <1>4, <1>5, <1>7
  <2> QED
    BY <1>3, <1>6, <2>1, <2>2
<1> QED
  BY <1>2, <1>3, <1>6, <1>7

\* A range that fits its budget.
LEMMA WholeTiles ==
  ASSUME NEW chars \in Seq(Chars), NEW from \in 1 .. Len(LinesOf(chars)), NEW last \in from .. Len(LinesOf(chars)),
         NEW a, a.request.from = from, ~a.truncated, a.end = last,
         last < a.request.to => last = Len(LinesOf(chars)),
         a.text = <<From(chars, from), To(chars, last)>>,
         a.request.tokens # NoCap => Cardinality(From(chars, from) .. To(chars, last)) <= a.request.tokens * 4
  PROVE  SpanTiles(a, chars)
<1>1. /\ DOMAIN chars = 1 .. Len(chars)
      /\ \A p \in 1 .. Len(chars) + 1 : Before(chars, p) \in Nat
  BY BreaksCounted
<1>2. InText(a) = From(chars, from) .. To(chars, last)
  BY DEF InText
<1>3. ASSUME NEW p \in 1 .. Len(chars) PROVE Row(chars, p) = 1 + Before(chars, p)
  BY DEF Row, Before
<1> DEFINE visible == {p \in DOMAIN chars : chars[p] # "nl"}
<1>4. \A p \in visible : p \in InText(a) <=> Row(chars, p) \in a.request.from .. a.end
  BY <1>1, <1>2, <1>3, LinesHold
<1>5. a.end < a.request.to => \A p \in visible : Row(chars, p) <= a.end
  BY <1>1, <1>3, LinesAre
<1> QED
  BY <1>2, <1>4, <1>5 DEF SpanTiles

\* A range that begins behind the last line.
LEMMA NothingBehind ==
  ASSUME NEW chars \in Seq(Chars), NEW from \in Nat \ {0}, from > Len(LinesOf(chars)),
         NEW a, a.request.from = from, a.request.tokens \in Nat \cup {NoCap},
         ~a.truncated, a.end = from - 1, a.text = <<1, 0>>
  PROVE  SpanTiles(a, chars)
<1>1. /\ DOMAIN chars = 1 .. Len(chars) /\ Len(chars) \in Nat
      /\ \A p \in 1 .. Len(chars) + 1 : Before(chars, p) \in Nat
  BY BreaksCounted
<1>2. InText(a) = {} /\ Cardinality({}) = 0
  BY FS_EmptySet DEF InText
<1>3. ASSUME NEW p \in 1 .. Len(chars) PROVE Row(chars, p) = 1 + Before(chars, p) /\ Before(chars, p) \in Nat
  BY <1>1 DEF Row, Before
<1>4. Len(LinesOf(chars)) \in Nat
  BY EndOfPart
<1>5. ASSUME NEW p \in 1 .. Len(chars), chars[p] # "nl" PROVE Row(chars, p) < from
  BY <1>1, <1>3, <1>4, <1>5, LinesAre
<1>6. a.request.tokens # NoCap => 0 <= a.request.tokens * 4
  OBVIOUS
<1>7. ASSUME NEW p \in {q \in DOMAIN chars : chars[q] # "nl"}
      PROVE  Row(chars, p) \notin a.request.from .. a.end /\ Row(chars, p) <= a.end
  <2>1. Row(chars, p) \in Nat /\ Row(chars, p) < from
    BY <1>1, <1>3, <1>5
  <2> QED
    BY <2>1
<1> QED
  BY <1>2, <1>6, <1>7 DEF SpanTiles

-----------------------------------------------------------------------------
(* Fetch: the text of a document *)

JoinStep(parts, sep, g, i) ==
  CASE i = 0 -> << >>
    [] i = 1 -> parts[1]
    [] OTHER -> g[i - 1] \o sep \o parts[i]
JoinsOf(parts, sep) == CHOOSE g : g = [i \in 0 .. Len(parts) |-> JoinStep(parts, sep, g, i)]

\* What is joined up to a place is what is joined up to the place before it, and more.
LEMMA JoinsExist ==
  ASSUME NEW parts, NEW sep, Len(parts) \in Nat
  PROVE  /\ JoinedBy(parts, sep) = JoinsOf(parts, sep)[Len(parts)]
         /\ JoinsOf(parts, sep) = [i \in 0 .. Len(parts) |-> JoinStep(parts, sep, JoinsOf(parts, sep), i)]
<1> DEFINE Fits(g, n) == g = [i \in 0 .. n |-> JoinStep(parts, sep, g, i)]
           T == {n \in Nat : \E g : Fits(g, n)}
<1>1. 0 \in T
  <2> DEFINE g == [i \in 0 .. 0 |-> << >>]
  <2>1. \A i \in 0 .. 0 : JoinStep(parts, sep, g, i) = << >>
    BY DEF JoinStep
  <2>2. Fits(g, 0)
    BY <2>1
  <2> QED
    BY <2>2
<1>2. ASSUME NEW n \in Nat, n \in T PROVE n + 1 \in T
  <2>1. PICK g : Fits(g, n)
    BY <1>2
  <2> DEFINE h == [i \in 0 .. n + 1 |-> IF i <= n THEN g[i] ELSE JoinStep(parts, sep, g, n + 1)]
  <2>2. ASSUME NEW i \in 0 .. n + 1 PROVE h[i] = JoinStep(parts, sep, h, i)
    <3>1. i <= n => h[i] = JoinStep(parts, sep, g, i)
      BY <2>1
    <3>2. ~(i <= n) => i = n + 1
      OBVIOUS
    <3>3. JoinStep(parts, sep, g, i) = JoinStep(parts, sep, h, i)
      <4>1. i # 0 => i - 1 \in 0 .. n /\ i - 1 <= n /\ i - 1 \in 0 .. n + 1
        OBVIOUS
      <4>2. i # 0 => h[i - 1] = g[i - 1]
        BY <4>1
      <4> HIDE DEF h
      <4> QED
        BY <4>2 DEF JoinStep
    <3> QED
      BY <3>1, <3>2, <3>3
  <2>3. Fits(h, n + 1)
    <3> DEFINE body == [i \in 0 .. n + 1 |-> JoinStep(parts, sep, h, i)]
    <3>1. \A i \in 0 .. n + 1 : h[i] = body[i]
      BY <2>2
    <3> QED
      BY <2>2
  <2> HIDE DEF h, Fits
  <2> QED
    BY <2>3
<1>3. Len(parts) \in T
  <2> HIDE DEF T
  <2> QED
    BY <1>1, <1>2, NatSets
<1>4. JoinsOf(parts, sep) = [i \in 0 .. Len(parts) |-> JoinStep(parts, sep, JoinsOf(parts, sep), i)]
  BY <1>3 DEF JoinsOf
<1>5. JoinedBy(parts, sep) = JoinsOf(parts, sep)[Len(parts)]
  BY DEF JoinedBy, JoinsOf, JoinStep
<1> QED
  BY <1>4, <1>5

\* What is joined of lists is a list.
LEMMA JoinedIsList ==
  ASSUME NEW S, NEW parts \in Seq(Seq(S)), NEW sep \in Seq(S)
  PROVE  JoinedBy(parts, sep) \in Seq(S)
<1> DEFINE g == JoinsOf(parts, sep)
           T == {n \in Nat : n <= Len(parts) => g[n] \in Seq(S)}
<1>1. Len(parts) \in Nat /\ DOMAIN parts = 1 .. Len(parts)
  BY LenProperties
<1>2. \A i \in 0 .. Len(parts) : g[i] = JoinStep(parts, sep, g, i)
  <2>1. g = [i \in 0 .. Len(parts) |-> JoinStep(parts, sep, g, i)]
    BY <1>1, JoinsExist
  <2> HIDE DEF g
  <2> QED
    BY <2>1
<1> HIDE DEF g
<1>3. 0 \in T
  <2>1. JoinStep(parts, sep, g, 0) = << >> /\ << >> \in Seq(S)
    BY DEF JoinStep
  <2>2. 0 \in 0 .. Len(parts)
    BY <1>1
  <2>3. g[0] \in Seq(S)
    BY <1>2, <2>1, <2>2
  <2> QED
    BY <2>3
<1>4. ASSUME NEW n \in Nat, n \in T PROVE n + 1 \in T
  <2> SUFFICES ASSUME n + 1 <= Len(parts) PROVE g[n + 1] \in Seq(S)
    OBVIOUS
  <2>1. n + 1 \in 1 .. Len(parts) /\ parts[n + 1] \in Seq(S) /\ g[n] \in Seq(S)
    BY <1>1, <1>4
  <2>2. g[n] \o sep \o parts[n + 1] \in Seq(S)
    BY <2>1, ConcatProperties
  <2>3. g[n + 1] = JoinStep(parts, sep, g, n + 1)
    BY <1>1, <1>2, <2>1
  <2>4. JoinStep(parts, sep, g, n + 1) = IF n + 1 = 1 THEN parts[1] ELSE g[n] \o sep \o parts[n + 1]
    <3>1. n + 1 # 0 /\ n + 1 - 1 = n
      OBVIOUS
    <3> QED
      BY <3>1 DEF JoinStep
  <2> QED
    BY <2>1, <2>2, <2>3, <2>4
<1>5. Len(parts) \in T
  <2> HIDE DEF T
  <2> QED
    BY <1>1, <1>3, <1>4, NatSets
<1> QED
  BY <1>1, <1>5, JoinsExist DEF g

\* A block is rendered to a list of characters.
LEMMA FilledIsText ==
  ASSUME NEW n \in Nat
  PROVE  Filled(n) \in Seq(Chars)
BY DEF Filled, Chars

LEMMA NewlinesAreText == Newline \in Seq(Chars) /\ << >> \in Seq(Chars) /\ Newline \o Newline \in Seq(Chars)
<1>1. Newline \in Seq(Chars)
  BY DEF Newline, Chars
<1> QED
  BY <1>1, ConcatProperties

LEMMA PairIsFinite ==
  ASSUME NEW x, NEW y
  PROVE  IsFiniteSet({x, y})
<1> DEFINE S == {x}
<1>1. {x, y} = S \cup {y} /\ IsFiniteSet(S)
  BY FS_Singleton
<1> HIDE DEF S
<1>2. IsFiniteSet(S \cup {y})
  BY <1>1, FS_AddElement
<1> QED
  BY <1>1, <1>2

LEMMA ClampedIsLevel ==
  ASSUME NEW level \in Nat
  PROVE  Clamped(level) \in Nat
<1>1. Min({level, 6}) \in Nat
  <2>1. {level, 6} \in SUBSET Nat /\ {level, 6} # {}
    OBVIOUS
  <2>2. Min({level, 6}) \in {level, 6}
    BY <2>1, LeastOfSome
  <2> QED
    BY <2>1, <2>2
<1> DEFINE S == {1, Min({level, 6})}
<1>2. IsFiniteSet(S) /\ S \in SUBSET Nat /\ S # {}
  <2>1. IsFiniteSet(S)
    BY PairIsFinite
  <2> QED
    BY <1>1, <2>1
<1> HIDE DEF S
<1>3. Max(S) \in S
  BY <1>2, GreatestOfSome
<1> QED
  BY <1>2, <1>3 DEF Clamped, S

\* The same text before every element of a list.
LEMMA Prefixed ==
  ASSUME NEW f \in Seq(Seq(Chars)), NEW head \in Seq(Chars)
  PROVE  [i \in DOMAIN f |-> head \o f[i]] \in Seq(Seq(Chars))
<1>1. DOMAIN f = 1 .. Len(f) /\ Len(f) \in Nat /\ \A i \in 1 .. Len(f) : f[i] \in Seq(Chars)
  BY LenProperties
<1>2. \A i \in 1 .. Len(f) : head \o f[i] \in Seq(Chars)
  BY <1>1, ConcatProperties
<1> QED
  BY <1>1, <1>2

LEMMA DigitsCount ==
  ASSUME NEW i \in Nat
  PROVE  Digits(i) \in Nat
<1> DEFINE S == {k \in 0..i : 10 ^ k <= i}
<1>1. S \in SUBSET (0..i)
  BY Zenon
<1>2. IsFiniteSet(0..i)
  BY FS_Interval
<1> HIDE DEF S
<1>3. Cardinality(S) \in Nat
  BY <1>1, <1>2, FS_Subset, FS_CardinalityType
<1> QED
  BY <1>3 DEF S, Digits

LEMMA BlockIsText ==
  ASSUME NEW b \in BlockKinds, NEW rows,
         b.is = "quote" => rows \in Seq(Seq(Chars))
                           /\ rows = LET seg == Segments(b.text)
                                     IN [i \in DOMAIN seg |-> SubSeq(b.text, seg[i][1], seg[i][2])]
  PROVE  RenderedBlock(b) \in Seq(Chars)
<1> USE NewlinesAreText
<1>1. /\ Filled(1) \in Seq(Chars) /\ Filled(2) \in Seq(Chars) /\ Filled(3) \in Seq(Chars) /\ Filled(17) \in Seq(Chars)
  BY FilledIsText
<1>2. CASE b.is = "heading"
  <2>1. b.level \in Nat /\ b.text \in Seq(Chars)
    BY <1>2 DEF BlockKinds
  <2>2. Clamped(b.level) + 1 \in Nat
    <3>1. PICK level \in Nat : level = b.level
      BY <2>1
    <3>2. Clamped(level) \in Nat
      BY ClampedIsLevel
    <3> QED
      BY <3>1, <3>2
  <2>3. Filled(Clamped(b.level) + 1) \in Seq(Chars)
    <3> DEFINE n == Clamped(b.level) + 1
    <3>1. n \in Nat
      BY <2>2
    <3> HIDE DEF n
    <3>2. Filled(n) \in Seq(Chars)
      BY <3>1, FilledIsText
    <3> QED
      BY <3>2 DEF n
  <2>4. RenderedBlock(b) = Filled(Clamped(b.level) + 1) \o b.text
    BY <1>2 DEF RenderedBlock
  <2> QED
    BY <2>1, <2>3, <2>4, ConcatProperties
<1>3. CASE b.is = "paragraph"
  BY <1>3 DEF RenderedBlock, BlockKinds
<1>4. CASE b.is = "quote"
  <2> DEFINE seg == Segments(b.text)
  <2>1. rows = [i \in DOMAIN seg |-> SubSeq(b.text, seg[i][1], seg[i][2])] /\ rows \in Seq(Seq(Chars))
    BY <1>4
  <2> HIDE DEF seg
  <2>2. [i \in DOMAIN seg |-> Filled(2) \o SubSeq(b.text, seg[i][1], seg[i][2])] = [i \in DOMAIN rows |-> Filled(2) \o rows[i]]
    BY <2>1
  <2>3. [i \in DOMAIN rows |-> Filled(2) \o rows[i]] \in Seq(Seq(Chars))
    BY <1>1, <2>1, Prefixed
  <2>4. RenderedBlock(b) = JoinedBy([i \in DOMAIN rows |-> Filled(2) \o rows[i]], Newline)
    BY <1>4, <2>2 DEF RenderedBlock, seg
  <2> DEFINE lines == [i \in DOMAIN rows |-> Filled(2) \o rows[i]]
  <2> HIDE DEF lines
  <2>5. JoinedBy(lines, Newline) \in Seq(Chars)
    BY <2>3, JoinedIsList DEF lines
  <2> QED
    BY <2>4, <2>5 DEF lines
<1>5. CASE b.is = "list"
  <2> DEFINE lines == [i \in DOMAIN b.items |-> Filled(IF b.ordered THEN Digits(i) + 2 ELSE 2) \o b.items[i]]
  <2>1. b.items \in Seq(Seq(Chars))
    BY <1>5 DEF BlockKinds
  <2>2. RenderedBlock(b) = JoinedBy(lines, Newline)
    BY <1>5 DEF RenderedBlock
  <2>3. DOMAIN b.items = 1 .. Len(b.items) /\ Len(b.items) \in Nat
    BY <2>1, LenProperties
  <2>4. ASSUME NEW i \in DOMAIN b.items PROVE Filled(IF b.ordered THEN Digits(i) + 2 ELSE 2) \o b.items[i] \in Seq(Chars)
    <3> DEFINE n == IF b.ordered THEN Digits(i) + 2 ELSE 2
    <3>1. Digits(i) \in Nat
      BY <2>3, DigitsCount
    <3>2. n \in Nat
      BY <3>1
    <3>3. b.items[i] \in Seq(Chars)
      BY <2>1
    <3> HIDE DEF n
    <3>4. Filled(n) \in Seq(Chars)
      BY <3>2, FilledIsText
    <3>5. Filled(n) \o b.items[i] \in Seq(Chars)
      BY <3>3, <3>4, ConcatProperties
    <3> QED
      BY <3>5 DEF n
  <2>5. lines \in Seq(Seq(Chars))
    BY <2>3, <2>4
  <2> HIDE DEF lines
  <2> QED
    BY <2>2, <2>5, JoinedIsList
<1>6. CASE b.is = "code"
  <2> DEFINE fence == Filled(3 + b.lang)
             gap   == IF b.text # << >> /\ Last(b.text) = "nl" THEN << >> ELSE Newline
  <2>1. b.text \in Seq(Chars) /\ 3 + b.lang \in Nat
    BY <1>6 DEF BlockKinds
  <2>2. fence \in Seq(Chars) /\ gap \in Seq(Chars)
    <3> DEFINE n == 3 + b.lang
    <3>1. n \in Nat
      BY <2>1
    <3> HIDE DEF n
    <3>2. Filled(n) \in Seq(Chars)
      BY <3>1, FilledIsText
    <3> QED
      BY <3>2 DEF n
  <2>3. RenderedBlock(b) = fence \o Newline \o b.text \o gap \o Filled(3)
    BY <1>6 DEF RenderedBlock
  <2> HIDE DEF fence, gap
  <2>4. fence \o Newline \in Seq(Chars)
    BY <2>2, ConcatProperties
  <2>5. (fence \o Newline) \o b.text \in Seq(Chars)
    BY <2>1, <2>4, ConcatProperties
  <2>6. ((fence \o Newline) \o b.text) \o gap \in Seq(Chars)
    BY <2>2, <2>5, ConcatProperties
  <2>7. (((fence \o Newline) \o b.text) \o gap) \o Filled(3) \in Seq(Chars)
    BY <1>1, <2>6, ConcatProperties
  <2> QED
    BY <2>3, <2>7
<1>7. CASE b.is = "table"
  <2> DEFINE first == JoinedBy(b.headers, Filled(3))
             rule  == Filled(4 * Len(b.headers))
             cells == [i \in DOMAIN b.rows |-> JoinedBy(b.rows[i], Filled(3))]
  <2>1. b.headers \in Seq(Seq(Chars)) /\ b.rows \in Seq(Seq(Seq(Chars)))
    BY <1>7 DEF BlockKinds
  <2>2. first \in Seq(Chars)
    BY <1>1, <2>1, JoinedIsList
  <2>3. rule \in Seq(Chars)
    <3> DEFINE n == 4 * Len(b.headers)
    <3>1. n \in Nat
      BY <2>1, LenProperties
    <3> HIDE DEF n
    <3>2. Filled(n) \in Seq(Chars)
      BY <3>1, FilledIsText
    <3> QED
      BY <3>2 DEF n
  <2>4. cells \in Seq(Seq(Chars))
    <3>1. DOMAIN b.rows = 1 .. Len(b.rows) /\ Len(b.rows) \in Nat /\ \A i \in 1 .. Len(b.rows) : b.rows[i] \in Seq(Seq(Chars))
      BY <2>1, LenProperties
    <3>2. \A i \in 1 .. Len(b.rows) : JoinedBy(b.rows[i], Filled(3)) \in Seq(Chars)
      BY <1>1, <3>1, JoinedIsList
    <3> QED
      BY <3>1, <3>2
  <2>5. RenderedBlock(b) = JoinedBy(<<first, rule>> \o cells, Newline)
    BY <1>7 DEF RenderedBlock
  <2> HIDE DEF first, rule, cells
  <2>6. <<first, rule>> \o cells \in Seq(Seq(Chars))
    <3>1. <<first, rule>> \in Seq(Seq(Chars))
      BY <2>2, <2>3
    <3> QED
      BY <2>4, <3>1, ConcatProperties
  <2> DEFINE lines == <<first, rule>> \o cells
  <2> HIDE DEF lines
  <2>7. JoinedBy(lines, Newline) \in Seq(Chars)
    BY <2>6, JoinedIsList DEF lines
  <2> QED
    BY <2>5, <2>7 DEF lines
<1>8. CASE b.is = "image"
  <2>1. b.alt \in Seq(Chars) /\ b.src \in Seq(Chars)
    BY <1>8 DEF BlockKinds
  <2>2. Filled(2) \o b.alt \in Seq(Chars)
    BY <1>1, <2>1, ConcatProperties
  <2>3. (Filled(2) \o b.alt) \o Filled(2) \in Seq(Chars)
    BY <1>1, <2>2, ConcatProperties
  <2>4. ((Filled(2) \o b.alt) \o Filled(2)) \o b.src \in Seq(Chars)
    BY <2>1, <2>3, ConcatProperties
  <2>5. (((Filled(2) \o b.alt) \o Filled(2)) \o b.src) \o Filled(1) \in Seq(Chars)
    BY <1>1, <2>4, ConcatProperties
  <2>6. RenderedBlock(b) = Filled(2) \o b.alt \o Filled(2) \o b.src \o Filled(1)
    BY <1>8 DEF RenderedBlock
  <2> QED
    BY <2>5, <2>6
<1>9. CASE b.is = "audio"
  BY <1>1, <1>9 DEF RenderedBlock
<1> QED
  <2>1. b.is \in {"heading", "paragraph", "quote", "list", "code", "table", "image", "audio"}
    BY DEF BlockKinds
  <2> QED
    BY <2>1, <1>2, <1>3, <1>4, <1>5, <1>6, <1>7, <1>8, <1>9

\* The rows of a quote.
LEMMA RowsAreText ==
  ASSUME NEW chars \in Seq(Chars)
  PROVE  LET seg == Segments(chars)
         IN [i \in DOMAIN seg |-> SubSeq(chars, seg[i][1], seg[i][2])] \in Seq(Seq(Chars))
<1> DEFINE seg == Segments(chars)
           c   == Cardinality(NewLines(chars))
<1>1. c \in Nat /\ Len(chars) \in Nat
  BY BreaksCounted
<1>2. DOMAIN seg = 1 .. c + 1 /\ \A i \in 1 .. c + 1 : seg[i] = <<From(chars, i), To(chars, i)>>
  BY SegmentsAre
<1>3. ASSUME NEW i \in 1 .. c + 1
      PROVE  SubSeq(chars, seg[i][1], seg[i][2]) \in Seq(Chars)
  <2> DEFINE lo == From(chars, i)
             hi == To(chars, i)
  <2>1. lo \in 1 .. Len(chars) + 1 /\ hi \in lo - 1 .. Len(chars)
    BY SegmentHolds
  <2>2. seg[i][1] = lo /\ seg[i][2] = hi
    BY <1>2
  <2> HIDE DEF lo, hi
  <2>3. lo \in Int /\ hi \in Int /\ \A p \in lo .. hi : chars[p] \in Chars
    BY <1>1, <2>1
  <2>4. SubSeq(chars, lo, hi) \in Seq(Chars)
    BY <2>3, SubSeqProperties
  <2> QED
    BY <2>2, <2>4
<1> DEFINE n == c + 1
           Part(i) == SubSeq(chars, seg[i][1], seg[i][2])
<1>4. n \in Nat /\ \A i \in 1..n : Part(i) \in Seq(Chars)
  BY <1>1, <1>3
<1>5. [i \in DOMAIN seg |-> Part(i)] = [i \in 1..n |-> Part(i)]
  BY <1>2
<1> HIDE DEF n, Part
<1>6. [i \in 1..n |-> Part(i)] \in Seq(Seq(Chars))
  BY <1>4
<1> QED
  BY <1>5, <1>6 DEF Part

LEMMA RenderedIsText ==
  ASSUME NEW blocks \in Seq(BlockKinds)
  PROVE  Rendered(blocks) \in Seq(Chars)
<1>1. DOMAIN blocks = 1 .. Len(blocks) /\ Len(blocks) \in Nat /\ \A i \in 1 .. Len(blocks) : blocks[i] \in BlockKinds
  BY LenProperties
<1>2. ASSUME NEW b \in BlockKinds PROVE RenderedBlock(b) \in Seq(Chars)
  <2> DEFINE rows == LET seg == Segments(b.text)
                     IN [i \in DOMAIN seg |-> SubSeq(b.text, seg[i][1], seg[i][2])]
  <2>1. b.is = "quote" => b.text \in Seq(Chars)
    BY DEF BlockKinds
  <2>2. b.is = "quote" => rows \in Seq(Seq(Chars))
    BY <2>1, RowsAreText
  <2> HIDE DEF rows
  <2>3. b.is = "quote" => rows \in Seq(Seq(Chars))
                           /\ rows = LET seg == Segments(b.text)
                                     IN [i \in DOMAIN seg |-> SubSeq(b.text, seg[i][1], seg[i][2])]
    BY <2>2 DEF rows
  <2> QED
    BY <2>3, BlockIsText
<1> DEFINE parts == [i \in DOMAIN blocks |-> RenderedBlock(blocks[i])]
<1>3. parts \in Seq(Seq(Chars))
  BY <1>1, <1>2
<1> HIDE DEF parts
<1>4. JoinedBy(parts, Newline \o Newline) \in Seq(Chars)
  BY <1>3, NewlinesAreText, JoinedIsList
<1> QED
  BY <1>4 DEF Rendered, parts

-----------------------------------------------------------------------------
(* Fetch: what an answer says *)

\* A range of lines, answered from the text of the blocks that were read.
LEMMA SpanAnswered ==
  ASSUME SpanRequest(asked), asked.from # 0, asked.from <= asked.to, held.blocks \in Seq(BlockKinds), AnswerSpan
  PROVE  \E a : /\ Answer(a) /\ a.request = asked /\ a.code = "ok" /\ a.end \in Nat
                /\ SpanTiles(a, Rendered(held.blocks))
<1> DEFINE chars == Rendered(held.blocks)
           lines == LinesOf(chars)
           from  == asked.from
           l     == Len(lines)
           last  == Min({asked.to, l})
           all   == <<lines[from][1], lines[last][2]>>
<1>1. from \in Nat \ {0} /\ asked.to \in Nat /\ asked.tokens \in Nat \cup {NoCap}
  BY DEF SpanRequest
<1>2. chars \in Seq(Chars)
  BY RenderedIsText
<1>3. l \in Nat
  <2> HIDE DEF chars
  <2> QED
    BY <1>2, EndOfPart
<1>4. CASE from > l
  <2> DEFINE a == [request |-> asked, code |-> "ok", text |-> <<1, 0>>, end |-> asked.from - 1, truncated |-> FALSE,
                   stale |-> Stale(held.age)]
  <2>1. Answer(a)
    BY <1>4 DEF AnswerSpan
  <2>2. /\ a.request = asked /\ a.code = "ok" /\ a.end = from - 1 /\ ~a.truncated /\ a.text = <<1, 0>>
        /\ a.request.from = from /\ a.request.tokens \in Nat \cup {NoCap} /\ a.end \in Nat
    BY <1>1
  <2>3. SpanTiles(a, chars)
    <3> HIDE DEF a, chars
    <3> QED
      BY <1>1, <1>2, <1>4, <2>2, NothingBehind
  <2> HIDE DEF a
  <2> QED
    BY <2>1, <2>2, <2>3
<1>5. CASE ~(from > l)
  <2> DEFINE a == [request |-> asked, code |-> "ok", text |-> Cut(all), truncated |-> Cut(all) # all,
                   stale |-> Stale(held.age),
                   end |-> IF Cut(all) = all THEN last ELSE LastKept(chars, Cut(all))]
             lo == From(chars, from)
             hi == To(chars, last)
             whole == hi - lo + 1
  <2>1. Answer(a)
    BY <1>5 DEF AnswerSpan
  <2>2. from \in 1..l
    BY <1>1, <1>3, <1>5
  <2>3. last \in from..l /\ last <= asked.to /\ (last < asked.to => last = l)
    <3>1. {asked.to, l} \in SUBSET Nat /\ {asked.to, l} # {}
      BY <1>1, <1>3
    <3>2. last \in {asked.to, l} /\ \A y \in {asked.to, l} : last <= y
      BY <3>1, LeastOfSome
    <3> QED
      BY <1>1, <1>3, <2>2, <3>2
  <2>4. all = <<lo, hi>> /\ lo \in Nat \ {0} /\ hi \in Nat /\ hi <= Len(chars)
    <3> HIDE DEF chars, last
    <3> QED
      BY <1>2, <2>2, <2>3, LinesHold
  <2>5. a.request = asked /\ a.code = "ok" /\ a.text = Cut(all) /\ (a.truncated <=> Cut(all) # all)
        /\ a.end = IF Cut(all) = all THEN last ELSE LastKept(chars, Cut(all))
    OBVIOUS
  <2> HIDE DEF a, chars, last, all, lo, hi
  <2>6. Cut(all) = IF asked.tokens # NoCap /\ whole > asked.tokens * 4 THEN <<lo, lo + asked.tokens * 4 - 1>> ELSE all
    BY <2>4 DEF Cut, Budget
  <2>7. CASE asked.tokens # NoCap /\ whole > asked.tokens * 4
    <3> DEFINE m == asked.tokens * 4
    <3>1. asked.tokens \in Nat /\ m \in Nat /\ Cut(all) = <<lo, lo + m - 1>>
      BY <1>1, <2>6, <2>7
    <3>2. lo + m <= Len(chars) /\ lo + m - 1 # hi
      <4>1. m \in Nat /\ hi - lo + 1 > m /\ Len(chars) \in Nat
        BY <1>2, <2>7, <3>1, LenProperties
      <4> HIDE DEF m
      <4> QED
        BY <2>4, <4>1
    <3>3. Cut(all) # all
      BY <2>4, <3>1, <3>2
    <3>4. a.truncated /\ a.text = <<lo, lo + m - 1>>
      BY <2>5, <3>1, <3>3
    <3>5. a.end = from - 1 + Len(LinesOf(SubSeq(chars, a.text[1], a.text[2])))
      BY <2>5, <3>3 DEF LastKept
    <3>6. a.request.from = from /\ a.request.tokens \in Nat /\ m = a.request.tokens * 4
      BY <2>5, <3>1
    <3>7. SpanTiles(a, chars) /\ a.end \in Nat
      <4> HIDE DEF m
      <4> QED
        BY <1>2, <2>2, <3>1, <3>2, <3>4, <3>5, <3>6, CutTiles DEF lo
    <3> QED
      BY <2>1, <2>5, <3>7 DEF chars
  <2>8. CASE ~(asked.tokens # NoCap /\ whole > asked.tokens * 4)
    <3>1. Cut(all) = all
      BY <2>6, <2>8
    <3>2. ~a.truncated /\ a.end = last /\ a.text = <<lo, hi>> /\ a.request = asked
      BY <2>4, <2>5, <3>1
    <3>3. asked.tokens # NoCap => Cardinality(lo .. hi) <= asked.tokens * 4
      <4> SUFFICES ASSUME asked.tokens # NoCap PROVE Cardinality(lo .. hi) <= asked.tokens * 4
        OBVIOUS
      <4>1. ~(whole > asked.tokens * 4) /\ asked.tokens \in Nat
        BY <1>1, <2>8
      <4>2. Cardinality(lo .. hi) = IF lo > hi THEN 0 ELSE whole
        BY <2>4, SizeOfInterval
      <4> DEFINE m == asked.tokens * 4
      <4>3. m \in Nat /\ ~(whole > m)
        BY <4>1
      <4> HIDE DEF m
      <4>4. Cardinality(lo .. hi) <= m
        BY <2>4, <4>2, <4>3
      <4> QED
        BY <4>4 DEF m
    <3>4. SpanTiles(a, chars)
      BY <1>2, <2>2, <2>3, <3>2, <3>3, WholeTiles DEF lo, hi
    <3>5. a.end \in Nat
      BY <1>3, <2>2, <2>3, <3>2
    <3> QED
      BY <2>1, <2>5, <3>4, <3>5 DEF chars
  <2> QED
    BY <2>7, <2>8
<1> QED
  BY <1>4, <1>5

\* What lies before an element, the element and what lies behind it are one part of a list.
LEMMA AroundElement ==
  ASSUME NEW S, NEW got \in Seq(S), NEW at \in 1 .. Len(got), NEW lo \in 1 .. at, NEW hi \in at .. Len(got)
  PROVE  LET before == SubSeq(got, lo, at - 1)
             after  == SubSeq(got, at + 1, hi)
             near   == before \o <<got[at]>> \o after
         IN /\ near \in Seq(S) /\ Len(near) = hi - lo + 1
            /\ Len(before) = at - lo /\ Len(after) = hi - at
            /\ \A j \in 1 .. hi - lo + 1 : near[j] = got[lo + j - 1]
<1> DEFINE before == SubSeq(got, lo, at - 1)
           after  == SubSeq(got, at + 1, hi)
<1>1. /\ Len(got) \in Nat /\ at \in Nat \ {0} /\ lo \in Nat \ {0} /\ hi \in Nat
      /\ lo <= at /\ at <= hi /\ hi <= Len(got) /\ \A i \in 1 .. Len(got) : got[i] \in S
  BY LenProperties
<1>2. before \in Seq(S) /\ Len(before) = at - lo /\ \A i \in 1 .. at - lo : before[i] = got[lo + i - 1]
  <2> DEFINE to == at - 1
  <2>1. lo \in Int /\ to \in Int /\ to - lo + 1 = at - lo /\ \A i \in lo .. to : got[i] \in S
    BY <1>1
  <2> HIDE DEF to
  <2>2. /\ SubSeq(got, lo, to) \in Seq(S)
        /\ Len(SubSeq(got, lo, to)) = IF lo <= to THEN to - lo + 1 ELSE 0
        /\ \A i \in 1 .. to - lo + 1 : SubSeq(got, lo, to)[i] = got[lo + i - 1]
    BY <2>1, SubSeqProperties
  <2>3. (IF lo <= to THEN to - lo + 1 ELSE 0) = at - lo
    BY <1>1, <2>1
  <2> QED
    BY <2>1, <2>2, <2>3 DEF to
<1>3. after \in Seq(S) /\ Len(after) = hi - at /\ \A i \in 1 .. hi - at : after[i] = got[at + i]
  <2> DEFINE fro == at + 1
  <2>1. fro \in Int /\ hi \in Int /\ hi - fro + 1 = hi - at /\ \A i \in fro .. hi : got[i] \in S
    BY <1>1
  <2>0. \A i \in Int : fro + i - 1 = at + i
    BY <1>1
  <2> HIDE DEF fro
  <2>2. /\ SubSeq(got, fro, hi) \in Seq(S)
        /\ Len(SubSeq(got, fro, hi)) = IF fro <= hi THEN hi - fro + 1 ELSE 0
        /\ \A i \in 1 .. hi - fro + 1 : SubSeq(got, fro, hi)[i] = got[fro + i - 1]
    BY <2>1, SubSeqProperties
  <2>3. (IF fro <= hi THEN hi - fro + 1 ELSE 0) = hi - at
    BY <1>1, <2>1
  <2> QED
    BY <2>0, <2>1, <2>2, <2>3 DEF fro
<1> HIDE DEF before, after
<1> DEFINE head == before \o <<got[at]>>
<1>4. /\ head \in Seq(S) /\ Len(head) = at - lo + 1
      /\ \A i \in 1 .. at - lo + 1 : head[i] = got[lo + i - 1]
  <2>1. <<got[at]>> \in Seq(S) /\ Len(<<got[at]>>) = 1 /\ <<got[at]>>[1] = got[at]
    BY <1>1
  <2>2. /\ head \in Seq(S) /\ Len(head) = at - lo + 1
        /\ \A i \in 1 .. at - lo + 1 : head[i] = IF i <= at - lo THEN before[i] ELSE <<got[at]>>[i - (at - lo)]
    BY <1>2, <2>1, ConcatProperties
  <2>3. ASSUME NEW i \in 1 .. at - lo + 1 PROVE head[i] = got[lo + i - 1]
    <3>1. CASE i <= at - lo
      BY <1>1, <1>2, <2>2, <3>1
    <3>2. CASE ~(i <= at - lo)
      <4>1. i - (at - lo) = 1 /\ lo + i - 1 = at
        BY <1>1, <3>2
      <4> QED
        BY <2>1, <2>2, <3>2, <4>1
    <3> QED
      BY <3>1, <3>2
  <2> QED
    BY <2>2, <2>3
<1> HIDE DEF head
<1> DEFINE near == head \o after
<1>5. /\ near \in Seq(S) /\ Len(near) = (at - lo + 1) + (hi - at)
      /\ \A j \in 1 .. (at - lo + 1) + (hi - at) :
           near[j] = IF j <= at - lo + 1 THEN head[j] ELSE after[j - (at - lo + 1)]
  <2>1. /\ near \in Seq(S) /\ Len(near) = Len(head) + Len(after)
        /\ \A j \in 1 .. Len(head) + Len(after) :
             near[j] = IF j <= Len(head) THEN head[j] ELSE after[j - Len(head)]
    BY <1>3, <1>4, ConcatProperties
  <2>2. Len(head) = at - lo + 1 /\ Len(after) = hi - at
    BY <1>3, <1>4
  <2> QED
    BY <2>1, <2>2
<1>6. (at - lo + 1) + (hi - at) = hi - lo + 1
  BY <1>1
<1>7. ASSUME NEW j \in 1 .. hi - lo + 1 PROVE near[j] = got[lo + j - 1]
  <2>1. CASE j <= at - lo + 1
    BY <1>1, <1>4, <1>5, <1>6, <2>1
  <2>2. CASE ~(j <= at - lo + 1)
    <3> DEFINE i == j - (at - lo + 1)
    <3>1. i \in 1 .. hi - at /\ at + i = lo + j - 1
      BY <1>1, <2>2
    <3>2. near[j] = after[i]
      BY <1>5, <1>6, <2>2
    <3> HIDE DEF i
    <3> QED
      BY <1>3, <3>1, <3>2
  <2> QED
    BY <2>1, <2>2
<1> QED
  BY <1>2, <1>3, <1>5, <1>6, <1>7 DEF near, head, before, after

\* The chunks at some places of a chunking are as many as the places.
ChunksAt(d, ch, places) == {<<d, ch, i>> : i \in places}

LEMMA PlacesAre ==
  ASSUME NEW d, NEW ch, NEW lo \in Int, NEW hi \in Int, lo <= hi
  PROVE  Cardinality(ChunksAt(d, ch, lo .. hi)) = hi - lo + 1
<1> DEFINE S == lo .. hi
           T == {<<d, ch, i>> : i \in S}
           f == [i \in S |-> <<d, ch, i>>]
<1>1. IsFiniteSet(S) /\ Cardinality(S) = hi - lo + 1
  BY FS_Interval
<1>2. f \in [S -> T] /\ (\A i, j \in S : f[i] = f[j] => i = j) /\ \A t \in T : \E i \in S : f[i] = t
  OBVIOUS
<1>3. f \in Bijection(S, T)
  <2> HIDE DEF f, S, T
  <2> QED
    BY <1>2 DEF Bijection, Injection, Surjection, IsInjective
<1>4. ExistsBijection(S, T)
  <2> HIDE DEF f, S, T
  <2> QED
    BY <1>3 DEF ExistsBijection
<1>5. Cardinality(T) = Cardinality(S)
  <2> HIDE DEF S, T
  <2> QED
    BY <1>1, <1>4, FS_Bijection
<1> QED
  BY <1>1, <1>5 DEF ChunksAt

\* The chunks read so far are of one chunking, in its order, and those still to read are the rest of it.
EachRead(size, ch, k) ==
  /\ held.ids = [i \in 1 .. size - k |-> <<asked.id[1], ch, k + i>>]
  /\ IsSequence(held.got)
  /\ \A j \in 1 .. Len(held.got) :
       held.got[j] = <<asked.id[1], ch, held.got[j][3]>> /\ held.got[j][3] \in 1..k
  /\ \A j, l \in 1 .. Len(held.got) : j < l => held.got[j][3] < held.got[l][3]
  /\ Undisturbed => /\ Stored(asked.id[1]) /\ ch = shelf[asked.id[1]].chunking /\ size = shelf[asked.id[1]].size
                    /\ held.got = [i \in 1..k |-> <<asked.id[1], ch, i>>]

EachSoFar == \E size \in Nat, ch \in Nat : \E k \in 0..size : EachRead(size, ch, k)

\* A chunk with those around it, answered from what was read of its chunking.
LEMMA ChunkAnswered ==
  ASSUME asked.context \in Nat, NEW size \in Nat, NEW ch \in Nat, EachRead(size, ch, size),
         asked.id \in Range(held.got),
         NEW a, a.request = asked,
         LET at == CHOOSE i \in DOMAIN held.got : held.got[i] = asked.id
         IN /\ a.before = SubSeq(held.got, Max({1, at - asked.context}), at - 1)
            /\ a.after = SubSeq(held.got, at + 1, Min({Len(held.got), at + asked.context}))
  PROVE  WithNeighbours(a)
<1> DEFINE got == held.got
           at  == CHOOSE i \in DOMAIN got : got[i] = asked.id
           n   == asked.context
           lo  == Max({1, at - n})
           hi  == Min({Len(got), at + n})
           near == a.before \o <<a.request.id>> \o a.after
<1>1. PICK S : got \in Seq(S)
  BY DEF EachRead, IsSequence
<1>2. DOMAIN got = 1 .. Len(got) /\ Len(got) \in Nat
  BY <1>1, LenProperties
<1>3. at \in 1 .. Len(got) /\ got[at] = asked.id
  BY <1>2 DEF Range
<1>4. a.before = SubSeq(got, lo, at - 1) /\ a.after = SubSeq(got, at + 1, hi)
  OBVIOUS
<1>5. got[at] = <<asked.id[1], ch, got[at][3]>> /\ got[at][3] \in 1..size
  BY <1>3 DEF EachRead
<1>6. n \in Nat
  OBVIOUS
<1>7. \A j, l \in 1 .. Len(got) : j < l => got[j][3] < got[l][3]
  BY DEF EachRead
<1>17. \A j \in 1 .. Len(got) : got[j] = <<asked.id[1], ch, got[j][3]>> /\ got[j][3] \in 1..size
  BY DEF EachRead
<1>18. Undisturbed => /\ Stored(asked.id[1]) /\ ch = shelf[asked.id[1]].chunking /\ size = shelf[asked.id[1]].size
                      /\ got = [i \in 1..size |-> <<asked.id[1], ch, i>>]
  BY DEF EachRead
<1> HIDE DEF at
<1>8. /\ lo \in 1 .. at /\ lo >= at - n
      /\ (lo = 1 \/ lo = at - n)
  <2>0. at \in Nat \ {0} /\ n \in Nat
    BY <1>3
  <2>1. CASE at - n >= 1
    <3> DEFINE R == {1, at - n}
    <3>1. R \in SUBSET Nat /\ R # {}
      BY <2>0, <2>1
    <3>2. IsFiniteSet(R)
      BY PairIsFinite
    <3> HIDE DEF R
    <3>3. Max(R) \in R /\ \A y \in R : Max(R) >= y
      BY <3>1, <3>2, GreatestOfSome
    <3> QED
      BY <2>0, <2>1, <3>3 DEF R
  <2>2. CASE ~(at - n >= 1)
    <3> DEFINE R == {1, at - n}
    <3>1. 1 \in R /\ \A y \in R : 1 >= y
      BY <2>0, <2>2
    <3>2. \A x \in R : (\A y \in R : x >= y) => x = 1
      BY <2>0, <2>2
    <3> HIDE DEF R
    <3>3. Max(R) = 1
      BY <3>1, <3>2 DEF Max
    <3> QED
      BY <2>0, <2>2, <3>3 DEF R
  <2> QED
    BY <2>1, <2>2
<1>9. hi \in at .. Len(got) /\ hi <= at + n /\ (hi = Len(got) \/ hi = at + n)
  <2>1. {Len(got), at + n} \in SUBSET Nat /\ {Len(got), at + n} # {}
    BY <1>2, <1>3
  <2>2. hi \in {Len(got), at + n} /\ \A y \in {Len(got), at + n} : hi <= y
    BY <2>1, LeastOfSome
  <2> QED
    BY <1>2, <1>3, <2>2
<1> HIDE DEF lo, hi, n, got
<1>10. /\ near \in Seq(S) /\ Len(near) = hi - lo + 1
      /\ Len(a.before) = at - lo /\ Len(a.after) = hi - at
      /\ \A j \in 1 .. hi - lo + 1 : near[j] = got[lo + j - 1]
  <2>1. near = SubSeq(got, lo, at - 1) \o <<got[at]>> \o SubSeq(got, at + 1, hi)
    BY <1>3, <1>4
  <2>2. hi \in at .. Len(got) /\ lo \in 1 .. at
    BY <1>8, <1>9
  <2> DEFINE before == SubSeq(got, lo, at - 1)
             after  == SubSeq(got, at + 1, hi)
  <2>3. /\ before \o <<got[at]>> \o after \in Seq(S) /\ Len(before \o <<got[at]>> \o after) = hi - lo + 1
        /\ Len(before) = at - lo /\ Len(after) = hi - at
        /\ \A j \in 1 .. hi - lo + 1 : (before \o <<got[at]>> \o after)[j] = got[lo + j - 1]
    BY <1>1, <1>3, <2>2, AroundElement
  <2> HIDE DEF near, before, after
  <2> QED
    BY <1>4, <2>1, <2>3 DEF before, after
<1> HIDE DEF near
<1>11. /\ at \in Nat /\ lo \in Nat /\ hi \in Nat /\ n \in Nat /\ Len(got) \in Nat
       /\ 1 <= lo /\ lo <= at /\ at <= hi /\ hi <= Len(got) /\ at - lo <= n /\ hi - at <= n
  <2>1. /\ at \in Nat /\ n \in Nat /\ Len(got) \in Nat
    BY <1>2, <1>3, <1>6
  <2>2. /\ lo \in Nat /\ hi \in Nat /\ 1 <= lo /\ lo <= at /\ at <= hi /\ hi <= Len(got)
    BY <1>8, <1>9, <2>1
  <2>3. lo >= at - n /\ hi <= at + n
    BY <1>8, <1>9
  <2> QED
    BY <2>1, <2>2, <2>3
<1>12. Len(a.before) <= n /\ Len(a.after) <= n
  BY <1>10, <1>11
<1>13. DOMAIN near = 1 .. hi - lo + 1 /\ \A j \in 1 .. hi - lo + 1 : lo + j - 1 \in 1 .. Len(got)
  <2>1. DOMAIN near = 1 .. Len(near)
    BY <1>10, LenProperties
  <2> QED
    BY <1>10, <1>11, <2>1
<1>14. \A j \in DOMAIN near : near[j][1] = a.request.id[1] /\ near[j][2] = a.request.id[2]
  <2> SUFFICES ASSUME NEW j \in DOMAIN near PROVE near[j][1] = a.request.id[1] /\ near[j][2] = a.request.id[2]
    OBVIOUS
  <2>1. lo + j - 1 \in 1 .. Len(got) /\ near[j] = got[lo + j - 1]
    BY <1>10, <1>13
  <2>2. near[j] = <<asked.id[1], ch, near[j][3]>>
    BY <1>17, <2>1
  <2>3. asked.id = <<asked.id[1], ch, got[at][3]>>
    BY <1>3, <1>5
  <2>4. asked.id[2] = ch
    BY <2>3
  <2>5. near[j][1] = asked.id[1] /\ near[j][2] = ch
    BY <2>2
  <2> QED
    BY <2>4, <2>5
<1>15. \A j, k \in DOMAIN near : j < k => near[j][3] < near[k][3]
  <2> SUFFICES ASSUME NEW j \in DOMAIN near, NEW k \in DOMAIN near, j < k PROVE near[j][3] < near[k][3]
    OBVIOUS
  <2>1. j \in 1 .. hi - lo + 1 /\ k \in 1 .. hi - lo + 1 /\ lo + j - 1 \in 1 .. Len(got) /\ lo + k - 1 \in 1 .. Len(got)
    BY <1>13
  <2>2. lo + j - 1 < lo + k - 1
    BY <1>11, <2>1
  <2>3. near[j] = got[lo + j - 1] /\ near[k] = got[lo + k - 1]
    BY <1>10, <2>1
  <2>4. got[lo + j - 1][3] < got[lo + k - 1][3]
    BY <1>7, <2>1, <2>2
  <2> QED
    BY <2>3, <2>4
<1>16. ASSUME Undisturbed
       PROVE  Len(near) = Cardinality({c \in Range(ChunksOf(a.request.id[1])) : c[3] - a.request.id[3] \in -n .. n})
  <2> DEFINE d == asked.id[1]
  <2>1. Stored(d) /\ ch = shelf[d].chunking /\ size = shelf[d].size /\ got = [i \in 1..size |-> <<d, ch, i>>]
    BY <1>16, <1>18
  <2>2. Len(got) = size /\ asked.id[3] = at
    <3>1. Len(got) = size
      BY <2>1, LenProperties
    <3> QED
      BY <1>3, <2>1, <3>1
  <2>3. ChunksOf(d) = [i \in 1..size |-> <<d, ch, i>>]
    BY <2>1 DEF ChunksOf
  <2>4. Range(ChunksOf(d)) = {<<d, ch, i>> : i \in 1..size}
    BY <2>3 DEF Range
  <2>5. ASSUME NEW i \in 1..size PROVE i - at \in -n .. n <=> i \in lo .. hi
    <3>1. i \in Nat /\ 1 <= i /\ i <= size /\ at \in Nat /\ n \in Nat /\ lo \in Nat /\ hi \in Nat
      BY <1>11
    <3>2. i - at \in -n .. n <=> (at - n <= i /\ i <= at + n)
      BY <3>1
    <3>3. i \in lo .. hi <=> (lo <= i /\ i <= hi)
      BY <3>1
    <3>4. lo <= i <=> at - n <= i
      BY <1>8, <3>1
    <3>5. i <= hi <=> i <= at + n
      BY <1>9, <2>2, <3>1
    <3> QED
      BY <3>2, <3>3, <3>4, <3>5
  <2>6. \A i \in lo .. hi : i \in 1..size
    BY <1>3, <1>8, <1>9, <2>2
  <2>7. {c \in Range(ChunksOf(d)) : c[3] - asked.id[3] \in -n .. n} = {<<d, ch, i>> : i \in lo .. hi}
    <3> HIDE DEF d, n
    <3> QED
      BY <2>2, <2>4, <2>5, <2>6
  <2>8. lo \in Int /\ hi \in Int /\ lo <= hi
    BY <1>3, <1>8, <1>9
  <2>9. Cardinality(ChunksAt(d, ch, lo .. hi)) = hi - lo + 1
    BY <2>8, PlacesAre
  <2> QED
    BY <1>10, <2>7, <2>9 DEF ChunksAt
<1> QED
  BY <1>12, <1>14, <1>15, <1>16 DEF WithNeighbours, near, n

\* Those of every kind, added up, are all of them.
CountsOf(D, f, M) == [m \in M |-> Cardinality({d \in D : f[d] = m})]

LEMMA KindsAddUp ==
  ASSUME NEW D, IsFiniteSet(D), NEW f, NEW M, IsFiniteSet(M), \A d \in D : f[d] \in M
  PROVE  FoldFunction(+, 0, CountsOf(D, f, M)) = Cardinality(D)
<1> DEFINE g == CountsOf(D, f, M)
           G == SumsOf(g)
           Within(s) == {d \in D : f[d] \in s}
           T == {n \in Nat : \A s \in SUBSET M : Cardinality(s) <= n => G[s] = Cardinality(Within(s))}
<1>1. DOMAIN g = M /\ \A m \in M : g[m] = Cardinality({d \in D : f[d] = m})
  BY DEF CountsOf
<1>2. G = SumBody(g, M, G)
  <2> HIDE DEF g
  <2> QED
    BY <1>1, PartialSumsExist
<1> HIDE DEF g, G
<1>3. \A s \in SUBSET M : IsFiniteSet(s) /\ Cardinality(s) \in Nat
  BY FS_Subset, FS_CardinalityType
<1>4. \A s \in SUBSET M : s # {} =>
        /\ (CHOOSE x \in s : TRUE) \in s
        /\ Cardinality(s \ {CHOOSE x \in s : TRUE}) = Cardinality(s) - 1
        /\ G[s] = g[CHOOSE x \in s : TRUE] + G[s \ {CHOOSE x \in s : TRUE}]
  BY <1>2, <1>3, FS_RemoveElement DEF SumBody
<1>5. G[{}] = 0 /\ Cardinality(Within({})) = 0
  <2>1. Within({}) = {}
    OBVIOUS
  <2>2. G[{}] = 0
    BY <1>2 DEF SumBody
  <2> QED
    BY <2>1, <2>2, FS_EmptySet
<1>6. 0 \in T
  <2>1. \A s \in SUBSET M : Cardinality(s) <= 0 => s = {}
    BY <1>3, FS_EmptySet
  <2> QED
    BY <1>5, <2>1
<1>7. ASSUME NEW n \in Nat, n \in T PROVE n + 1 \in T
  <2> SUFFICES ASSUME NEW s \in SUBSET M, Cardinality(s) <= n + 1
               PROVE  G[s] = Cardinality(Within(s))
    OBVIOUS
  <2>0. CASE s = {}
    <3> HIDE DEF Within
    <3> QED
      BY <1>5, <2>0
  <2> SUFFICES ASSUME s # {} PROVE G[s] = Cardinality(Within(s))
    BY <2>0
  <2> DEFINE x == CHOOSE x \in s : TRUE
             A == {d \in D : f[d] = x}
             B == Within(s \ {x})
  <2>1. x \in s /\ G[s] = g[x] + G[s \ {x}] /\ Cardinality(s \ {x}) <= n
    BY <1>3, <1>4
  <2> HIDE DEF x
  <2>2. G[s \ {x}] = Cardinality(B) /\ g[x] = Cardinality(A)
    BY <1>1, <1>7, <2>1
  <2>3. A \cup B = Within(s) /\ A \cap B = {}
    BY <2>1
  <2>4. IsFiniteSet(A) /\ IsFiniteSet(B) /\ Cardinality(A) \in Nat /\ Cardinality(B) \in Nat
    <3>1. A \in SUBSET D /\ B \in SUBSET D
      OBVIOUS
    <3> HIDE DEF A, B
    <3> QED
      BY <3>1, FS_Subset, FS_CardinalityType
  <2>5. Cardinality(A \cup B) = Cardinality(A) + Cardinality(B)
    <3> HIDE DEF A, B
    <3>1. Cardinality(A \cap B) = 0
      BY <2>3, FS_EmptySet
    <3>2. Cardinality(A \cup B) = Cardinality(A) + Cardinality(B) - Cardinality(A \cap B)
      BY <2>4, FS_Union
    <3> QED
      BY <2>4, <3>1, <3>2
  <2> HIDE DEF A, B, Within
  <2> QED
    BY <2>1, <2>2, <2>3, <2>4, <2>5
<1>8. Cardinality(M) \in T
  <2> HIDE DEF T
  <2>1. Cardinality(M) \in Nat
    BY FS_CardinalityType
  <2> QED
    BY <1>6, <1>7, <2>1, NatSets
<1>9. G[M] = Cardinality(Within(M))
  <2>1. M \in SUBSET M /\ Cardinality(M) <= Cardinality(M)
    BY FS_CardinalityType
  <2> QED
    BY <1>8, <2>1
<1>10. Within(M) = D
  OBVIOUS
<1>11. FoldFunction(+, 0, g) = G[M]
  BY <1>1, TotalIsSum DEF G
<1> QED
  BY <1>9, <1>10, <1>11 DEF g

\* The two halves of a bulk are all of it.
LEMMA HalvesAreAll ==
  ASSUME NEW results, IsSequence(results)
  PROVE  LET good == Cardinality(Succeeded(results))
         IN /\ good \in Nat /\ good + (Len(results) - good) = Len(results)
            /\ Cardinality({j \in DOMAIN results : results[j][2] # "hits"}) = Len(results) - good
<1> DEFINE n == Len(results)
           A == 1..n
           B == Succeeded(results)
<1>1. DOMAIN results = 1..n /\ n \in Nat
  BY LenProperties DEF IsSequence
<1>2. IsFiniteSet(A) /\ Cardinality(A) = n
  <2> HIDE DEF n
  <2>1. 1 \in Int /\ n \in Int
    BY <1>1
  <2>2. IsFiniteSet(1..n) /\ Cardinality(1..n) = IF 1 > n THEN 0 ELSE n - 1 + 1
    BY <2>1, FS_Interval
  <2> QED
    BY <1>1, <2>2
<1>3. B \in SUBSET A
  BY <1>1 DEF Succeeded
<1>4. {j \in DOMAIN results : results[j][2] # "hits"} = A \ B /\ A \cap B = B
  BY <1>1 DEF Succeeded
<1>5. Cardinality(B) \in Nat /\ Cardinality(A \ B) = Cardinality(A) - Cardinality(A \cap B)
  <2> HIDE DEF A, B
  <2> QED
    BY <1>2, <1>3, FS_Subset, FS_CardinalityType, FS_Difference
<1>6. Cardinality(A \ B) = n - Cardinality(B)
  <2> HIDE DEF A, B, n
  <2> QED
    BY <1>2, <1>4, <1>5
<1>7. Cardinality({j \in DOMAIN results : results[j][2] # "hits"}) = n - Cardinality(B)
  BY <1>4, <1>6
<1>8. Cardinality(B) \in Nat /\ Cardinality(B) + (n - Cardinality(B)) = n
  <2> HIDE DEF B, n
  <2> QED
    BY <1>1, <1>5
<1> QED
  BY <1>7, <1>8

-----------------------------------------------------------------------------
(* Fetch: every answer is the store *)

AnswerTrue(a) ==
  /\ (a.request.kind = "span" /\ a.code = "ok") =>
       /\ SpanRequest(a.request) /\ a.end \in Nat
       /\ Stored(a.request.id) => SpanTiles(a, Rendered(shelf[a.request.id].blocks))
  /\ (a.request.kind = "chunk" /\ a.code = "ok") => WithNeighbours(a)
  /\ RightlyRefused(a)
  /\ (a.request.kind = "list" /\ a.code = "ok") => ListAgrees(a)
  /\ (a.request.kind = "stats" /\ a.code = "ok") => StatsAgree(a)
  /\ (a.request.kind = "bulk" /\ a.code = "ok") => EachAnswered(a)

LEMMA TrueKept ==
  ASSUME NEW a, UNCHANGED <<shelf, rewrites>>, AnswerTrue(a)
  PROVE  AnswerTrue(a)'
BY DEF AnswerTrue, WithNeighbours, RightlyRefused, ListAgrees, StatsAgree, Stored, ChunksOf, StoredChunk, Undisturbed

DocTyped(x) ==
  /\ x = [media |-> x.media, blocks |-> x.blocks, chunking |-> x.chunking, size |-> x.size, trust |-> x.trust,
          tags |-> x.tags, age |-> x.age, dated |-> x.dated]
  /\ x.blocks \in Seq(BlockKinds) /\ x.chunking \in Nat /\ x.size \in Nat

ShelfTyped == IsFiniteSet(DOMAIN shelf) /\ \A d \in DOMAIN shelf : DocTyped(shelf[d])

ProperRequest(r) ==
  /\ r.kind \in {"chunk", "doc", "span", "list", "stats", "bulk", "incomplete"}
  /\ r.kind = "chunk" => r.context \in Nat
  /\ r.kind = "span" => SpanRequest(r)

ProperlyAsked == asked = Unasked \/ ProperRequest(asked)

ChunkHeld ==
  /\ held.step \in {"begin", "row", "blocks", "have", "each"}
  /\ held.step # "each" => held.got = << >>
  /\ (Undisturbed /\ held.step # "begin") => StoredChunk(asked.id)
  /\ held.step = "each" => EachSoFar

DocHeld ==
  /\ held.step \in {"begin", "blocks", "have", "slice"}
  /\ (Undisturbed /\ held.step # "begin") => Stored(asked.id)
  /\ held.step \in {"have", "slice"} =>
       /\ held.blocks \in Seq(BlockKinds)
       /\ Stored(asked.id) => held.blocks = shelf[asked.id].blocks
  /\ held.step = "slice" =>
       /\ asked.from # 0 /\ asked.from <= asked.to
       /\ Undisturbed => shelf[asked.id].media \notin {"pdf", "audio"}

Firsts(pairs) == {pairs[j][1] : j \in 1 .. Len(pairs)}

ListHeld ==
  /\ held.step \in {"begin", "tags"}
  /\ held.step = "begin" => held.got = << >>
  /\ IsSequence(held.got) /\ IsSequence(held.ids)
  /\ (held.step = "tags" /\ Undisturbed) =>
       /\ \A j \in 1 .. Len(held.got) : held.got[j][2] = shelf[held.got[j][1]].tags
       /\ Firsts(held.got) \cup Range(held.ids) = {d \in DOMAIN shelf : Accepted(d)}

CountsDone(step) ==
  CASE step = "begin" -> 0 [] step = "chunks" -> 1 [] step = "media" -> 2 [] step = "old" -> 3 [] OTHER -> 4

StatsHeld ==
  /\ held.step \in {"begin", "chunks", "media", "old", "counted"}
  /\ IsSequence(held.got) /\ Len(held.got) = CountsDone(held.step)
  /\ Undisturbed =>
       /\ held.step # "begin" => held.got[1] = Cardinality(DOMAIN shelf)
       /\ held.step \in {"media", "old", "counted"} => held.got[2] = Total([d \in DOMAIN shelf |-> shelf[d].size])
       /\ held.step \in {"old", "counted"} => held.got[3] = MediaBreakdown

BulkHeld ==
  /\ held.step = "begin"
  /\ IsSequence(held.got) /\ \A j \in 1 .. Len(held.got) : held.got[j][1] = asked.items[j]

HeldFits ==
  /\ held = [step |-> held.step, age |-> held.age, blocks |-> held.blocks, ids |-> held.ids, got |-> held.got]
  /\ asked = Unasked => held = NothingHeld
  /\ asked.kind = "chunk" => ChunkHeld
  /\ asked.kind \in {"doc", "span"} => DocHeld
  /\ asked.kind = "list" => ListHeld
  /\ asked.kind = "stats" => StatsHeld
  /\ asked.kind = "bulk" => BulkHeld
  /\ asked.kind = "incomplete" => held.step = "begin"

\* An answer is of the request it names, and a reading goes on where the answer before it ended.
AnswersTrue ==
  /\ IsSequence(answered)
  /\ \A a \in Range(answered) : AnswerTrue(a)
  /\ \A i \in 2 .. Len(answered) : answered[i].request.from = answered[i - 1].end + 1
  /\ (asked # Unasked /\ answered # << >>) => asked.from = answered[Len(answered)].end + 1

FetchInv == ShelfTyped /\ ProperlyAsked /\ HeldFits /\ AnswersTrue /\ rewrites \in Nat

\* Before its first statement a handler holds nothing.
LEMMA NothingFits ==
  ASSUME held' = NothingHeld
  PROVE  HeldFits'
<1>1. << >> \in Seq({}) /\ Len(<< >>) = 0
  OBVIOUS
<1>2. IsSequence(<< >>)
  BY <1>1 DEF IsSequence
<1> QED
  BY <1>1, <1>2 DEF HeldFits, ChunkHeld, DocHeld, ListHeld, StatsHeld, BulkHeld, CountsDone, NothingHeld

LEMMA FetchBegins == FetchInit => FetchInv
<1> SUFFICES ASSUME FetchInit PROVE FetchInv
  OBVIOUS
<1>1. ShelfTyped
  BY FetchAssumption DEF FetchInit, ShelfTyped, DocTyped
<1>2. ProperlyAsked /\ rewrites \in Nat
  BY DEF FetchInit, ProperlyAsked
<1>3. << >> \in Seq({}) /\ Len(<< >>) = 0
  OBVIOUS
<1>4. IsSequence(<< >>)
  BY <1>3 DEF IsSequence
<1>5. HeldFits
  BY <1>3, <1>4 DEF FetchInit, HeldFits, ChunkHeld, DocHeld, ListHeld, StatsHeld, BulkHeld, CountsDone, NothingHeld, Unasked
<1>6. AnswersTrue
  BY <1>3, <1>4 DEF FetchInit, AnswersTrue, Range
<1> QED
  BY <1>1, <1>2, <1>5, <1>6 DEF FetchInv

\* A statement that answers nothing changes only what its handler holds.
LEMMA StatementKeeps ==
  ASSUME FetchInv, UNCHANGED <<shelf, asked, answered, rewrites>>, HeldFits'
  PROVE  FetchInv'
<1>1. ShelfTyped' /\ ProperlyAsked' /\ rewrites' \in Nat
  BY DEF FetchInv, ShelfTyped, ProperlyAsked
<1>2. \A a \in Range(answered) : AnswerTrue(a)
  BY DEF FetchInv, AnswersTrue
<1>3. ASSUME NEW a \in Range(answered)' PROVE AnswerTrue(a)'
  BY <1>2, TrueKept DEF Range
<1>4. AnswersTrue'
  BY <1>3 DEF FetchInv, AnswersTrue
<1> QED
  BY <1>1, <1>4 DEF FetchInv

\* An answer that is true leaves every answer true, and its handler with nothing.
LEMMA AnswerKeeps ==
  ASSUME FetchInv, asked # Unasked, NEW what, Answer(what), AnswerTrue(what), what.request = asked
  PROVE  FetchInv'
<1> DEFINE n == Len(answered)
<1>1. /\ answered' = Append(answered, what) /\ asked' = Unasked /\ held' = NothingHeld
      /\ UNCHANGED <<shelf, rewrites>>
  BY DEF Answer
<1>2. /\ IsSequence(answered) /\ (\A a \in Range(answered) : AnswerTrue(a))
      /\ (\A i \in 2 .. n : answered[i].request.from = answered[i - 1].end + 1)
      /\ (answered # << >> => asked.from = answered[n].end + 1)
  BY DEF FetchInv, AnswersTrue
<1>3. /\ IsSequence(answered') /\ Len(answered') = n + 1 /\ n \in Nat
      /\ (\A i \in 1 .. n : answered'[i] = answered[i]) /\ answered'[n + 1] = what
  BY <1>1, <1>2, Appended
<1>4. ASSUME NEW a \in Range(answered)' PROVE AnswerTrue(a)'
  <2>1. a = what \/ a \in Range(answered)
    <3>1. DOMAIN answered' = 1 .. n + 1 /\ DOMAIN answered = 1 .. n
      BY <1>2, <1>3, LenProperties DEF IsSequence
    <3>2. PICK i \in 1 .. n + 1 : a = answered'[i]
      BY <3>1 DEF Range
    <3> QED
      BY <1>3, <3>1, <3>2 DEF Range
  <2>2. AnswerTrue(a)
    BY <1>2, <2>1
  <2> QED
    BY <1>1, <2>2, TrueKept
<1>5. \A i \in 2 .. n + 1 : answered'[i].request.from = answered'[i - 1].end + 1
  <2> SUFFICES ASSUME NEW i \in 2 .. n + 1 PROVE answered'[i].request.from = answered'[i - 1].end + 1
    OBVIOUS
  <2>1. CASE i = n + 1
    <3>1. n >= 1 /\ answered # << >> /\ answered'[i - 1] = answered[n]
      BY <1>3, <2>1
    <3> QED
      BY <1>2, <1>3, <2>1, <3>1
  <2>2. CASE i # n + 1
    BY <1>2, <1>3, <2>2
  <2> QED
    BY <2>1, <2>2
<1>6. AnswersTrue'
  BY <1>1, <1>3, <1>4, <1>5 DEF AnswersTrue
<1>7. HeldFits'
  BY <1>1, NothingFits
<1>8. ShelfTyped' /\ ProperlyAsked' /\ rewrites' \in Nat
  BY <1>1 DEF FetchInv, ShelfTyped, ProperlyAsked
<1> QED
  BY <1>6, <1>7, <1>8 DEF FetchInv

\* So does a refusal of what is not there.
LEMMA DeclineKeeps ==
  ASSUME FetchInv, asked # Unasked, NEW error, error # "ok", Decline(error),
         Undisturbed => /\ asked.kind = "chunk" => error = "chunk_not_found" /\ ~StoredChunk(asked.id)
                        /\ asked.kind = "doc" => ~Stored(asked.id)
  PROVE  FetchInv'
<1> DEFINE what == [request |-> asked, code |-> error]
<1>1. what.request = asked /\ what.code = error /\ Answer(what)
  BY DEF Decline
<1> HIDE DEF what
<1>2. RightlyRefused(what)
  BY <1>1 DEF RightlyRefused
<1>3. AnswerTrue(what)
  BY <1>1, <1>2 DEF AnswerTrue
<1> QED
  BY <1>1, <1>3, AnswerKeeps

\* A request, the first or one that goes on, finds a handler that holds nothing.
LEMMA RequestKeeps ==
  ASSUME FetchInv, asked = Unasked, UNCHANGED <<shelf, held, answered, rewrites>>, ProperRequest(asked'),
         answered # << >> => asked'.from = answered[Len(answered)].end + 1
  PROVE  FetchInv'
<1>1. held' = NothingHeld
  BY DEF FetchInv, HeldFits
<1>2. HeldFits'
  BY <1>1, NothingFits
<1>3. ASSUME NEW a \in Range(answered)' PROVE AnswerTrue(a)'
  BY TrueKept DEF FetchInv, AnswersTrue, Range
<1>4. AnswersTrue'
  BY <1>3 DEF FetchInv, AnswersTrue
<1>5. ShelfTyped' /\ ProperlyAsked' /\ rewrites' \in Nat
  BY DEF FetchInv, ShelfTyped, ProperlyAsked
<1> QED
  BY <1>2, <1>4, <1>5 DEF FetchInv

LEMMA AskKeeps == FetchInv /\ Ask => FetchInv'
<1> SUFFICES ASSUME FetchInv, Ask PROVE FetchInv'
  OBVIOUS
<1>1. ProperRequest(asked')
  BY FetchAssumption DEF Ask, ProperRequest
<1> QED
  BY <1>1, RequestKeeps DEF Ask

LEMMA GoOnKeeps == FetchInv /\ GoOn => FetchInv'
<1> SUFFICES ASSUME FetchInv, GoOn PROVE FetchInv'
  OBVIOUS
<1> DEFINE n == Len(answered)
           a == answered[n]
<1>1. /\ a.request.kind = "span" /\ a.code = "ok" /\ asked' = [a.request EXCEPT !.from = a.end + 1]
      /\ asked = Unasked /\ answered # << >> /\ UNCHANGED <<shelf, held, answered, rewrites>>
  BY DEF GoOn, Last
<1>2. a \in Range(answered)
  <2>1. PICK S : answered \in Seq(S)
    BY DEF FetchInv, AnswersTrue, IsSequence
  <2>2. DOMAIN answered = 1 .. n /\ n \in Nat /\ n # 0
    BY <1>1, <2>1, EmptySeq, LenProperties
  <2> QED
    BY <2>2 DEF Range
<1>3. SpanRequest(a.request) /\ a.end \in Nat
  BY <1>1, <1>2 DEF FetchInv, AnswersTrue, AnswerTrue
<1> HIDE DEF a
<1>4. asked' = [kind |-> "span", id |-> a.request.id, from |-> a.end + 1, to |-> a.request.to, tokens |-> a.request.tokens]
  BY <1>1, <1>3 DEF SpanRequest
<1>5. ProperRequest(asked') /\ asked'.from = a.end + 1
  BY <1>3, <1>4 DEF ProperRequest, SpanRequest
<1> QED
  BY <1>1, <1>5, RequestKeeps DEF a

LEMMA IncompleteKeeps == FetchInv /\ Incomplete => FetchInv'
BY DeclineKeeps DEF Incomplete, Unasked

-----------------------------------------------------------------------------
(* Fetch: a document and a range of its lines *)

\* A stored chunk is one of a stored document.
LEMMA ChunkIsOfStored ==
  ASSUME NEW c, StoredChunk(c)
  PROVE  Stored(c[1])
<1>1. DOMAIN << >> = {}
  OBVIOUS
<1>2. Range(<< >>) = {}
  BY <1>1, Zenon DEF Range
<1> QED
  BY <1>2 DEF StoredChunk, ChunksOf

LEMMA GetRowKeeps == FetchInv /\ GetRow => FetchInv'
<1> SUFFICES ASSUME FetchInv, GetRow PROVE FetchInv'
  OBVIOUS
<1>0. HeldFits /\ asked # Unasked /\ asked.kind \in {"chunk", "doc", "span"} /\ held.step = FirstStep
  BY DEF FetchInv, GetRow, Unasked
<1>1. CASE Stored(Target)
  <2>1. held' = [held EXCEPT !.step = "blocks", !.age = shelf[Target].dated] /\ UNCHANGED <<shelf, asked, answered, rewrites>>
    BY <1>1 DEF GetRow
  <2>2. HeldFits'
    BY <1>0, <1>1, <2>1 DEF HeldFits, ChunkHeld, DocHeld, Target, FirstStep, Stored, StoredChunk, ChunksOf, Undisturbed
  <2> QED
    BY <2>1, <2>2, StatementKeeps
<1>2. CASE ~Stored(Target)
  <2>1. Decline("doc_not_found")
    BY <1>2 DEF GetRow
  <2>2. Undisturbed /\ asked.kind = "chunk" => FALSE
    <3> SUFFICES ASSUME Undisturbed, asked.kind = "chunk" PROVE FALSE
      OBVIOUS
    <3>1. StoredChunk(asked.id)
      BY <1>0 DEF HeldFits, ChunkHeld, FirstStep
    <3>2. Stored(asked.id[1])
      BY <3>1, ChunkIsOfStored
    <3> QED
      BY <1>2, <3>2 DEF Target
  <2> QED
    BY <1>0, <1>2, <2>1, <2>2, DeclineKeeps DEF Target
<1> QED
  BY <1>1, <1>2

LEMMA GetBlocksKeeps == FetchInv /\ GetBlocks => FetchInv'
<1> SUFFICES ASSUME FetchInv, GetBlocks PROVE FetchInv'
  OBVIOUS
<1>1. /\ HeldFits /\ held.step = "blocks" /\ UNCHANGED <<shelf, asked, answered, rewrites>>
      /\ held' = [held EXCEPT !.step = "have", !.blocks = IF Stored(Target) THEN shelf[Target].blocks ELSE << >>]
  BY DEF FetchInv, GetBlocks
<1>2. asked # Unasked /\ asked.kind \notin {"list", "stats", "bulk", "incomplete"}
  BY <1>1 DEF HeldFits, NothingHeld, ListHeld, StatsHeld, BulkHeld
<1>3. held'.blocks \in Seq(BlockKinds) /\ (Stored(Target) => held'.blocks = shelf[Target].blocks)
  <2>1. << >> \in Seq(BlockKinds)
    OBVIOUS
  <2> QED
    BY <1>1, <2>1 DEF FetchInv, ShelfTyped, DocTyped, Stored, HeldFits
<1>4. held'.step = "have" /\ held'.got = held.got
  BY <1>1 DEF HeldFits
<1>5. HeldFits'
  BY <1>1, <1>2, <1>3, <1>4 DEF HeldFits, ChunkHeld, DocHeld, Target, Stored, StoredChunk, ChunksOf, Undisturbed
<1> QED
  BY <1>1, <1>5, StatementKeeps

LEMMA AnswerDocKeeps == FetchInv /\ AnswerDoc => FetchInv'
<1> SUFFICES ASSUME FetchInv, AnswerDoc PROVE FetchInv'
  OBVIOUS
<1>1. PICK a : Answer(a) /\ a.request = asked /\ a.code = "ok"
  BY DEF AnswerDoc
<1>2. asked.kind = "doc" /\ asked # Unasked
  BY DEF AnswerDoc, Unasked
<1>3. AnswerTrue(a)
  BY <1>1, <1>2 DEF AnswerTrue, RightlyRefused
<1> QED
  BY <1>1, <1>2, <1>3, AnswerKeeps

LEMMA GetAssetKeeps == FetchInv /\ GetAsset => FetchInv'
<1> SUFFICES ASSUME FetchInv, GetAsset PROVE FetchInv'
  OBVIOUS
<1>1. asked.kind = "span" /\ held.step = "have" /\ asked # Unasked /\ HeldFits /\ SpanRequest(asked)
  BY DEF GetAsset, Unasked, FetchInv, ProperlyAsked, ProperRequest
<1> DEFINE media == IF Stored(Target) THEN shelf[Target].media ELSE "gone"
<1>2. CASE media \in {"pdf", "audio"}
  <2>1. Decline("span_not_supported")
    BY <1>2 DEF GetAsset
  <2> QED
    BY <1>1, <2>1, DeclineKeeps
<1>3. CASE media \notin {"pdf", "audio"} /\ (asked.from = 0 \/ asked.to = 0 \/ asked.to < asked.from)
  <2>1. Decline("invalid_input")
    BY <1>3 DEF GetAsset
  <2> QED
    BY <1>1, <2>1, DeclineKeeps
<1>4. CASE media \notin {"pdf", "audio"} /\ ~(asked.from = 0 \/ asked.to = 0 \/ asked.to < asked.from)
  <2>1. held' = [held EXCEPT !.step = "slice"] /\ UNCHANGED <<shelf, asked, answered, rewrites>>
    BY <1>4 DEF GetAsset
  <2>2. asked.from # 0 /\ asked.from <= asked.to
    BY <1>1, <1>4 DEF SpanRequest
  <2>3. DocHeld
    BY <1>1 DEF HeldFits
  <2>4. Undisturbed => shelf[asked.id].media \notin {"pdf", "audio"}
    BY <1>1, <1>4, <2>3 DEF DocHeld, Target
  <2>5. /\ held'.step = "slice" /\ held'.blocks = held.blocks
        /\ held' = [step |-> held'.step, age |-> held'.age, blocks |-> held'.blocks, ids |-> held'.ids, got |-> held'.got]
    BY <1>1, <2>1 DEF HeldFits
  <2>6. DocHeld'
    BY <1>1, <2>1, <2>2, <2>3, <2>4, <2>5 DEF DocHeld, Stored, Undisturbed
  <2>7. HeldFits'
    BY <1>1, <2>1, <2>5, <2>6 DEF HeldFits
  <2> QED
    BY <2>1, <2>7, StatementKeeps
<1> QED
  BY <1>2, <1>3, <1>4

LEMMA AnswerSpanKeeps == FetchInv /\ AnswerSpan => FetchInv'
<1> SUFFICES ASSUME FetchInv, AnswerSpan PROVE FetchInv'
  OBVIOUS
<1>1. asked.kind = "span" /\ held.step = "slice" /\ asked # Unasked /\ DocHeld /\ SpanRequest(asked)
  BY DEF AnswerSpan, Unasked, FetchInv, ProperlyAsked, ProperRequest, HeldFits
<1>2. asked.from # 0 /\ asked.from <= asked.to /\ held.blocks \in Seq(BlockKinds)
  BY <1>1 DEF DocHeld
<1>3. PICK a : Answer(a) /\ a.request = asked /\ a.code = "ok" /\ a.end \in Nat /\ SpanTiles(a, Rendered(held.blocks))
  BY <1>1, <1>2, SpanAnswered
<1>4. Stored(asked.id) => SpanTiles(a, Rendered(shelf[asked.id].blocks))
  <2> SUFFICES ASSUME Stored(asked.id) PROVE SpanTiles(a, Rendered(shelf[asked.id].blocks))
    OBVIOUS
  <2>1. held.blocks = shelf[asked.id].blocks
    BY <1>1 DEF DocHeld
  <2> QED
    BY <1>3, <2>1, Zenon
<1>5. RightlyRefused(a)
  BY <1>1, <1>3 DEF RightlyRefused, DocHeld
<1>6. AnswerTrue(a)
  BY <1>1, <1>3, <1>4, <1>5 DEF AnswerTrue
<1> QED
  BY <1>1, <1>3, <1>6, AnswerKeeps

-----------------------------------------------------------------------------
(* Fetch: a chunk with those around it *)

LEMMA GetChunkKeeps == FetchInv /\ GetChunk => FetchInv'
<1> SUFFICES ASSUME FetchInv, GetChunk PROVE FetchInv'
  OBVIOUS
<1>1. HeldFits /\ asked.kind = "chunk" /\ asked # Unasked /\ held.step = "begin"
  BY DEF FetchInv, GetChunk, Doing, Unasked
<1>2. CASE Doing({"chunk"}, "begin", "row") /\ StoredChunk(asked.id)
  <2>1. held' = [held EXCEPT !.step = "row"] /\ UNCHANGED <<shelf, asked, answered, rewrites>>
    BY <1>2 DEF Doing
  <2>2. /\ held'.step = "row" /\ held'.got = held.got
        /\ held' = [step |-> held'.step, age |-> held'.age, blocks |-> held'.blocks, ids |-> held'.ids, got |-> held'.got]
    BY <1>1, <2>1 DEF HeldFits
  <2>3. StoredChunk(asked.id)'
    BY <1>2, <2>1 DEF StoredChunk, ChunksOf, Stored
  <2>4. HeldFits'
    BY <1>1, <2>1, <2>2, <2>3 DEF HeldFits, ChunkHeld
  <2> QED
    BY <2>1, <2>4, StatementKeeps
<1>3. CASE ~StoredChunk(asked.id) /\ Decline("chunk_not_found")
  BY <1>1, <1>3, DeclineKeeps
<1> QED
  BY <1>2, <1>3 DEF GetChunk

LEMMA ListChunkIdsKeeps == FetchInv /\ ListChunkIds => FetchInv'
<1> SUFFICES ASSUME FetchInv, ListChunkIds PROVE FetchInv'
  OBVIOUS
<1> DEFINE d == asked.id[1]
<1>0. PICK size, ch : size = (IF Stored(d) THEN shelf[d].size ELSE 0) /\ ch = (IF Stored(d) THEN shelf[d].chunking ELSE 0)
  OBVIOUS
<1>1. /\ HeldFits /\ asked.kind = "chunk" /\ asked # Unasked /\ held.step = "have"
      /\ held' = [held EXCEPT !.step = "each", !.ids = ChunksOf(d)] /\ UNCHANGED <<shelf, asked, answered, rewrites>>
  BY DEF FetchInv, ListChunkIds, Unasked, Target
<1>2. ChunkHeld /\ held.got = << >>
  BY <1>1 DEF HeldFits, ChunkHeld
<1>3. /\ held'.step = "each" /\ held'.got = << >> /\ held'.ids = ChunksOf(d)
      /\ held' = [step |-> held'.step, age |-> held'.age, blocks |-> held'.blocks, ids |-> held'.ids, got |-> held'.got]
  BY <1>1, <1>2 DEF HeldFits
<1>4. size \in Nat /\ ch \in Nat
  BY <1>0 DEF FetchInv, ShelfTyped, DocTyped, Stored
<1>5. /\ 1..0 = {} /\ Len(<< >>) = 0 /\ << >> \in Seq({}) /\ \A f : f = [i \in 1..0 |-> f[i]] => f = << >>
  OBVIOUS
<1>6. ChunksOf(d) = [i \in 1 .. size - 0 |-> <<d, ch, 0 + i>>]
  <2>1. CASE Stored(d)
    BY <1>0, <1>4, <2>1 DEF ChunksOf
  <2>2. CASE ~Stored(d)
    BY <1>0, <2>2 DEF ChunksOf
  <2> QED
    BY <2>1, <2>2
<1>7. Undisturbed => Stored(d)
  BY <1>1, <1>2, ChunkIsOfStored DEF ChunkHeld
<1>8. EachRead(size, ch, 0)'
  <2>1. IsSequence(held'.got)
    BY <1>3, <1>5 DEF IsSequence
  <2>2. held'.ids = [i \in 1 .. size - 0 |-> <<asked'.id[1], ch, 0 + i>>]
    BY <1>1, <1>3, <1>6
  <2>3. held'.got = [i \in 1..0 |-> <<asked'.id[1], ch, i>>]
    BY <1>3
  <2> QED
    BY <1>0, <1>1, <1>3, <1>5, <1>7, <2>1, <2>2, <2>3 DEF EachRead, Undisturbed, Stored
<1>9. EachSoFar'
  <2>1. 0 \in 0..size
    BY <1>4
  <2> QED
    BY <1>4, <1>8, <2>1 DEF EachSoFar
<1>10. Undisturbed' => StoredChunk(asked.id)'
  BY <1>1, <1>2 DEF ChunkHeld, Undisturbed, StoredChunk, ChunksOf, Stored
<1>11. HeldFits'
  BY <1>1, <1>3, <1>9, <1>10 DEF HeldFits, ChunkHeld
<1> QED
  BY <1>1, <1>11, StatementKeeps

LEMMA FunctionIsList ==
  ASSUME NEW m \in Nat, NEW S, NEW f \in [1..m -> S]
  PROVE  f \in Seq(S) /\ Len(f) = m
OBVIOUS

\* What is behind the head of a run of chunks.
LEMMA TailOfRun ==
  ASSUME NEW d, NEW ch, NEW k \in Nat, NEW m \in Nat, NEW ids, ids = [i \in 1..m |-> <<d, ch, k + i>>], ids # << >>
  PROVE  m # 0 /\ Head(ids) = <<d, ch, k + 1>> /\ Tail(ids) = [i \in 1 .. m - 1 |-> <<d, ch, k + 1 + i>>]
<1> DEFINE S == {<<d, ch, k + i>> : i \in 1..m}
<1>0. ids \in [1..m -> S]
  OBVIOUS
<1>1. ids \in Seq(S) /\ Len(ids) = m
  <2> HIDE DEF S
  <2> QED
    BY <1>0, FunctionIsList
<1> HIDE DEF S
<1>2. m # 0
  BY <1>1, EmptySeq
<1>3. Head(ids) = ids[1] /\ Tail(ids) = [i \in 1 .. Len(ids) - 1 |-> ids[i + 1]]
  BY <1>1, HeadTailProperties
<1>4. \A i \in 1 .. m - 1 : i + 1 \in 1..m /\ k + (i + 1) = k + 1 + i
  OBVIOUS
<1> QED
  BY <1>1, <1>2, <1>3, <1>4

LEMMA GetNextChunkKeeps == FetchInv /\ GetNextChunk => FetchInv'
<1> SUFFICES ASSUME FetchInv, GetNextChunk PROVE FetchInv'
  OBVIOUS
<1> DEFINE d == asked.id[1]
           head == Head(held.ids)
           got == held.got
<1>1. /\ HeldFits /\ held.step = "each" /\ held.ids # << >> /\ UNCHANGED <<shelf, asked, answered, rewrites>>
      /\ held' = [held EXCEPT !.ids = Tail(@), !.got = IF StoredChunk(head) THEN Append(@, head) ELSE @]
  BY DEF FetchInv, GetNextChunk
<1>2. asked # Unasked /\ asked.kind = "chunk" /\ ChunkHeld /\ EachSoFar
  <2>1. asked # Unasked /\ asked.kind \notin {"doc", "span", "list", "stats", "bulk", "incomplete"}
    BY <1>1 DEF HeldFits, NothingHeld, DocHeld, ListHeld, StatsHeld, BulkHeld
  <2>2. asked.kind = "chunk"
    BY <2>1 DEF FetchInv, ProperlyAsked, ProperRequest
  <2>3. ChunkHeld
    BY <1>1, <2>2 DEF HeldFits
  <2>4. held.step = "each"
    BY <1>1
  <2>5. EachSoFar
    BY <2>3, <2>4, Zenon DEF ChunkHeld
  <2> QED
    BY <2>1, <2>2, <2>3, <2>5
<1>0. PICK size \in Nat, ch \in Nat : \E k \in 0..size : EachRead(size, ch, k)
  BY <1>2 DEF EachSoFar
<1>3. PICK k \in 0..size : EachRead(size, ch, k)
  BY <1>0
<1>4. /\ held'.step = "each" /\ held'.ids = Tail(held.ids)
      /\ held'.got = IF StoredChunk(head) THEN Append(got, head) ELSE got
      /\ held' = [step |-> held'.step, age |-> held'.age, blocks |-> held'.blocks, ids |-> held'.ids, got |-> held'.got]
  BY <1>1 DEF HeldFits
<1>5. /\ k < size /\ head = <<d, ch, k + 1>> /\ held'.ids = [i \in 1 .. size - (k + 1) |-> <<d, ch, k + 1 + i>>]
  <2>1. held.ids = [i \in 1 .. size - k |-> <<d, ch, k + i>>]
    BY <1>3 DEF EachRead
  <2>2. /\ k < size /\ Head(held.ids) = <<d, ch, k + 1>>
        /\ Tail(held.ids) = [i \in 1 .. size - (k + 1) |-> <<d, ch, k + 1 + i>>]
    <3> DEFINE ids == held.ids
    <3>1. PICK m \in Nat : m = size - k
      OBVIOUS
    <3>2. ids = [i \in 1..m |-> <<d, ch, k + i>>] /\ ids # << >> /\ k \in Nat
      BY <1>1, <2>1, <3>1
    <3> HIDE DEF d, ids
    <3>3. m # 0 /\ Head(ids) = <<d, ch, k + 1>> /\ Tail(ids) = [i \in 1 .. m - 1 |-> <<d, ch, k + 1 + i>>]
      BY <3>2, TailOfRun
    <3>4. k < size /\ m - 1 = size - (k + 1)
      BY <3>1, <3>3
    <3> QED
      BY <3>3, <3>4 DEF ids
  <2> QED
    BY <1>4, <2>2
<1>6. /\ IsSequence(got)
      /\ \A j \in 1 .. Len(got) : got[j] = <<d, ch, got[j][3]>> /\ got[j][3] \in 1..k
      /\ \A j, l \in 1 .. Len(got) : j < l => got[j][3] < got[l][3]
      /\ Undisturbed => /\ Stored(d) /\ ch = shelf[d].chunking /\ size = shelf[d].size
                        /\ got = [i \in 1..k |-> <<d, ch, i>>]
  BY <1>3 DEF EachRead
<1>7. Len(got) \in Nat
  BY <1>6, LenProperties DEF IsSequence
<1> HIDE DEF head, got, d
<1>8. Undisturbed => StoredChunk(head)
  <2> SUFFICES ASSUME Undisturbed PROVE StoredChunk(head)
    OBVIOUS
  <2>1. ChunksOf(d) = [i \in 1..size |-> <<d, ch, i>>]
    BY <1>6 DEF ChunksOf
  <2>2. head[1] = d /\ head = ChunksOf(d)[k + 1] /\ k + 1 \in DOMAIN ChunksOf(d)
    BY <1>5, <2>1
  <2> QED
    BY <2>2 DEF StoredChunk, Range
<1>9. /\ IsSequence(held'.got)
      /\ \A j \in 1 .. Len(held'.got) : held'.got[j] = <<d, ch, held'.got[j][3]>> /\ held'.got[j][3] \in 1 .. k + 1
      /\ \A j, l \in 1 .. Len(held'.got) : j < l => held'.got[j][3] < held'.got[l][3]
  <2>1. CASE StoredChunk(head)
    <3> DEFINE new == Append(got, head)
    <3>1. held'.got = new
      BY <1>4, <2>1
    <3>2. /\ IsSequence(new) /\ Len(new) = Len(got) + 1
          /\ \A i \in 1 .. Len(got) : new[i] = got[i]
          /\ new[Len(got) + 1] = head
      BY <1>6, Appended
    <3> HIDE DEF new
    <3>3. head = <<d, ch, head[3]>> /\ head[3] = k + 1
      BY <1>5
    <3>4. k \in Nat /\ Len(got) \in Nat
      BY <1>7
    <3>5. \A j \in 1 .. Len(new) : new[j] = <<d, ch, new[j][3]>> /\ new[j][3] \in 1 .. k + 1
      <4> SUFFICES ASSUME NEW j \in 1 .. Len(new) PROVE new[j] = <<d, ch, new[j][3]>> /\ new[j][3] \in 1 .. k + 1
        OBVIOUS
      <4>1. CASE j = Len(got) + 1
        BY <3>2, <3>3, <3>4, <4>1
      <4>2. CASE j # Len(got) + 1
        <5>1. j \in 1 .. Len(got)
          BY <3>2, <3>4, <4>2
        <5> QED
          BY <1>6, <3>2, <3>4, <5>1
      <4> QED
        BY <4>1, <4>2
    <3>6. \A j, l \in 1 .. Len(new) : j < l => new[j][3] < new[l][3]
      <4> SUFFICES ASSUME NEW j \in 1 .. Len(new), NEW l \in 1 .. Len(new), j < l PROVE new[j][3] < new[l][3]
        OBVIOUS
      <4>1. j \in 1 .. Len(got) /\ new[j] = got[j] /\ got[j][3] \in 1..k
        BY <1>6, <3>2, <3>4
      <4>2. CASE l = Len(got) + 1
        BY <3>2, <3>3, <3>4, <4>1, <4>2
      <4>3. CASE l # Len(got) + 1
        <5>1. l \in 1 .. Len(got) /\ new[l] = got[l]
          BY <3>2, <3>4, <4>3
        <5> QED
          BY <1>6, <4>1, <5>1
      <4> QED
        BY <4>2, <4>3
    <3> QED
      BY <3>1, <3>2, <3>5, <3>6
  <2>2. CASE ~StoredChunk(head)
    BY <1>4, <1>6, <2>2
  <2> QED
    BY <2>1, <2>2
<1>10. Undisturbed => held'.got = [i \in 1 .. k + 1 |-> <<d, ch, i>>]
  <2> SUFFICES ASSUME Undisturbed PROVE held'.got = [i \in 1 .. k + 1 |-> <<d, ch, i>>]
    OBVIOUS
  <2>1. held'.got = Append(got, head) /\ got = [i \in 1..k |-> <<d, ch, i>>]
    BY <1>4, <1>6, <1>8
  <2>2. got \in Seq({<<d, ch, i>> : i \in 1..k}) /\ Len(got) = k
    BY <2>1
  <2> QED
    BY <1>5, <2>1, <2>2
<1>11. EachRead(size, ch, k + 1)'
  BY <1>1, <1>5, <1>6, <1>9, <1>10 DEF EachRead, Undisturbed, Stored, d
<1>12. EachSoFar'
  <2>1. k + 1 \in 0..size
    BY <1>5
  <2> QED
    BY <1>11, <2>1 DEF EachSoFar
<1>13. Undisturbed' => StoredChunk(asked.id)'
  BY <1>1, <1>2 DEF ChunkHeld, Undisturbed, StoredChunk, ChunksOf, Stored
<1>14. HeldFits'
  BY <1>1, <1>2, <1>4, <1>12, <1>13 DEF HeldFits, ChunkHeld
<1> QED
  BY <1>1, <1>14, StatementKeeps

\* A chunk answered without others.
LEMMA ChunkAlone ==
  ASSUME NEW a, a.request.context = 0, a.before = << >>, a.after = << >>,
         Undisturbed => StoredChunk(a.request.id), ShelfTyped
  PROVE  WithNeighbours(a)
<1> DEFINE id == a.request.id
           near == a.before \o <<id>> \o a.after
<1>1. near = <<id>> /\ Len(<<id>>) = 1 /\ DOMAIN <<id>> = {1} /\ <<id>>[1] = id /\ Len(<< >>) = 0
  <2>1. << >> \in Seq({id}) /\ <<id>> \in Seq({id})
    OBVIOUS
  <2>2. << >> \o <<id>> = <<id>> /\ <<id>> \o << >> = <<id>>
    BY <2>1, ConcatEmptySeq
  <2> QED
    BY <2>2
<1>2. ASSUME Undisturbed
      PROVE  Cardinality({c \in Range(ChunksOf(id[1])) : c[3] - id[3] \in -0 .. 0}) = 1
  <2> DEFINE d == id[1]
             ch == shelf[d].chunking
             size == shelf[d].size
  <2>1. StoredChunk(id) /\ Stored(d)
    BY <1>2, ChunkIsOfStored
  <2>2. size \in Nat
    BY <2>1 DEF ShelfTyped, DocTyped, Stored
  <2>3. Range(ChunksOf(d)) = {<<d, ch, i>> : i \in 1..size}
    BY <2>1 DEF ChunksOf, Range
  <2>4. PICK m \in 1..size : id = <<d, ch, m>>
    BY <2>1, <2>3 DEF StoredChunk
  <2>5. {c \in Range(ChunksOf(d)) : c[3] - id[3] \in -0 .. 0} = {id}
    <3> HIDE DEF d, ch, size
    <3>1. id[3] = m /\ m \in Int
      BY <2>2, <2>4
    <3>2. \A i \in 1..size : i - m \in -0 .. 0 <=> i = m
      BY <2>2, <3>1
    <3> QED
      BY <2>3, <2>4, <3>1, <3>2
  <2> QED
    BY <2>5, FS_Singleton
<1> HIDE DEF near
<1>3. Undisturbed => Len(near) = Cardinality({c \in Range(ChunksOf(id[1])) : c[3] - id[3] \in -a.request.context .. a.request.context})
  BY <1>1, <1>2
<1> QED
  BY <1>1, <1>3 DEF WithNeighbours, near

LEMMA AnswerChunkKeeps == FetchInv /\ AnswerChunk => FetchInv'
<1> SUFFICES ASSUME FetchInv, AnswerChunk PROVE FetchInv'
  OBVIOUS
<1> DEFINE d == asked.id[1]
<1>1. HeldFits /\ ShelfTyped /\ asked.kind = "chunk" /\ asked # Unasked /\ asked.context \in Nat
  BY DEF FetchInv, AnswerChunk, Unasked, ProperlyAsked, ProperRequest
<1>2. ChunkHeld
  BY <1>1 DEF HeldFits
<1>3. ASSUME NEW a, Answer(a), a.request = asked, a.code = "ok", WithNeighbours(a)
      PROVE  FetchInv'
  <2>1. AnswerTrue(a)
    BY <1>1, <1>3 DEF AnswerTrue, RightlyRefused
  <2> QED
    BY <1>1, <1>3, <2>1, AnswerKeeps
<1>4. CASE held.step = "have" /\ asked.context = 0
  <2>1. PICK a : Answer(a) /\ a.request = asked /\ a.code = "ok" /\ a.before = << >> /\ a.after = << >>
    BY <1>4 DEF AnswerChunk
  <2>2. Undisturbed => StoredChunk(asked.id)
    BY <1>2, <1>4 DEF ChunkHeld
  <2>3. WithNeighbours(a)
    BY <1>1, <1>4, <2>1, <2>2, ChunkAlone
  <2> QED
    BY <1>3, <2>1, <2>3
<1>5. CASE held.step = "each" /\ held.ids = << >>
  <2>0. PICK size \in Nat, ch \in Nat : \E k \in 0..size : EachRead(size, ch, k)
    BY <1>2, <1>5 DEF ChunkHeld, EachSoFar
  <2>1. PICK k \in 0..size : EachRead(size, ch, k)
    BY <2>0
  <2>2. k = size
    <3>1. held.ids = [i \in 1 .. size - k |-> <<d, ch, k + i>>] /\ size - k \in Nat
      BY <2>1 DEF EachRead
    <3>2. Len(held.ids) = size - k
      BY <3>1
    <3>3. Len(held.ids) = 0
      BY <1>5, EmptySeq
    <3> QED
      BY <3>2, <3>3
  <2>3. EachRead(size, ch, size)
    BY <2>1, <2>2
  <2>4. CASE asked.id \notin Range(held.got)
    <3>1. Decline("generic")
      BY <1>5, <2>4 DEF AnswerChunk
    <3>2. ~Undisturbed
      <4> SUFFICES ASSUME Undisturbed PROVE FALSE
        OBVIOUS
      <4>1. held.got = ChunksOf(d)
        BY <2>3 DEF EachRead, ChunksOf
      <4>2. StoredChunk(asked.id)
        BY <1>2, <1>5 DEF ChunkHeld
      <4> QED
        BY <2>4, <4>1, <4>2 DEF StoredChunk
    <3> QED
      BY <1>1, <3>1, <3>2, DeclineKeeps
  <2>5. CASE asked.id \in Range(held.got)
    <3> DEFINE at == CHOOSE i \in DOMAIN held.got : held.got[i] = asked.id
               before == SubSeq(held.got, Max({1, at - asked.context}), at - 1)
               after == SubSeq(held.got, at + 1, Min({Len(held.got), at + asked.context}))
               a == [request |-> asked, code |-> "ok", stale |-> Stale(held.age), before |-> before, after |-> after]
    <3>1. Answer(a)
      BY <1>5, <2>5, Zenon DEF AnswerChunk
    <3>2. a.request = asked /\ a.code = "ok" /\ a.before = before /\ a.after = after
      OBVIOUS
    <3> HIDE DEF a
    <3>3. WithNeighbours(a)
      BY <1>1, <2>3, <2>5, <3>2, ChunkAnswered
    <3> QED
      BY <1>3, <3>1, <3>2, <3>3
  <2> QED
    BY <2>4, <2>5
<1> QED
  BY <1>4, <1>5 DEF AnswerChunk

-----------------------------------------------------------------------------
(* Fetch: the list *)

LEMMA RangeOfTail ==
  ASSUME NEW ids, IsSequence(ids), ids # << >>
  PROVE  /\ IsSequence(Tail(ids)) /\ Range(ids) = {Head(ids)} \cup Range(Tail(ids))
<1>1. PICK S : ids \in Seq(S)
  BY DEF IsSequence
<1> DEFINE n == Len(ids)
           tail == Tail(ids)
<1>2. n \in Nat \ {0} /\ DOMAIN ids = 1..n /\ Head(ids) = ids[1]
  BY <1>1, EmptySeq, LenProperties
<1>3. tail \in Seq(S) /\ Len(tail) = n - 1 /\ \A i \in 1 .. n - 1 : tail[i] = ids[i + 1]
  BY <1>1, HeadTailProperties
<1>4. DOMAIN tail = 1 .. n - 1
  BY <1>3, LenProperties
<1> HIDE DEF n, tail
<1>5. Range(ids) = {ids[i] : i \in 1..n} /\ Range(tail) = {tail[i] : i \in 1 .. n - 1}
  BY <1>2, <1>4 DEF Range
<1>6. \A i \in 1..n : i = 1 \/ (i - 1 \in 1 .. n - 1 /\ ids[i] = tail[i - 1])
  BY <1>2, <1>3
<1>7. \A i \in 1 .. n - 1 : i + 1 \in 1..n /\ tail[i] = ids[i + 1]
  BY <1>2, <1>3
<1>8. 1 \in 1..n
  BY <1>2
<1>9. Range(ids) = {ids[1]} \cup Range(tail)
  BY <1>5, <1>6, <1>7, <1>8
<1> QED
  BY <1>2, <1>3, <1>9 DEF tail, IsSequence

LEMMA FirstsGrow ==
  ASSUME NEW pairs, IsSequence(pairs), NEW d, NEW x
  PROVE  Firsts(Append(pairs, <<d, x>>)) = Firsts(pairs) \cup {d}
<1> DEFINE n == Len(pairs)
           new == Append(pairs, <<d, x>>)
<1>1. n \in Nat /\ Len(new) = n + 1 /\ (\A i \in 1..n : new[i] = pairs[i]) /\ new[n + 1] = <<d, x>>
  BY Appended
<1> HIDE DEF n, new
<1>2. \A i \in 1 .. n + 1 : i \in 1..n \/ i = n + 1
  BY <1>1
<1>3. \A i \in 1..n : i \in 1 .. n + 1
  BY <1>1
<1>4. n + 1 \in 1 .. n + 1
  BY <1>1
<1>5. {new[i][1] : i \in 1 .. n + 1} = {pairs[i][1] : i \in 1..n} \cup {d}
  BY <1>1, <1>2, <1>3, <1>4
<1> QED
  BY <1>1, <1>5 DEF Firsts, n, new

LEMMA ListRowsKeeps == FetchInv /\ ListRows => FetchInv'
<1> SUFFICES ASSUME FetchInv, ListRows PROVE FetchInv'
  OBVIOUS
<1> DEFINE rows == {d \in DOMAIN shelf : Accepted(d)}
<1>1. /\ HeldFits /\ asked.kind = "list" /\ asked # Unasked /\ held.step = "begin" /\ UNCHANGED <<shelf, asked, answered, rewrites>>
      /\ held' = [held EXCEPT !.step = "tags", !.ids = SetToSeq(rows)]
  BY DEF FetchInv, ListRows, Unasked
<1>2. /\ held'.step = "tags" /\ held'.got = held.got /\ held'.ids = SetToSeq(rows)
      /\ held' = [step |-> held'.step, age |-> held'.age, blocks |-> held'.blocks, ids |-> held'.ids, got |-> held'.got]
  BY <1>1 DEF HeldFits
<1>3. held.got = << >> /\ IsSequence(held.got)
  BY <1>1 DEF HeldFits, ListHeld
<1>4. IsFiniteSet(rows)
  BY FS_Subset DEF FetchInv, ShelfTyped
<1>5. SetToSeq(rows) \in Seq(rows) /\ {SetToSeq(rows)[j] : j \in 1 .. Len(SetToSeq(rows))} = rows
  <2> HIDE DEF rows
  <2> QED
    BY <1>4, SetAsList
<1>6. IsSequence(held'.ids) /\ Range(held'.ids) = rows
  <2>1. DOMAIN held'.ids = 1 .. Len(held'.ids)
    BY <1>2, <1>5, LenProperties
  <2> QED
    BY <1>2, <1>5, <2>1 DEF IsSequence, Range
<1>7. Len(<< >>) = 0 /\ Firsts(<< >>) = {}
  <2>1. Len(<< >>) = 0 /\ 1..0 = {}
    OBVIOUS
  <2> QED
    BY <2>1 DEF Firsts
<1>8. {d \in DOMAIN shelf' : Accepted(d)'} = rows
  BY <1>1 DEF Accepted
<1>9. ListHeld'
  <2>1. Firsts(held'.got) \cup Range(held'.ids) = {d \in DOMAIN shelf' : Accepted(d)'}
    BY <1>2, <1>3, <1>6, <1>7, <1>8
  <2> QED
    BY <1>1, <1>2, <1>3, <1>6, <1>7, <2>1 DEF ListHeld
<1>10. HeldFits'
  BY <1>1, <1>2, <1>9 DEF HeldFits
<1> QED
  BY <1>1, <1>10, StatementKeeps

LEMMA OnlyListHoldsTags ==
  ASSUME FetchInv, held.step = "tags"
  PROVE  asked # Unasked /\ asked.kind = "list" /\ ListHeld
<1>1. asked # Unasked
  BY DEF FetchInv, HeldFits, NothingHeld
<1>2. asked.kind \notin {"chunk", "doc", "span", "stats", "bulk", "incomplete"}
  BY DEF FetchInv, HeldFits, ChunkHeld, DocHeld, StatsHeld, BulkHeld
<1>3. asked.kind = "list"
  BY <1>1, <1>2 DEF FetchInv, ProperlyAsked, ProperRequest
<1> QED
  BY <1>1, <1>3 DEF FetchInv, HeldFits

LEMMA ListTagsKeeps == FetchInv /\ ListTags => FetchInv'
<1> SUFFICES ASSUME FetchInv, ListTags PROVE FetchInv'
  OBVIOUS
<1> DEFINE d == Head(held.ids)
           tags == IF Stored(d) THEN shelf[d].tags ELSE {}
           rows == {e \in DOMAIN shelf : Accepted(e)}
<1>1. /\ HeldFits /\ held.step = "tags" /\ held.ids # << >> /\ UNCHANGED <<shelf, asked, answered, rewrites>>
      /\ held' = [held EXCEPT !.ids = Tail(@), !.got = Append(@, <<d, tags>>)]
  BY DEF FetchInv, ListTags
<1>2. asked # Unasked /\ asked.kind = "list" /\ ListHeld
  BY <1>1, OnlyListHoldsTags
<1>3. /\ held'.step = "tags" /\ held'.got = Append(held.got, <<d, tags>>) /\ held'.ids = Tail(held.ids)
      /\ held' = [step |-> held'.step, age |-> held'.age, blocks |-> held'.blocks, ids |-> held'.ids, got |-> held'.got]
  BY <1>1 DEF HeldFits
<1>4. IsSequence(held.got) /\ IsSequence(held.ids)
  BY <1>2 DEF ListHeld
<1>5. /\ IsSequence(held'.got) /\ Len(held'.got) = Len(held.got) + 1 /\ Len(held.got) \in Nat
      /\ (\A i \in 1 .. Len(held.got) : held'.got[i] = held.got[i])
      /\ held'.got[Len(held.got) + 1] = <<d, tags>>
  <2> DEFINE got == held.got
             new == <<d, tags>>
  <2>1. IsSequence(got) /\ held'.got = Append(got, new)
    BY <1>3, <1>4
  <2> HIDE DEF got, new
  <2>2. /\ IsSequence(held'.got) /\ Len(held'.got) = Len(got) + 1 /\ Len(got) \in Nat
        /\ (\A i \in 1 .. Len(got) : held'.got[i] = got[i]) /\ held'.got[Len(got) + 1] = new
    BY <2>1, Appended
  <2> QED
    BY <2>2 DEF got, new
<1>6. IsSequence(held'.ids) /\ Range(held.ids) = {d} \cup Range(held'.ids)
  BY <1>1, <1>3, <1>4, RangeOfTail
<1>7. Firsts(held'.got) = Firsts(held.got) \cup {d}
  BY <1>3, <1>4, FirstsGrow
<1>8. {e \in DOMAIN shelf' : Accepted(e)'} = rows
  BY <1>1 DEF Accepted
<1>9. ASSUME Undisturbed
      PROVE  /\ \A j \in 1 .. Len(held'.got) : held'.got[j][2] = shelf[held'.got[j][1]].tags
             /\ Firsts(held'.got) \cup Range(held'.ids) = rows
  <2>1. /\ \A j \in 1 .. Len(held.got) : held.got[j][2] = shelf[held.got[j][1]].tags
        /\ Firsts(held.got) \cup Range(held.ids) = rows
    BY <1>1, <1>2, <1>9 DEF ListHeld
  <2>2. tags = shelf[d].tags
    <3>1. d \in DOMAIN shelf
      BY <1>6, <2>1
    <3> QED
      BY <3>1 DEF Stored
  <2>3. \A j \in 1 .. Len(held'.got) : held'.got[j][2] = shelf[held'.got[j][1]].tags
    <3> SUFFICES ASSUME NEW j \in 1 .. Len(held'.got) PROVE held'.got[j][2] = shelf[held'.got[j][1]].tags
      OBVIOUS
    <3> HIDE DEF d, tags, rows
    <3>1. CASE j = Len(held.got) + 1
      BY <1>5, <2>2, <3>1
    <3>2. CASE j # Len(held.got) + 1
      <4>1. j \in 1 .. Len(held.got)
        BY <1>5, <3>2
      <4> QED
        BY <1>5, <2>1, <4>1
    <3> QED
      BY <3>1, <3>2
  <2>4. Firsts(held'.got) \cup Range(held'.ids) = rows
    <3> HIDE DEF d, tags, rows
    <3> QED
      BY <1>6, <1>7, <2>1
  <2> QED
    BY <2>3, <2>4
<1>10. ListHeld'
  <2>1. Undisturbed' => /\ \A j \in 1 .. Len(held'.got) : held'.got[j][2] = shelf'[held'.got[j][1]].tags
                        /\ Firsts(held'.got) \cup Range(held'.ids) = {e \in DOMAIN shelf' : Accepted(e)'}
    <3>1. Undisturbed' <=> Undisturbed
      BY <1>1 DEF Undisturbed
    <3> QED
      BY <1>1, <1>8, <1>9, <3>1
  <2> QED
    BY <1>3, <1>5, <1>6, <2>1 DEF ListHeld
<1>11. HeldFits'
  BY <1>1, <1>2, <1>3, <1>10 DEF HeldFits
<1> QED
  BY <1>1, <1>11, StatementKeeps

LEMMA AnswerListKeeps == FetchInv /\ AnswerList => FetchInv'
<1> SUFFICES ASSUME FetchInv, AnswerList PROVE FetchInv'
  OBVIOUS
<1>1. asked # Unasked /\ asked.kind = "list" /\ ListHeld /\ held.step = "tags" /\ held.ids = << >>
  BY OnlyListHoldsTags DEF AnswerList
<1>2. PICK a : Answer(a) /\ a.request = asked /\ a.code = "ok" /\ a.rows = held.got
  BY DEF AnswerList
<1>3. ASSUME Undisturbed
      PROVE  /\ \A j \in DOMAIN a.rows : a.rows[j][2] = shelf[a.rows[j][1]].tags
             /\ {a.rows[j][1] : j \in DOMAIN a.rows} = {d \in DOMAIN shelf : Accepted(d)}
  <2>1. DOMAIN a.rows = 1 .. Len(a.rows)
    BY <1>1, <1>2, LenProperties DEF ListHeld, IsSequence
  <2>2. Range(<< >>) = {}
    <3>1. DOMAIN << >> = {}
      OBVIOUS
    <3> QED
      BY <3>1, Zenon DEF Range
  <2>3. /\ \A j \in 1 .. Len(held.got) : held.got[j][2] = shelf[held.got[j][1]].tags
        /\ Firsts(held.got) = {d \in DOMAIN shelf : Accepted(d)}
    BY <1>1, <1>3, <2>2 DEF ListHeld
  <2> QED
    BY <1>2, <2>1, <2>3 DEF Firsts
<1>4. ListAgrees(a)
  BY <1>2, <1>3 DEF ListAgrees, Accepted
<1>5. AnswerTrue(a)
  BY <1>1, <1>2, <1>4 DEF AnswerTrue, RightlyRefused
<1> QED
  BY <1>1, <1>2, <1>5, AnswerKeeps

-----------------------------------------------------------------------------
(* Fetch: the counts *)

\* One count more, of the store as it is.
LEMMA CountKeeps ==
  ASSUME FetchInv, NEW from, NEW to, NEW n, StatsStep(from, to, n),
         \/ from = "begin" /\ to = "chunks" /\ n = Cardinality(DOMAIN shelf)
         \/ from = "chunks" /\ to = "media" /\ n = Total([d \in DOMAIN shelf |-> shelf[d].size])
         \/ from = "media" /\ to = "old" /\ n = MediaBreakdown
         \/ from = "old" /\ to = "counted"
  PROVE  FetchInv'
<1>1. /\ HeldFits /\ asked.kind = "stats" /\ asked # Unasked /\ held.step = from /\ UNCHANGED <<shelf, asked, answered, rewrites>>
      /\ held' = [held EXCEPT !.step = to, !.got = Append(@, n)]
  BY DEF FetchInv, StatsStep, Unasked
<1>2. /\ held'.step = to /\ held'.got = Append(held.got, n)
      /\ held' = [step |-> held'.step, age |-> held'.age, blocks |-> held'.blocks, ids |-> held'.ids, got |-> held'.got]
  BY <1>1 DEF HeldFits
<1>3. StatsHeld /\ IsSequence(held.got) /\ Len(held.got) = CountsDone(from)
  BY <1>1 DEF HeldFits, StatsHeld
<1> DEFINE got == held.got
           new == held'.got
           k   == CountsDone(from)
<1>4. IsSequence(new) /\ Len(new) = k + 1 /\ k \in Nat /\ (\A i \in 1..k : new[i] = got[i]) /\ new[k + 1] = n
  BY <1>2, <1>3, Appended
<1>5. /\ UNCHANGED <<Undisturbed, MediaBreakdown>>
  BY <1>1 DEF Undisturbed, MediaBreakdown, Count
<1>6. StatsHeld'
  <2>1. CASE from = "begin" /\ to = "chunks" /\ n = Cardinality(DOMAIN shelf)
    <3>1. k = 0 /\ new[1] = n
      BY <1>4, <2>1 DEF CountsDone
    <3> QED
      BY <1>1, <1>2, <1>4, <2>1, <3>1 DEF StatsHeld, CountsDone
  <2>2. CASE from = "chunks" /\ to = "media" /\ n = Total([d \in DOMAIN shelf |-> shelf[d].size])
    <3>1. k = 1 /\ new[1] = got[1] /\ new[2] = n
      BY <1>4, <2>2 DEF CountsDone
    <3>2. Undisturbed => got[1] = Cardinality(DOMAIN shelf)
      BY <1>1, <1>3, <2>2 DEF StatsHeld
    <3> QED
      BY <1>1, <1>2, <1>4, <1>5, <2>2, <3>1, <3>2 DEF StatsHeld, CountsDone
  <2>3. CASE from = "media" /\ to = "old" /\ n = MediaBreakdown
    <3>1. k = 2 /\ new[1] = got[1] /\ new[2] = got[2] /\ new[3] = n
      BY <1>4, <2>3 DEF CountsDone
    <3>2. Undisturbed => got[1] = Cardinality(DOMAIN shelf) /\ got[2] = Total([d \in DOMAIN shelf |-> shelf[d].size])
      BY <1>1, <1>3, <2>3 DEF StatsHeld
    <3> QED
      BY <1>1, <1>2, <1>4, <1>5, <2>3, <3>1, <3>2 DEF StatsHeld, CountsDone
  <2>4. CASE from = "old" /\ to = "counted"
    <3>1. k = 3 /\ new[1] = got[1] /\ new[2] = got[2] /\ new[3] = got[3]
      BY <1>4, <2>4 DEF CountsDone
    <3>2. Undisturbed => /\ got[1] = Cardinality(DOMAIN shelf) /\ got[2] = Total([d \in DOMAIN shelf |-> shelf[d].size])
                         /\ got[3] = MediaBreakdown
      BY <1>1, <1>3, <2>4 DEF StatsHeld
    <3> QED
      BY <1>1, <1>2, <1>4, <1>5, <2>4, <3>1, <3>2 DEF StatsHeld, CountsDone
  <2> QED
    BY <2>1, <2>2, <2>3, <2>4
<1>7. HeldFits'
  BY <1>1, <1>2, <1>6 DEF HeldFits
<1> QED
  BY <1>1, <1>7, StatementKeeps

LEMMA CountsKeep == FetchInv /\ (CountDocs \/ CountChunks \/ CountMedia \/ CountStale) => FetchInv'
<1>1. FetchInv /\ CountDocs => FetchInv'
  BY CountKeeps DEF CountDocs
<1>2. FetchInv /\ CountChunks => FetchInv'
  BY CountKeeps DEF CountChunks
<1>3. FetchInv /\ CountMedia => FetchInv'
  BY CountKeeps DEF CountMedia
<1>4. FetchInv /\ CountStale => FetchInv'
  BY CountKeeps DEF CountStale
<1> QED
  BY <1>1, <1>2, <1>3, <1>4

\* The documents of every kind are all documents.
LEMMA MediaAddUp ==
  ASSUME ShelfTyped
  PROVE  Total(MediaBreakdown) = Cardinality(DOMAIN shelf)
<1> DEFINE D == DOMAIN shelf
           f == [d \in D |-> shelf[d].media]
           M == MediaKinds \cup {f[d] : d \in D}
<1>1. IsFiniteSet(D)
  BY DEF ShelfTyped
<1>2. IsFiniteSet(M)
  <2>1. IsFiniteSet(MediaKinds)
    <3>1. IsFiniteSet({"markdown", "pdf"}) /\ IsFiniteSet({"image", "audio"}) /\ IsFiniteSet({"other", "other"})
      BY PairIsFinite
    <3>2. IsFiniteSet({"markdown", "pdf"} \cup {"image", "audio"})
      BY <3>1, FS_Union
    <3>3. IsFiniteSet({"markdown", "pdf"} \cup {"image", "audio"} \cup {"other", "other"})
      BY <3>1, <3>2, FS_Union
    <3>4. MediaKinds = {"markdown", "pdf"} \cup {"image", "audio"} \cup {"other", "other"}
      BY DEF MediaKinds
    <3> QED
      BY <3>3, <3>4
  <2>2. DOMAIN f = D
    OBVIOUS
  <2> HIDE DEF f, D
  <2>3. IsFiniteSet({f[d] : d \in D})
    BY <1>1, <2>2, FiniteImage
  <2> HIDE DEF M
  <2> QED
    BY <2>1, <2>3, FS_Union DEF M
<1>3. \A d \in D : f[d] \in M
  OBVIOUS
<1>4. MediaBreakdown = CountsOf(D, f, M)
  <2>1. M = MediaKinds \cup {shelf[d].media : d \in DOMAIN shelf}
    OBVIOUS
  <2>2. \A m : {d \in DOMAIN shelf : d \in {e \in DOMAIN shelf : shelf[e].media = m}} = {d \in D : f[d] = m}
    OBVIOUS
  <2> HIDE DEF M, f, D
  <2> QED
    BY <2>1, <2>2 DEF MediaBreakdown, Count, CountsOf
<1> HIDE DEF M, f, D
<1>5. FoldFunction(+, 0, CountsOf(D, f, M)) = Cardinality(D)
  BY <1>1, <1>2, <1>3, KindsAddUp
<1> QED
  BY <1>4, <1>5 DEF Total, D

LEMMA AnswerStatsKeeps == FetchInv /\ AnswerStats => FetchInv'
<1> SUFFICES ASSUME FetchInv, AnswerStats PROVE FetchInv'
  OBVIOUS
<1>1. held.step = "counted"
  BY DEF AnswerStats
<1>2. asked # Unasked /\ asked.kind = "stats" /\ StatsHeld
  <2>1. asked # Unasked
    BY <1>1 DEF FetchInv, HeldFits, NothingHeld
  <2>2. asked.kind \notin {"chunk", "doc", "span", "list", "bulk", "incomplete"}
    BY <1>1 DEF FetchInv, HeldFits, ChunkHeld, DocHeld, ListHeld, BulkHeld
  <2>3. asked.kind = "stats"
    BY <2>1, <2>2 DEF FetchInv, ProperlyAsked, ProperRequest
  <2> QED
    BY <2>1, <2>3 DEF FetchInv, HeldFits
<1>3. PICK a : Answer(a) /\ a.request = asked /\ a.code = "ok" /\ a.docs = held.got[1] /\ a.chunks = held.got[2] /\ a.media = held.got[3]
  BY DEF AnswerStats
<1>4. ASSUME Undisturbed
      PROVE  a.docs = Total(a.media) /\ a.chunks = Total([d \in DOMAIN shelf |-> Len(ChunksOf(d))])
  <2>1. /\ a.docs = Cardinality(DOMAIN shelf) /\ a.media = MediaBreakdown
        /\ a.chunks = Total([d \in DOMAIN shelf |-> shelf[d].size])
    BY <1>1, <1>2, <1>3, <1>4 DEF StatsHeld
  <2>2. a.docs = Total(a.media)
    BY <2>1, MediaAddUp DEF FetchInv
  <2>3. \A d \in DOMAIN shelf : Len(ChunksOf(d)) = shelf[d].size
    <3> SUFFICES ASSUME NEW d \in DOMAIN shelf PROVE Len(ChunksOf(d)) = shelf[d].size
      OBVIOUS
    <3>1. PICK n \in Nat : n = shelf[d].size
      BY DEF FetchInv, ShelfTyped, DocTyped
    <3>2. ChunksOf(d) = [i \in 1..n |-> <<d, shelf[d].chunking, i>>]
      BY <3>1 DEF ChunksOf, Stored
    <3>3. Len([i \in 1..n |-> <<d, shelf[d].chunking, i>>]) = n
      OBVIOUS
    <3> QED
      BY <3>1, <3>2, <3>3
  <2>4. [d \in DOMAIN shelf |-> Len(ChunksOf(d))] = [d \in DOMAIN shelf |-> shelf[d].size]
    BY <2>3
  <2> QED
    BY <2>1, <2>2, <2>4
<1>5. StatsAgree(a)
  BY <1>4 DEF StatsAgree
<1>6. AnswerTrue(a)
  BY <1>2, <1>3, <1>5 DEF AnswerTrue, RightlyRefused
<1> QED
  BY <1>2, <1>3, <1>6, AnswerKeeps

-----------------------------------------------------------------------------
(* Fetch: a bulk *)

LEMMA OverBulkKeeps == FetchInv /\ OverBulk => FetchInv'
BY DeclineKeeps DEF OverBulk, Unasked

LEMMA RunItemKeeps == FetchInv /\ RunItem => FetchInv'
<1> SUFFICES ASSUME FetchInv, RunItem PROVE FetchInv'
  OBVIOUS
<1> DEFINE got == held.got
           n == Len(got)
           item == asked.items[n + 1]
<1>1. PICK outcome : held' = [held EXCEPT !.got = Append(@, <<item, outcome>>)]
  BY DEF RunItem
<1>2. HeldFits /\ asked.kind = "bulk" /\ asked # Unasked /\ UNCHANGED <<shelf, asked, answered, rewrites>>
  BY DEF FetchInv, RunItem, Unasked
<1>3. /\ held'.step = held.step /\ held'.got = Append(got, <<item, outcome>>)
      /\ held' = [step |-> held'.step, age |-> held'.age, blocks |-> held'.blocks, ids |-> held'.ids, got |-> held'.got]
  BY <1>1, <1>2 DEF HeldFits
<1>4. BulkHeld
  BY <1>2 DEF HeldFits
<1>5. IsSequence(got) /\ \A j \in 1..n : got[j][1] = asked.items[j]
  BY <1>4 DEF BulkHeld
<1> DEFINE pair == <<item, outcome>>
<1>6. pair[1] = item
  OBVIOUS
<1>7. /\ IsSequence(held'.got) /\ Len(held'.got) = n + 1 /\ n \in Nat
      /\ (\A i \in 1..n : held'.got[i] = got[i]) /\ held'.got[n + 1] = pair
  <2>1. held'.got = Append(got, pair)
    BY <1>3
  <2> HIDE DEF got, pair
  <2> QED
    BY <1>5, <2>1, Appended
<1> HIDE DEF pair, n
<1>8. \A j \in 1 .. n + 1 : held'.got[j][1] = asked.items[j]
  <2>1. \A j \in 1 .. n + 1 : j \in 1..n \/ j = n + 1
    BY <1>7
  <2> QED
    BY <1>5, <1>6, <1>7, <2>1
<1>9. BulkHeld'
  BY <1>2, <1>3, <1>4, <1>7, <1>8 DEF BulkHeld
<1>10. HeldFits'
  BY <1>2, <1>3, <1>9 DEF HeldFits
<1> QED
  BY <1>2, <1>10, StatementKeeps

LEMMA AnswerBulkKeeps == FetchInv /\ AnswerBulk => FetchInv'
<1> SUFFICES ASSUME FetchInv, AnswerBulk PROVE FetchInv'
  OBVIOUS
<1> DEFINE good == Cardinality(Succeeded(held.got))
<1>1. asked.kind = "bulk" /\ asked # Unasked /\ Len(held.got) = Len(asked.items)
  BY DEF AnswerBulk, Unasked
<1>2. PICK a : Answer(a) /\ a.request = asked /\ a.code = "ok" /\ a.results = held.got /\ a.succeeded = good /\ a.failed = Len(held.got) - good
  BY DEF AnswerBulk
<1>3. IsSequence(held.got) /\ \A j \in 1 .. Len(held.got) : held.got[j][1] = asked.items[j]
  BY <1>1 DEF FetchInv, HeldFits, BulkHeld
<1>4. DOMAIN held.got = 1 .. Len(held.got)
  BY <1>3, LenProperties DEF IsSequence
<1>5. /\ good + (Len(held.got) - good) = Len(held.got)
      /\ Cardinality({j \in DOMAIN held.got : held.got[j][2] # "hits"}) = Len(held.got) - good
  BY <1>3, HalvesAreAll
<1> HIDE DEF good
<1>6. EachAnswered(a)
  BY <1>1, <1>2, <1>3, <1>4, <1>5 DEF EachAnswered
<1>7. AnswerTrue(a)
  BY <1>1, <1>2, <1>6 DEF AnswerTrue, RightlyRefused
<1> QED
  BY <1>1, <1>2, <1>7, AnswerKeeps

-----------------------------------------------------------------------------
(* Fetch: the other process *)

\* A write leaves the blocks of what stays stored; what else an answer promises it promises no more.
LEMMA WriteKeeps ==
  ASSUME FetchInv, Write, ShelfTyped',
         \A d : Stored(d)' => Stored(d) /\ shelf'[d].blocks = shelf[d].blocks
  PROVE  FetchInv'
<1>1. rewrites' = rewrites + 1 /\ rewrites \in Nat /\ UNCHANGED <<asked, held, answered>>
  BY DEF FetchInv, Write
<1>2. ~Undisturbed' /\ rewrites' \in Nat
  BY <1>1 DEF Undisturbed
<1>3. ASSUME NEW a \in Range(answered)' PROVE AnswerTrue(a)'
  <2>1. AnswerTrue(a)
    BY <1>1 DEF FetchInv, AnswersTrue, Range
  <2>2. (a.request.kind = "span" /\ a.code = "ok") => (Stored(a.request.id)' => SpanTiles(a, Rendered(shelf[a.request.id].blocks)'))
    <3> SUFFICES ASSUME a.request.kind = "span", a.code = "ok", Stored(a.request.id)'
                 PROVE  SpanTiles(a, Rendered(shelf[a.request.id].blocks)')
      OBVIOUS
    <3>1. Stored(a.request.id) /\ shelf'[a.request.id].blocks = shelf[a.request.id].blocks
      OBVIOUS
    <3>2. SpanTiles(a, Rendered(shelf[a.request.id].blocks))
      BY <2>1, <3>1 DEF AnswerTrue
    <3> QED
      BY <3>1, <3>2, Zenon
  <2>3. (a.request.kind = "chunk" /\ a.code = "ok") => WithNeighbours(a)'
    BY <1>2, <2>1 DEF AnswerTrue, WithNeighbours
  <2>4. RightlyRefused(a)' /\ ListAgrees(a)' /\ StatsAgree(a)'
    BY <1>2 DEF RightlyRefused, ListAgrees, StatsAgree
  <2> QED
    BY <2>1, <2>2, <2>3, <2>4 DEF AnswerTrue
<1>4. AnswersTrue'
  BY <1>1, <1>3 DEF FetchInv, AnswersTrue
<1>5. HeldFits'
  <2>1. HeldFits
    BY DEF FetchInv
  <2>2. asked.kind = "chunk" => ChunkHeld'
    <3> SUFFICES ASSUME asked.kind = "chunk" PROVE ChunkHeld'
      OBVIOUS
    <3>1. ChunkHeld
      BY <2>1 DEF HeldFits
    <3>2. held.step = "each" => EachSoFar'
      <4> SUFFICES ASSUME held.step = "each" PROVE EachSoFar'
        OBVIOUS
      <4>1. PICK size \in Nat, ch \in Nat : \E k \in 0..size : EachRead(size, ch, k)
        BY <3>1 DEF ChunkHeld, EachSoFar
      <4>2. PICK k \in 0..size : EachRead(size, ch, k)
        BY <4>1
      <4>3. EachRead(size, ch, k)'
        BY <1>1, <1>2, <4>2 DEF EachRead
      <4> QED
        BY <4>3 DEF EachSoFar
    <3> QED
      BY <1>1, <1>2, <3>1, <3>2 DEF ChunkHeld
  <2>3. asked.kind \in {"doc", "span"} => DocHeld'
    <3> SUFFICES ASSUME asked.kind \in {"doc", "span"} PROVE DocHeld'
      OBVIOUS
    <3>1. DocHeld
      BY <2>1 DEF HeldFits
    <3>2. Stored(asked.id)' => Stored(asked.id) /\ shelf'[asked.id].blocks = shelf[asked.id].blocks
      BY <1>1 DEF Stored
    <3> QED
      BY <1>1, <1>2, <3>1, <3>2 DEF DocHeld
  <2>4. asked.kind = "list" => ListHeld'
    BY <1>1, <1>2, <2>1 DEF HeldFits, ListHeld
  <2>5. asked.kind = "stats" => StatsHeld'
    BY <1>1, <1>2, <2>1 DEF HeldFits, StatsHeld
  <2>6. asked.kind = "bulk" => BulkHeld'
    BY <1>1, <2>1 DEF HeldFits, BulkHeld
  <2> QED
    BY <1>1, <2>1, <2>2, <2>3, <2>4, <2>5, <2>6 DEF HeldFits
<1>6. ProperlyAsked'
  BY <1>1 DEF FetchInv, ProperlyAsked
<1> QED
  BY <1>2, <1>4, <1>5, <1>6 DEF FetchInv

LEMMA RechunkKeeps == FetchInv /\ Rechunk => FetchInv'
<1> SUFFICES ASSUME FetchInv, Rechunk PROVE FetchInv'
  OBVIOUS
<1>1. PICK d \in DOMAIN shelf, n \in ChunkingSizes :
        shelf' = [shelf EXCEPT ![d].chunking = @ + 1, ![d].size = n]
  BY DEF Rechunk
<1>2. ShelfTyped /\ n \in Nat
  BY FetchAssumption DEF FetchInv
<1>3. DOMAIN shelf' = DOMAIN shelf /\ \A e \in DOMAIN shelf : e # d => shelf'[e] = shelf[e]
  BY <1>1
<1>4. shelf'[d] = [media |-> shelf[d].media, blocks |-> shelf[d].blocks, chunking |-> shelf[d].chunking + 1, size |-> n,
                   trust |-> shelf[d].trust, tags |-> shelf[d].tags, age |-> shelf[d].age, dated |-> shelf[d].dated]
  <2>1. shelf'[d] = [shelf[d] EXCEPT !.chunking = @ + 1, !.size = n]
    BY <1>1
  <2>2. DocTyped(shelf[d])
    BY <1>2 DEF ShelfTyped
  <2> QED
    BY <2>1, <2>2 DEF DocTyped
<1>5. DocTyped(shelf'[d]) /\ shelf'[d].blocks = shelf[d].blocks
  BY <1>2, <1>4 DEF ShelfTyped, DocTyped
<1>6. ShelfTyped'
  BY <1>2, <1>3, <1>5 DEF ShelfTyped
<1>7. \A e : Stored(e)' => Stored(e) /\ shelf'[e].blocks = shelf[e].blocks
  BY <1>3, <1>5 DEF Stored
<1> QED
  BY <1>6, <1>7, WriteKeeps DEF Rechunk

LEMMA PurgeDocKeeps == FetchInv /\ PurgeDoc => FetchInv'
<1> SUFFICES ASSUME FetchInv, PurgeDoc PROVE FetchInv'
  OBVIOUS
<1>1. PICK d \in DOMAIN shelf : shelf' = Restrict(shelf, DOMAIN shelf \ {d})
  BY DEF PurgeDoc
<1>2. DOMAIN shelf' = DOMAIN shelf \ {d} /\ \A e \in DOMAIN shelf \ {d} : shelf'[e] = shelf[e]
  BY <1>1 DEF Restrict
<1>3. ShelfTyped
  BY DEF FetchInv
<1>4. IsFiniteSet(DOMAIN shelf')
  BY <1>2, <1>3, FS_Subset DEF ShelfTyped
<1>5. ShelfTyped'
  BY <1>2, <1>3, <1>4 DEF ShelfTyped
<1>6. \A e : Stored(e)' => Stored(e) /\ shelf'[e].blocks = shelf[e].blocks
  BY <1>2 DEF Stored
<1> QED
  BY <1>5, <1>6, WriteKeeps DEF PurgeDoc

-----------------------------------------------------------------------------
(* Fetch: all of it *)

LEMMA FetchStepKeeps == FetchInv /\ [FetchNext]_fetchVars => FetchInv'
<1> SUFFICES ASSUME FetchInv, [FetchNext]_fetchVars PROVE FetchInv'
  OBVIOUS
<1>1. CASE Ask \/ GoOn \/ Incomplete
  BY <1>1, AskKeeps, GoOnKeeps, IncompleteKeeps
<1>2. CASE GetChunk \/ GetRow \/ GetBlocks \/ AnswerDoc \/ GetAsset \/ AnswerSpan
  BY <1>2, GetChunkKeeps, GetRowKeeps, GetBlocksKeeps, AnswerDocKeeps, GetAssetKeeps, AnswerSpanKeeps
<1>3. CASE ListChunkIds \/ GetNextChunk \/ AnswerChunk
  BY <1>3, ListChunkIdsKeeps, GetNextChunkKeeps, AnswerChunkKeeps
<1>4. CASE ListRows \/ ListTags \/ AnswerList
  BY <1>4, ListRowsKeeps, ListTagsKeeps, AnswerListKeeps
<1>5. CASE CountDocs \/ CountChunks \/ CountMedia \/ CountStale \/ AnswerStats
  BY <1>5, CountsKeep, AnswerStatsKeeps
<1>6. CASE OverBulk \/ RunItem \/ AnswerBulk
  BY <1>6, OverBulkKeeps, RunItemKeeps, AnswerBulkKeeps
<1>7. CASE Rechunk \/ PurgeDoc
  BY <1>7, RechunkKeeps, PurgeDocKeeps
<1>8. CASE UNCHANGED fetchVars
  <2>1. UNCHANGED <<shelf, asked, held, answered, rewrites>>
    BY <1>8 DEF fetchVars
  <2>2. HeldFits
    BY DEF FetchInv
  <2>3. EachSoFar' <=> EachSoFar
    BY <2>1 DEF EachSoFar, EachRead, Stored, Undisturbed
  <2>4. ChunkHeld' <=> ChunkHeld
    BY <2>1, <2>3 DEF ChunkHeld, StoredChunk, ChunksOf, Stored, Undisturbed
  <2>5. DocHeld' <=> DocHeld
    BY <2>1 DEF DocHeld, Stored, Undisturbed
  <2>6. ListHeld' <=> ListHeld
    BY <2>1 DEF ListHeld, Accepted, Undisturbed
  <2>7. StatsHeld' <=> StatsHeld
    BY <2>1 DEF StatsHeld, MediaBreakdown, Count, Undisturbed
  <2>8. BulkHeld' <=> BulkHeld
    BY <2>1 DEF BulkHeld
  <2>9. HeldFits'
    BY <2>1, <2>2, <2>4, <2>5, <2>6, <2>7, <2>8 DEF HeldFits
  <2> QED
    BY <2>1, <2>9, StatementKeeps
<1> QED
  BY <1>1, <1>2, <1>3, <1>4, <1>5, <1>6, <1>7, <1>8 DEF FetchNext

LEMMA InvAnswers == FetchInv => AnswersAreTheStore
<1> SUFFICES ASSUME FetchInv PROVE AnswersAreTheStore
  OBVIOUS
<1>1. AnswersTrue /\ DOMAIN answered = 1 .. Len(answered) /\ Len(answered) \in Nat
  BY LenProperties DEF FetchInv, AnswersTrue, IsSequence
<1>2. \A i \in DOMAIN answered : AnswerTrue(answered[i])
  BY <1>1 DEF AnswersTrue, Range
<1>3. SpansTile
  BY <1>2 DEF SpansTile, Answers, AnswerTrue
<1>4. ReadingsMeet
  BY <1>1 DEF ReadingsMeet, AnswersTrue
<1>5. NeighboursAreTheNext
  BY <1>2 DEF NeighboursAreTheNext, Answers, AnswerTrue
<1>6. NoneIsRefused
  BY <1>2 DEF NoneIsRefused, AnswerTrue
<1>7. CountsAgree
  BY <1>2 DEF CountsAgree, Answers, AnswerTrue
<1>8. BulkAnswersEach
  BY <1>2 DEF BulkAnswersEach, Answers, AnswerTrue
<1> QED
  BY <1>3, <1>4, <1>5, <1>6, <1>7, <1>8 DEF AnswersAreTheStore

\* Whatever is stored, however often it is chunked anew or purged between the statements of a
\* reading, and whatever is asked: what a reader gets is what is stored, once and in order.
THEOREM AnswersAreAlwaysTheStore == FetchSpec => []AnswersAreTheStore
<1>1. FetchInit => FetchInv
  BY FetchBegins
<1>2. FetchInv /\ [FetchNext]_fetchVars => FetchInv'
  BY FetchStepKeeps
<1>3. FetchInv => AnswersAreTheStore
  BY InvAnswers
<1> QED
  BY <1>1, <1>2, <1>3, PTL DEF FetchSpec

=============================================================================
