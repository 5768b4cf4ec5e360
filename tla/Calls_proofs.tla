----------------------------- MODULE Calls_proofs -----------------------------
(***************************************************************************)
(* Machine-checked proofs about components of Calls, for every value of    *)
(* their constants: the derivation cache and the calls that go through it  *)
(* (DerivationCache), the page loop over it (PdfOcr), and what the whole   *)
(* of Calls promises.                                                      *)
(***************************************************************************)
EXTENDS Calls, Parts_proofs, Fetch_proofs, Progress_proofs

-----------------------------------------------------------------------------
(* DerivationCache: the cache and one call's slots *)

\* An entry is damaged, or what its key says: some content of that kind with
\* that hash, derived by an engine of that version.
EntryTrue(key, value) ==
  \/ value = Damaged
  \/ \E kind \in Kinds, e \in Engines : \E c \in ContentsOf(kind) :
       key = DerivationKey(kind, c, e) /\ value = Derive(kind, c, e)

CacheTrue == \A key \in DOMAIN derivations : EntryTrue(key, derivations[key])

\* The input a value was asked for.
MadeFrom(value, i) ==
  /\ value \in DerivedValue
  /\ value.kind = deriveKind
  /\ KeyContent(deriveKind, value.content) = KeyContent(deriveKind, inputs[i])
  /\ value.by.provider = engine.provider
  /\ deriveKind # "caption" => value.by = engine

CallTrue ==
  /\ derivePc \in {"idle", "lookup", "embed", "recognize", "put", "returned", "failed"}
  /\ deriveKind \in Kinds /\ engine \in Engines
  /\ inputs \in Seq(ContentsOf(deriveKind))
  /\ deriveKind # "embedding" => Len(inputs) = 1
  /\ tries \in Nat

SlotsTrue ==
  derivePc \in {"embed", "recognize", "put", "returned"} =>
    /\ slots \in Seq(DerivedValue \cup {NoValue}) /\ Len(slots) = Len(inputs)
    /\ \A i \in 1..Len(inputs) : slots[i] = NoValue \/ MadeFrom(slots[i], i)

\* The vectors received so far are those of the first misses.
FreshTrue ==
  /\ fresh \in Seq(DerivedValue)
  /\ derivePc \in {"embed", "put"} =>
       /\ Len(fresh) <= Len(Misses)
       /\ \A k \in 1..Len(fresh) : fresh[k] = Derive(deriveKind, inputs[Misses[k]], engine)
  /\ derivePc = "lookup" => fresh = << >>
  /\ derivePc = "put" => Len(fresh) = Len(Misses)
  /\ derivePc = "embed" => deriveKind = "embedding"
  /\ derivePc = "recognize" => deriveKind # "embedding" /\ slots = <<NoValue>>
  /\ derivePc = "returned" /\ deriveKind = "embedding" =>
       \A i \in 1..Len(inputs) : slots[i] # NoValue

DeriveInv == CacheTrue /\ CallTrue /\ SlotsTrue /\ FreshTrue

\* What an engine derives is a value, and no other than it.
LEMMA DerivedIsValue ==
  ASSUME NEW kind \in Kinds, NEW c \in ContentsOf(kind), NEW e \in Engines
  PROVE  /\ Derive(kind, c, e) \in DerivedValue
         /\ Derive(kind, c, e) # NoValue /\ Derive(kind, c, e) # Damaged
         /\ Derive(kind, c, e).kind = kind /\ Derive(kind, c, e).content = c
         /\ Derive(kind, c, e).by = e
<1>1. Derive(kind, c, e) \in DerivedValue
  BY DEF Derive, DerivedValue, ContentsOf
<1>2. NoValue \notin DerivedValue /\ Damaged \notin DerivedValue
  BY DerivationAssumption
<1> QED
  BY <1>1, <1>2 DEF Derive

\* A hit is a value derived from that input.
LEMMA HitIsTrue ==
  ASSUME CacheTrue, NEW kind \in Kinds, NEW c \in ContentsOf(kind), NEW e \in Engines,
         CacheHit(DerivationKey(kind, c, e))
  PROVE  LET v == derivations[DerivationKey(kind, c, e)]
         IN  /\ v \in DerivedValue /\ v.kind = kind
             /\ KeyContent(kind, v.content) = KeyContent(kind, c)
             /\ v.by.provider = e.provider
             /\ kind # "caption" => v.by = e
<1> DEFINE key == DerivationKey(kind, c, e)
           v == derivations[key]
<1>1. key \in DOMAIN derivations /\ v # Damaged
  BY DEF CacheHit
<1>2. PICK kind2 \in Kinds, e2 \in Engines : \E c2 \in ContentsOf(kind2) :
        key = DerivationKey(kind2, c2, e2) /\ v = Derive(kind2, c2, e2)
  BY <1>1 DEF CacheTrue, EntryTrue
<1>3. PICK c2 \in ContentsOf(kind2) :
        key = DerivationKey(kind2, c2, e2) /\ v = Derive(kind2, c2, e2)
  BY <1>2
<1>4. /\ key.kind = kind /\ key.content = KeyContent(kind, c) /\ key.version = VersionKey(kind, e)
      /\ key.kind = kind2 /\ key.content = KeyContent(kind2, c2)
      /\ key.version = VersionKey(kind2, e2)
  <2>1. key.kind = kind /\ key.content = KeyContent(kind, c) /\ key.version = VersionKey(kind, e)
    BY DEF DerivationKey
  <2> HIDE DEF key
  <2>2. key.kind = kind2 /\ key.content = KeyContent(kind2, c2) /\ key.version = VersionKey(kind2, e2)
    BY <1>3 DEF DerivationKey
  <2> QED
    BY <2>1, <2>2
<1>5. kind2 = kind /\ KeyContent(kind, c2) = KeyContent(kind, c) /\ VersionKey(kind, e2) = VersionKey(kind, e)
  <2> HIDE DEF key
  <2> QED
    BY <1>4
<1>6. e2.provider = e.provider /\ (kind # "caption" => e2 = e)
  <2>1. VersionKey(kind, e)[1] = e.provider /\ VersionKey(kind, e2)[1] = e2.provider
    BY DEF VersionKey
  <2>2. e2.provider = e.provider
    BY <1>5, <2>1
  <2>3. ASSUME kind # "caption" PROVE e2.model = e.model
    <3>1. VersionKey(kind, e)[2] = e.model /\ VersionKey(kind, e2)[2] = e2.model
      BY <2>3 DEF VersionKey
    <3> QED
      BY <1>5, <3>1
  <2> QED
    BY <2>2, <2>3, DerivationAssumption
<1>7. v \in DerivedValue /\ v.kind = kind /\ v.content = c2 /\ v.by = e2
  <2> HIDE DEF key
  <2> QED
    BY <1>3, <1>5, DerivedIsValue
<1> HIDE DEF v
<1> QED
  BY <1>5, <1>6, <1>7 DEF v

BlankIn(s)  == {i \in DOMAIN s : s[i] = NoValue}
MissesIn(s) == Picked([i \in DOMAIN s |-> i], BlankIn(s))

\* The misses are the positions of the blank slots, each under its rank.
LEMMA MissesAreBlank ==
  ASSUME NEW S, NEW s \in Seq(S)
  PROVE  /\ Len(s) \in Nat /\ DOMAIN s = 1..Len(s)
         /\ BlankIn(s) \in SUBSET (1..Len(s))
         /\ MissesIn(s) \in Seq(BlankIn(s)) /\ Len(MissesIn(s)) \in Nat
         /\ \A k1 \in 1..Len(MissesIn(s)) : MissesIn(s)[k1] \in BlankIn(s)
         /\ \A i \in BlankIn(s) : /\ Rank(BlankIn(s), i) \in 1..Len(MissesIn(s))
                                  /\ MissesIn(s)[Rank(BlankIn(s), i)] = i
<1> DEFINE n   == Len(s)
           ids == [i \in 1..n |-> i]
           b   == BlankIn(s)
           m   == MissesIn(s)
<1>1. n \in Nat /\ DOMAIN s = 1..n
  BY LenProperties
<1>2. b \in SUBSET (1..n)
  BY <1>1 DEF BlankIn
<1>3. ids \in Seq(1..n) /\ Len(ids) = n
  BY <1>1
<1>4. m = Picked(ids, b)
  BY <1>1 DEF MissesIn
<1>5. \A i \in 1..n : ids[i] = i
  OBVIOUS
<1> HIDE DEF ids, n, b, m
<1>6. /\ Picked(ids, b) \in Seq(1..n)
      /\ Len(Picked(ids, b)) = Cardinality(b) /\ Cardinality(b) \in Nat
      /\ \A k1 \in 1..Cardinality(b) : \E i \in b : Picked(ids, b)[k1] = ids[i]
  BY <1>2, <1>3, PickedIsList
<1>7. \A k1 \in 1..Len(m) : m[k1] \in b
  BY <1>2, <1>4, <1>5, <1>6
<1>8. m \in Seq(b)
  <2>1. m = [k1 \in 1..Len(m) |-> m[k1]] /\ Len(m) \in Nat
    BY <1>4, <1>6, LenProperties
  <2> QED
    BY <1>7, <2>1
<1>9. \A i \in b : Rank(b, i) \in 1..Cardinality(b) /\ Picked(ids, b)[Rank(b, i)] = ids[i]
  BY <1>1, <1>2, PickedAtRank
<1>10. Len(m) \in Nat /\ \A i \in b : Rank(b, i) \in 1..Len(m) /\ m[Rank(b, i)] = i
  BY <1>2, <1>4, <1>5, <1>6, <1>9
<1> QED
  BY <1>1, <1>2, <1>7, <1>8, <1>10 DEF n, b, m

LEMMA DeriveBegins == DeriveInit => DeriveInv
<1> SUFFICES ASSUME DeriveInit PROVE DeriveInv
  OBVIOUS
<1>1. CacheTrue
  BY DEF DeriveInit, CacheTrue
<1>2. engine \in Engines
  BY DerivationAssumption DEF DeriveInit
<1>3. CallTrue
  BY <1>2 DEF DeriveInit, CallTrue, Kinds
<1>4. SlotsTrue /\ FreshTrue
  BY DEF DeriveInit, SlotsTrue, FreshTrue
<1> QED
  BY <1>1, <1>3, <1>4 DEF DeriveInv

LEMMA BeginDeriveKeeps ==
  ASSUME DeriveInv, BeginDerive
  PROVE  DeriveInv'
<1>1. /\ derivations' = derivations /\ derivePc' = "lookup"
      /\ slots' = << >> /\ fresh' = << >> /\ tries' = 0
  BY DEF BeginDerive
<1>2. PICK kind \in Kinds, e \in Engines :
        /\ deriveKind' = kind /\ engine' = e
        /\ \E n \in 1 .. (IF kind = "embedding" THEN MaxInputs ELSE 1) :
             inputs' \in [1 .. n -> ContentsOf(kind)]
  BY DEF BeginDerive
<1>3. PICK n \in 1 .. (IF kind = "embedding" THEN MaxInputs ELSE 1) :
        inputs' \in [1 .. n -> ContentsOf(kind)]
  BY <1>2
<1>4. n \in Nat /\ (kind # "embedding" => n = 1)
  BY DerivationAssumption
<1>5. inputs' \in Seq(ContentsOf(kind)) /\ Len(inputs') = n
  BY <1>3, <1>4
<1>6. inputs' \in Seq(ContentsOf(deriveKind')) /\ deriveKind' \in Kinds /\ engine' \in Engines
      /\ (deriveKind' # "embedding" => Len(inputs') = 1)
  BY <1>2, <1>4, <1>5
<1>7. CallTrue'
  BY <1>1, <1>6 DEF CallTrue, ContentsOf
<1>8. CacheTrue'
  BY <1>1 DEF DeriveInv, CacheTrue, EntryTrue, ContentsOf, DerivationKey, Derive, KeyContent, VersionKey
<1> QED
  BY <1>1, <1>7, <1>8 DEF DeriveInv, SlotsTrue, FreshTrue

\* A step that keeps the call's inputs.
LEMMA SameCall ==
  ASSUME CallTrue, UNCHANGED deriveCall, tries' \in Nat,
         derivePc' \in {"lookup", "embed", "recognize", "put", "returned", "failed"}
  PROVE  CallTrue' /\ UNCHANGED <<deriveKind, inputs, engine>>
<1>1. UNCHANGED <<deriveKind, inputs, engine>>
  BY DEF deriveCall
<1> QED
  BY <1>1 DEF CallTrue, ContentsOf

\* The cache is true whoever looks at it.
LEMMA SameCache ==
  ASSUME CacheTrue, derivations' = derivations
  PROVE  CacheTrue'
  BY DEF CacheTrue

LEMMA InputsTyped ==
  ASSUME CallTrue
  PROVE  /\ Len(inputs) \in Nat /\ DOMAIN inputs = 1..Len(inputs)
         /\ \A i \in 1..Len(inputs) :
              /\ inputs[i] \in ContentsOf(deriveKind)
              /\ Derive(deriveKind, inputs[i], engine) \in DerivedValue
              /\ MadeFrom(Derive(deriveKind, inputs[i], engine), i)
<1>1. inputs \in Seq(ContentsOf(deriveKind)) /\ deriveKind \in Kinds /\ engine \in Engines
  BY DEF CallTrue
<1>2. Len(inputs) \in Nat /\ DOMAIN inputs = 1..Len(inputs)
  BY <1>1, LenProperties
<1>3. \A i \in 1..Len(inputs) : inputs[i] \in ContentsOf(deriveKind)
  BY <1>1, ElementOfSeq
<1>4. ASSUME NEW i \in 1..Len(inputs)
      PROVE  /\ Derive(deriveKind, inputs[i], engine) \in DerivedValue
             /\ MadeFrom(Derive(deriveKind, inputs[i], engine), i)
  BY <1>1, <1>3, DerivedIsValue DEF MadeFrom
<1> QED
  BY <1>2, <1>3, <1>4

LEMMA LookupKeeps ==
  ASSUME DeriveInv, Lookup
  PROVE  DeriveInv'
<1>1. /\ UNCHANGED <<derivations, deriveCall, fresh, tries>>
      /\ slots' = [i \in DOMAIN inputs |->
                     IF CacheHit(InputKey(i)) THEN derivations[InputKey(i)] ELSE NoValue]
      /\ derivePc' = (IF \A i \in DOMAIN inputs : CacheHit(InputKey(i)) THEN "returned"
                      ELSE IF deriveKind = "embedding" THEN "embed" ELSE "recognize")
  BY DEF Lookup, deriveBounds
<1>2. CallTrue /\ CacheTrue /\ fresh \in Seq(DerivedValue) /\ tries \in Nat
  BY DEF DeriveInv, FreshTrue, CallTrue
<1>3. CallTrue' /\ UNCHANGED <<deriveKind, inputs, engine>>
  BY <1>1, <1>2, SameCall
<1>4. CacheTrue'
  BY <1>1, <1>2, SameCache
<1>5. Len(inputs) \in Nat /\ DOMAIN inputs = 1..Len(inputs)
  BY <1>2, InputsTyped
<1>6. ASSUME NEW i \in 1..Len(inputs)
      PROVE  slots'[i] = NoValue \/ MadeFrom(slots'[i], i)
  <2>1. CASE CacheHit(InputKey(i))
    <3>1. slots'[i] = derivations[InputKey(i)]
      BY <1>1, <1>5, <2>1
    <3>2. inputs[i] \in ContentsOf(deriveKind) /\ deriveKind \in Kinds /\ engine \in Engines
      BY <1>2, InputsTyped DEF CallTrue
    <3> QED
      BY <1>2, <2>1, <3>1, <3>2, HitIsTrue DEF InputKey, MadeFrom
  <2>2. CASE ~CacheHit(InputKey(i))
    BY <1>1, <1>5, <2>2
  <2> QED
    BY <2>1, <2>2
<1>7. slots' \in Seq(DerivedValue \cup {NoValue}) /\ Len(slots') = Len(inputs)
  <2>1. \A i \in 1..Len(inputs) : slots'[i] \in DerivedValue \cup {NoValue}
    BY <1>6 DEF MadeFrom
  <2> QED
    BY <1>1, <1>5, <2>1
<1>8. SlotsTrue'
  BY <1>3, <1>6, <1>7 DEF SlotsTrue, MadeFrom
<1>9. FreshTrue'
  <2>1. fresh' = fresh /\ fresh' \in Seq(DerivedValue)
    BY <1>1, <1>2
  <2>2. CASE \A i \in DOMAIN inputs : CacheHit(InputKey(i))
    <3>1. derivePc' = "returned" /\ \A i \in 1..Len(inputs) : slots'[i] = derivations[InputKey(i)]
      BY <1>1, <1>5, <2>2
    <3>2. \A i \in 1..Len(inputs) : derivations[InputKey(i)] # NoValue
      <4>1. ASSUME NEW i \in 1..Len(inputs) PROVE derivations[InputKey(i)] \in DerivedValue
        <5>1. inputs[i] \in ContentsOf(deriveKind) /\ deriveKind \in Kinds /\ engine \in Engines
          BY <1>2, InputsTyped DEF CallTrue
        <5> QED
          BY <1>2, <1>5, <2>2, <5>1, HitIsTrue DEF InputKey
      <4> QED
        BY <4>1, DerivationAssumption
    <3> QED
      BY <1>3, <2>1, <3>1, <3>2 DEF FreshTrue
  <2>3. CASE ~(\A i \in DOMAIN inputs : CacheHit(InputKey(i))) /\ deriveKind = "embedding"
    <3>1. derivePc' = "embed"
      BY <1>1, <2>3
    <3>2. fresh' = << >>
      BY <1>1 DEF DeriveInv, FreshTrue, Lookup
    <3>3. Len(Misses)' \in Nat
      <4>1. Misses' = MissesIn(slots')
        BY DEF Misses, MissesIn, BlankIn
      <4> QED
        BY <1>7, <4>1, MissesAreBlank
    <3> QED
      BY <1>3, <2>1, <2>3, <3>1, <3>2, <3>3 DEF FreshTrue
  <2>4. CASE ~(\A i \in DOMAIN inputs : CacheHit(InputKey(i))) /\ deriveKind # "embedding"
    <3>1. derivePc' = "recognize" /\ Len(inputs) = 1
      BY <1>1, <1>2, <2>4 DEF CallTrue
    <3>2. ~CacheHit(InputKey(1)) /\ slots' = [i \in 1..1 |-> NoValue]
      BY <1>1, <1>5, <2>4, <3>1
    <3>3. slots' = <<NoValue>>
      BY <3>2
    <3> QED
      BY <1>3, <2>1, <2>4, <3>1, <3>3 DEF FreshTrue
  <2> QED
    BY <2>2, <2>3, <2>4
<1> QED
  BY <1>3, <1>4, <1>8, <1>9 DEF DeriveInv

\* got holds what F says of the first members of m.
Answered(got, m, F) ==
  /\ got \in Seq(DerivedValue) /\ Len(got) <= Len(m)
  /\ \A k1 \in 1..Len(got) : got[k1] = F[m[k1]]

Waiting(m, got) == SubSeq(m, Len(got) + 1, Len(m))
Batch(m, got, n) ==
  SubSeq(Waiting(m, got), 1, IF n < Len(Waiting(m, got)) THEN n ELSE Len(Waiting(m, got)))
Received(m, got, n, F) == got \o [k1 \in DOMAIN Batch(m, got, n) |-> F[Batch(m, got, n)[k1]]]

\* The vectors of one batch come after those received before.
LEMMA BatchExtends ==
  ASSUME NEW S, NEW m \in Seq(S), NEW n \in Nat, NEW F, \A i \in S : F[i] \in DerivedValue,
         NEW got, Answered(got, m, F)
  PROVE  /\ Answered(Received(m, got, n, F), m, F)
         /\ Len(Batch(m, got, n)) = Len(Waiting(m, got)) => Len(Received(m, got, n, F)) = Len(m)
<1> DEFINE g == Len(got)
           waiting == SubSeq(m, g + 1, Len(m))
           e == IF n < Len(waiting) THEN n ELSE Len(waiting)
           batch == SubSeq(waiting, 1, e)
           new == [k1 \in DOMAIN batch |-> F[batch[k1]]]
           all == got \o new
<1>1. /\ Len(m) \in Nat /\ g \in Nat /\ g <= Len(m) /\ got \in Seq(DerivedValue)
      /\ \A k1 \in 1..g : got[k1] = F[m[k1]]
  BY LenProperties DEF Answered
<1>2. /\ waiting \in Seq(S) /\ Len(waiting) = Len(m) - g
      /\ \A k1 \in 1..(Len(m) - g) : waiting[k1] = m[g + k1]
  BY <1>1
<1>3. e \in Nat /\ e <= Len(waiting)
  BY <1>1, <1>2
<1> HIDE DEF g, waiting, e
<1>4. batch \in Seq(S) /\ Len(batch) = e /\ \A k1 \in 1..e : batch[k1] = waiting[k1]
  BY <1>2, <1>3
<1> HIDE DEF batch
<1>5. DOMAIN batch = 1..e /\ \A k1 \in 1..e : batch[k1] \in S
  BY <1>4, ElementOfSeq
<1>6. new \in Seq(DerivedValue) /\ Len(new) = e /\ \A k1 \in 1..e : new[k1] = F[batch[k1]]
  BY <1>3, <1>5
<1> HIDE DEF new
<1>7. /\ all \in Seq(DerivedValue) /\ Len(all) = g + e
      /\ \A k1 \in 1..(g + e) : all[k1] = IF k1 <= g THEN got[k1] ELSE new[k1 - g]
  BY <1>1, <1>6, ConcatProperties DEF g
<1> HIDE DEF all
<1>8. ASSUME NEW k1 \in 1..(g + e)
      PROVE  all[k1] = F[m[k1]]
  <2>1. CASE k1 <= g
    <3>1. k1 \in 1..g
      BY <1>1, <2>1
    <3> QED
      BY <1>1, <1>7, <2>1, <3>1
  <2>2. CASE ~(k1 <= g)
    <3>1. k1 - g \in 1..e /\ k1 - g \in 1..(Len(m) - g) /\ g + (k1 - g) = k1
      BY <1>1, <1>2, <1>3, <2>2
    <3>2. all[k1] = new[k1 - g] /\ new[k1 - g] = F[batch[k1 - g]]
      BY <1>6, <1>7, <2>2, <3>1
    <3>3. batch[k1 - g] = m[k1]
      BY <1>2, <1>4, <3>1
    <3> QED
      BY <3>2, <3>3
  <2> QED
    BY <2>1, <2>2
<1>9. g + e <= Len(m) /\ (e = Len(waiting) => g + e = Len(m))
  BY <1>1, <1>2, <1>3
<1> QED
  BY <1>4, <1>7, <1>8, <1>9 DEF all, new, batch, e, waiting, g, Waiting, Batch, Received, Answered

\* What an engine would make of each input.
Wanted == [i \in 1..Len(inputs) |-> Derive(deriveKind, inputs[i], engine)]

LEMMA EmbedMissesKeeps ==
  ASSUME DeriveInv, EmbedMisses
  PROVE  DeriveInv'
<1> DEFINE waiting == Waiting(Misses, fresh)
           batch == Batch(Misses, fresh, EmbedBatch)
           all   == Received(Misses, fresh, EmbedBatch, Wanted)
<1>1. /\ UNCHANGED <<derivations, deriveCall, slots>> /\ tries' = 0 /\ derivePc = "embed"
      /\ fresh' = fresh \o [k1 \in DOMAIN batch |-> Derive(deriveKind, inputs[batch[k1]], engine)]
      /\ derivePc' = (IF Len(batch) = Len(waiting) THEN "put" ELSE "embed")
  BY DEF EmbedMisses, Waiting, Batch
<1>2. CallTrue /\ CacheTrue /\ SlotsTrue /\ FreshTrue
  BY DEF DeriveInv
<1>3. CallTrue' /\ UNCHANGED <<deriveKind, inputs, engine>>
  BY <1>1, <1>2, SameCall
<1>4. CacheTrue'
  BY <1>1, <1>2, SameCache
<1>5. /\ slots \in Seq(DerivedValue \cup {NoValue}) /\ Len(slots) = Len(inputs)
      /\ Misses = MissesIn(slots) /\ Misses' = Misses
  BY <1>1, <1>2 DEF SlotsTrue, Misses, MissesIn, BlankIn
<1>6. Misses \in Seq(1..Len(inputs)) /\ Len(Misses) \in Nat
  <2>1. /\ MissesIn(slots) \in Seq(BlankIn(slots)) /\ BlankIn(slots) \in SUBSET (1..Len(slots))
        /\ Len(MissesIn(slots)) \in Nat
    BY <1>5, MissesAreBlank
  <2>2. Misses = [k1 \in 1..Len(Misses) |-> Misses[k1]]
    BY <1>5, <2>1, LenProperties
  <2>3. \A k1 \in 1..Len(Misses) : Misses[k1] \in 1..Len(inputs)
    BY <1>5, <2>1, ElementOfSeq
  <2> QED
    BY <1>5, <2>1, <2>2, <2>3
<1>7. \A i \in 1..Len(inputs) : Wanted[i] = Derive(deriveKind, inputs[i], engine) /\ Wanted[i] \in DerivedValue
  BY <1>2, InputsTyped DEF Wanted
<1>8. Answered(fresh, Misses, Wanted)
  <2>1. \A k1 \in 1..Len(fresh) : k1 \in 1..Len(Misses)
    BY <1>1, <1>2, <1>6, LenProperties DEF FreshTrue
  <2>2. \A k1 \in 1..Len(fresh) : Misses[k1] \in 1..Len(inputs)
    BY <1>6, <2>1, ElementOfSeq
  <2> QED
    BY <1>1, <1>2, <1>7, <2>2 DEF FreshTrue, Answered
<1>9. EmbedBatch \in Nat
  BY DerivationAssumption
<1>10. /\ all \in Seq(DerivedValue) /\ Len(all) <= Len(Misses)
       /\ \A k1 \in 1..Len(all) : all[k1] = Wanted[Misses[k1]]
       /\ Len(batch) = Len(waiting) => Len(all) = Len(Misses)
  <2> DEFINE ids == 1..Len(inputs)
  <2>1. Misses \in Seq(ids) /\ \A i \in ids : Wanted[i] \in DerivedValue
    BY <1>6, <1>7
  <2> HIDE DEF ids
  <2>2. Answered(all, Misses, Wanted)
    BY <1>8, <1>9, <2>1, BatchExtends
  <2>3. Len(batch) = Len(waiting) => Len(all) = Len(Misses)
    BY <1>8, <1>9, <2>1, BatchExtends
  <2> QED
    BY <2>2, <2>3 DEF Answered
<1>11. fresh' = all
  <2>1. \A k1 \in DOMAIN batch : batch[k1] \in 1..Len(inputs)
    <3>1. waiting \in Seq(1..Len(inputs)) /\ Len(waiting) \in Nat
      BY <1>6, <1>8, LenProperties DEF Waiting, Answered
    <3> DEFINE e == IF EmbedBatch < Len(waiting) THEN EmbedBatch ELSE Len(waiting)
    <3>2. e \in Nat /\ e <= Len(waiting)
      BY <1>9, <3>1
    <3> HIDE DEF waiting, e
    <3>3. SubSeq(waiting, 1, e) \in Seq(1..Len(inputs))
      BY <3>1, <3>2
    <3> QED
      BY <3>3, ElementOfSeq, LenProperties DEF e, waiting, Batch
  <2> HIDE DEF batch
  <2> QED
    BY <1>1, <1>7, <2>1 DEF Received, batch
<1> HIDE DEF all, batch, waiting
<1>12. \A k1 \in 1..Len(all) : all[k1] = Derive(deriveKind, inputs[Misses[k1]], engine)
  <2>1. \A k1 \in 1..Len(all) : k1 \in 1..Len(Misses)
    BY <1>6, <1>10, LenProperties
  <2>2. \A k1 \in 1..Len(all) : Misses[k1] \in 1..Len(inputs)
    BY <1>6, <2>1, ElementOfSeq
  <2> QED
    BY <1>7, <1>10, <2>2
<1>13. SlotsTrue'
  BY <1>1, <1>2, <1>3 DEF SlotsTrue, MadeFrom
<1>14. FreshTrue'
  BY <1>1, <1>2, <1>3, <1>5, <1>10, <1>11, <1>12 DEF FreshTrue
<1> QED
  BY <1>3, <1>4, <1>13, <1>14 DEF DeriveInv

LEMMA EmbedFailsKeeps ==
  ASSUME DeriveInv, EmbedFails
  PROVE  DeriveInv'
<1>1. /\ UNCHANGED <<derivations, deriveCall, slots, fresh>> /\ derivePc = "embed"
      /\ tries' \in {tries, tries + 1} /\ derivePc' \in {"embed", "failed"}
  BY DEF EmbedFails
<1>2. CallTrue /\ CacheTrue /\ SlotsTrue /\ FreshTrue /\ tries' \in Nat
  BY <1>1 DEF DeriveInv, CallTrue
<1>3. CallTrue' /\ UNCHANGED <<deriveKind, inputs, engine>>
  BY <1>1, <1>2, SameCall
<1>4. CacheTrue'
  BY <1>1, <1>2, SameCache
<1>5. Misses' = Misses
  BY <1>1 DEF Misses
<1> QED
  BY <1>1, <1>2, <1>3, <1>4, <1>5 DEF DeriveInv, SlotsTrue, FreshTrue, MadeFrom

LEMMA RecognizeKeeps ==
  ASSUME DeriveInv, Recognize
  PROVE  DeriveInv'
<1> DEFINE v == Derive(deriveKind, inputs[1], engine)
<1>1. /\ UNCHANGED <<derivations, deriveCall, slots, tries>> /\ derivePc = "recognize"
      /\ derivePc' = "put" /\ fresh' = <<v>>
  BY DEF Recognize
<1>2. CallTrue /\ CacheTrue /\ SlotsTrue /\ FreshTrue /\ tries' \in Nat
  BY <1>1 DEF DeriveInv, CallTrue
<1>3. CallTrue' /\ UNCHANGED <<deriveKind, inputs, engine>>
  BY <1>1, <1>2, SameCall
<1>4. CacheTrue'
  BY <1>1, <1>2, SameCache
<1>5. deriveKind # "embedding" /\ slots = <<NoValue>> /\ Len(inputs) = 1
  BY <1>1, <1>2 DEF FreshTrue, CallTrue
<1>6. v \in DerivedValue
  BY <1>2, <1>5, InputsTyped
<1>7. Misses = MissesIn(slots) /\ Misses' = Misses
  BY <1>1 DEF Misses, MissesIn, BlankIn
<1>8. BlankIn(slots) = {1}
  BY <1>5 DEF BlankIn
<1>9. Len(Misses) = 1 /\ Misses[1] = 1
  <2>1. slots \in Seq({NoValue})
    BY <1>5
  <2>2. /\ Len(Misses) \in Nat
        /\ \A k1 \in 1..Len(Misses) : Misses[k1] \in BlankIn(slots)
        /\ Rank(BlankIn(slots), 1) \in 1..Len(Misses)
    BY <1>7, <1>8, <2>1, MissesAreBlank
  <2>3. Len(Misses) = Cardinality({1})
    <3>1. Len(Picked([i \in DOMAIN slots |-> i], {1})) = Cardinality({1})
      <4>1. {1} \in SUBSET (1..1) /\ 1 \in Nat
        OBVIOUS
      <4> QED
        BY <4>1, PickedFromThere, Zenon
    <3> QED
      BY <1>7, <1>8, <3>1 DEF MissesIn
  <2>4. Len(Misses) = 1
    BY <2>3, FS_Singleton
  <2> QED
    BY <1>8, <2>2, <2>4
<1> HIDE DEF v
<1>10. fresh' \in Seq(DerivedValue) /\ Len(fresh') = 1 /\ fresh'[1] = v
  BY <1>1, <1>6
<1>11. FreshTrue'
  <2>1. \A k1 \in 1..1 : fresh'[k1] = Derive(deriveKind, inputs[Misses[k1]], engine)
    BY <1>9, <1>10 DEF v
  <2> QED
    BY <1>1, <1>3, <1>7, <1>9, <1>10, <2>1 DEF FreshTrue
<1>12. SlotsTrue'
  BY <1>1, <1>2, <1>3 DEF SlotsTrue, MadeFrom
<1> QED
  BY <1>3, <1>4, <1>11, <1>12 DEF DeriveInv

LEMMA RecognizeFailsKeeps ==
  ASSUME DeriveInv, RecognizeFails
  PROVE  DeriveInv'
<1>1. /\ UNCHANGED <<derivations, deriveCall, slots, fresh, tries>> /\ derivePc = "recognize"
      /\ derivePc' = "returned"
  BY DEF RecognizeFails, deriveWork
<1>2. CallTrue /\ CacheTrue /\ SlotsTrue /\ FreshTrue /\ tries' \in Nat
  BY <1>1 DEF DeriveInv, CallTrue
<1>3. CallTrue' /\ UNCHANGED <<deriveKind, inputs, engine>>
  BY <1>1, <1>2, SameCall
<1>4. CacheTrue'
  BY <1>1, <1>2, SameCache
<1> QED
  BY <1>1, <1>2, <1>3, <1>4 DEF DeriveInv, SlotsTrue, FreshTrue, MadeFrom

LEMMA CacheFailsKeeps ==
  ASSUME DeriveInv, CacheFails
  PROVE  DeriveInv'
<1>1. /\ UNCHANGED <<derivations, deriveCall, slots, fresh, tries>> /\ derivePc' = "failed"
  BY DEF CacheFails, deriveWork
<1>2. CallTrue /\ CacheTrue /\ FreshTrue /\ tries' \in Nat
  BY <1>1 DEF DeriveInv, CallTrue
<1>3. CallTrue' /\ CacheTrue'
  BY <1>1, <1>2, SameCall, SameCache
<1> QED
  BY <1>1, <1>2, <1>3 DEF DeriveInv, SlotsTrue, FreshTrue

\* A row written beside the others is true if the others are.
LEMMA PutKeepsCache ==
  ASSUME CacheTrue, NEW newRows, CachePut(newRows),
         \A key \in DOMAIN newRows : EntryTrue(key, newRows[key])
  PROVE  CacheTrue'
<1>1. derivations' = [key \in (DOMAIN newRows) \cup (DOMAIN derivations) |->
                        IF key \in DOMAIN newRows THEN newRows[key] ELSE derivations[key]]
  BY DEF CachePut, Overlaid
<1>2. ASSUME NEW key \in DOMAIN derivations'
      PROVE  EntryTrue(key, derivations'[key])
  <2>1. CASE key \in DOMAIN newRows
    BY <1>1, <2>1
  <2>2. CASE key \notin DOMAIN newRows
    BY <1>1, <1>2, <2>2 DEF CacheTrue
  <2> QED
    BY <2>1, <2>2
<1> QED
  BY <1>2 DEF CacheTrue

LEMMA PutMissesKeeps ==
  ASSUME DeriveInv, PutMisses
  PROVE  DeriveInv'
<1> DEFINE written == {InputKey(Misses[k1]) : k1 \in DOMAIN Misses}
           last(key) == CHOOSE k1 \in DOMAIN Misses :
                          /\ InputKey(Misses[k1]) = key
                          /\ \A m \in DOMAIN Misses : m > k1 => InputKey(Misses[m]) # key
           newRows == [key \in written |-> fresh[last(key)]]
<1>1. /\ UNCHANGED <<deriveCall, fresh, tries>> /\ derivePc = "put" /\ derivePc' = "returned"
      /\ slots' = FillMisses(slots, fresh) /\ CachePut(newRows)
  BY DEF PutMisses
<1>2. CallTrue /\ CacheTrue /\ SlotsTrue /\ FreshTrue /\ tries' \in Nat
  BY <1>1 DEF DeriveInv, CallTrue
<1>3. CallTrue' /\ UNCHANGED <<deriveKind, inputs, engine>>
  BY <1>1, <1>2, SameCall
<1>4. /\ slots \in Seq(DerivedValue \cup {NoValue}) /\ Len(slots) = Len(inputs)
      /\ \A i \in 1..Len(inputs) : slots[i] = NoValue \/ MadeFrom(slots[i], i)
      /\ Misses = MissesIn(slots)
  BY <1>1, <1>2 DEF SlotsTrue, Misses, MissesIn, BlankIn
<1>5. /\ Len(inputs) \in Nat /\ DOMAIN slots = 1..Len(inputs)
      /\ BlankIn(slots) \in SUBSET (1..Len(inputs))
      /\ Len(Misses) \in Nat /\ DOMAIN Misses = 1..Len(Misses)
      /\ \A k1 \in 1..Len(Misses) : Misses[k1] \in BlankIn(slots)
      /\ \A i \in BlankIn(slots) : /\ Rank(BlankIn(slots), i) \in 1..Len(Misses)
                                   /\ Misses[Rank(BlankIn(slots), i)] = i
  <2>1. /\ Len(slots) \in Nat /\ DOMAIN slots = 1..Len(slots)
        /\ BlankIn(slots) \in SUBSET (1..Len(slots))
        /\ MissesIn(slots) \in Seq(BlankIn(slots)) /\ Len(MissesIn(slots)) \in Nat
        /\ \A k1 \in 1..Len(MissesIn(slots)) : MissesIn(slots)[k1] \in BlankIn(slots)
        /\ \A i \in BlankIn(slots) : /\ Rank(BlankIn(slots), i) \in 1..Len(MissesIn(slots))
                                     /\ MissesIn(slots)[Rank(BlankIn(slots), i)] = i
    BY <1>4, MissesAreBlank
  <2> QED
    BY <1>4, <2>1, LenProperties
<1>6. ASSUME NEW k1 \in 1..Len(Misses)
      PROVE  fresh[k1] = Derive(deriveKind, inputs[Misses[k1]], engine) /\ Misses[k1] \in 1..Len(inputs)
  BY <1>1, <1>2, <1>5 DEF FreshTrue
<1>7. CacheTrue'
  <2>1. ASSUME NEW key \in written
        PROVE  EntryTrue(key, fresh[last(key)])
    <3> DEFINE of == {k1 \in 1..Len(Misses) : InputKey(Misses[k1]) = key}
    <3>1. of \in SUBSET (1..Len(Misses)) /\ of # {}
      BY <1>5
    <3>2. PICK h \in of : \A j \in of : j <= h
      BY <1>5, <3>1, LastOfSome
    <3>3. h \in DOMAIN Misses /\ InputKey(Misses[h]) = key
      BY <1>5, <3>2
    <3>4. \A m \in DOMAIN Misses : m > h => InputKey(Misses[m]) # key
      BY <1>5, <3>2
    <3>5. last(key) \in DOMAIN Misses /\ InputKey(Misses[last(key)]) = key
      BY <3>3, <3>4
    <3> DEFINE l == last(key)
    <3>6. l \in 1..Len(Misses) /\ InputKey(Misses[l]) = key
      BY <1>5, <3>5
    <3> HIDE DEF l
    <3>7. /\ fresh[l] = Derive(deriveKind, inputs[Misses[l]], engine)
          /\ inputs[Misses[l]] \in ContentsOf(deriveKind)
          /\ deriveKind \in Kinds /\ engine \in Engines
      BY <1>2, <1>6, <3>6, InputsTyped DEF CallTrue
    <3>8. EntryTrue(key, fresh[l])
      BY <3>6, <3>7 DEF EntryTrue, InputKey
    <3> QED
      BY <3>8 DEF l
  <2> HIDE DEF last, written
  <2>2. DOMAIN newRows = written /\ \A key \in written : newRows[key] = fresh[last(key)]
    OBVIOUS
  <2> HIDE DEF newRows
  <2>3. \A key \in DOMAIN newRows : EntryTrue(key, newRows[key])
    BY <2>1, <2>2
  <2> QED
    BY <1>1, <1>2, <2>3, PutKeepsCache
<1>8. ASSUME NEW i \in 1..Len(inputs)
      PROVE  slots'[i] # NoValue /\ MadeFrom(slots'[i], i)
  <2>1. CASE slots[i] = NoValue
    <3>1. i \in BlankIn(slots)
      BY <1>5, <2>1 DEF BlankIn
    <3>2. {j \in 1 .. i : slots[j] = NoValue} = {j \in BlankIn(slots) : j <= i}
      BY <1>5 DEF BlankIn
    <3>3. slots'[i] = fresh[Rank(BlankIn(slots), i)]
      BY <1>1, <1>5, <2>1, <3>2 DEF FillMisses, Rank
    <3>4. slots'[i] = Derive(deriveKind, inputs[i], engine)
      BY <1>5, <1>6, <3>1, <3>3
    <3>5. MadeFrom(slots'[i], i) /\ slots'[i] \in DerivedValue
      BY <1>2, <3>4, InputsTyped
    <3> QED
      BY <3>5, DerivationAssumption
  <2>2. CASE slots[i] # NoValue
    <3>1. slots'[i] = slots[i]
      BY <1>1, <1>5, <2>2 DEF FillMisses
    <3> QED
      BY <1>4, <2>2, <3>1
  <2> QED
    BY <2>1, <2>2
<1>9. slots' \in Seq(DerivedValue \cup {NoValue}) /\ Len(slots') = Len(inputs)
  <2>1. slots' = [i \in 1..Len(inputs) |-> slots'[i]]
    BY <1>1, <1>5 DEF FillMisses
  <2>2. \A i \in 1..Len(inputs) : slots'[i] \in DerivedValue \cup {NoValue}
    BY <1>8 DEF MadeFrom
  <2> QED
    BY <1>5, <2>1, <2>2
<1>10. SlotsTrue'
  BY <1>3, <1>8, <1>9 DEF SlotsTrue, MadeFrom
<1>11. FreshTrue'
  <2>1. fresh' = fresh /\ fresh \in Seq(DerivedValue)
    BY <1>1, <1>2 DEF FreshTrue
  <2> HIDE DEF newRows
  <2> QED
    BY <1>1, <1>3, <1>8, <2>1 DEF FreshTrue
<1> QED
  BY <1>3, <1>7, <1>10, <1>11 DEF DeriveInv

\* What others may do to the table leaves only true rows in it.
LEMMA UpsetKeepsCache ==
  ASSUME CacheTrue, CacheUpset
  PROVE  CacheTrue'
<1>1. CASE EntryDropped
  <2>1. PICK key \in DOMAIN derivations :
          derivations' = [k1 \in DOMAIN derivations \ {key} |-> derivations[k1]]
    BY <1>1 DEF EntryDropped
  <2> QED
    BY <2>1 DEF CacheTrue
<1>2. CASE EntryDamaged
  <2>1. PICK key \in DOMAIN derivations : derivations' = [derivations EXCEPT ![key] = Damaged]
    BY <1>2 DEF EntryDamaged
  <2>2. /\ DOMAIN derivations' = DOMAIN derivations
        /\ \A k1 \in DOMAIN derivations :
             derivations'[k1] = Damaged \/ derivations'[k1] = derivations[k1]
    BY <2>1
  <2> QED
    BY <2>2 DEF CacheTrue, EntryTrue
<1>3. CASE PutByAnother
  <2>1. PICK kind \in Kinds, e \in Engines : \E c \in ContentsOf(kind) :
          CachePut(Single(DerivationKey(kind, c, e), Derive(kind, c, e)))
    BY <1>3 DEF PutByAnother
  <2>2. PICK c \in ContentsOf(kind) : CachePut(Single(DerivationKey(kind, c, e), Derive(kind, c, e)))
    BY <2>1
  <2> DEFINE newRows == Single(DerivationKey(kind, c, e), Derive(kind, c, e))
  <2>3. /\ DOMAIN newRows = {DerivationKey(kind, c, e)}
        /\ newRows[DerivationKey(kind, c, e)] = Derive(kind, c, e)
    BY DEF Single
  <2> HIDE DEF newRows
  <2>4. \A key \in DOMAIN newRows : EntryTrue(key, newRows[key])
    BY <2>3 DEF EntryTrue
  <2> QED
    BY <2>2, <2>4, PutKeepsCache DEF newRows
<1> QED
  BY <1>1, <1>2, <1>3 DEF CacheUpset

\* The step of the invariant, one case per action.
LEMMA DeriveSteps == DeriveInv /\ [DeriveNext]_deriveVars => DeriveInv'
<1> SUFFICES ASSUME DeriveInv, [DeriveNext]_deriveVars PROVE DeriveInv'
  OBVIOUS
<1>1. ASSUME UNCHANGED <<derivePc, deriveCall, deriveWork>>, CacheTrue'
      PROVE  DeriveInv'
  <2>1. UNCHANGED <<derivePc, deriveKind, inputs, engine, slots, fresh, tries>>
    BY <1>1 DEF deriveCall, deriveWork
  <2>2. Misses' = Misses
    BY <2>1 DEF Misses
  <2> QED
    BY <1>1, <2>1, <2>2 DEF DeriveInv, CallTrue, SlotsTrue, FreshTrue, MadeFrom, ContentsOf
<1>2. CASE UNCHANGED deriveVars
  BY <1>1, <1>2, SameCache DEF deriveVars, DeriveInv
<1>3. CASE CacheUpset /\ UNCHANGED <<derivePc, deriveCall, deriveWork, derivesLeft>>
  BY <1>1, <1>3, UpsetKeepsCache DEF DeriveInv
<1> QED
  BY <1>2, <1>3, BeginDeriveKeeps, LookupKeeps, EmbedMissesKeeps, EmbedFailsKeeps,
     RecognizeKeeps, RecognizeFailsKeeps, PutMissesKeeps, CacheFailsKeeps
     DEF DeriveNext

LEMMA TrueSlotsAreValues == DeriveInv => ValuesAreTheirInputs
<1> SUFFICES ASSUME DeriveInv, derivePc = "returned", NEW i \in DOMAIN inputs
             PROVE  /\ slots[i] = NoValue => deriveKind # "embedding"
                    /\ slots[i] # NoValue =>
                         /\ slots[i].kind = deriveKind
                         /\ KeyContent(deriveKind, slots[i].content) = KeyContent(deriveKind, inputs[i])
                         /\ slots[i].by.provider = engine.provider
                         /\ deriveKind # "caption" => slots[i].by = engine
  BY DEF ValuesAreTheirInputs
<1>1. i \in 1..Len(inputs)
  BY InputsTyped DEF DeriveInv
<1> QED
  BY <1>1 DEF DeriveInv, SlotsTrue, FreshTrue, MadeFrom

\* embed_with_cache and the OCR and caption of an image, whatever mixture of
\* hits and misses a call meets, for any texts, models, batch size and number
\* of calls, rows lost, damaged or written by others: each slot holds what
\* was derived from its own input by the engine now configured.
THEOREM ValuesAlwaysAreTheirInputs == DeriveSpec => []ValuesAreTheirInputs
BY DeriveBegins, DeriveSteps, TrueSlotsAreValues, PTL DEF DeriveSpec

-----------------------------------------------------------------------------
(* PdfOcr: the page loop over the cache *)

PageBegun == pdfPc \in {"raster", "ask", "recognize", "put", "apply"}

\* What is in hand belongs to the page in hand.
PageInHand ==
  /\ pdfPc \in {"page", "done", "aborted"} \/ PageBegun
  /\ pdfPage \in 1 .. PdfPages + 1 /\ pdfEngine \in Engines
  /\ pdfPc = "done" => pdfPage = PdfPages + 1
  /\ PageBegun => pdfPage \in Pages /\ Chosen(pdfPage)
  /\ pdfPc \in {"ask", "recognize", "put", "apply"} => raster = PageImage[pdfPage]
  /\ pdfPc \in {"put", "apply"} => pdfText = Derive("ocr", PageImage[pdfPage], pdfEngine)

ChosenBefore == {p \in Pages : p < pdfPage /\ Chosen(p)}

\* The pages announced are the chosen ones before this one, each finished once
\* and at once, and this one while it is in hand.
EventsSoFar ==
  /\ progress \in Seq([kind : {"Started", "Finished"}, page : Pages, skipped : BOOLEAN])
  /\ Len(progress) = 2 * Cardinality(ChosenBefore) + (IF PageBegun THEN 1 ELSE 0)
  /\ \A k \in 1 .. Cardinality(ChosenBefore) :
       /\ progress[2*k - 1].kind = "Started" /\ progress[2*k].kind = "Finished"
       /\ progress[2*k - 1].page = progress[2*k].page
  /\ PageBegun => progress[Len(progress)].kind = "Started" /\ progress[Len(progress)].page = pdfPage
  /\ \A p \in Pages : IF p \in ChosenBefore THEN \E k \in Nat : Finished(p) = {k} ELSE Finished(p) = {}

\* A page that was read has its text where it belongs, every other its extracted one.
TextsSoFar ==
  /\ dualBlocks \in Seq([page : Pages, text : DerivedValue, ordinal : Nat])
  /\ pageText \in [Pages -> DerivedValue \cup {Extracted}]
  /\ pagesOcrd = Cardinality({p \in Pages : Read(p)})
  /\ \A p \in Pages :
       /\ ~Read(p) \/ ~Poor(p) => pageText[p] = Extracted
       /\ Read(p) /\ Poor(p) => ReadFrom(p, pageText[p]) /\ Dual(p) = {}
       /\ Read(p) /\ ~Poor(p) => \E k \in Dual(p) : Dual(p) = {k} /\ ReadFrom(p, dualBlocks[k].text)
       /\ ~Read(p) => Dual(p) = {}

PdfInv == CacheTrue /\ PageInHand /\ (pdfPc # "aborted" => EventsSoFar /\ TextsSoFar)

\* An event is one more, and finishes a page if it says so.
LEMMA OneMoreEvent ==
  ASSUME EventsSoFar, pdfPage \in Pages, NEW kind \in {"Started", "Finished"}, NEW skipped \in BOOLEAN,
         Tell(kind, skipped)
  PROVE  /\ progress' \in Seq([kind : {"Started", "Finished"}, page : Pages, skipped : BOOLEAN])
         /\ Len(progress) \in Nat /\ Len(progress') = Len(progress) + 1
         /\ \A k \in 1..Len(progress) : progress'[k] = progress[k]
         /\ progress'[Len(progress) + 1] = [kind |-> kind, page |-> pdfPage, skipped |-> skipped]
         /\ \A p \in Pages : Finished(p)' = Finished(p) \cup
              (IF kind = "Finished" /\ p = pdfPage THEN {Len(progress) + 1} ELSE {})
         /\ \A p \in Pages : Read(p)' <=> Read(p) \/ (kind = "Finished" /\ p = pdfPage /\ ~skipped)
<1> DEFINE E == [kind : {"Started", "Finished"}, page : Pages, skipped : BOOLEAN]
           e == [kind |-> kind, page |-> pdfPage, skipped |-> skipped]
           n == Len(progress)
<1>1. progress \in Seq(E) /\ e \in E /\ progress' = Append(progress, e)
  BY DEF EventsSoFar, Tell
<1>2. e.kind = kind /\ e.page = pdfPage /\ e.skipped = skipped
  OBVIOUS
<1> HIDE DEF E, e
<1>3. /\ progress' \in Seq(E) /\ n \in Nat /\ Len(progress') = n + 1
      /\ \A k \in 1..n : progress'[k] = progress[k]
      /\ progress'[n + 1] = e /\ DOMAIN progress = 1..n /\ DOMAIN progress' = 1..(n + 1)
  BY <1>1
<1>4. ASSUME NEW p \in Pages
      PROVE  Finished(p)' = Finished(p) \cup (IF kind = "Finished" /\ p = pdfPage THEN {n + 1} ELSE {})
  <2>1. Finished(p) \in SUBSET (1..n)
    BY <1>3 DEF Finished
  <2> HIDE DEF n
  <2>2. ASSUME NEW k \in 1..(n + 1)
        PROVE  k \in Finished(p)' <=> k \in Finished(p) \/ (k = n + 1 /\ kind = "Finished" /\ p = pdfPage)
    <3>1. CASE k = n + 1
      <4>1. k \notin Finished(p)
        BY <1>3, <2>1, <3>1
      <4> QED
        BY <1>2, <1>3, <3>1, <4>1 DEF Finished
    <3>2. CASE k # n + 1
      <4>1. k \in 1..n
        BY <1>3, <3>2
      <4> QED
        BY <1>3, <3>2, <4>1 DEF Finished
    <3> QED
      BY <3>1, <3>2
  <2>3. Finished(p)' \in SUBSET (1..(n + 1))
    BY <1>3 DEF Finished
  <2> QED
    BY <1>3, <2>1, <2>2, <2>3
<1>5. ASSUME NEW p \in Pages
      PROVE  Read(p)' <=> Read(p) \/ (kind = "Finished" /\ p = pdfPage /\ ~skipped)
  <2>1. Finished(p) \in SUBSET (1..n)
    BY <1>3 DEF Finished
  <2> HIDE DEF n
  <2>2. Read(p) => Read(p)'
    BY <1>3, <1>4, <2>1 DEF Read
  <2>3. kind = "Finished" /\ p = pdfPage /\ ~skipped => Read(p)'
    BY <1>2, <1>3, <1>4 DEF Read
  <2>4. Read(p)' => Read(p) \/ (kind = "Finished" /\ p = pdfPage /\ ~skipped)
    BY <1>2, <1>3, <1>4, <2>1 DEF Read
  <2> QED
    BY <2>2, <2>3, <2>4
<1> QED
  BY <1>3, <1>4, <1>5 DEF E, e

\* The chosen pages before the next one.
LEMMA NextIsBefore ==
  ASSUME pdfPage \in Pages, pdfPage' = pdfPage + 1, UNCHANGED pdfSetting
  PROVE  /\ ChosenBefore' = IF Chosen(pdfPage) THEN ChosenBefore \cup {pdfPage} ELSE ChosenBefore
         /\ Cardinality(ChosenBefore) \in Nat
         /\ Cardinality(ChosenBefore)' = Cardinality(ChosenBefore) + (IF Chosen(pdfPage) THEN 1 ELSE 0)
<1>1. \A p \in Pages : Chosen(p)' <=> Chosen(p)
  BY DEF Chosen, Poor, pdfSetting
<1>2. pdfPage \in Nat /\ Pages \in SUBSET Nat
  BY PdfAssumption DEF Pages
<1>3. ChosenBefore' = IF Chosen(pdfPage) THEN ChosenBefore \cup {pdfPage} ELSE ChosenBefore
  <2>1. ASSUME NEW p \in Pages
        PROVE  p \in ChosenBefore' <=> p \in ChosenBefore \/ (Chosen(pdfPage) /\ p = pdfPage)
    <3>1. p \in ChosenBefore' <=> p < pdfPage + 1 /\ Chosen(p)
      BY <1>1 DEF ChosenBefore, Pages
    <3>2. p \in ChosenBefore <=> p < pdfPage /\ Chosen(p)
      BY DEF ChosenBefore
    <3> QED
      BY <1>2, <3>1, <3>2
  <2>2. ChosenBefore' \in SUBSET Pages /\ ChosenBefore \in SUBSET Pages
    BY DEF ChosenBefore, Pages
  <2> QED
    BY <2>1, <2>2
<1>4. IsFiniteSet(ChosenBefore) /\ pdfPage \notin ChosenBefore
  <2>1. IsFiniteSet(1..PdfPages)
    BY PdfAssumption, FS_Interval
  <2>2. ChosenBefore \in SUBSET (1..PdfPages)
    BY DEF ChosenBefore, Pages
  <2>3. IsFiniteSet(ChosenBefore)
    BY <2>1, <2>2, FS_Subset
  <2> QED
    BY <1>2, <2>3 DEF ChosenBefore
<1>5. /\ Cardinality(ChosenBefore) \in Nat
      /\ Cardinality(ChosenBefore \cup {pdfPage}) = Cardinality(ChosenBefore) + 1
  BY <1>4, FS_AddElement, FS_CardinalityType
<1>6. Cardinality(ChosenBefore)' = Cardinality(ChosenBefore')
  OBVIOUS
<1> QED
  BY <1>3, <1>5, <1>6

\* Most steps tell and place nothing.
LEMMA QuietKeeps ==
  ASSUME EventsSoFar, TextsSoFar, PageBegun' <=> PageBegun,
         UNCHANGED <<pdfSetting, pdfPage, pageText, dualBlocks, progress, pagesOcrd>>
  PROVE  EventsSoFar' /\ TextsSoFar'
<1>1. /\ UNCHANGED <<pdfPage, pageText, dualBlocks, progress, pagesOcrd, pdfEngine>>
      /\ \A p \in Pages : (Chosen(p)' <=> Chosen(p)) /\ (Poor(p)' <=> Poor(p))
  BY DEF pdfSetting, Chosen, Poor
<1>2. /\ ChosenBefore' = ChosenBefore
      /\ \A p \in Pages : Finished(p)' = Finished(p) /\ Dual(p)' = Dual(p) /\ (Read(p)' <=> Read(p))
  BY <1>1 DEF ChosenBefore, Finished, Dual, Read, Pages
<1>3. EventsSoFar'
  <2> HIDE DEF PageBegun, ChosenBefore, Finished
  <2> QED
    BY <1>1, <1>2 DEF EventsSoFar, Pages
<1>4. TextsSoFar'
  <2>1. {p \in Pages : Read(p)}' = {p \in Pages : Read(p)}
    BY <1>2 DEF Pages
  <2>2. \A p \in Pages : \A t : ReadFrom(p, t)' <=> ReadFrom(p, t)
    BY <1>1 DEF ReadFrom
  <2> QED
    BY <1>1, <1>2, <2>1, <2>2 DEF TextsSoFar, Pages, ReadFrom
<1> QED
  BY <1>3, <1>4

\* The setting of a run, and the pages that have been read so far.
LEMMA SettingStays ==
  ASSUME UNCHANGED pdfSetting
  PROVE  /\ pdfEngine' = pdfEngine
         /\ \A p \in Pages : (Chosen(p)' <=> Chosen(p)) /\ (Poor(p)' <=> Poor(p))
  BY DEF pdfSetting, Chosen, Poor

LEMMA PageStartedKeeps ==
  ASSUME PageInHand, EventsSoFar, TextsSoFar, PageStarted
  PROVE  EventsSoFar' /\ TextsSoFar'
<1>1. /\ pdfPage \in Pages /\ Tell("Started", FALSE) /\ Chosen(pdfPage)
      /\ UNCHANGED <<pdfPage, pageText, dualBlocks, pagesOcrd>>
      /\ ~PageBegun /\ PageBegun' /\ UNCHANGED pdfSetting
  BY DEF PageStarted, PageBegun, pdfDoc, pdfCounts
<1>2. /\ progress' \in Seq([kind : {"Started", "Finished"}, page : Pages, skipped : BOOLEAN])
      /\ Len(progress) \in Nat /\ Len(progress') = Len(progress) + 1
      /\ \A k \in 1..Len(progress) : progress'[k] = progress[k]
      /\ progress'[Len(progress) + 1] = [kind |-> "Started", page |-> pdfPage, skipped |-> FALSE]
      /\ \A p \in Pages : Finished(p)' = Finished(p) /\ (Read(p)' <=> Read(p))
  BY <1>1, OneMoreEvent
<1>3. ChosenBefore' = ChosenBefore
  BY <1>1, SettingStays DEF ChosenBefore, Pages
<1>4. EventsSoFar'
  <2>1. Cardinality(ChosenBefore)' = Cardinality(ChosenBefore) /\ Cardinality(ChosenBefore) \in Nat
    <3>1. pdfPage + 1 = pdfPage + 1 /\ IsFiniteSet(1..PdfPages) /\ ChosenBefore \in SUBSET (1..PdfPages)
      BY PdfAssumption, FS_Interval DEF ChosenBefore, Pages
    <3> QED
      BY <1>3, <3>1, FS_Subset, FS_CardinalityType
  <2> DEFINE c == Cardinality(ChosenBefore)
  <2>2. Len(progress) = 2 * c /\ Len(progress') = 2 * c + 1 /\ c \in Nat
    BY <1>1, <1>2, <2>1 DEF EventsSoFar
  <2>3. \A k \in 1..c : progress'[2*k - 1] = progress[2*k - 1] /\ progress'[2*k] = progress[2*k]
    <3> HIDE DEF c
    <3>1. \A k \in 1..c : 2*k - 1 \in 1..Len(progress) /\ 2*k \in 1..Len(progress)
      BY <2>2
    <3> QED
      BY <1>2, <3>1
  <2>4. \A k \in 1..c :
          /\ progress'[2*k - 1].kind = "Started" /\ progress'[2*k].kind = "Finished"
          /\ progress'[2*k - 1].page = progress'[2*k].page
    BY <2>3 DEF EventsSoFar
  <2>5. \A p \in Pages : IF p \in ChosenBefore' THEN \E k \in Nat : Finished(p)' = {k} ELSE Finished(p)' = {}
    BY <1>2, <1>3 DEF EventsSoFar
  <2>6. progress'[Len(progress')].kind = "Started" /\ progress'[Len(progress')].page = pdfPage'
    BY <1>1, <1>2
  <2>7. Cardinality(ChosenBefore)' = c
    BY <2>1
  <2> HIDE DEF c
  <2> QED
    BY <1>1, <1>2, <2>2, <2>4, <2>5, <2>6, <2>7 DEF EventsSoFar, Pages
<1>5. TextsSoFar'
  <2>1. {p \in Pages : Read(p)}' = {p \in Pages : Read(p)}
    BY <1>2 DEF Pages
  <2>2. \A p \in Pages : Dual(p)' = Dual(p)
    BY <1>1 DEF Dual
  <2> QED
    BY <1>1, <1>2, <2>1, <2>2, SettingStays DEF TextsSoFar, Pages, ReadFrom
<1> QED
  BY <1>4, <1>5

LEMMA PagePassedKeeps ==
  ASSUME PageInHand, EventsSoFar, TextsSoFar, PagePassed
  PROVE  EventsSoFar' /\ TextsSoFar'
<1>1. /\ pdfPage \in Pages /\ pdfPage' = pdfPage + 1 /\ ~Chosen(pdfPage)
      /\ UNCHANGED <<pageText, dualBlocks, pagesOcrd, progress>>
      /\ ~PageBegun /\ ~PageBegun' /\ UNCHANGED pdfSetting
  BY DEF PagePassed, PageBegun, NextPage, pdfDoc, pdfCounts
<1>2. ChosenBefore' = ChosenBefore /\ Cardinality(ChosenBefore)' = Cardinality(ChosenBefore)
  BY <1>1, NextIsBefore
<1>3. \A p \in Pages : Finished(p)' = Finished(p) /\ Dual(p)' = Dual(p) /\ (Read(p)' <=> Read(p))
  BY <1>1 DEF Finished, Dual, Read
<1>4. EventsSoFar'
  BY <1>1, <1>2, <1>3 DEF EventsSoFar, Pages
<1>5. {p \in Pages : Read(p)}' = {p \in Pages : Read(p)}
  BY <1>3 DEF Pages
<1>6. TextsSoFar'
  BY <1>1, <1>3, <1>5, SettingStays DEF TextsSoFar, Pages, ReadFrom
<1> QED
  BY <1>4, <1>6

\* However a page is left, it is left with its Finished event.
LEMMA FinishKeeps ==
  ASSUME PageInHand, EventsSoFar, PageBegun, NEW skipped \in BOOLEAN,
         Tell("Finished", skipped), NextPage, UNCHANGED pdfSetting
  PROVE  /\ EventsSoFar' /\ ~Read(pdfPage)
         /\ \A p \in Pages : Read(p)' <=> Read(p) \/ (p = pdfPage /\ ~skipped)
<1>1. pdfPage \in Pages /\ Chosen(pdfPage) /\ pdfPage' = pdfPage + 1 /\ ~PageBegun'
  BY DEF PageInHand, NextPage, PageBegun
<1>2. /\ progress' \in Seq([kind : {"Started", "Finished"}, page : Pages, skipped : BOOLEAN])
      /\ Len(progress) \in Nat /\ Len(progress') = Len(progress) + 1
      /\ \A k \in 1..Len(progress) : progress'[k] = progress[k]
      /\ progress'[Len(progress) + 1] = [kind |-> "Finished", page |-> pdfPage, skipped |-> skipped]
      /\ \A p \in Pages : Finished(p)' = Finished(p) \cup (IF p = pdfPage THEN {Len(progress) + 1} ELSE {})
      /\ \A p \in Pages : Read(p)' <=> Read(p) \/ (p = pdfPage /\ ~skipped)
  BY <1>1, OneMoreEvent
<1> DEFINE c == Cardinality(ChosenBefore)
<1>3. /\ ChosenBefore' = ChosenBefore \cup {pdfPage} /\ c \in Nat
      /\ Cardinality(ChosenBefore)' = c + 1
  BY <1>1, NextIsBefore
<1>4. pdfPage \notin ChosenBefore
  BY <1>1, PdfAssumption DEF ChosenBefore, Pages
<1>5. Finished(pdfPage) = {}
  BY <1>1, <1>4 DEF EventsSoFar
<1>6. /\ Len(progress) = 2 * c + 1
      /\ progress[Len(progress)].kind = "Started" /\ progress[Len(progress)].page = pdfPage
      /\ \A k \in 1..c :
           /\ progress[2*k - 1].kind = "Started" /\ progress[2*k].kind = "Finished"
           /\ progress[2*k - 1].page = progress[2*k].page
  BY DEF EventsSoFar
<1> HIDE DEF c
<1>7. \A k \in 1..(c + 1) :
        /\ progress'[2*k - 1].kind = "Started" /\ progress'[2*k].kind = "Finished"
        /\ progress'[2*k - 1].page = progress'[2*k].page
  <2> SUFFICES ASSUME NEW k \in 1..(c + 1)
               PROVE  /\ progress'[2*k - 1].kind = "Started" /\ progress'[2*k].kind = "Finished"
                      /\ progress'[2*k - 1].page = progress'[2*k].page
    OBVIOUS
  <2>1. CASE k = c + 1
    <3>1. 2*k - 1 = Len(progress) /\ 2*k = Len(progress) + 1 /\ Len(progress) \in 1..Len(progress)
      BY <1>2, <1>3, <1>6, <2>1
    <3> QED
      BY <1>2, <1>6, <3>1
  <2>2. CASE k # c + 1
    <3>1. k \in 1..c /\ 2*k - 1 \in 1..Len(progress) /\ 2*k \in 1..Len(progress)
      BY <1>3, <1>6, <2>2
    <3> QED
      BY <1>2, <1>6, <3>1
  <2> QED
    BY <2>1, <2>2
<1>8. \A p \in Pages : IF p \in ChosenBefore' THEN \E k \in Nat : Finished(p)' = {k} ELSE Finished(p)' = {}
  <2> SUFFICES ASSUME NEW p \in Pages
               PROVE  IF p \in ChosenBefore' THEN \E k \in Nat : Finished(p)' = {k} ELSE Finished(p)' = {}
    OBVIOUS
  <2>1. CASE p = pdfPage
    BY <1>2, <1>3, <1>5, <2>1
  <2>2. CASE p # pdfPage
    BY <1>2, <1>3, <2>2 DEF EventsSoFar
  <2> QED
    BY <2>1, <2>2
<1>9. Len(progress') = 2 * (c + 1)
  BY <1>2, <1>3, <1>6
<1>10. EventsSoFar'
  <2> DEFINE d == c + 1
  <2>1. Cardinality(ChosenBefore)' = d /\ Len(progress') = 2 * d /\ d \in Nat
    BY <1>3, <1>9
  <2>2. \A k \in 1..d :
          /\ progress'[2*k - 1].kind = "Started" /\ progress'[2*k].kind = "Finished"
          /\ progress'[2*k - 1].page = progress'[2*k].page
    BY <1>7
  <2> HIDE DEF d
  <2>3. progress' \in Seq([kind : {"Started", "Finished"}, page : Pages, skipped : BOOLEAN])
    BY <1>2
  <2> QED
    BY <1>1, <1>8, <2>1, <2>2, <2>3 DEF EventsSoFar, Pages
<1>11. ~Read(pdfPage)
  BY <1>5 DEF Read
<1> QED
  BY <1>2, <1>10, <1>11

\* A page that failed keeps its extracted text.
LEMMA SkippedKeepsTexts ==
  ASSUME PageInHand, EventsSoFar, TextsSoFar, PageBegun, Tell("Finished", TRUE), NextPage,
         UNCHANGED <<pdfSetting, pageText, dualBlocks, pagesOcrd>>
  PROVE  EventsSoFar' /\ TextsSoFar'
<1>1. EventsSoFar' /\ \A p \in Pages : Read(p)' <=> Read(p)
  BY FinishKeeps
<1>2. {p \in Pages : Read(p)}' = {p \in Pages : Read(p)}
  BY <1>1 DEF Pages
<1>3. \A p \in Pages : Dual(p)' = Dual(p)
  BY DEF Dual
<1>4. UNCHANGED <<pageText, dualBlocks, pagesOcrd>>
  OBVIOUS
<1>5. TextsSoFar'
  BY <1>1, <1>2, <1>3, <1>4, SettingStays DEF TextsSoFar, Pages, ReadFrom
<1> QED
  BY <1>1, <1>5

\* A page that was read has its text, in place of a poor layer or beside a good one.
LEMMA ApplyPageKeeps ==
  ASSUME PageInHand, EventsSoFar, TextsSoFar, ApplyPage
  PROVE  EventsSoFar' /\ TextsSoFar'
<1>1. /\ PageBegun /\ Tell("Finished", FALSE) /\ NextPage /\ PlaceText
      /\ pagesOcrd' = pagesOcrd + 1 /\ UNCHANGED pdfSetting
      /\ pdfPage \in Pages /\ pdfText = Derive("ocr", PageImage[pdfPage], pdfEngine)
      /\ pdfEngine \in Engines /\ Chosen(pdfPage)
  BY DEF ApplyPage, PageBegun, PageInHand
<1>2. /\ EventsSoFar' /\ ~Read(pdfPage)
      /\ \A p \in Pages : Read(p)' <=> Read(p) \/ p = pdfPage
  <2>1. FALSE \in BOOLEAN
    OBVIOUS
  <2> QED
    BY <1>1, <2>1, FinishKeeps
<1>3. pdfText \in DerivedValue /\ ReadFrom(pdfPage, pdfText)
  <2>1. PageImage[pdfPage] \in ContentsOf("ocr") /\ "ocr" \in Kinds
    BY <1>1, PdfAssumption DEF Pages, ContentsOf, Kinds
  <2> QED
    BY <1>1, <2>1, DerivedIsValue DEF ReadFrom
<1>4. \A p \in Pages : \A t : ReadFrom(p, t)' <=> ReadFrom(p, t)
  BY <1>1, SettingStays DEF ReadFrom
<1>5. \A p \in Pages : Poor(p)' <=> Poor(p)
  BY <1>1, SettingStays
<1>6. pagesOcrd' = Cardinality({p \in Pages : Read(p)}')
  <2> DEFINE had == {p \in Pages : Read(p)}
  <2>1. had' = had \cup {pdfPage} /\ pdfPage \notin had
    BY <1>1, <1>2 DEF Pages
  <2>2. IsFiniteSet(1..PdfPages) /\ had \in SUBSET (1..PdfPages)
    BY PdfAssumption, FS_Interval DEF Pages
  <2>3. pagesOcrd = Cardinality(had)
    BY DEF TextsSoFar
  <2>4. IsFiniteSet(had)
    BY <2>2, FS_Subset
  <2> HIDE DEF had
  <2>5. Cardinality(had \cup {pdfPage}) = Cardinality(had) + 1
    BY <2>1, <2>4, FS_AddElement
  <2>6. pagesOcrd' = Cardinality(had')
    BY <1>1, <2>1, <2>3, <2>5
  <2> QED
    BY <2>6 DEF had
<1>7. Dual(pdfPage) = {} /\ pageText[pdfPage] = Extracted
  BY <1>1, <1>2 DEF TextsSoFar
<1>8. /\ dualBlocks \in Seq([page : Pages, text : DerivedValue, ordinal : Nat])
      /\ pageText \in [Pages -> DerivedValue \cup {Extracted}]
      /\ \A p \in Pages :
           /\ ~Read(p) \/ ~Poor(p) => pageText[p] = Extracted
           /\ Read(p) /\ Poor(p) => ReadFrom(p, pageText[p]) /\ Dual(p) = {}
           /\ Read(p) /\ ~Poor(p) => \E k \in Dual(p) : Dual(p) = {k} /\ ReadFrom(p, dualBlocks[k].text)
           /\ ~Read(p) => Dual(p) = {}
  BY DEF TextsSoFar
<1>9. CASE pdfOpts.alwaysOn /\ ~Poor(pdfPage)
  <2> DEFINE n == Len(dualBlocks)
             b == [page |-> pdfPage, text |-> pdfText, ordinal |-> pdfPage - 1 + PdfPages]
             B == [page : Pages, text : DerivedValue, ordinal : Nat]
  <2>1. dualBlocks' = Append(dualBlocks, b) /\ pageText' = pageText
    BY <1>1, <1>9 DEF PlaceText
  <2>2. b \in B /\ b.page = pdfPage /\ b.text = pdfText
    BY <1>1, <1>3, PdfAssumption DEF Pages
  <2>3. dualBlocks \in Seq(B)
    BY <1>8
  <2> HIDE DEF B, b
  <2>4. /\ dualBlocks' \in Seq(B) /\ n \in Nat /\ DOMAIN dualBlocks = 1..n
        /\ DOMAIN dualBlocks' = 1..(n + 1) /\ dualBlocks'[n + 1] = b
        /\ \A k \in 1..n : dualBlocks'[k] = dualBlocks[k]
    BY <2>1, <2>2, <2>3
  <2> HIDE DEF n
  <2>5. \A p \in Pages : Dual(p) \in SUBSET (1..n)
    BY <2>4 DEF Dual
  <2>6. ASSUME NEW p \in Pages, p # pdfPage PROVE Dual(p)' = Dual(p)
    <3>1. \A k \in 1..(n + 1) : k \in Dual(p)' <=> k \in 1..n /\ k \in Dual(p)
      BY <2>2, <2>4, <2>6 DEF Dual
    <3>2. Dual(p)' \in SUBSET (1..(n + 1))
      BY <2>4 DEF Dual
    <3> QED
      BY <2>4, <2>5, <3>1, <3>2
  <2>7. ASSUME NEW p \in Pages, p = pdfPage PROVE Dual(p)' = {n + 1}
    <3>1. \A k \in 1..n : dualBlocks[k].page # pdfPage
      BY <1>7, <2>4 DEF Dual
    <3> QED
      BY <2>2, <2>4, <2>7, <3>1 DEF Dual
  <2>8. ASSUME NEW p \in Pages
        PROVE  /\ ~Read(p)' \/ ~Poor(p)' => pageText'[p] = Extracted
               /\ Read(p)' /\ Poor(p)' => ReadFrom(p, pageText[p])' /\ Dual(p)' = {}
               /\ Read(p)' /\ ~Poor(p)' =>
                    \E k \in Dual(p)' : Dual(p)' = {k} /\ ReadFrom(p, dualBlocks[k].text)'
               /\ ~Read(p)' => Dual(p)' = {}
    <3>1. CASE p = pdfPage
      <4>1. PICK m \in Nat : m = n + 1
        BY <2>4
      <4>2. ReadFrom(p, dualBlocks[m].text)'
        <5>1. dualBlocks'[m].text = pdfText /\ pdfEngine' = pdfEngine
          BY <1>1, <2>2, <2>4, <4>1, SettingStays
        <5> QED
          BY <1>3, <3>1, <5>1 DEF ReadFrom
      <4>3. Dual(p)' = {m} /\ Read(p)' /\ ~Poor(p)' /\ pageText'[p] = Extracted
        BY <1>2, <1>5, <1>7, <1>9, <2>1, <2>7, <3>1, <4>1
      <4> QED
        BY <4>2, <4>3
    <3>2. CASE p # pdfPage
      <4>1. Dual(p)' = Dual(p) /\ (Read(p)' <=> Read(p)) /\ (Poor(p)' <=> Poor(p)) /\ pageText'[p] = pageText[p]
        BY <1>2, <1>5, <2>1, <2>6, <3>2
      <4>2. \A k \in Dual(p) : dualBlocks'[k] = dualBlocks[k]
        BY <2>4, <2>5
      <4> QED
        BY <1>4, <1>8, <4>1, <4>2
    <3> QED
      BY <3>1, <3>2
  <2> QED
    BY <1>2, <1>6, <1>8, <2>1, <2>4, <2>8 DEF TextsSoFar, Pages, B
<1>10. CASE ~(pdfOpts.alwaysOn /\ ~Poor(pdfPage))
  <2>1. Poor(pdfPage) /\ dualBlocks' = dualBlocks /\ pageText' = [pageText EXCEPT ![pdfPage] = pdfText]
    BY <1>1, <1>10 DEF PlaceText, Chosen
  <2>2. /\ pageText' \in [Pages -> DerivedValue \cup {Extracted}]
        /\ pageText'[pdfPage] = pdfText
        /\ \A p \in Pages : p # pdfPage => pageText'[p] = pageText[p]
    BY <1>1, <1>3, <1>8, <2>1
  <2>3. \A p \in Pages : Dual(p)' = Dual(p)
    BY <2>1 DEF Dual
  <2>4. ASSUME NEW p \in Pages
        PROVE  /\ ~Read(p)' \/ ~Poor(p)' => pageText'[p] = Extracted
               /\ Read(p)' /\ Poor(p)' => ReadFrom(p, pageText[p])' /\ Dual(p)' = {}
               /\ Read(p)' /\ ~Poor(p)' =>
                    \E k \in Dual(p)' : Dual(p)' = {k} /\ ReadFrom(p, dualBlocks[k].text)'
               /\ ~Read(p)' => Dual(p)' = {}
    <3>1. CASE p = pdfPage
      <4>1. ReadFrom(p, pageText[p])'
        BY <1>3, <1>4, <2>2, <3>1
      <4> QED
        BY <1>2, <1>5, <1>7, <2>1, <2>3, <3>1, <4>1
    <3>2. CASE p # pdfPage
      <4>1. Dual(p)' = Dual(p) /\ (Read(p)' <=> Read(p)) /\ (Poor(p)' <=> Poor(p)) /\ pageText'[p] = pageText[p]
        BY <1>2, <1>5, <2>2, <2>3, <3>2
      <4> QED
        BY <1>4, <1>8, <2>1, <4>1
    <3> QED
      BY <3>1, <3>2
  <2> QED
    BY <1>2, <1>6, <1>8, <2>1, <2>2, <2>4 DEF TextsSoFar, Pages
<1> QED
  BY <1>2, <1>9, <1>10

LEMMA PageInHandKeeps ==
  ASSUME CacheTrue, PageInHand, PdfStep \/ PutPage
  PROVE  PageInHand'
<1>1. pdfPage \in Nat /\ PdfPages \in Nat /\ Pages = 1 .. PdfPages
  BY PdfAssumption DEF PageInHand, Pages
<1>2. UNCHANGED pdfSetting =>
        pdfEngine' = pdfEngine /\ \A p \in Pages : Chosen(p)' <=> Chosen(p)
  BY SettingStays
<1>3. CASE PdfDone
  BY <1>1, <1>2, <1>3 DEF PdfDone, PageInHand, PageBegun
<1>4. CASE PageCancelled \/ RasterAborts
  BY <1>1, <1>2, <1>4 DEF PageCancelled, RasterAborts, PageInHand, PageBegun
<1>5. CASE PagePassed \/ RasterFails \/ RecognizePageFails \/ ApplyPage
  <2>1. pdfPage \in Pages /\ pdfPage' = pdfPage + 1 /\ pdfPc' = "page" /\ UNCHANGED pdfSetting
    BY <1>5 DEF PagePassed, RasterFails, RecognizePageFails, ApplyPage, NextPage, PageInHand, PageBegun
  <2> QED
    BY <1>1, <1>2, <2>1 DEF PageInHand, PageBegun
<1>6. CASE PageStarted
  BY <1>1, <1>2, <1>6 DEF PageStarted, PageInHand, PageBegun
<1>7. CASE Rastered
  BY <1>1, <1>2, <1>7 DEF Rastered, PageInHand, PageBegun
<1>8. CASE PageHit
  <2>1. /\ pdfPc = "ask" /\ CacheHit(PageKey) /\ pdfText' = derivations[PageKey] /\ pdfPc' = "apply"
        /\ UNCHANGED <<pdfSetting, pdfPage, raster>>
    BY <1>8 DEF PageHit
  <2>2. /\ raster = PageImage[pdfPage] /\ pdfPage \in Pages /\ pdfEngine \in Engines
        /\ PageImage[pdfPage] \in ContentsOf("ocr") /\ "ocr" \in Kinds
    BY <2>1, PdfAssumption DEF PageInHand, PageBegun, Pages, ContentsOf, Kinds
  <2> DEFINE c == PageImage[pdfPage]
             v == derivations[DerivationKey("ocr", c, pdfEngine)]
  <2>3. PageKey = DerivationKey("ocr", c, pdfEngine) /\ pdfText' = v
    BY <2>1, <2>2 DEF PageKey
  <2>4. /\ v \in DerivedValue /\ v.kind = "ocr" /\ v.by = pdfEngine
        /\ KeyContent("ocr", v.content) = KeyContent("ocr", c)
    BY <2>1, <2>2, <2>3, HitIsTrue
  <2>5. v.content = c
    BY <2>4 DEF KeyContent
  <2> HIDE DEF v
  <2>6. v = Derive("ocr", PageImage[pdfPage], pdfEngine)
    BY <2>4, <2>5 DEF DerivedValue, Derive
  <2> QED
    BY <1>1, <1>2, <2>1, <2>2, <2>3, <2>6 DEF PageInHand, PageBegun
<1>9. CASE PageMiss
  BY <1>1, <1>2, <1>9 DEF PageMiss, PageInHand, PageBegun, pdfWork
<1>10. CASE RecognizePage
  <2>1. /\ pdfPc = "recognize" /\ pdfText' = Derive("ocr", raster, pdfEngine) /\ pdfPc' \in {"put", "apply"}
        /\ UNCHANGED <<pdfSetting, pdfPage, raster>>
    BY <1>10 DEF RecognizePage
  <2> QED
    BY <1>1, <1>2, <2>1 DEF PageInHand, PageBegun
<1>11. CASE PutPage
  BY <1>1, <1>2, <1>11 DEF PutPage, PageInHand, PageBegun, pdfWork
<1>12. CASE Cancel
  BY <1>1, <1>2, <1>12 DEF Cancel, PageInHand, PageBegun, pdfWork
<1> QED
  BY <1>3, <1>4, <1>5, <1>6, <1>7, <1>8, <1>9, <1>10, <1>11, <1>12 DEF PdfStep

LEMMA BooksKeep ==
  ASSUME PageInHand, EventsSoFar, TextsSoFar, PdfStep \/ PutPage, pdfPc' # "aborted"
  PROVE  EventsSoFar' /\ TextsSoFar'
<1>1. CASE PdfDone \/ Rastered \/ PageHit \/ PageMiss \/ RecognizePage \/ PutPage \/ Cancel
  <2>1. /\ PageBegun' <=> PageBegun
        /\ UNCHANGED <<pdfSetting, pdfPage, pageText, dualBlocks, progress, pagesOcrd>>
    BY <1>1 DEF PdfDone, Rastered, PageHit, PageMiss, RecognizePage, PutPage, Cancel, PageBegun, pdfDoc, pdfCounts
  <2> QED
    BY <2>1, QuietKeeps
<1>2. CASE RasterFails \/ RecognizePageFails
  <2>1. /\ PageBegun /\ Tell("Finished", TRUE) /\ NextPage
        /\ UNCHANGED <<pdfSetting, pageText, dualBlocks, pagesOcrd>>
    BY <1>2 DEF RasterFails, RecognizePageFails, PageBegun, pdfCounts
  <2> QED
    BY <2>1, SkippedKeepsTexts
<1>3. CASE PageCancelled \/ RasterAborts
  BY <1>3 DEF PageCancelled, RasterAborts
<1> QED
  BY <1>1, <1>2, <1>3, PageStartedKeeps, PagePassedKeeps, ApplyPageKeeps DEF PdfStep

LEMMA PdfBegins == DeriveInit /\ PdfInit => PdfInv
<1> SUFFICES ASSUME DeriveInit, PdfInit PROVE PdfInv
  OBVIOUS
<1>1. CacheTrue
  BY DeriveBegins DEF DeriveInv
<1>2. PageInHand /\ ~PageBegun /\ pdfPage = 1
  BY PdfAssumption DEF PdfInit, PageInHand, PageBegun
<1>3. \A p \in Pages : Finished(p) = {} /\ Dual(p) = {} /\ ~Read(p)
  BY DEF PdfInit, Finished, Dual, Read
<1>4. ChosenBefore = {} /\ {p \in Pages : Read(p)} = {}
  BY <1>2, <1>3 DEF ChosenBefore, Pages
<1>5. Cardinality({}) = 0
  BY FS_EmptySet
<1>6. EventsSoFar
  <2>1. progress = << >>
    BY DEF PdfInit
  <2>2. Len(progress) = 0 /\ progress \in Seq([kind : {"Started", "Finished"}, page : Pages, skipped : BOOLEAN])
    BY <2>1
  <2> QED
    BY <1>2, <1>3, <1>4, <1>5, <2>2 DEF EventsSoFar
<1>7. TextsSoFar
  <2>1. dualBlocks = << >> /\ pagesOcrd = 0 /\ pageText = [p \in Pages |-> Extracted]
    BY DEF PdfInit
  <2>2. dualBlocks \in Seq([page : Pages, text : DerivedValue, ordinal : Nat])
    BY <2>1
  <2>3. /\ pageText \in [Pages -> DerivedValue \cup {Extracted}]
        /\ \A p \in Pages : pageText[p] = Extracted
    BY <2>1
  <2>4. pagesOcrd = Cardinality({p \in Pages : Read(p)})
    BY <1>4, <1>5, <2>1
  <2> QED
    BY <1>3, <2>2, <2>3, <2>4 DEF TextsSoFar
<1> QED
  BY <1>1, <1>2, <1>6, <1>7 DEF PdfInv

LEMMA PdfSteps == PdfInv /\ [PdfNext]_<<deriveVars, pdfVars>> => PdfInv'
<1> SUFFICES ASSUME PdfInv, [PdfNext]_<<deriveVars, pdfVars>> PROVE PdfInv'
  OBVIOUS
<1>1. CacheTrue /\ PageInHand /\ (pdfPc # "aborted" => EventsSoFar /\ TextsSoFar)
  BY DEF PdfInv
<1>2. CASE PdfStep /\ UNCHANGED derivations
  <2>1. pdfPc # "aborted"
    BY <1>2 DEF PdfStep, PdfDone, PageCancelled, PagePassed, PageStarted, Rastered, RasterFails,
       RasterAborts, PageHit, PageMiss, RecognizePage, RecognizePageFails, ApplyPage, Cancel
  <2> QED
    BY <1>1, <1>2, <2>1, SameCache, PageInHandKeeps, BooksKeep DEF PdfInv
<1>3. CASE PutPage
  <2>1. pdfPc = "put" /\ (CachePut(Single(PageKey, pdfText)) \/ UNCHANGED derivations)
    BY <1>3 DEF PutPage
  <2>2. /\ PageKey = DerivationKey("ocr", PageImage[pdfPage], pdfEngine)
        /\ pdfText = Derive("ocr", PageImage[pdfPage], pdfEngine)
        /\ PageImage[pdfPage] \in ContentsOf("ocr") /\ "ocr" \in Kinds /\ pdfEngine \in Engines
    BY <1>1, <2>1, PdfAssumption DEF PageInHand, PageBegun, PageKey, Pages, ContentsOf, Kinds
  <2> DEFINE row == Single(PageKey, pdfText)
  <2>3. DOMAIN row = {PageKey} /\ row[PageKey] = pdfText
    BY DEF Single
  <2> HIDE DEF row
  <2>4. \A key \in DOMAIN row : EntryTrue(key, row[key])
    BY <2>2, <2>3 DEF EntryTrue
  <2>5. CacheTrue'
    BY <1>1, <2>1, <2>4, PutKeepsCache, SameCache DEF row
  <2> QED
    BY <1>1, <1>3, <2>1, <2>5, PageInHandKeeps, BooksKeep DEF PdfInv
<1>4. CASE (CacheUpset /\ UNCHANGED pdfVars) \/ UNCHANGED <<deriveVars, pdfVars>>
  <2>1. CacheTrue'
    BY <1>1, <1>4, UpsetKeepsCache, SameCache DEF deriveVars
  <2>2. UNCHANGED <<pdfSetting, pdfPc, pdfPage, raster, pdfText, pageText, dualBlocks, progress, pagesOcrd>>
    BY <1>4 DEF pdfVars, pdfWork, pdfDoc, pdfCounts
  <2>3. PageInHand' /\ (PageBegun' <=> PageBegun)
    BY <1>1, <2>2, SettingStays DEF PageInHand, PageBegun, Pages
  <2> QED
    BY <1>1, <2>1, <2>2, <2>3, QuietKeeps DEF PdfInv
<1> QED
  BY <1>2, <1>3, <1>4 DEF PdfNext

LEMMA BooksSettle == PdfInv => PagesAreSettled
<1> SUFFICES ASSUME PdfInv, pdfPc = "done" PROVE PagesAreSettled
  BY DEF PagesAreSettled
<1>1. EventsSoFar /\ TextsSoFar /\ ~PageBegun /\ pdfPage = PdfPages + 1
  BY DEF PdfInv, PageInHand, PageBegun
<1> DEFINE chosen == {p \in Pages : Chosen(p)}
<1>2. ChosenBefore = chosen
  BY <1>1, PdfAssumption DEF ChosenBefore, Pages
<1>3. Cardinality(chosen) \in Nat
  <2>1. IsFiniteSet(1..PdfPages) /\ chosen \in SUBSET (1..PdfPages)
    BY PdfAssumption, FS_Interval DEF Pages
  <2> QED
    BY <2>1, FS_Subset, FS_CardinalityType
<1>4. /\ Len(progress) = 2 * Cardinality(chosen)
      /\ \A k \in 1 .. Cardinality(chosen) :
           /\ progress[2*k - 1].kind = "Started" /\ progress[2*k].kind = "Finished"
           /\ progress[2*k - 1].page = progress[2*k].page
  BY <1>1, <1>2, <1>3 DEF EventsSoFar
<1>5. Len(progress) \div 2 = Cardinality(chosen)
  BY <1>3, <1>4
<1>6. \A p \in Pages : Cardinality(Finished(p)) = IF Chosen(p) THEN 1 ELSE 0
  <2> SUFFICES ASSUME NEW p \in Pages
               PROVE  Cardinality(Finished(p)) = IF Chosen(p) THEN 1 ELSE 0
    OBVIOUS
  <2>1. p \in ChosenBefore <=> Chosen(p)
    BY <1>2
  <2>2. CASE Chosen(p)
    <3>1. PICK k \in Nat : Finished(p) = {k}
      BY <1>1, <2>1, <2>2 DEF EventsSoFar
    <3> QED
      BY <2>2, <3>1, FS_Singleton
  <2>3. CASE ~Chosen(p)
    BY <1>1, <2>1, <2>3, FS_EmptySet DEF EventsSoFar
  <2> QED
    BY <2>2, <2>3
<1> QED
  BY <1>1, <1>4, <1>5, <1>6 DEF PagesAreSettled, TextsSoFar

\* apply_ocr_to_pdf_pages, for any number of pages, any text layers, engines and
\* mixture of hits, misses, failures, lost, damaged and foreign cache entries: when
\* the loop ends each chosen page was announced and finished once, the pages read
\* are the ones counted, and each page has its own OCR text or its extracted one.
THEOREM PagesAlwaysSettle == PdfSpec => []PagesAreSettled
BY PdfBegins, PdfSteps, BooksSettle, PTL DEF PdfSpec

-----------------------------------------------------------------------------
(* Calls: the components side by side *)

LEMMA EachTakesItsSteps ==
  /\ CallsInit => /\ AskInit /\ AssetInit /\ MediaInit /\ ConfigInit /\ EvalInit /\ FetchInit
                  /\ ProgressInit /\ ChunkInit /\ WsInit
  /\ [CallsNext]_callsVars =>
       /\ [AskNext]_askVars /\ [AssetNext]_assetVars /\ [MediaNext]_mediaVars
       /\ [ConfigNext]_configVars /\ [EvalNext]_evalVars /\ [FetchNext]_fetchVars
       /\ [ProgressNext]_progressVars /\ [ChunkNext]_chunkVars /\ [WsNext]_wsVars
<1>1. CallsInit => /\ AskInit /\ AssetInit /\ MediaInit /\ ConfigInit /\ EvalInit /\ FetchInit
                   /\ ProgressInit /\ ChunkInit /\ WsInit
  BY DEF CallsInit
<1>2. ASSUME UNCHANGED callsVars
      PROVE  UNCHANGED <<askVars, assetVars, mediaVars, configVars, evalVars, fetchVars, progressVars,
                        chunkVars, wsVars>>
  BY <1>2 DEF callsVars
<1>3. ASSUME CallsNext
      PROVE  /\ AskNext \/ UNCHANGED askVars
             /\ AssetNext \/ UNCHANGED assetVars
             /\ MediaNext \/ UNCHANGED mediaVars
             /\ ConfigNext \/ UNCHANGED configVars
             /\ EvalNext \/ UNCHANGED evalVars
             /\ FetchNext \/ UNCHANGED fetchVars
             /\ ProgressNext \/ UNCHANGED progressVars
             /\ ChunkNext \/ UNCHANGED chunkVars
             /\ WsNext \/ UNCHANGED wsVars
  BY <1>3 DEF CallsNext, Others
<1> QED
  BY <1>1, <1>2, <1>3

\* The page loop has the cache of a behaviour to itself, or does not begin.
CacheShared ==
  /\ part = "pdf" => PdfInv /\ derivePc = "idle"
  /\ part # "pdf" => DeriveInv /\ pdfPc = "page"

LEMMA CacheSharedBegins == CallsInit => CacheShared
BY PdfBegins, DeriveBegins DEF CallsInit, CacheShared, DeriveInit, PdfInit

LEMMA CacheSharedKeeps == CacheShared /\ [CallsNext]_callsVars => CacheShared'
<1> SUFFICES ASSUME CacheShared, [CallsNext]_callsVars PROVE CacheShared'
  OBVIOUS
<1>1. /\ part' = part
      /\ part = "pdf" => [PdfNext]_<<deriveVars, pdfVars>>
      /\ part # "pdf" => [DeriveNext]_deriveVars /\ UNCHANGED pdfVars
  BY DEF CallsNext, Others, callsVars
<1>2. CASE part = "pdf"
  <2>1. PdfInv'
    BY <1>1, <1>2, PdfSteps DEF CacheShared
  <2>2. derivePc' = derivePc
    BY <1>1, <1>2 DEF PdfNext, PdfStep, PutPage, CacheUpset, deriveVars, deriveCall
  <2> QED
    BY <1>1, <1>2, <2>1, <2>2 DEF CacheShared
<1>3. CASE part # "pdf"
  <2>1. DeriveInv'
    BY <1>1, <1>3, DeriveSteps DEF CacheShared
  <2>2. pdfPc' = pdfPc
    BY <1>1, <1>3 DEF pdfVars
  <2> QED
    BY <1>1, <1>3, <2>1, <2>2 DEF CacheShared
<1> QED
  BY <1>2, <1>3

\* The calls of each component, in one behaviour: whichever component it is about,
\* for every value of every constant, what each promises of itself stays true of it,
\* the page loop's use of the derivation cache included.
THEOREM CallsKeepPromises ==
  CallsSpec => [](/\ GroundedIsEarned /\ FinalIsTheAnswer /\ CitationsResolve /\ HopsExplainPool
                  /\ BytesFollowRows /\ SkipsAreExact /\ MigrationKeepsSettings /\ VerdictsHold
                  /\ ValuesAreTheirInputs /\ PagesAreSettled /\ AnswersAreTheStore
                  /\ RunIsToldTruly /\ ChunkIdsDistinct /\ IndexFollowsTheTree)
<1>1. CallsSpec => /\ AskSpec /\ AssetSpec /\ MediaSpec /\ ConfigSpec /\ EvalSpec /\ FetchSpec
                   /\ ProgressSpec /\ ChunkSpec /\ WsSpec
  BY EachTakesItsSteps, PTL
  DEF CallsSpec, AskSpec, AssetSpec, MediaSpec, ConfigSpec, EvalSpec, FetchSpec, ProgressSpec, ChunkSpec,
      WsSpec
<1>2. CacheShared => ValuesAreTheirInputs /\ PagesAreSettled
  <2>1. derivePc = "idle" => ValuesAreTheirInputs
    BY DEF ValuesAreTheirInputs
  <2>2. pdfPc = "page" => PagesAreSettled
    BY DEF PagesAreSettled
  <2> QED
    BY <2>1, <2>2, TrueSlotsAreValues, BooksSettle DEF CacheShared
<1>3. CallsSpec => [](ValuesAreTheirInputs /\ PagesAreSettled)
  BY CacheSharedBegins, CacheSharedKeeps, <1>2, PTL DEF CallsSpec
<1> QED
  BY <1>1, <1>3, GroundedAreEarned, FinalsAreTheAnswer, CitationsAlwaysResolve, HopsAlwaysExplain,
     BytesAlwaysFollowRows, SkipsAreRight, MigrationAlwaysKeepsSettings, VerdictsAlwaysHold,
     AnswersAreAlwaysTheStore, RunIsAlwaysToldTruly, ChunkIdsNeverClash, IndexAlwaysFollows, PTL

=============================================================================
