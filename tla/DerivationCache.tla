--------------------------- MODULE DerivationCache ---------------------------
(***************************************************************************)
(* The derivation cache (`derivation_cache` table) and the ingest calls    *)
(* that go through it: embed_with_cache over the Ollama embedder, and the  *)
(* OCR and caption of one image.  Any entry may disappear, be damaged in a *)
(* way its decoder detects, or be written by another process, at any time. *)
(* last_used_at is left out: only derivation_cache_gc reads it.            *)
(***************************************************************************)
EXTENDS Lists, Maps

CONSTANTS
  Texts,        \* chunk texts
  Nfc,          \* [Texts -> Texts]: their NFC form
  Pictures,     \* image bytes
  Engines,      \* configured models: [provider, model]
  EmbedBatch,   \* BATCH
  MaxTries,     \* MAX_RETRIES
  MaxInputs,    \* bound: texts of one call
  NoValue, Damaged,
  MaxDerives,   \* bound: calls
  MaxUpsets     \* bound: failures and changes of the cache by others

Kinds == {"embedding", "ocr", "caption"}
DerivedValue == [kind : Kinds, content : Texts \cup Pictures, by : Engines]

ASSUME DerivationAssumption ==
  /\ Engines # {}
  /\ \A e, f \in Engines : e.provider = f.provider /\ e.model = f.model => e = f
  /\ NoValue # Damaged /\ NoValue \notin DerivedValue /\ Damaged \notin DerivedValue
  /\ Nfc \in [Texts -> Texts] /\ \A t \in Texts : Nfc[Nfc[t]] = Nfc[t]
  /\ EmbedBatch \in Nat \ {0} /\ MaxTries \in Nat \ {0}
  /\ MaxInputs \in Nat /\ MaxDerives \in Nat /\ MaxUpsets \in Nat

VARIABLES
  derivations, \* derivation_cache: key -> payload, a partial function
  derivePc,    \* "idle", "lookup", "embed", "recognize", "put", "returned", "failed"
  deriveKind,  \* "embedding", "ocr" or "caption"
  inputs,      \* the texts, or the one image
  engine,      \* the engine configured when the call began
  slots,       \* `out`: a value per input, NoValue for a miss
  fresh,       \* values received for the misses, in their order
  tries,       \* attempts made at the current batch
  derivesLeft, upsetsLeft

deriveBounds == <<derivesLeft, upsetsLeft>>
deriveCall   == <<deriveKind, inputs, engine>>
deriveWork   == <<slots, fresh, tries>>
deriveVars   == <<derivations, derivePc, deriveCall, deriveWork, deriveBounds>>

ContentsOf(kind) == IF kind = "embedding" THEN Texts ELSE Pictures

\* What an engine makes of a content: a value is known by where it comes from.
Derive(kind, content, e) == [kind |-> kind, content |-> content, by |-> e]

\* Mutant: the key forgets the model.
ProviderKey(kind, e) == <<e.provider>>

\* The caption's key names its provider and template, not its model.
VersionKey(kind, e) == IF kind = "caption" THEN <<e.provider>> ELSE <<e.provider, e.model>>

\* A text is hashed in NFC, an image byte by byte.
KeyContent(kind, content) == IF kind = "embedding" THEN Nfc[content] ELSE content

DerivationKey(kind, content, e) ==
  [kind |-> kind, content |-> KeyContent(kind, content), version |-> VersionKey(kind, e)]

\* get, then decode: a damaged payload is a miss.
CacheHit(key) == key \in DOMAIN derivations /\ derivations[key] # Damaged

CachePut(newRows) == derivations' = Overlaid(newRows, derivations)

DeriveInit ==
  /\ derivations = << >>
  /\ derivePc = "idle" /\ deriveKind = "embedding" /\ inputs = << >>
  /\ engine = CHOOSE e \in Engines : TRUE
  /\ slots = << >> /\ fresh = << >> /\ tries = 0
  /\ derivesLeft = MaxDerives /\ upsetsLeft = MaxUpsets

InputKey(i) == DerivationKey(deriveKind, inputs[i], engine)

\* miss_indices, in the order of the inputs.
Misses == Picked([i \in DOMAIN slots |-> i], {i \in DOMAIN slots : slots[i] = NoValue})

-----------------------------------------------------------------------------

BeginDerive ==
  /\ derivePc \in {"idle", "returned", "failed"} /\ derivesLeft > 0
  /\ derivesLeft' = derivesLeft - 1
  /\ \E kind \in Kinds, e \in Engines :
       /\ deriveKind' = kind /\ engine' = e
       /\ \E n \in 1 .. (IF kind = "embedding" THEN MaxInputs ELSE 1) :
            inputs' \in [1 .. n -> ContentsOf(kind)]
  /\ derivePc' = "lookup"
  /\ slots' = << >> /\ fresh' = << >> /\ tries' = 0
  /\ UNCHANGED <<derivations, upsetsLeft>>

\* The split into hits and misses.
Lookup ==
  /\ derivePc = "lookup"
  /\ slots' = [i \in DOMAIN inputs |->
                 IF CacheHit(InputKey(i)) THEN derivations[InputKey(i)] ELSE NoValue]
  /\ derivePc' = IF \A i \in DOMAIN inputs : CacheHit(InputKey(i)) THEN "returned"
                 ELSE IF deriveKind = "embedding" THEN "embed" ELSE "recognize"
  /\ UNCHANGED <<derivations, deriveCall, fresh, tries, deriveBounds>>

\* One POST /api/embed for the next EmbedBatch misses, its count and dimensions as expected.
EmbedMisses ==
  /\ derivePc = "embed"
  /\ LET waiting == SubSeq(Misses, Len(fresh) + 1, Len(Misses))
         sent == SubSeq(waiting, 1, IF EmbedBatch < Len(waiting) THEN EmbedBatch ELSE Len(waiting))
     IN /\ fresh' = fresh \o [k \in DOMAIN sent |-> Derive(deriveKind, inputs[sent[k]], engine)]
        /\ derivePc' = IF Len(sent) = Len(waiting) THEN "put" ELSE "embed"
  /\ tries' = 0
  /\ UNCHANGED <<derivations, deriveCall, slots, deriveBounds>>

\* A failed request is repeated; the last failure ends the call, as does a malformed reply.
EmbedFails ==
  /\ derivePc = "embed"
  /\ upsetsLeft > 0 /\ upsetsLeft' = upsetsLeft - 1
  /\ \E malformed \in BOOLEAN :
       IF malformed \/ tries + 1 = MaxTries
       THEN derivePc' = "failed" /\ UNCHANGED tries
       ELSE tries' = tries + 1 /\ UNCHANGED derivePc
  /\ UNCHANGED <<derivations, deriveCall, slots, fresh, derivesLeft>>

\* apply_ocr, apply_caption.
Recognize ==
  /\ derivePc = "recognize"
  /\ fresh' = <<Derive(deriveKind, inputs[1], engine)>>
  /\ derivePc' = "put"
  /\ UNCHANGED <<derivations, deriveCall, slots, tries, deriveBounds>>

\* A warning on the item; the image is stored without the text.
RecognizeFails ==
  /\ derivePc = "recognize"
  /\ upsetsLeft > 0 /\ upsetsLeft' = upsetsLeft - 1
  /\ derivePc' = "returned"
  /\ UNCHANGED <<derivations, deriveCall, deriveWork, derivesLeft>>

\* Mutant: the fresh values are taken for the first slots.
FillInOrder(out, values) == [i \in DOMAIN out |-> IF i <= Len(values) THEN values[i] ELSE out[i]]

\* zip(miss_indices, vectors)
FillMisses(out, values) ==
  [i \in DOMAIN out |->
     IF out[i] = NoValue THEN values[Cardinality({j \in 1 .. i : out[j] = NoValue})] ELSE out[i]]

PutMisses ==
  /\ derivePc = "put"
  /\ slots' = FillMisses(slots, fresh)
  /\ CachePut([key \in {InputKey(Misses[k]) : k \in DOMAIN Misses} |->
                 fresh[CHOOSE k \in DOMAIN Misses :
                         /\ InputKey(Misses[k]) = key
                         /\ \A m \in DOMAIN Misses : m > k => InputKey(Misses[m]) # key]])
  /\ derivePc' = "returned"
  /\ UNCHANGED <<deriveCall, fresh, tries, deriveBounds>>

\* The lookup or the put returns an error.
CacheFails ==
  /\ derivePc \in {"lookup", "put"}
  /\ upsetsLeft > 0 /\ upsetsLeft' = upsetsLeft - 1
  /\ derivePc' = "failed"
  /\ UNCHANGED <<derivations, deriveCall, deriveWork, derivesLeft>>

-----------------------------------------------------------------------------
(* What may happen to the table meanwhile *)

\* derivation_cache_gc, or the table cleared by hand.
EntryDropped ==
  /\ upsetsLeft > 0 /\ upsetsLeft' = upsetsLeft - 1
  /\ \E key \in DOMAIN derivations :
       derivations' = [k \in DOMAIN derivations \ {key} |-> derivations[k]]

EntryDamaged ==
  /\ upsetsLeft > 0 /\ upsetsLeft' = upsetsLeft - 1
  /\ \E key \in DOMAIN derivations : derivations' = [derivations EXCEPT ![key] = Damaged]

PutByAnother ==
  /\ upsetsLeft > 0 /\ upsetsLeft' = upsetsLeft - 1
  /\ \E kind \in Kinds, e \in Engines : \E c \in ContentsOf(kind) :
       CachePut(Single(DerivationKey(kind, c, e), Derive(kind, c, e)))

CacheUpset == EntryDropped \/ EntryDamaged \/ PutByAnother

DeriveNext ==
  \/ BeginDerive \/ Lookup \/ EmbedMisses \/ EmbedFails \/ Recognize \/ RecognizeFails
  \/ PutMisses \/ CacheFails
  \/ CacheUpset /\ UNCHANGED <<derivePc, deriveCall, deriveWork, derivesLeft>>

DeriveSpec == DeriveInit /\ [][DeriveNext]_deriveVars

-----------------------------------------------------------------------------
(* Properties *)

DeriveTypeOK ==
  /\ \A key \in DOMAIN derivations : derivations[key] \in DerivedValue \cup {Damaged}
  /\ derivePc \in {"idle", "lookup", "embed", "recognize", "put", "returned", "failed"}
  /\ deriveKind \in Kinds /\ engine \in Engines
  /\ inputs \in Seq(Texts \cup Pictures)
  /\ slots \in Seq(DerivedValue \cup {NoValue}) /\ fresh \in Seq(DerivedValue)
  /\ tries \in 0 .. MaxTries
  /\ derivesLeft \in Nat /\ upsetsLeft \in Nat

\* Whatever mixture of hits and misses, repeated texts, lost and damaged entries and
\* switched models a call meets, the value in each slot was derived from that slot's own
\* input (its NFC form, for a text), as the same kind, by the engine now configured (for
\* a caption, by one of its provider); and no embedding is missing.
ValuesAreTheirInputs ==
  derivePc = "returned" =>
    \A i \in DOMAIN inputs :
      /\ slots[i] = NoValue => deriveKind # "embedding"
      /\ slots[i] # NoValue =>
           /\ slots[i].kind = deriveKind
           /\ KeyContent(deriveKind, slots[i].content) = KeyContent(deriveKind, inputs[i])
           /\ slots[i].by.provider = engine.provider
           /\ deriveKind # "caption" => slots[i].by = engine
=============================================================================
