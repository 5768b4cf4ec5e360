-------------------------------- MODULE Rag --------------------------------
(***************************************************************************)
(* RagPipeline::ask and ask_multi_hop: one question, from the first search *)
(* to the row in `answers`.                                                *)
(*                                                                         *)
(* A hit is a chunk and whether its score reaches the gate; a hit list is  *)
(* in descending order of score.  Of the answer only the [#n] it has       *)
(* completed so far are kept, and whether it is blank.  While the ask runs *)
(* the client may drop its end of the event channel, an ingest may delete  *)
(* a chunk that was found, and the retriever, the store, the language      *)
(* model or the verifier may fail.                                         *)
(***************************************************************************)
EXTENDS Lists

CONSTANTS
  Passages,       \* chunk ids the searches may return
  PassageSize,    \* est_tokens of the block of each
  ContextBudget,  \* max_context_tokens less the prompt overhead
  MaxHits,        \* k_effective
  MaxDepth,       \* multi_hop_max_depth
  MaxPool,        \* multi_hop_max_pool_chunks
  HardCap,        \* MULTI_HOP_MAX_SUB_QUERIES_HARD_CAP
  FirstBudget,    \* MAX_NLI_HYPOTHESIS_CHARS_INITIAL
  LeastBudget,    \* MAX_NLI_HYPOTHESIS_CHARS_MIN
  MaxTokens,      \* bound: tokens the model streams
  Nothing

ASSUME RagAssumption ==
  /\ PassageSize \in [Passages -> Nat]
  /\ ContextBudget \in Nat /\ MaxHits \in Nat /\ MaxDepth \in Nat /\ MaxPool \in Nat
  /\ HardCap \in Nat \ {0}
  /\ FirstBudget \in Nat /\ LeastBudget \in Nat \ {0}
  /\ MaxTokens \in Nat
  /\ Nothing \notin {"stop", "cancelled", "LlmSelfJudge", "LlmStreamAborted"}

VARIABLES
  askPc,      \* the next step
  opts,       \* AskOpts.multi_hop, and whether nli_threshold > 0
  sink,       \* stream_sink: "none", "open", or "dropped" by the client
  sent,       \* whether RetrievalDone was sent, and what Final carried
  pool,       \* hits of the search, or the deduplicated pool of the hops
  iter,       \* the retrieve-and-decide iteration
  subs,       \* sub-queries of this iteration not searched yet
  before,     \* pool_before
  capped,     \* pool_cap_hit
  hops,       \* HopRecords
  looking,    \* index of the next hit to pack
  context,    \* what the prompt shows: [label, chunk] in order
  entries,    \* packed_entries: [marker, chunk]
  said,       \* the answer so far: its tokens, its markers, whether it is blank
  finish,     \* finish_reason, Nothing while the model streams
  budget,     \* characters of the hypothesis, 0 once its length is settled
  verified,   \* VerificationSummary.nli_passed, Nothing if there is none
  answer,     \* the Answer returned, Nothing before
  persisted   \* what put_answer wrote

askInputs == <<opts, sink>>
search    == <<pool, iter, subs, before, capped, hops>>
packing   == <<looking, context, entries>>
model     == <<said, finish>>
nli       == <<budget, verified>>
askVars   == <<askPc, askInputs, sent, search, packing, model, nli, answer, persisted>>

Hit == [chunk: Passages, above: BOOLEAN]

\* What a search may return: distinct chunks, best first.
HitLists ==
  UNION {{h \in [1..n -> Hit] :
            \A i, j \in 1..n : i < j => /\ h[i].chunk # h[j].chunk
                                        /\ h[j].above => h[i].above} : n \in 0..MaxHits}

NothingSaid == [tokens |-> 0, markers |-> {}, blank |-> TRUE]

AskInit ==
  /\ askPc = "start"
  /\ opts \in [multi: BOOLEAN, verify: BOOLEAN]
  /\ sink \in {"none", "open"}
  /\ sent = [retrieval |-> FALSE, final |-> Nothing]
  /\ pool = <<>> /\ iter = 1 /\ subs = 0 /\ before = 0 /\ capped = FALSE
  /\ hops = <<>>
  /\ looking = 1 /\ context = <<>> /\ entries = <<>>
  /\ said = NothingSaid /\ finish = Nothing
  /\ budget = 0 /\ verified = Nothing
  /\ answer = Nothing
  /\ persisted = Nothing

-----------------------------------------------------------------------------
(* Answers and refusals *)

AskGoto(label) == askPc' = label

Trace == IF opts.multi /\ hops # <<>> THEN hops ELSE Nothing

Refusal(reason, shown, trace, check) ==
  [grounded |-> FALSE, reason |-> reason, citations |-> shown, hops |-> trace, verified |-> check]

\* A Final event, if somebody still listens.
SendFinal(a) ==
  sent' = IF sink = "open" THEN [sent EXCEPT !.final = a] ELSE sent

\* NoChunks and ScoreGate: no Final event.
RefuseQuietly(a) ==
  /\ answer' = a
  /\ AskGoto("persist")
  /\ UNCHANGED <<askInputs, sent, search, packing, model, nli, persisted>>

RefuseAloud(a) ==
  /\ answer' = a
  /\ SendFinal(a)
  /\ AskGoto("persist")
  /\ UNCHANGED <<askInputs, search, packing, model, persisted>>

\* The first three candidates, without markers.
NearMisses(hits) ==
  [i \in 1..(IF Len(hits) < 3 THEN Len(hits) ELSE 3) |-> [marker |-> Nothing, chunk |-> hits[i].chunk]]

PassesGate(hits) == hits # <<>> /\ hits[1].above

\* An empty list and one whose top hit is below the gate are refused alike in
\* the single pass, in the probe of the original query, and for the pool.
GateRefusal(hits) ==
  IF hits = <<>>
  THEN Refusal("NoChunks", <<>>, Trace, Nothing)
  ELSE Refusal("ScoreGate", NearMisses(hits), Trace, Nothing)

Refused(hits) == ~PassesGate(hits)

-----------------------------------------------------------------------------
(* Retrieval *)

SendRetrieval == sent' = [sent EXCEPT !.retrieval = (sink = "open")]

SingleSearch ==
  /\ askPc = "start" /\ ~opts.multi
  /\ pool' \in HitLists
  /\ SendRetrieval
  /\ AskGoto("gate")
  /\ UNCHANGED <<askInputs, iter, subs, before, capped, hops, packing, model, nli, answer, persisted>>

\* The original query is searched for the sake of the gate only.
ProbeRefuses ==
  /\ askPc = "start" /\ opts.multi
  /\ \E hits \in HitLists : Refused(hits) /\ RefuseQuietly(GateRefusal(hits))

ProbePasses ==
  /\ askPc = "start" /\ opts.multi
  /\ \E hits \in HitLists : ~Refused(hits)
  /\ AskGoto("decompose")
  /\ UNCHANGED <<askInputs, sent, search, packing, model, nli, answer, persisted>>

\* Mutant: the array is taken whole.
ParsedWhole(n) == n

\* parse_decompose_response of an array with n non-blank entries; 0 is None.
Parsed(n) == IF n < HardCap THEN n ELSE HardCap

DecomposeReplies == 1..(HardCap + 1)

Hop(kind, n, i, added, forced) ==
  [iter |-> i, kind |-> kind, subs |-> n, added |-> added, forced |-> forced]

Decompose ==
  /\ askPc = "decompose"
  /\ \E n \in DecomposeReplies :
       /\ hops' = Append(hops, Hop("decompose", Parsed(n), 0, 0, FALSE))
       /\ subs' = Parsed(n)
  /\ AskGoto(IF MaxDepth = 0 THEN "pooled" ELSE "retrieve")
  /\ UNCHANGED <<askInputs, sent, pool, iter, before, capped, packing, model, nli, answer, persisted>>

DecomposeGarbled ==
  /\ askPc = "decompose"
  /\ RefuseAloud(Refusal("MultiHopDecomposeFailed", <<>>, Nothing, Nothing))
  /\ UNCHANGED nli

\* One search of one sub-query: hits not in the pool join it until it is full.
\* (seen_chunk_ids also holds the hit that found it full, the last one looked at.)
Fresh(hits) == {i \in 1..Len(hits) : \A k \in 1..Len(pool) : pool[k].chunk # hits[i].chunk}

Joined(hits) ==
  LET rank(i) == Cardinality({j \in Fresh(hits) : j <= i})
  IN Picked(hits, {i \in Fresh(hits) : Len(pool) + rank(i) <= MaxPool})

RetrieveSub ==
  /\ askPc = "retrieve" /\ subs > 0 /\ ~capped
  /\ \E hits \in HitLists :
       LET joined == Joined(hits) IN
         /\ pool' = pool \o joined
         /\ capped' = (Len(joined) < Cardinality(Fresh(hits)))
  /\ subs' = subs - 1
  /\ UNCHANGED <<askPc, askInputs, sent, iter, before, hops, packing, model, nli, answer, persisted>>

Forced == iter >= MaxDepth \/ capped

\* Mutant: pool_before is read once, before the loop.
KeptBefore == before

PoolBefore == Len(pool)

\* No further sub-query is what None, an empty array and garbage all read as, and
\* what a call skipped when forced or with an empty pool would have said.
DecideReplies == IF Forced \/ pool = <<>> THEN {0} ELSE 0..(HardCap + 1)

Decide ==
  /\ askPc = "retrieve" /\ (subs = 0 \/ capped)
  /\ \E n \in DecideReplies :
       /\ hops' = Append(hops, Hop("decide", Parsed(n), iter, Len(pool) - before, Forced))
       /\ subs' = Parsed(n)
       /\ IF Parsed(n) = 0
          THEN AskGoto("pooled") /\ UNCHANGED <<iter, before>>
          ELSE iter' = iter + 1 /\ before' = PoolBefore /\ UNCHANGED askPc
  /\ UNCHANGED <<askInputs, sent, pool, capped, packing, model, nli, answer, persisted>>

PoolReady ==
  /\ askPc = "pooled"
  /\ SendRetrieval
  /\ AskGoto("gate")
  /\ UNCHANGED <<askInputs, search, packing, model, nli, answer, persisted>>

GateRefuses ==
  /\ askPc = "gate"
  /\ Refused(pool)
  /\ RefuseQuietly(GateRefusal(pool))

GatePasses ==
  /\ askPc = "gate"
  /\ ~Refused(pool)
  /\ AskGoto("pack")
  /\ UNCHANGED <<askInputs, sent, search, packing, model, nli, answer, persisted>>

-----------------------------------------------------------------------------
(* pack_context *)

Packing == askPc = "pack" /\ looking <= Len(pool)

\* Tokens the blocks take, up to the n-th.
UsedUpTo(n) ==
  LET used[k \in 0..n] ==
        IF k = 0 THEN 0 ELSE used[k - 1] + PassageSize[context[k].chunk]
  IN used[n]

Fits(c) == entries = <<>> \/ UsedUpTo(Len(context)) + PassageSize[c] <= ContextBudget

\* The chunk went between search and pack.
ChunkGone ==
  /\ Packing
  /\ looking' = looking + 1
  /\ UNCHANGED <<askPc, askInputs, sent, search, context, entries, model, nli, answer, persisted>>

\* Mutant: a marker is the position in the hit list.
MarkerByPosition == looking

MarkerOf == Len(entries) + 1

PackChunk ==
  /\ Packing
  /\ Fits(pool[looking].chunk)
  /\ context' = Append(context, [label |-> Len(context) + 1, chunk |-> pool[looking].chunk])
  /\ entries' = Append(entries, [marker |-> MarkerOf, chunk |-> pool[looking].chunk])
  /\ looking' = looking + 1
  /\ UNCHANGED <<askPc, askInputs, sent, search, model, nli, answer, persisted>>

\* The first block over the budget, or the end of the hits.
PackDone ==
  /\ askPc = "pack"
  /\ entries # <<>>
  /\ Packing => ~Fits(pool[looking].chunk)
  /\ AskGoto("generate")
  /\ UNCHANGED <<askInputs, sent, search, packing, model, nli, answer, persisted>>

NothingPacked ==
  /\ askPc = "pack"
  /\ entries = <<>> /\ ~Packing
  /\ RefuseQuietly(Refusal("NoChunks", <<>>, Trace, Nothing))

-----------------------------------------------------------------------------
(* Generation *)

\* A token completes some markers, among them perhaps one nothing is packed under.
Token ==
  /\ askPc = "generate" /\ finish = Nothing
  /\ said.tokens < MaxTokens
  /\ \E ms \in SUBSET (1..(Len(entries) + 1)), white \in BOOLEAN :
       /\ white => ms = {}
       /\ said' = [tokens  |-> said.tokens + 1,
                  markers |-> said.markers \cup ms,
                  blank   |-> said.blank /\ white]
  /\ finish' = IF sink = "dropped" THEN "cancelled" ELSE finish
  /\ UNCHANGED <<askPc, askInputs, sent, search, packing, nli, answer, persisted>>

\* A Done chunk, or the stream just ends.
StreamEnds ==
  /\ askPc = "generate" /\ finish = Nothing
  /\ finish' = "stop"
  /\ UNCHANGED <<askPc, askInputs, sent, search, packing, said, nli, answer, persisted>>

Generated == askPc = "generate" /\ finish # Nothing

Markers == {entries[i].marker : i \in 1..Len(entries)}

\* Mutant: unknown markers are ignored.
SomeCited == ~said.blank /\ said.markers \cap Markers # {}

GroundedUnaware == ~said.blank /\ said.markers \subseteq Markers /\ said.markers # {}

Judged ==
  IF finish = "cancelled" THEN "LlmStreamAborted"
  ELSE IF GroundedUnaware THEN Nothing ELSE "LlmSelfJudge"

-----------------------------------------------------------------------------
(* Step 8.5, multi-hop only: whatever the judgement was, an answer that is not *)
(* blank is put to the verifier.                                               *)

Checked == opts.multi /\ opts.verify /\ ~said.blank

StartCheck ==
  /\ Generated /\ Checked
  /\ budget' = FirstBudget
  /\ AskGoto("check")
  /\ UNCHANGED <<askInputs, sent, search, packing, model, verified, answer, persisted>>

HypothesisTooLong ==
  /\ askPc = "check" /\ budget > 0
  /\ budget \div 2 >= LeastBudget
  /\ budget' = budget \div 2
  /\ UNCHANGED <<askPc, askInputs, sent, search, packing, model, verified, answer, persisted>>

HypothesisFits ==
  /\ askPc = "check" /\ budget > 0
  /\ budget' = 0
  /\ UNCHANGED <<askPc, askInputs, sent, search, packing, model, verified, answer, persisted>>

\* The count or the score fails, or the shortest hypothesis is still too long.
VerifierUnavailable ==
  /\ askPc = "check"
  /\ RefuseAloud(Refusal("NliModelUnavailable", <<>>, hops, Nothing))
  /\ UNCHANGED nli

VerifierRejects ==
  /\ askPc = "check" /\ budget = 0
  /\ verified' = FALSE
  /\ RefuseAloud(Refusal("NliVerificationFailed", <<>>, hops, FALSE))
  /\ UNCHANGED budget

VerifierAccepts ==
  /\ askPc = "check" /\ budget = 0
  /\ verified' = TRUE
  /\ AskGoto("answer")
  /\ UNCHANGED <<askInputs, sent, search, packing, model, budget, answer, persisted>>

Unchecked ==
  /\ Generated /\ ~Checked
  /\ AskGoto("answer")
  /\ UNCHANGED <<askInputs, sent, search, packing, model, nli, answer, persisted>>

-----------------------------------------------------------------------------
(* The answer *)

\* Packed entries the text cites, in packed order.
Cited == Picked(entries, {i \in 1..Len(entries) : entries[i].marker \in said.markers})

BuildAnswer ==
  /\ askPc = "answer"
  /\ hops' = IF opts.multi THEN Append(hops, Hop("synthesize", 0, Len(hops), 0, FALSE)) ELSE hops
  /\ answer' = [grounded  |-> Judged = Nothing, reason |-> Judged, citations |-> Cited,
                hops      |-> IF opts.multi THEN hops' ELSE Nothing, verified |-> verified]
  /\ IF finish = "cancelled" THEN UNCHANGED sent ELSE SendFinal(answer')
  /\ AskGoto("persist")
  /\ UNCHANGED <<askInputs, pool, iter, subs, before, capped, packing, model, nli, persisted>>

Persist ==
  /\ askPc = "persist"
  /\ persisted' = answer
  /\ AskGoto("done")
  /\ UNCHANGED <<askInputs, sent, search, packing, model, nli, answer>>

\* put_answer fails: a warning, and the answer is returned.
PersistFails ==
  /\ askPc = "persist"
  /\ AskGoto("done")
  /\ UNCHANGED <<askInputs, sent, search, packing, model, nli, answer, persisted>>

\* The retriever, the model or get_chunk returns an error, and so does ask.
AskFails ==
  /\ \/ askPc \in {"start", "decompose"}
     \/ askPc = "retrieve" /\ ((subs > 0 /\ ~capped) \/ (~Forced /\ pool # <<>>))
     \/ Packing
     \/ askPc = "generate" /\ finish = Nothing
  /\ AskGoto("done")
  /\ UNCHANGED <<askInputs, sent, search, packing, model, nli, answer, persisted>>

ClientDrops ==
  /\ sink = "open" /\ askPc # "done"
  /\ sink' = "dropped"
  /\ UNCHANGED <<askPc, opts, sent, search, packing, model, nli, answer, persisted>>

AskNext ==
  \/ SingleSearch \/ ProbeRefuses \/ ProbePasses \/ Decompose \/ DecomposeGarbled
  \/ RetrieveSub \/ Decide \/ PoolReady \/ GateRefuses \/ GatePasses
  \/ ChunkGone \/ PackChunk \/ PackDone \/ NothingPacked
  \/ Token \/ StreamEnds \/ StartCheck \/ HypothesisTooLong \/ HypothesisFits
  \/ VerifierUnavailable \/ VerifierRejects \/ VerifierAccepts \/ Unchecked
  \/ BuildAnswer \/ Persist \/ PersistFails \/ AskFails \/ ClientDrops

AskSpec == AskInit /\ [][AskNext]_askVars

-----------------------------------------------------------------------------
(* Properties *)

AskSteps == {"start", "decompose", "retrieve", "pooled", "gate", "pack", "generate", "check",
             "answer", "persist", "done"}

AskTypeOK ==
  /\ askPc \in AskSteps
  /\ opts \in [multi: BOOLEAN, verify: BOOLEAN]
  /\ sink \in {"none", "open", "dropped"}
  /\ pool \in Seq(Hit)
  /\ iter \in Nat /\ subs \in 0..HardCap /\ before \in Nat /\ capped \in BOOLEAN
  /\ looking \in Nat \ {0}
  /\ context \in Seq([label: Nat, chunk: Passages])
  /\ entries \in Seq([marker: Nat, chunk: Passages])
  /\ said \in [tokens: Nat, markers: SUBSET Nat, blank: BOOLEAN]
  /\ budget \in Nat

\* A grounded answer has been through everything that can refuse it: the model ended
\* its stream by itself, the text cites at least one source and none that was not
\* shown, the best hit reached the gate, and in multi-hop mode with NLI on the
\* verifier accepted it; all of ask's refusal paths taken together.
GroundedIsEarned ==
  answer # Nothing /\ answer.grounded =>
    /\ finish = "stop"
    /\ said.markers # {}
    /\ \A m \in said.markers : \E i \in 1..Len(context) : context[i].label = m
    /\ pool[1].above
    /\ opts.multi /\ opts.verify => answer.verified = TRUE

\* A reader resolves [#n] of the text by the citation with marker n: that citation
\* is the chunk the prompt showed under [#n], although chunks that vanished between
\* search and pack_context were skipped, and no marker resolves to two sources.
CitationsResolve ==
  answer # Nothing =>
    \A i \in 1..Len(answer.citations) :
      LET cite == answer.citations[i] IN
        cite.marker # Nothing =>
          /\ \E n \in 1..Len(context) : context[n] = [label |-> cite.marker, chunk |-> cite.chunk]
          /\ \A j \in 1..Len(answer.citations) : answer.citations[j].marker = cite.marker => i = j

AddedBy(hs) ==
  LET sum[n \in 0..Len(hs)] == IF n = 0 THEN 0 ELSE sum[n - 1] + hs[n].added IN sum[Len(hs)]

\* The hop trace of an answer explains its pool: iterations are numbered without a
\* gap, the chunks they report add up to the pool, which is within
\* multi_hop_max_pool_chunks, and only the last decide hop stopped.
HopsExplainPool ==
  answer # Nothing /\ answer.hops # Nothing =>
    LET hs == answer.hops
        decides == {i \in 1..Len(hs) : hs[i].kind = "decide"}
    IN /\ \A i \in 1..Len(hs) : hs[i].iter = i - 1
       /\ AddedBy(hs) = Len(pool) /\ Len(pool) <= MaxPool
       /\ Cardinality(decides) <= MaxDepth
       /\ \A i \in decides : (hs[i].subs = 0) <=> (i + 1 \notin decides)

\* A client that listens to the end of an ask that got as far as the model holds
\* the answer that is returned and stored; a Final event never differs from it, and
\* it comes after the hits it cites.
FinalIsTheAnswer ==
  askPc = "done" =>
    /\ persisted \in {Nothing, answer}
    /\ sent.final \in {Nothing, answer}
    /\ sink = "open" /\ answer # Nothing /\ answer.reason \notin {"NoChunks", "ScoreGate"}
         => sent.final = answer
    /\ sent.final # Nothing /\ answer.reason # "MultiHopDecomposeFailed" => sent.retrieval
=============================================================================
