----------------------------- MODULE Parts_proofs -----------------------------
(***************************************************************************)
(* Machine-checked proofs about components of Calls each by itself, for    *)
(* every value of the constants: questions (Rag) and their evaluation      *)
(* (Eval); what becomes of one file, its bytes and row in the asset store  *)
(* (AssetStore), the decision to process it again (Media) and the ids its  *)
(* chunks get (Chunker); the configuration file through its migrations     *)
(* (Settings); and that the index follows the files (Workspace).           *)
(***************************************************************************)
EXTENDS Rag, Eval, AssetStore, Media, Settings, Chunker, Workspace, Lists_proofs

-----------------------------------------------------------------------------
(* Adding up along a list *)

\* A running sum of the chunks the first n hops report.
RunningSum(f, hs, n) == f = [m \in 0..n |-> IF m = 0 THEN 0 ELSE f[m - 1] + hs[m].added]

LEMMA SumsExist ==
  ASSUME NEW hs
  PROVE  \A n \in Nat : \E f : RunningSum(f, hs, n)
<1> DEFINE T == {n \in Nat : \E f : RunningSum(f, hs, n)}
<1>1. 0 \in T
  <2> DEFINE f == [m \in 0..0 |-> 0]
  <2>1. RunningSum(f, hs, 0)
    BY DEF RunningSum
  <2> HIDE DEF f
  <2> QED
    BY <2>1
<1>2. ASSUME NEW n \in Nat, n \in T
      PROVE  n + 1 \in T
  <2>1. PICK f : RunningSum(f, hs, n)
    BY <1>2
  <2> DEFINE g == [m \in 0..(n + 1) |-> IF m = n + 1 THEN f[n] + hs[n + 1].added ELSE f[m]]
  <2>2. RunningSum(g, hs, n + 1)
    BY <2>1 DEF RunningSum
  <2> HIDE DEF g
  <2> QED
    BY <2>2
<1> HIDE DEF T
<1>3. \A n \in Nat : n \in T
  BY <1>1, <1>2, NatSets
<1> QED
  BY <1>3 DEF T

\* Two running sums along lists that agree up to n agree up to n.
LEMMA SumsAgree ==
  ASSUME NEW f, NEW g, NEW hs, NEW hs2, NEW n \in Nat, NEW l \in Nat, n <= l,
         RunningSum(f, hs, n), RunningSum(g, hs2, l),
         \A m \in 1..n : hs[m] = hs2[m]
  PROVE  f[n] = g[n]
<1> DEFINE T == {m \in Nat : m <= n => f[m] = g[m]}
<1>1. /\ \A m \in 0..n : f[m] = IF m = 0 THEN 0 ELSE f[m - 1] + hs[m].added
      /\ \A m \in 0..l : g[m] = IF m = 0 THEN 0 ELSE g[m - 1] + hs2[m].added
  BY DEF RunningSum
<1>2. 0 \in T
  BY <1>1
<1>3. ASSUME NEW m \in Nat, m \in T
      PROVE  m + 1 \in T
  <2>1. SUFFICES ASSUME m + 1 <= n PROVE f[m + 1] = g[m + 1]
    OBVIOUS
  <2>2. f[m] = g[m] /\ hs[m + 1] = hs2[m + 1]
    BY <1>3, <2>1
  <2>3. f[m + 1] = f[m] + hs[m + 1].added /\ g[m + 1] = g[m] + hs2[m + 1].added
    BY <1>1, <2>1
  <2> QED
    BY <2>2, <2>3
<1> HIDE DEF T
<1>4. n \in T
  BY <1>2, <1>3, NatSets
<1> QED
  BY <1>4 DEF T

\* AddedBy is what a running sum ends with.
LEMMA AddedBySum ==
  ASSUME NEW hs, Len(hs) \in Nat
  PROVE  \E f : RunningSum(f, hs, Len(hs)) /\ AddedBy(hs) = f[Len(hs)]
<1> DEFINE f == CHOOSE g : RunningSum(g, hs, Len(hs))
<1>1. RunningSum(f, hs, Len(hs))
  BY SumsExist
<1>2. AddedBy(hs) = f[Len(hs)]
  BY DEF AddedBy, RunningSum
<1> HIDE DEF f
<1> QED
  BY <1>1, <1>2

LEMMA AddedByNone == AddedBy(<<>>) = 0
<1>1. PICK f : RunningSum(f, <<>>, 0) /\ AddedBy(<<>>) = f[0]
  BY AddedBySum
<1>2. f[0] = 0
  BY <1>1 DEF RunningSum
<1> QED
  BY <1>1, <1>2

LEMMA AddedByOneMore ==
  ASSUME NEW hs, NEW hop, IsSequence(hs)
  PROVE  AddedBy(Append(hs, hop)) = AddedBy(hs) + hop.added
<1> DEFINE hs2 == Append(hs, hop)
           n   == Len(hs)
<1>1. n \in Nat /\ Len(hs2) = n + 1 /\ hs2[n + 1] = hop /\ \A i \in 1..n : hs[i] = hs2[i]
  BY Appended
<1> HIDE DEF hs2, n
<1>2. PICK f : RunningSum(f, hs, n) /\ AddedBy(hs) = f[n]
  BY <1>1, AddedBySum DEF n
<1>3. PICK g : RunningSum(g, hs2, n + 1) /\ AddedBy(hs2) = g[n + 1]
  BY <1>1, AddedBySum
<1>4. f[n] = g[n]
  <2>1. n \in Nat /\ n + 1 \in Nat /\ n <= n + 1
    BY <1>1
  <2> QED
    BY <1>1, <1>2, <1>3, <2>1, SumsAgree
<1>5. g[n + 1] = g[n] + hs2[n + 1].added
  BY <1>1, <1>3 DEF RunningSum
<1> QED
  BY <1>1, <1>2, <1>3, <1>4, <1>5 DEF hs2

-----------------------------------------------------------------------------
(* The invariant behind the answers. *)

Gated     == {"pack", "generate", "check", "answer"}
Announced == {"gate"} \cup Gated

\* The prompt labels its passages 1 .. n and packed_entries carry the same
\* markers.
PackedAlike ==
  /\ IsSequence(context) /\ IsSequence(entries)
  /\ Len(context) = Len(entries)
  /\ \A i \in 1..Len(entries) :
       /\ context[i] = [label |-> i, chunk |-> entries[i].chunk]
       /\ entries[i].marker = i

\* What has been passed when a step is reached.
PassedSoFar ==
  /\ answer # Nothing => askPc \in {"persist", "done"}
  /\ askPc \in Gated => PassesGate(pool)
  /\ askPc \in {"check", "answer"} => finish # Nothing
  /\ askPc = "answer" /\ Checked => verified = TRUE
  /\ finish \in {Nothing, "stop", "cancelled"}

\* What the client was sent: hits before an answer, and nothing is held back from
\* a client that still listens.
SentSoFar ==
  /\ finish = "cancelled" => sink = "dropped"
  /\ askPc \in Announced => sent.final = Nothing /\ (sink = "open" => sent.retrieval)
  /\ askPc \in {"start", "decompose", "retrieve", "pooled"} => sent.final = Nothing
  /\ sent = [retrieval |-> sent.retrieval, final |-> sent.final]
  /\ askPc # "done" => persisted = Nothing

\* FinalIsTheAnswer, from the moment there is an answer.
FinalSoFar ==
  askPc \in {"persist", "done"} =>
    /\ persisted \in {Nothing, answer}
    /\ sent.final \in {Nothing, answer}
    /\ sink = "open" /\ answer # Nothing /\ answer.reason \notin {"NoChunks", "ScoreGate"}
         => sent.final = answer
    /\ sent.final # Nothing /\ answer.reason # "MultiHopDecomposeFailed" => sent.retrieval

AskInv == askPc \in AskSteps /\ PackedAlike /\ PassedSoFar /\ SentSoFar /\ FinalSoFar /\ GroundedIsEarned

LEMMA MarkersAreLabels ==
  ASSUME PackedAlike, NEW m \in Markers
  PROVE  \E i \in 1..Len(context) : context[i].label = m
<1>1. PICK i \in 1..Len(entries) : m = entries[i].marker
  BY DEF Markers
<1>2. /\ context[i] = [label |-> i, chunk |-> entries[i].chunk]
      /\ entries[i].marker = i /\ i \in 1..Len(context)
  BY <1>1 DEF PackedAlike
<1>3. context[i].label = i
  BY <1>2
<1> QED
  BY <1>1, <1>2, <1>3

LEMMA AskInitially == AskInit => AskInv
<1> SUFFICES ASSUME AskInit PROVE AskInv
  OBVIOUS
<1>1. IsSequence(<<>>) /\ Len(<<>>) = 0
  BY <<>> \in Seq({}) DEF IsSequence
<1>2. PackedAlike
  BY <1>1 DEF AskInit, PackedAlike
<1>3. PassedSoFar /\ askPc \in AskSteps
  BY DEF AskInit, AskSteps, PassedSoFar, Gated
<1>4. SentSoFar /\ FinalSoFar
  BY RagAssumption DEF AskInit, SentSoFar, FinalSoFar, Gated, Announced
<1>5. GroundedIsEarned
  BY DEF AskInit, GroundedIsEarned
<1>6. QED
  BY <1>2, <1>3, <1>4, <1>5 DEF AskInv

LEMMA AskStep == ASSUME AskInv, [AskNext]_askVars PROVE AskInv'
<1> USE RagAssumption DEF AskInv, AskSteps, Gated, Announced, PassedSoFar, SentSoFar, FinalSoFar, AskGoto,
        askInputs, search, packing, model, nli
<1>1. CASE UNCHANGED askVars
  BY <1>1 DEF askVars, PackedAlike, GroundedIsEarned, Checked
<1>2. CASE SingleSearch
  BY <1>2 DEF SingleSearch, SendRetrieval, PackedAlike, GroundedIsEarned, Checked, PassesGate
<1>3. CASE ProbeRefuses
  BY <1>3 DEF ProbeRefuses, RefuseQuietly, GateRefusal, Refusal, PackedAlike, GroundedIsEarned, Checked, PassesGate
<1>4. CASE ProbePasses
  BY <1>4 DEF ProbePasses, PackedAlike, GroundedIsEarned, Checked, PassesGate
<1>5. CASE Decompose
  BY <1>5 DEF Decompose, PackedAlike, GroundedIsEarned, Checked, PassesGate
<1>6. CASE DecomposeGarbled
  BY <1>6 DEF DecomposeGarbled, RefuseAloud, SendFinal, Refusal, PackedAlike, GroundedIsEarned, Checked, PassesGate
<1>7. CASE RetrieveSub
  BY <1>7 DEF RetrieveSub, PackedAlike, GroundedIsEarned, Checked, PassesGate
<1>8. CASE Decide
  BY <1>8 DEF Decide, PackedAlike, GroundedIsEarned, Checked, PassesGate
<1>9. CASE PoolReady
  BY <1>9 DEF PoolReady, SendRetrieval, PackedAlike, GroundedIsEarned, Checked, PassesGate
<1>10. CASE GateRefuses
  BY <1>10 DEF GateRefuses, RefuseQuietly, GateRefusal, Refusal, PackedAlike, GroundedIsEarned, Checked, PassesGate
<1>11. CASE GatePasses
  BY <1>11 DEF GatePasses, Refused, PackedAlike, GroundedIsEarned, Checked, PassesGate
<1>12. CASE ChunkGone
  BY <1>12 DEF ChunkGone, Packing, PackedAlike, GroundedIsEarned, Checked, PassesGate
<1>13. CASE PackChunk
  <2>1. PackedAlike'
    BY <1>13, Appended DEF PackChunk, PackedAlike, MarkerOf
  <2>2. QED
    BY <1>13, <2>1 DEF PackChunk, Packing, PassesGate, GroundedIsEarned, Checked
<1>14. CASE PackDone
  BY <1>14 DEF PackDone, PackedAlike, GroundedIsEarned, Checked, PassesGate
<1>15. CASE NothingPacked
  BY <1>15 DEF NothingPacked, RefuseQuietly, Refusal, PackedAlike, GroundedIsEarned, Checked, PassesGate
<1>16. CASE Token
  BY <1>16 DEF Token, PackedAlike, GroundedIsEarned, Checked, PassesGate
<1>17. CASE StreamEnds
  BY <1>17 DEF StreamEnds, PackedAlike, GroundedIsEarned, Checked, PassesGate
<1>18. CASE StartCheck
  BY <1>18 DEF StartCheck, Generated, PackedAlike, GroundedIsEarned, Checked, PassesGate
<1>19. CASE HypothesisTooLong
  BY <1>19 DEF HypothesisTooLong, PackedAlike, GroundedIsEarned, Checked, PassesGate
<1>20. CASE HypothesisFits
  BY <1>20 DEF HypothesisFits, PackedAlike, GroundedIsEarned, Checked, PassesGate
<1>21. CASE VerifierUnavailable
  BY <1>21 DEF VerifierUnavailable, RefuseAloud, SendFinal, Refusal, PackedAlike, GroundedIsEarned, Checked, PassesGate
<1>22. CASE VerifierRejects
  BY <1>22 DEF VerifierRejects, RefuseAloud, SendFinal, Refusal, PackedAlike, GroundedIsEarned, Checked, PassesGate
<1>23. CASE VerifierAccepts
  BY <1>23 DEF VerifierAccepts, PackedAlike, GroundedIsEarned, Checked, PassesGate
<1>24. CASE Unchecked
  BY <1>24 DEF Unchecked, Generated, PackedAlike, GroundedIsEarned, Checked, PassesGate
<1>25. CASE BuildAnswer
  <2>1. answer'.grounded = (Judged = Nothing) /\ answer'.verified = verified
    BY <1>25 DEF BuildAnswer
  <2>2. UNCHANGED <<finish, said, context, pool, opts>>
    BY <1>25 DEF BuildAnswer
  <2>3. ASSUME Judged = Nothing PROVE finish = "stop" /\ GroundedUnaware
    BY <1>25, <2>3 DEF BuildAnswer, Judged
  <2>4. ASSUME GroundedUnaware, NEW m \in said.markers PROVE \E i \in 1..Len(context) : context[i].label = m
    <3>1. m \in Markers
      BY <2>4 DEF GroundedUnaware
    <3> QED
      BY <3>1, MarkersAreLabels
  <2>5. pool[1].above
    BY <1>25 DEF BuildAnswer, PassesGate
  <2>6. GroundedUnaware /\ opts.multi /\ opts.verify => verified = TRUE
    BY <1>25 DEF BuildAnswer, Checked, GroundedUnaware
  <2>7. GroundedIsEarned'
    BY <2>1, <2>2, <2>3, <2>4, <2>5, <2>6 DEF GroundedIsEarned, GroundedUnaware
  <2>8. QED
    BY <1>25, <2>7 DEF BuildAnswer, SendFinal, PackedAlike, Checked
<1>26. CASE Persist
  BY <1>26 DEF Persist, PackedAlike, GroundedIsEarned, Checked, PassesGate
<1>27. CASE PersistFails
  BY <1>27 DEF PersistFails, PackedAlike, GroundedIsEarned, Checked, PassesGate
<1>28. CASE AskFails
  BY <1>28 DEF AskFails, Packing, PackedAlike, GroundedIsEarned, Checked, PassesGate
<1>29. CASE ClientDrops
  BY <1>29 DEF ClientDrops, PackedAlike, GroundedIsEarned, Checked, PassesGate
<1>30. QED
  BY <1>1, <1>2, <1>3, <1>4, <1>5, <1>6, <1>7, <1>8, <1>9, <1>10, <1>11, <1>12, <1>13, <1>14, <1>15, <1>16, <1>17, <1>18, <1>19, <1>20, <1>21, <1>22, <1>23, <1>24, <1>25, <1>26, <1>27, <1>28, <1>29 DEF AskNext


-----------------------------------------------------------------------------
(* The citations *)

\* Packed entries carry their position as marker, so what is picked of them has theirs.
LEMMA CitedResolve ==
  ASSUME PackedAlike, NEW i \in 1..Len(Cited)
  PROVE  /\ \E n \in 1..Len(context) :
              context[n] = [label |-> Cited[i].marker, chunk |-> Cited[i].chunk]
         /\ \A j \in 1..Len(Cited) : Cited[j].marker = Cited[i].marker => i = j
<1> DEFINE n  == Len(entries)
           at == {j \in 1..n : entries[j].marker \in said.markers}
<1>1. n \in Nat
  BY Appended DEF PackedAlike
<1>2. at \in SUBSET (1..n) /\ Cited = Picked(entries, at)
  BY DEF Cited
<1> HIDE DEF at
<1>3. Len(Cited) = Cardinality(at) /\ Cardinality(at) \in Nat
  BY <1>1, <1>2, PickedFromThere, Zenon
<1>4. PICK f : PickedBy(f, entries, at)
  BY <1>1, <1>2, PickedFromThere, Zenon
<1>5. \A k \in 1..Len(Cited) : f[k] \in 1..n /\ Cited[k] = entries[f[k]] /\ Cited[k].marker = f[k]
  BY <1>2, <1>3, <1>4 DEF PackedAlike, PickedBy
<1>6. context[f[i]] = [label |-> Cited[i].marker, chunk |-> Cited[i].chunk]
  BY <1>5 DEF PackedAlike
<1>7. f[i] \in 1..Len(context)
  BY <1>5 DEF PackedAlike
<1>8. ASSUME NEW j \in 1..Len(Cited), Cited[j].marker = Cited[i].marker
      PROVE  i = j
  BY <1>3, <1>4, <1>5, <1>8 DEF PickedBy
<1> QED
  BY <1>6, <1>7, <1>8

LEMMA CitationsStep ==
  ASSUME AskInv, IsSequence(pool), CitationsResolve, [AskNext]_askVars
  PROVE  CitationsResolve'
<1>1. ASSUME UNCHANGED <<answer, context>>
      PROVE  CitationsResolve'
  BY <1>1 DEF CitationsResolve
<1>2. ASSUME answer' = Nothing
      PROVE  CitationsResolve'
  BY <1>2 DEF CitationsResolve
\* A refusal shows no source, or near misses that carry no marker.
<1>3. ASSUME NEW hits, NEW trace, IsSequence(hits),
             \/ answer' = GateRefusal(hits)
             \/ \E reason, check : answer' = Refusal(reason, <<>>, trace, check)
      PROVE  CitationsResolve'
  <2>1. Len(hits) \in Nat
    BY <1>3, Appended
  <2>2. \A i \in 1..Len(NearMisses(hits)) : NearMisses(hits)[i].marker = Nothing
    BY <2>1 DEF NearMisses
  <2>3. \A i \in 1..Len(answer'.citations) : answer'.citations[i].marker = Nothing
    BY <1>3, <2>2 DEF GateRefusal, Refusal
  <2> QED
    BY <2>3 DEF CitationsResolve
<1>4. \A hits \in HitLists : IsSequence(hits)
  <2>1. \A m \in Nat : \A hits \in [1..m -> Hit] : hits \in Seq(Hit)
    OBVIOUS
  <2>2. \A hits \in HitLists : \E m \in Nat : hits \in [1..m -> Hit]
    BY RagAssumption DEF HitLists
  <2> QED
    BY <2>1, <2>2 DEF IsSequence
<1>5. answer = Nothing \/ askPc \in {"persist", "done"}
  BY DEF AskInv, PassedSoFar
<1>6. CASE UNCHANGED askVars
  BY <1>1, <1>6 DEF askVars, packing
<1>7. CASE SingleSearch \/ ProbePasses \/ Decompose \/ RetrieveSub \/ Decide \/ PoolReady \/ GatePasses
           \/ PackDone \/ Token \/ StreamEnds \/ StartCheck \/ HypothesisTooLong \/ HypothesisFits
           \/ VerifierAccepts \/ Unchecked \/ Persist \/ PersistFails \/ AskFails \/ ClientDrops
           \/ ChunkGone
  BY <1>1, <1>7 DEF packing, SingleSearch, ProbePasses, Decompose, RetrieveSub, Decide, PoolReady,
       GatePasses, PackDone, Token, StreamEnds, StartCheck, HypothesisTooLong, HypothesisFits,
       VerifierAccepts, Unchecked, Persist, PersistFails, AskFails, ClientDrops, ChunkGone
<1>8. CASE PackChunk
  BY <1>2, <1>5, <1>8 DEF PackChunk, Packing
<1>9. CASE ProbeRefuses
  BY <1>3, <1>4, <1>9 DEF ProbeRefuses, RefuseQuietly
<1>10. CASE GateRefuses
  <2>1. answer' = GateRefusal(pool)
    BY <1>10 DEF GateRefuses, RefuseQuietly
  <2> QED
    BY <1>3, <2>1
<1>11. CASE DecomposeGarbled \/ NothingPacked \/ VerifierUnavailable \/ VerifierRejects
  <2>1. \E reason, check, trace : answer' = Refusal(reason, <<>>, trace, check)
    BY <1>11 DEF DecomposeGarbled, NothingPacked, VerifierUnavailable, VerifierRejects, RefuseQuietly,
         RefuseAloud
  <2>2. IsSequence(<<>>)
    BY <<>> \in Seq({}) DEF IsSequence
  <2> QED
    BY <1>3, <2>1, <2>2
<1>12. CASE BuildAnswer
  <2>1. answer'.citations = Cited /\ UNCHANGED context
    BY <1>12 DEF BuildAnswer, packing
  <2> QED
    BY <2>1, CitedResolve DEF AskInv, CitationsResolve
<1> QED
  BY <1>6, <1>7, <1>8, <1>9, <1>10, <1>11, <1>12 DEF AskNext

-----------------------------------------------------------------------------
(* The hop trace *)

Hopping == {"retrieve", "pooled"} \cup Announced

\* The trace so far: a decompose hop and one decide hop for every iteration gone.
Traced ==
  /\ Len(hops) > 0
  /\ Len(hops) - 1 <= MaxDepth
  /\ \A i \in 1..Len(hops) :
       /\ hops[i].iter = i - 1
       /\ hops[i].kind = IF i = 1 THEN "decompose" ELSE "decide"

\* While hops are taken none has stopped, and they explain the pool they began with;
\* afterwards they explain the pool, and the last decide hop has stopped.
HopsSoFar ==
  /\ IsSequence(pool) /\ IsSequence(hops)
  /\ opts.multi => Len(pool) <= MaxPool
  /\ ~opts.multi => hops = <<>> /\ askPc \notin {"decompose", "retrieve", "pooled", "check"}
  /\ askPc \in {"start", "decompose"} => pool = <<>> /\ hops = <<>> /\ iter = 1 /\ before = 0
  /\ opts.multi /\ askPc \in Hopping => Traced
  /\ askPc = "retrieve" =>
       /\ Len(hops) = iter /\ iter <= MaxDepth
       /\ before = AddedBy(hops) /\ before \in Nat
       /\ \A i \in 2..Len(hops) : hops[i].subs # 0
  /\ opts.multi /\ askPc \in Hopping \ {"retrieve"} =>
       /\ AddedBy(hops) = Len(pool)
       /\ \A i \in 2..Len(hops) : hops[i].subs = 0 <=> i = Len(hops)

\* HopsExplainPool for one trace.
HopsExplained(hs) ==
  LET decides == {i \in 1..Len(hs) : hs[i].kind = "decide"}
  IN /\ \A i \in 1..Len(hs) : hs[i].iter = i - 1
     /\ AddedBy(hs) = Len(pool) /\ Len(pool) <= MaxPool
     /\ Cardinality(decides) <= MaxDepth
     /\ \A i \in decides : (hs[i].subs = 0) <=> (i + 1 \notin decides)

LEMMA TraceExplains ==
  ASSUME HopsSoFar, opts.multi, askPc \in Hopping \ {"retrieve"}, NEW hs,
         hs = hops \/ hs = Append(hops, Hop("synthesize", 0, Len(hops), 0, FALSE))
  PROVE  HopsExplained(hs)
<1> DEFINE n    == Len(hops)
           last == Hop("synthesize", 0, n, 0, FALSE)
           decides == {i \in 1..Len(hs) : hs[i].kind = "decide"}
<1>1. Traced /\ n \in Nat /\ AddedBy(hops) = Len(pool) /\ IsSequence(hops) /\ Len(pool) <= MaxPool
  BY Appended DEF HopsSoFar
<1>2. last.iter = n /\ last.kind = "synthesize" /\ last.added = 0
  BY DEF Hop
<1>0. hs = hops \/ hs = Append(hops, last)
  OBVIOUS
<1> HIDE DEF last
<1>3. /\ Len(hs) \in n..(n + 1)
      /\ \A i \in 1..n : hs[i] = hops[i]
      /\ Len(hs) = n + 1 => hs[n + 1] = last
  <2>1. CASE hs = hops
    BY <1>1, <2>1
  <2>2. CASE hs = Append(hops, last)
    BY <1>1, <2>2, Appended
  <2> QED
    BY <1>0, <2>1, <2>2
<1>4. AddedBy(hs) = Len(pool)
  <2>1. Len(pool) \in Nat
    BY Appended DEF HopsSoFar
  <2>2. AddedBy(Append(hops, last)) = AddedBy(hops) + last.added
    BY <1>1, AddedByOneMore
  <2> QED
    <3>1. AddedBy(Append(hops, last)) = Len(pool)
      BY <1>1, <1>2, <2>1, <2>2
    <3> QED
      BY <1>0, <1>1, <3>1
<1>5. \A i \in 1..Len(hs) : hs[i].iter = i - 1 /\ (hs[i].kind = "decide" <=> i \in 2..n)
  BY <1>1, <1>2, <1>3 DEF Traced
<1>6. decides = 2..n
  BY <1>1, <1>3, <1>5
<1>7. Cardinality(decides) <= MaxDepth
  <2>1. 2 \in Int /\ n \in Int
    BY <1>1
  <2>2. Cardinality(2..n) = IF 2 > n THEN 0 ELSE n - 2 + 1
    BY <2>1, FS_Interval
  <2>3. n - 1 <= MaxDepth /\ MaxDepth \in Nat
    BY <1>1, RagAssumption DEF Traced
  <2> QED
    <3> HIDE DEF decides
    <3> QED
      BY <2>1, <1>6, <2>2, <2>3
<1>8. \A i \in 2..n : hs[i].subs = 0 <=> i + 1 \notin 2..n
  <2>1. \A i \in 2..n : hops[i].subs = 0 <=> i = n
    BY DEF HopsSoFar
  <2> QED
    BY <1>1, <1>3, <2>1
<1> QED
  BY <1>1, <1>4, <1>5, <1>6, <1>7, <1>8 DEF HopsExplained

\* A search joins the pool without overfilling it.
LEMMA JoinedFits ==
  ASSUME IsSequence(pool), Len(pool) <= MaxPool, NEW hits \in HitLists
  PROVE  IsSequence(pool \o Joined(hits)) /\ Len(pool \o Joined(hits)) <= MaxPool
<1> DEFINE n     == Len(hits)
           fresh == Fresh(hits)
           taken == {i \in fresh : Len(pool) + Rank(fresh, i) <= MaxPool}
           room  == 1..(MaxPool - Len(pool))
<1>1. n \in Nat /\ Len(pool) \in Nat /\ MaxPool \in Nat
  BY Appended, RagAssumption DEF HitLists
<1>2. fresh \in SUBSET (1..n) /\ taken \in SUBSET (1..n)
  BY DEF Fresh
<1>3. Joined(hits) = Picked(hits, taken)
  BY DEF Joined, Rank
<1> HIDE DEF fresh
<1>4. Cardinality(taken) <= MaxPool - Len(pool)
  <2> DEFINE f == [i \in taken |-> Rank(fresh, i)]
  <2>1. \A i \in fresh : Rank(fresh, i) \in Nat \ {0}
    <3>1. /\ Cardinality(fresh) \in Nat
          /\ \A i \in fresh : Rank(fresh, i) \in 1..Cardinality(fresh)
      BY <1>1, <1>2, Ranks, Zenon
    <3> QED
      BY <3>1
  <2>2. f \in [taken -> room]
    BY <1>1, <2>1
  <2>3. \A i, j \in fresh : i # j => Rank(fresh, i) # Rank(fresh, j)
    <3>1. \A i, j \in fresh : i < j => Rank(fresh, i) < Rank(fresh, j)
      BY <1>1, <1>2, Ranks
    <3>2. \A i, j \in fresh : i # j => i < j \/ j < i
      BY <1>2
    <3> QED
      BY <2>1, <3>1, <3>2
  <2>4. \A i, j \in taken : f[i] = f[j] => i = j
    BY <2>3
  <2>5. IsFiniteSet(room) /\ Cardinality(room) = MaxPool - Len(pool)
    <3>1. 1 \in Int /\ MaxPool - Len(pool) \in Int
      BY <1>1
    <3>2. /\ IsFiniteSet(room)
          /\ Cardinality(room) = IF 1 > MaxPool - Len(pool) THEN 0 ELSE (MaxPool - Len(pool)) - 1 + 1
      BY <3>1, FS_Interval
    <3> HIDE DEF room
    <3> QED
      BY <1>1, <3>2
  <2>6. f \in Injection(taken, room)
    <3> HIDE DEF f, room, taken
    <3> QED
      BY <2>2, <2>4 DEF Injection, IsInjective
  <2> HIDE DEF f, room, taken
  <2> QED
    BY <2>5, <2>6, FS_Injection
<1> HIDE DEF taken
<1>5. Len(Joined(hits)) <= MaxPool - Len(pool) /\ Len(Joined(hits)) \in Nat
  BY <1>1, <1>2, <1>3, <1>4, PickedFromThere
<1>6. \E S : Joined(hits) \in Seq(S)
  <2> DEFINE S == {Joined(hits)[i] : i \in 1..Len(Joined(hits))}
  <2>1. Joined(hits) = [i \in 1..Len(Joined(hits)) |-> Joined(hits)[i]]
    <3> DEFINE c == Cardinality(taken)
    <3>1. /\ Len(Picked(hits, taken)) = c
          /\ Picked(hits, taken) = [i \in 1..c |-> Picked(hits, taken)[i]]
      BY <1>1, <1>2, PickedFromThere, Zenon
    <3> QED
      BY <1>3, <3>1
  <2>2. Joined(hits) \in Seq(S)
    BY <1>5, <2>1
  <2> QED
    BY <2>2
<1>7. PICK S, T : Joined(hits) \in Seq(S) /\ pool \in Seq(T)
  BY <1>6 DEF IsSequence
<1>8. Joined(hits) \in Seq(S \cup T) /\ pool \in Seq(S \cup T)
  BY <1>7
<1>9. /\ pool \o Joined(hits) \in Seq(S \cup T)
      /\ Len(pool \o Joined(hits)) = Len(pool) + Len(Joined(hits))
  BY <1>8
<1> QED
  BY <1>1, <1>5, <1>9 DEF IsSequence

\* A search's hits are a sequence.
LEMMA HitsAreSequences == \A hits \in HitLists : IsSequence(hits)
<1>1. \A m \in Nat : \A hits \in [1..m -> Hit] : hits \in Seq(Hit)
  OBVIOUS
<1>2. \A hits \in HitLists : \E m \in Nat : hits \in [1..m -> Hit]
  BY RagAssumption DEF HitLists
<1> QED
  BY <1>1, <1>2 DEF IsSequence

LEMMA HopsInitially == AskInit => HopsSoFar /\ HopsExplainPool
<1> SUFFICES ASSUME AskInit PROVE HopsSoFar /\ HopsExplainPool
  OBVIOUS
<1>1. IsSequence(<<>>) /\ Len(<<>>) = 0
  BY <<>> \in Seq({}) DEF IsSequence
<1>2. MaxPool \in Nat
  BY RagAssumption
<1> QED
  BY <1>1, <1>2 DEF AskInit, HopsSoFar, HopsExplainPool, Hopping, Announced, Gated

LEMMA HopsStep ==
  ASSUME AskInv, HopsSoFar, [AskNext]_askVars
  PROVE  HopsSoFar'
<1> USE DEF AskGoto, Hopping, Announced, Gated
<1>0. askPc \in AskSteps
  BY DEF AskInv
\* A step that takes no hop.
<1>1. ASSUME UNCHANGED <<opts, pool, hops, iter, before>>,
             \/ askPc' = askPc
             \/ askPc' \in {"persist", "done"}
             \/ askPc = "start" /\ askPc' = "decompose" /\ opts.multi
             \/ /\ askPc \in Hopping \ {"retrieve"}
                /\ askPc' \in Hopping \ {"retrieve", "pooled"}
                /\ askPc' = "check" => opts.multi
      PROVE  HopsSoFar'
  <2>1. Traced' <=> Traced
    BY <1>1 DEF Traced
  <2>2. AddedBy(hops)' = AddedBy(hops)
    BY <1>1
  <2> QED
    BY <1>0, <1>1, <2>1, <2>2 DEF HopsSoFar, AskSteps
<1>2. CASE UNCHANGED askVars
  BY <1>1, <1>2 DEF askVars, askInputs, search
<1>3. CASE ProbeRefuses \/ GateRefuses \/ NothingPacked
  BY <1>1, <1>3 DEF ProbeRefuses, GateRefuses, NothingPacked, RefuseQuietly, askInputs, search
<1>4. CASE DecomposeGarbled \/ VerifierUnavailable \/ VerifierRejects
  BY <1>1, <1>4 DEF DecomposeGarbled, VerifierUnavailable, VerifierRejects, RefuseAloud, askInputs, search
<1>5. CASE ProbePasses \/ PoolReady \/ GatePasses \/ ChunkGone \/ PackChunk \/ PackDone \/ Token
           \/ StreamEnds \/ StartCheck \/ HypothesisTooLong \/ HypothesisFits \/ VerifierAccepts
           \/ Unchecked
  BY <1>1, <1>5 DEF ProbePasses, PoolReady, GatePasses, ChunkGone, PackChunk, PackDone, Token, StreamEnds,
       StartCheck, HypothesisTooLong, HypothesisFits, VerifierAccepts, Unchecked, Generated, Checked, Packing,
       askInputs, search
<1>6. CASE Persist \/ PersistFails \/ AskFails \/ ClientDrops
  BY <1>1, <1>6 DEF Persist, PersistFails, AskFails, ClientDrops, askInputs, search
<1>7. CASE SingleSearch
  <2>1. /\ pool' \in HitLists /\ askPc' = "gate" /\ ~opts.multi /\ opts' = opts /\ hops' = hops
        /\ hops = <<>>
    BY <1>7 DEF SingleSearch, HopsSoFar, askInputs
  <2>2. IsSequence(pool')
    BY <2>1, HitsAreSequences
  <2> QED
    BY <2>1, <2>2 DEF HopsSoFar
<1>8. CASE Decompose
  <2>1. PICK n \in DecomposeReplies :
          hops' = Append(hops, Hop("decompose", Parsed(n), 0, 0, FALSE))
    BY <1>8 DEF Decompose
  <2> DEFINE hop == Hop("decompose", Parsed(n), 0, 0, FALSE)
  <2>2. hop.kind = "decompose" /\ hop.iter = 0 /\ hop.added = 0
    BY DEF Hop
  <2>3. /\ pool = <<>> /\ hops = <<>> /\ iter = 1 /\ before = 0 /\ opts.multi
        /\ UNCHANGED <<opts, pool, iter, before>>
        /\ askPc' = IF MaxDepth = 0 THEN "pooled" ELSE "retrieve"
    BY <1>8 DEF Decompose, HopsSoFar, askInputs
  <2> HIDE DEF hop
  <2>4. IsSequence(<<>>) /\ Len(<<>>) = 0
    BY <<>> \in Seq({}) DEF IsSequence
  <2>5. IsSequence(hops') /\ Len(hops') = 1 /\ hops'[1] = hop /\ AddedBy(hops') = 0
    <3>1. hops' = Append(<<>>, hop)
      BY <2>1, <2>3 DEF hop
    <3>2. /\ IsSequence(Append(<<>>, hop)) /\ Len(Append(<<>>, hop)) = Len(<<>>) + 1
          /\ Append(<<>>, hop)[Len(<<>>) + 1] = hop
      BY <2>4, Appended, Zenon
    <3>3. AddedBy(Append(<<>>, hop)) = 0 + hop.added
      BY <2>4, AddedByOneMore, AddedByNone
    <3> QED
      BY <2>2, <2>4, <3>1, <3>2, <3>3
  <2>6. Traced'
    BY <2>2, <2>5, RagAssumption DEF Traced
  <2> QED
    BY <2>2, <2>3, <2>4, <2>5, <2>6, RagAssumption DEF HopsSoFar
<1>9. CASE RetrieveSub
  <2>1. PICK hits \in HitLists : pool' = pool \o Joined(hits)
    BY <1>9 DEF RetrieveSub
  <2>2. /\ UNCHANGED <<askPc, opts, hops, iter, before>> /\ askPc = "retrieve" /\ opts.multi
    BY <1>9 DEF RetrieveSub, HopsSoFar, askInputs
  <2>3. IsSequence(pool') /\ Len(pool') <= MaxPool
    BY <2>1, <2>2, JoinedFits DEF HopsSoFar
  <2>4. (Traced' <=> Traced) /\ AddedBy(hops') = AddedBy(hops)
    BY <2>2 DEF Traced
  <2> QED
    BY <2>2, <2>3, <2>4 DEF HopsSoFar
<1>10. CASE Decide
  <2>1. PICK n \in DecideReplies :
          /\ hops' = Append(hops, Hop("decide", Parsed(n), iter, Len(pool) - before, Forced))
          /\ IF Parsed(n) = 0
             THEN AskGoto("pooled") /\ UNCHANGED <<iter, before>>
             ELSE iter' = iter + 1 /\ before' = PoolBefore /\ UNCHANGED askPc
    BY <1>10 DEF Decide
  <2> DEFINE hop == Hop("decide", Parsed(n), iter, Len(pool) - before, Forced)
             m   == Len(hops)
  <2>2. /\ hop.kind = "decide" /\ hop.iter = iter /\ hop.added = Len(pool) - before
        /\ hop.subs = Parsed(n)
    BY DEF Hop
  <2>3. /\ askPc = "retrieve" /\ opts.multi /\ UNCHANGED <<opts, pool>>
        /\ IsSequence(hops) /\ IsSequence(pool) /\ Len(pool) \in Nat /\ Len(pool) <= MaxPool
        /\ m = iter /\ iter <= MaxDepth /\ before = AddedBy(hops) /\ before \in Nat /\ Traced
        /\ \A i \in 2..m : hops[i].subs # 0
    BY <1>10, Appended DEF Decide, HopsSoFar, askInputs
  <2> HIDE DEF hop
  <2>4. /\ IsSequence(hops') /\ Len(hops') = m + 1 /\ m \in Nat /\ hops'[m + 1] = hop
        /\ \A i \in 1..m : hops'[i] = hops[i]
    BY <2>1, <2>3, Appended DEF hop
  <2>5. AddedBy(hops') = Len(pool)
    <3>1. AddedBy(hops') = AddedBy(hops) + hop.added
      BY <2>1, <2>3, AddedByOneMore DEF hop
    <3> QED
      BY <2>2, <2>3, <3>1
  <2>6. Traced'
    <3>1. Len(hops') > 0 /\ Len(hops') - 1 <= MaxDepth
      BY <2>3, <2>4
    <3>2. \A i \in 1..m : hops[i].iter = i - 1 /\ hops[i].kind = IF i = 1 THEN "decompose" ELSE "decide"
      BY <2>3 DEF Traced
    <3>3. m > 0
      BY <2>3 DEF Traced
    <3>4. ASSUME NEW i \in 1..(m + 1)
          PROVE  hops'[i].iter = i - 1 /\ hops'[i].kind = IF i = 1 THEN "decompose" ELSE "decide"
      <4>1. CASE i \in 1..m
        BY <2>4, <3>2, <4>1
      <4>2. CASE i = m + 1
        BY <2>2, <2>3, <2>4, <3>3, <4>2
      <4> QED
        BY <2>4, <4>1, <4>2
    <3> QED
      BY <2>4, <3>1, <3>4 DEF Traced
  <2>7. CASE Parsed(n) = 0
    <3>1. askPc' = "pooled" /\ UNCHANGED <<iter, before>>
      BY <2>1, <2>7
    <3>2. \A i \in 2..Len(hops') : hops'[i].subs = 0 <=> i = Len(hops')
      BY <2>2, <2>3, <2>4, <2>7
    <3> QED
      BY <2>3, <2>4, <2>5, <2>6, <3>1, <3>2 DEF HopsSoFar
  <2>8. CASE Parsed(n) # 0
    <3>1. askPc' = "retrieve" /\ iter' = iter + 1 /\ before' = Len(pool)
      BY <2>1, <2>3, <2>8 DEF PoolBefore
    <3>2. n # 0
      BY <2>8, RagAssumption DEF Parsed
    <3>3. ~(iter >= MaxDepth)
      BY <3>2 DEF DecideReplies, Forced
    <3>4. iter' <= MaxDepth
      BY <2>3, <2>4, <3>1, <3>3, RagAssumption
    <3>5. \A i \in 2..Len(hops') : hops'[i].subs # 0
      BY <2>2, <2>3, <2>4, <2>8
    <3> QED
      BY <2>3, <2>4, <2>5, <2>6, <3>1, <3>4, <3>5 DEF HopsSoFar
  <2> QED
    BY <2>7, <2>8
<1>11. CASE BuildAnswer
  <2>1. /\ askPc' = "persist" /\ UNCHANGED <<opts, pool, iter, before>>
        /\ hops' = IF opts.multi THEN Append(hops, Hop("synthesize", 0, Len(hops), 0, FALSE)) ELSE hops
    BY <1>11 DEF BuildAnswer, askInputs
  <2>2. IsSequence(hops')
    BY <2>1, Appended DEF HopsSoFar
  <2> QED
    BY <2>1, <2>2 DEF HopsSoFar
<1> QED
  BY <1>2, <1>3, <1>4, <1>5, <1>6, <1>7, <1>8, <1>9, <1>10, <1>11 DEF AskNext

LEMMA HopsExplainedStep ==
  ASSUME AskInv, HopsSoFar, HopsExplainPool, [AskNext]_askVars
  PROVE  HopsExplainPool'
<1> USE DEF AskGoto, Hopping, Announced, Gated
<1>1. ASSUME UNCHANGED <<answer, pool>>
      PROVE  HopsExplainPool'
  BY <1>1 DEF HopsExplainPool
<1>2. ASSUME answer' = Nothing
      PROVE  HopsExplainPool'
  BY <1>2 DEF HopsExplainPool
<1>3. ASSUME pool' = pool, answer'.hops = Nothing \/ HopsExplained(answer'.hops)
      PROVE  HopsExplainPool'
  BY <1>3 DEF HopsExplainPool, HopsExplained
<1>4. answer = Nothing \/ askPc \in {"persist", "done"}
  BY DEF AskInv, PassedSoFar
<1>5. CASE UNCHANGED askVars
  BY <1>1, <1>5 DEF askVars, search
<1>6. CASE SingleSearch \/ RetrieveSub
  BY <1>2, <1>4, <1>6 DEF SingleSearch, RetrieveSub
<1>7. CASE ProbePasses \/ Decompose \/ Decide \/ PoolReady \/ GatePasses \/ ChunkGone \/ PackChunk
           \/ PackDone \/ Token \/ StreamEnds \/ StartCheck \/ HypothesisTooLong \/ HypothesisFits
           \/ VerifierAccepts \/ Unchecked \/ Persist \/ PersistFails \/ AskFails \/ ClientDrops
  BY <1>1, <1>7 DEF search, ProbePasses, Decompose, Decide, PoolReady, GatePasses, ChunkGone, PackChunk,
       PackDone, Token, StreamEnds, StartCheck, HypothesisTooLong, HypothesisFits, VerifierAccepts,
       Unchecked, Persist, PersistFails, AskFails, ClientDrops
<1>8. CASE ProbeRefuses
  <2>1. hops = <<>> /\ pool' = pool /\ \E hits : answer' = GateRefusal(hits)
    BY <1>8 DEF ProbeRefuses, RefuseQuietly, HopsSoFar, search
  <2>2. answer'.hops = Nothing
    BY <2>1 DEF GateRefusal, Refusal, Trace
  <2> QED
    BY <1>3, <2>1, <2>2
<1>9. CASE GateRefuses \/ NothingPacked
  <2>1. pool' = pool /\ answer'.hops = Trace /\ askPc \in {"gate", "pack"}
    BY <1>9 DEF GateRefuses, NothingPacked, RefuseQuietly, GateRefusal, Refusal, search
  <2>2. Trace = Nothing \/ (Trace = hops /\ opts.multi)
    BY DEF Trace
  <2> QED
    BY <1>3, <2>1, <2>2, TraceExplains
<1>10. CASE DecomposeGarbled
  BY <1>3, <1>10 DEF DecomposeGarbled, RefuseAloud, Refusal, search
<1>11. CASE VerifierUnavailable \/ VerifierRejects
  <2>1. pool' = pool /\ answer'.hops = hops /\ askPc = "check"
    BY <1>11 DEF VerifierUnavailable, VerifierRejects, RefuseAloud, Refusal, search
  <2>2. opts.multi
    BY <2>1 DEF HopsSoFar
  <2> QED
    BY <1>3, <2>1, <2>2, TraceExplains
<1>12. CASE BuildAnswer
  <2>1. /\ pool' = pool /\ askPc = "answer"
        /\ answer'.hops = IF opts.multi THEN Append(hops, Hop("synthesize", 0, Len(hops), 0, FALSE))
                          ELSE Nothing
    BY <1>12 DEF BuildAnswer
  <2> QED
    BY <1>3, <2>1, TraceExplains
<1> QED
  BY <1>5, <1>6, <1>7, <1>8, <1>9, <1>10, <1>11, <1>12 DEF AskNext

-----------------------------------------------------------------------------

LEMMA AskInvariant == AskSpec => []AskInv
<1>1. QED
  BY AskInitially, AskStep, PTL DEF AskSpec

\* No ask returns a grounded answer that some refusal should have stopped.
THEOREM GroundedAreEarned == AskSpec => []GroundedIsEarned
<1>1. AskInv => GroundedIsEarned
  BY DEF AskInv
<1>2. QED
  BY <1>1, AskInvariant, PTL

\* The Final event, the returned and the stored answer are one.
THEOREM FinalsAreTheAnswer == AskSpec => []FinalIsTheAnswer
<1>1. AskInv => FinalIsTheAnswer
  BY DEF AskInv, FinalSoFar, FinalIsTheAnswer
<1>2. QED
  BY <1>1, AskInvariant, PTL

LEMMA HopsInvariant == AskSpec => []HopsSoFar
<1>1. QED
  BY HopsInitially, HopsStep, AskInvariant, PTL DEF AskSpec

\* Every marker of an answer resolves to the one passage the prompt showed under it, for
\* any number of passages, hits and chunks that vanish between search and pack_context.
THEOREM CitationsAlwaysResolve == AskSpec => []CitationsResolve
<1>1. AskInit => CitationsResolve
  BY DEF AskInit, CitationsResolve
<1>2. AskInv /\ HopsSoFar /\ CitationsResolve /\ [AskNext]_askVars => CitationsResolve'
  BY CitationsStep DEF HopsSoFar
<1>3. QED
  BY <1>1, <1>2, AskInvariant, HopsInvariant, PTL DEF AskSpec

\* The hop trace of ask_multi_hop explains the pool, whatever the depth, the caps and the
\* sub-queries the model comes up with.
THEOREM HopsAlwaysExplain == AskSpec => []HopsExplainPool
<1>1. AskInit => HopsExplainPool
  BY HopsInitially
<1>2. AskInv /\ HopsSoFar /\ HopsExplainPool /\ [AskNext]_askVars => HopsExplainPool'
  BY HopsExplainedStep
<1>3. QED
  BY <1>1, <1>2, AskInvariant, HopsInvariant, PTL DEF AskSpec

-----------------------------------------------------------------------------
(* Eval: the runs and the last verdict *)

\* The hits of a row are chunks, and a grounded answer is no failed one.
RowSane(row) ==
  /\ row.hits \in Seq(DOMAIN ChunkDoc)
  /\ AnswerHas(row, "grounded") => ~row.error

RunSane(run) ==
  /\ run = [snapshot |-> run.snapshot, rows |-> run.rows, aggregate |-> run.aggregate]
  /\ \A id \in DOMAIN run.rows : RowSane(run.rows[id])

RunsSane ==
  /\ \E U : runs \in Seq(U)
  /\ \A i \in DOMAIN runs : RunSane(runs[i])

\* A verdict is the one of the golden file and the runs that are there.
VerdictIsTheirs ==
  /\ verdict.is = "compared" =>
       Len(runs) = 2 /\ verdict = Comparison(runs[1], runs[2])
  /\ verdict.is = "variants" =>
       runs # << >> /\ Loads(golden) /\ verdict = Consistency(runs[Len(runs)])

EvalInv == golden \in Goldens /\ RunsSane /\ VerdictIsTheirs

LEMMA FoundIsList ==
  ASSUME NEW ranking \in Rankings, NEW k \in Nat
  PROVE  Found(ranking, k) \in Seq(DOMAIN ChunkDoc)
<1> DEFINE there == OnlyIn(ranking, library)
<1>1. ranking \in Seq(DOMAIN ChunkDoc)
  BY EvalAssumption
<1>2. there \in Seq(DOMAIN ChunkDoc)
  BY <1>1, PickedIsList DEF OnlyIn
<1>3. Len(there) \in Nat
  BY <1>2, LenProperties
<1> DEFINE m == Min({k, Len(there)})
<1>4. m \in Nat /\ m <= Len(there)
  BY <1>3, LeastOfSome
<1> HIDE DEF there, m
<1>5. \A i \in 1 .. m : there[i] \in DOMAIN ChunkDoc
  BY <1>2, <1>3, <1>4, ElementOfSeq
<1>6. SubSeq(there, 1, m) \in Seq(DOMAIN ChunkDoc)
  BY <1>4, <1>5, SubSeqProperties
<1> QED
  BY <1>6 DEF Found, there, m

LEMMA ResultsSane ==
  ASSUME NEW k \in Nat, NEW withRag \in BOOLEAN
  PROVE  \A row \in QueryResults(k, withRag) : RowSane(row)
<1>1. << >> \in Seq(DOMAIN ChunkDoc)
  OBVIOUS
<1>2. \A r \in Rankings : Found(r, k) \in Seq(DOMAIN ChunkDoc)
  BY FoundIsList
<1>3. RowSane([hits |-> << >>, answer |-> {}, error |-> TRUE])
  BY <1>1 DEF RowSane, AnswerHas
<1>4. ASSUME NEW r \in Rankings, NEW a
      PROVE  RowSane([hits |-> Found(r, k), answer |-> a, error |-> withRag /\ a = {}])
  BY <1>2 DEF RowSane, AnswerHas
<1> QED
  <2> SUFFICES ASSUME NEW row \in QueryResults(k, withRag) PROVE RowSane(row)
    OBVIOUS
  <2>1. \/ row = [hits |-> << >>, answer |-> {}, error |-> TRUE]
        \/ \E r \in Rankings, a \in {{}} \cup (IF withRag THEN {{f} : f \in Replies} ELSE {}) :
             row = [hits |-> Found(r, k), answer |-> a, error |-> withRag /\ a = {}]
    BY DEF QueryResults
  <2> QED
    BY <1>3, <1>4, <2>1

LEMMA EvalBegins == EvalInit => EvalInv
<1> SUFFICES ASSUME EvalInit PROVE EvalInv
  OBVIOUS
<1>1. runs \in Seq({})
  BY DEF EvalInit
<1> QED
  BY <1>1 DEF EvalInit, EvalInv, RunsSane, VerdictIsTheirs

LEMMA RunEvalKeeps == EvalInv /\ RunEval => EvalInv'
<1> SUFFICES ASSUME EvalInv, RunEval PROVE EvalInv'
  OBVIOUS
<1>1. PICK k \in {NarrowK, PoolK}, withRag \in BOOLEAN :
        \E rows \in [Ids(golden) -> {r \in QueryResults(k, withRag) : Plausible(r)}] :
          runs' = Append(runs, Record(Snapshot(k), rows))
  BY DEF RunEval
<1>2. PICK rows \in [Ids(golden) -> {r \in QueryResults(k, withRag) : Plausible(r)}] :
        runs' = Append(runs, Record(Snapshot(k), rows))
  BY <1>1
<1>3. k \in Nat
  BY EvalAssumption
<1> DEFINE new == Record(Snapshot(k), rows)
<1>4. RunSane(new)
  BY <1>3, ResultsSane DEF RunSane, Record
<1>5. PICK U : runs \in Seq(U)
  BY DEF EvalInv, RunsSane
<1>6. runs \in Seq(U \cup {new}) /\ new \in U \cup {new}
  BY <1>5
<1> HIDE DEF new
<1>7. /\ Append(runs, new) \in Seq(U \cup {new})
      /\ DOMAIN Append(runs, new) = 1 .. Len(runs) + 1 /\ Len(runs) \in Nat
      /\ \A i \in 1 .. Len(runs) : Append(runs, new)[i] = runs[i]
      /\ Append(runs, new)[Len(runs) + 1] = new
      /\ DOMAIN runs = 1 .. Len(runs)
  BY <1>6, AppendProperties, LenProperties
<1>8. RunsSane'
  <2>1. \A i \in DOMAIN runs' : RunSane(runs'[i])
    BY <1>2, <1>4, <1>7 DEF EvalInv, RunsSane, new
  <2>2. \E V : runs' \in Seq(V)
    BY <1>2, <1>7 DEF new
  <2> QED
    BY <2>1, <2>2 DEF RunsSane, RunSane, RowSane, Record, Unmeasured, AnswerHas
<1> QED
  BY <1>8 DEF EvalInv, VerdictIsTheirs, RunEval

LEMMA StoreAggregateKeeps == EvalInv /\ StoreAggregate => EvalInv'
<1> SUFFICES ASSUME EvalInv, StoreAggregate PROVE EvalInv'
  OBVIOUS
<1> DEFINE old == runs[1]
           agg == Aggregate(golden, runs[Len(runs)].rows)
           new == [old EXCEPT !.aggregate = agg]
<1>1. PICK U : runs \in Seq(U)
  BY DEF EvalInv, RunsSane
<1>2. Len(runs) = 1 /\ DOMAIN runs = 1..1
  BY <1>1, LenProperties DEF StoreAggregate
<1>3. runs' = [runs EXCEPT ![1] = new]
  BY <1>2 DEF StoreAggregate
<1>4. RunSane(old)
  BY <1>2 DEF EvalInv, RunsSane
<1> HIDE DEF agg
<1>5. RunSane(new)
  BY <1>4 DEF RunSane, Record
<1> HIDE DEF new
<1>6. runs' \in Seq(U \cup {new}) /\ DOMAIN runs' = 1..1 /\ runs'[1] = new
  BY <1>1, <1>2, <1>3
<1>7. RunsSane'
  <2>1. \A i \in DOMAIN runs' : RunSane(runs'[i])
    BY <1>5, <1>6
  <2> QED
    BY <1>6, <2>1 DEF RunsSane, RunSane, RowSane, Record, Unmeasured, AnswerHas
<1> QED
  BY <1>7 DEF EvalInv, VerdictIsTheirs, StoreAggregate

\* What a verdict is of does not change after it.
LEMMA OthersKeep ==
  EvalInv /\ (RefuseRun \/ Compare \/ RefuseCompare \/ Variants \/ RefuseVariants
               \/ EditGolden \/ Reingest \/ UNCHANGED evalVars) => EvalInv'
<1> SUFFICES ASSUME EvalInv PROVE
      (RefuseRun \/ Compare \/ RefuseCompare \/ Variants \/ RefuseVariants
        \/ EditGolden \/ Reingest \/ UNCHANGED evalVars) => EvalInv'
  OBVIOUS
<1>1. ASSUME UNCHANGED runs PROVE RunsSane'
  BY <1>1 DEF EvalInv, RunsSane, RunSane, RowSane, Record, Unmeasured, AnswerHas
<1>2. ASSUME RefuseRun \/ RefuseCompare \/ RefuseVariants PROVE EvalInv'
  BY <1>1, <1>2 DEF EvalInv, VerdictIsTheirs, RefuseRun, RefuseCompare, RefuseVariants
<1>3. ASSUME EditGolden \/ Reingest PROVE EvalInv'
  BY <1>1, <1>3 DEF EvalInv, VerdictIsTheirs, EditGolden, Reingest
<1>4. ASSUME Compare PROVE EvalInv'
  <2>1. verdict'.is = "compared"
    BY <1>4 DEF Compare, Comparison
  <2>2. Comparison(runs[1], runs[2])' = Comparison(runs[1], runs[2])
    BY <1>4 DEF Compare, Comparison
  <2> QED
    BY <1>1, <1>4, <2>1, <2>2 DEF EvalInv, VerdictIsTheirs, Compare
<1>5. ASSUME Variants PROVE EvalInv'
  <2>1. verdict'.is = "variants"
    BY <1>5 DEF Variants, Consistency
  <2>2. Consistency(runs[Len(runs)])' = Consistency(runs[Len(runs)])
    BY <1>5 DEF Variants, Consistency
  <2> QED
    BY <1>1, <1>5, <2>1, <2>2 DEF EvalInv, VerdictIsTheirs, Variants
<1>6. ASSUME UNCHANGED evalVars PROVE EvalInv'
  <2>1. Comparison(runs[1], runs[2])' = Comparison(runs[1], runs[2])
    BY <1>6 DEF evalVars, Comparison
  <2>2. Consistency(runs[Len(runs)])' = Consistency(runs[Len(runs)])
    BY <1>6 DEF evalVars, Consistency
  <2> QED
    BY <1>1, <1>6, <2>1, <2>2 DEF EvalInv, VerdictIsTheirs, evalVars
<1> QED
  BY <1>2, <1>3, <1>4, <1>5, <1>6

LEMMA EvalSteps == EvalInv /\ [EvalNext]_evalVars => EvalInv'
BY RunEvalKeeps, StoreAggregateKeeps, OthersKeep DEF EvalNext

-----------------------------------------------------------------------------
(* Eval: what a group of paraphrases is told *)

LEMMA CoverIsCounted ==
  ASSUME NEW result, result.hits \in Seq(DOMAIN ChunkDoc), NEW entry, NEW k
  PROVE  Covered(result, entry, k) \in Nat
<1> DEFINE at == {j \in DocRanks(result, entry.docs) : j <= k}
           f == [i \in at |-> ChunkDoc[result.hits[i]]]
<1>1. at \in SUBSET (1 .. Len(result.hits)) /\ Len(result.hits) \in Nat
  BY LenProperties DEF DocRanks
<1>2. IsFiniteSet(at)
  BY <1>1, Ranks
<1>3. DocsWithin(result, entry.docs, k) = {f[i] : i \in DOMAIN f}
  BY DEF DocsWithin
<1> HIDE DEF at
<1>4. IsFiniteSet({f[i] : i \in DOMAIN f})
  BY <1>2, FiniteImage
<1> HIDE DEF f
<1> QED
  BY <1>3, <1>4, FS_CardinalityType DEF Covered

LEMMA EntryIsThere ==
  ASSUME NEW file, NEW id \in Ids(file)
  PROVE  \E i \in DOMAIN file : file[i].id = id /\ Entry(file, id) = file[i]
BY DEF Ids, Entry

\* Whatever the group, all its members expect the same documents.
LEMMA MembersShareDocs ==
  ASSUME NEW file, GroupsAgree(file), NEW rows, NEW group, group # NoGroup,
         NEW id \in Members(file, rows, group), NEW other \in Members(file, rows, group)
  PROVE  Entry(file, id).docs = Entry(file, other).docs
<1>1. PICK i \in DOMAIN file : Entry(file, id) = file[i]
  BY EntryIsThere DEF Members, Asked
<1>2. PICK j \in DOMAIN file : Entry(file, other) = file[j]
  BY EntryIsThere DEF Members, Asked
<1> QED
  BY <1>1, <1>2 DEF GroupsAgree, Members

LEMMA MembersFinite ==
  ASSUME NEW file \in Goldens, NEW rows, NEW group
  PROVE  IsFiniteSet(Members(file, rows, group))
<1> DEFINE f == [i \in DOMAIN file |-> file[i].id]
<1>1. IsFiniteSet({f[i] : i \in DOMAIN f})
  BY EvalAssumption, FiniteImage
<1>2. Members(file, rows, group) \in SUBSET {f[i] : i \in DOMAIN f}
  BY DEF Members, Asked, Ids
<1> QED
  BY <1>1, <1>2, FS_Subset

\* Exactly one of three, the first or one of the others.
LEMMA OneOfThree ==
  ASSUME NEW r, DOMAIN r = {"measured", "consistent", "aDominant", "bDominant"},
         r.consistent => r.measured /\ ~r.aDominant /\ ~r.bDominant,
         ~(r.aDominant /\ r.bDominant),
         r.measured <=> r.consistent \/ r.aDominant \/ r.bDominant
  PROVE  Cardinality({m \in {"consistent", "aDominant", "bDominant"} : r[m]}) = IF r.measured THEN 1 ELSE 0
<1> DEFINE held == {m \in {"consistent", "aDominant", "bDominant"} : r[m]}
<1>1. CASE ~r.measured
  <2>1. held = {}
    BY <1>1
  <2> QED
    BY <1>1, <2>1, FS_EmptySet
<1>2. CASE r.measured
  <2>1. held = {"consistent"} \/ held = {"aDominant"} \/ held = {"bDominant"}
    BY <1>2
  <2> QED
    BY <1>2, <2>1, FS_Singleton
<1> QED
  BY <1>1, <1>2

LEMMA ClassOf ==
  ASSUME NEW result, NEW entry
  PROVE  /\ entry.docs = {} => VariantClass(result, entry) = "no_expected"
         /\ entry.docs # {} /\ Covered(result, entry, NarrowK) = Cardinality(entry.docs) =>
              VariantClass(result, entry) = "ok"
         /\ entry.docs # {} /\ Covered(result, entry, NarrowK) # Cardinality(entry.docs) =>
              VariantClass(result, entry) \in {"mis_ranked", "missing"}
<1> DEFINE none == entry.docs = {}
           whole == Covered(result, entry, NarrowK) = Cardinality(entry.docs)
           deeper == Covered(result, entry, PoolK) > Covered(result, entry, NarrowK)
<1>1. VariantClass(result, entry) = CASE none -> "no_expected"
                                      [] ~none /\ whole -> "ok"
                                      [] ~none /\ ~whole /\ deeper -> "mis_ranked"
                                      [] OTHER -> "missing"
  BY DEF VariantClass
<1> HIDE DEF none, whole, deeper
<1>2. none => VariantClass(result, entry) = "no_expected"
  BY <1>1
<1>3. ~none /\ whole => VariantClass(result, entry) = "ok"
  BY <1>1
<1>4. ~none /\ ~whole => VariantClass(result, entry) \in {"mis_ranked", "missing"}
  BY <1>1
<1> QED
  BY <1>2, <1>3, <1>4 DEF none, whole

LEMMA GroupGetsOne ==
  ASSUME NEW file \in Goldens, GroupsAgree(file), NEW rows,
         \A id \in DOMAIN rows : RowSane(rows[id]),
         NEW group \in Groups(file, rows)
  PROVE  LET r == GroupReport(file, rows, group)
         IN Cardinality({m \in {"consistent", "aDominant", "bDominant"} : r[m]})
              = IF r.measured THEN 1 ELSE 0
<1> DEFINE r == GroupReport(file, rows, group)
           members == Members(file, rows, group)
           E(id) == Entry(file, id)
           C(id) == Covered(rows[id], E(id), NarrowK)
           Class(id) == VariantClass(rows[id], E(id))
           measurable == {id \in members : E(id).docs # {}}
           recalls == {C(id) : id \in measurable}
           all == Cardinality(E(CHOOSE id \in members : TRUE).docs)
           misRanked == {id \in members : Class(id) = "mis_ranked"}
           missing == {id \in members : Class(id) = "missing"}
<1>1. group # NoGroup /\ members # {}
  BY DEF Groups, Members
<1>2. \A id \in members : id \in DOMAIN rows /\ C(id) \in Nat
  BY CoverIsCounted DEF Members, Asked, RowSane
<1>3. \A id, other \in members : E(id).docs = E(other).docs
  BY <1>1, MembersShareDocs
<1>4. \A id \in members : Cardinality(E(id).docs) = all
  BY <1>3
<1>5. IsFiniteSet(members)
  BY MembersFinite
<1>6. /\ IsFiniteSet(misRanked) /\ Cardinality(misRanked) \in Nat
      /\ IsFiniteSet(missing) /\ Cardinality(missing) \in Nat
      /\ Cardinality(misRanked) = 0 <=> misRanked = {}
      /\ Cardinality(missing) = 0 <=> missing = {}
  <2>1. misRanked \in SUBSET members /\ missing \in SUBSET members
    OBVIOUS
  <2> HIDE DEF members, misRanked, missing
  <2> QED
    BY <1>5, <2>1, FS_Subset, FS_CardinalityType, FS_EmptySet
<1>7. /\ measurable = {} \/ measurable = members
      /\ recalls = {} <=> measurable = {}
  <2> HIDE DEF members, C, E
  <2> QED
    BY <1>3
<1>8. ASSUME NEW id \in members, E(id).docs # {}
      PROVE  /\ C(id) = all => Class(id) = "ok"
             /\ C(id) # all => Class(id) \in {"mis_ranked", "missing"}
  <2> HIDE DEF members, E, all
  <2> QED
    BY <1>4, <1>8, ClassOf
<1>9. ASSUME NEW id \in members, E(id).docs = {}
      PROVE  Class(id) = "no_expected"
  <2> HIDE DEF members, E
  <2> QED
    BY <1>9, ClassOf
<1>10. recalls \in SUBSET Nat /\ IsFiniteSet(recalls)
  <2> DEFINE f == [id \in measurable |-> C(id)]
  <2>1. IsFiniteSet(measurable)
    <3> HIDE DEF members, C, E
    <3> QED
      BY <1>5, FS_Subset
  <2>2. recalls = {f[id] : id \in DOMAIN f}
    <3> HIDE DEF measurable, C
    <3> QED
      OBVIOUS
  <2>3. IsFiniteSet({f[id] : id \in DOMAIN f})
    <3> HIDE DEF measurable, C
    <3> QED
      BY <2>1, FiniteImage
  <2> HIDE DEF f, members, C, E
  <2> QED
    BY <1>2, <2>2, <2>3
<1>11. r = [measured |-> recalls # {},
            consistent |-> recalls # {} /\ Max(recalls) = Min(recalls) /\ Min(recalls) = all,
            aDominant |-> Cardinality(misRanked) > 0 /\ Cardinality(misRanked) >= Cardinality(missing),
            bDominant |-> Cardinality(missing) > 0 /\ Cardinality(missing) > Cardinality(misRanked)]
  BY DEF GroupReport
<1>12. ASSUME recalls # {}
       PROVE  (Max(recalls) = Min(recalls) /\ Min(recalls) = all) <=> (\A n \in recalls : n = all)
  <2> HIDE DEF recalls, all
  <2> DEFINE hi == Max(recalls)
             lo == Min(recalls)
  <2>1. hi \in recalls /\ \A n \in recalls : hi >= n
    BY <1>10, <1>12, GreatestOfSome
  <2>2. lo \in recalls /\ \A n \in recalls : lo <= n
    BY <1>10, <1>12, LeastOfSome
  <2> HIDE DEF hi, lo
  <2>3. hi = lo /\ lo = all => \A n \in recalls : n = all
    BY <1>10, <2>1, <2>2
  <2>4. (\A n \in recalls : n = all) => hi = lo /\ lo = all
    BY <2>1, <2>2
  <2> QED
    BY <2>3, <2>4 DEF hi, lo
<1>13. ASSUME recalls # {}
       PROVE  (\A n \in recalls : n = all) <=> (misRanked = {} /\ missing = {})
  <2>1. measurable = members
    BY <1>7, <1>13
  <2>2. \A id \in members : E(id).docs # {}
    BY <2>1
  <2> HIDE DEF members, C, E, all, Class
  <2>3. (\A n \in recalls : n = all) <=> (\A id \in members : C(id) = all)
    BY <2>1
  <2>4. (\A id \in members : C(id) = all) <=> (\A id \in members : Class(id) \notin {"mis_ranked", "missing"})
    BY <1>8, <2>2
  <2> QED
    BY <2>3, <2>4
<1>14. ASSUME recalls = {} PROVE misRanked = {} /\ missing = {}
  <2>1. \A id \in members : E(id).docs = {}
    BY <1>7, <1>14
  <2> HIDE DEF members, E, Class
  <2> QED
    BY <1>9, <2>1
<1> HIDE DEF r, members, recalls, all, misRanked, missing
<1>15. DOMAIN r = {"measured", "consistent", "aDominant", "bDominant"}
  BY <1>11
<1>16. /\ r.consistent => r.measured /\ ~r.aDominant /\ ~r.bDominant
       /\ ~(r.aDominant /\ r.bDominant)
       /\ r.measured <=> r.consistent \/ r.aDominant \/ r.bDominant
  <2>1. r.measured <=> recalls # {}
    BY <1>11
  <2>2. r.consistent <=> recalls # {} /\ misRanked = {} /\ missing = {}
    BY <1>11, <1>12, <1>13
  <2>3. /\ r.aDominant <=> Cardinality(misRanked) > 0 /\ Cardinality(misRanked) >= Cardinality(missing)
        /\ r.bDominant <=> Cardinality(missing) > 0 /\ Cardinality(missing) > Cardinality(misRanked)
    BY <1>11
  <2> QED
    BY <1>6, <1>14, <2>1, <2>2, <2>3
<1>17. Cardinality({m \in {"consistent", "aDominant", "bDominant"} : r[m]}) = IF r.measured THEN 1 ELSE 0
  BY <1>15, <1>16, OneOfThree
<1> QED
  BY <1>17 DEF r

-----------------------------------------------------------------------------
(* Eval: the gate of a comparison *)

\* The queries of a run that name chunks, and the ranks of those among the first k.
NamesChunks(file, rows) == {id \in Asked(file, rows) : Entry(file, id).chunks # {}}
Near(file, rows, id, k) == {r \in ChunkRanks(rows[id], Entry(file, id).chunks) : r <= k}
HitWithin(file, rows, k) == {id \in NamesChunks(file, rows) : Near(file, rows, id, k) # {}}
ReciprocalRank(file, rows) ==
  [id \in NamesChunks(file, rows) |->
     IF Near(file, rows, id, MrrTop) = {} THEN 0 ELSE Unit \div Min(Near(file, rows, id, MrrTop))]
Grounded(file, rows) ==
  {id \in Asked(file, rows) : rows[id].answer # {} /\ ~rows[id].error /\ AnswerHas(rows[id], "grounded")}

LEMMA AggregateOf ==
  ASSUME NEW file, NEW rows
  PROVE  /\ \A k \in TopKs : Aggregate(file, rows).hit[k]
              = Rounded(OrZero(Share(NamesChunks(file, rows), HitWithin(file, rows, k))))
         /\ Aggregate(file, rows).mrr = Rounded(OrZero(OverAll(ReciprocalRank(file, rows))))
         /\ Aggregate(file, rows).citations
              = Rounded(Share(Grounded(file, rows), {id \in Grounded(file, rows) : AnswerHas(rows[id], "cited")}))
<1>1. \A k \in TopKs : Aggregate(file, rows).hit[k]
        = Rounded(OrZero(Share(NamesChunks(file, rows), HitWithin(file, rows, k))))
  BY DEF Aggregate, HitWithin, NamesChunks, Near
<1>2. Aggregate(file, rows).mrr = Rounded(OrZero(OverAll(ReciprocalRank(file, rows))))
  BY DEF Aggregate, ReciprocalRank, NamesChunks, Near
<1>3. Aggregate(file, rows).citations
        = Rounded(Share(Grounded(file, rows), {id \in Grounded(file, rows) : AnswerHas(rows[id], "cited")}))
  <2>1. Grounded(file, rows)
          = {id \in {id \in {id \in Asked(file, rows) : rows[id].answer # {}} : ~rows[id].error} :
               AnswerHas(rows[id], "grounded")}
    BY DEF Grounded
  <2> QED
    BY <2>1 DEF Aggregate
<1> QED
  BY <1>1, <1>2, <1>3

ChunkRank(file, rows, id) == RankIn(file, rows, id, FALSE)

\* The rank of a query that names chunks says which of its first k answers have one.
LEMMA RankSays ==
  ASSUME NEW file, NEW rows, NEW id \in NamesChunks(file, rows), RowSane(rows[id]), NEW R,
         R = ChunkRank(file, rows, id)
  PROVE  /\ R \in Nat
         /\ \A k \in Nat : Near(file, rows, id, k) # {} <=> R # 0 /\ R <= k
         /\ \A k \in Nat : Near(file, rows, id, k) # {} => Min(Near(file, rows, id, k)) = R
<1> DEFINE all == ChunkRanks(rows[id], Entry(file, id).chunks)
<1>1. R = IF all = {} THEN 0 ELSE Min(all)
  BY DEF ChunkRank, RankIn, FirstHit, NamesChunks
<1>2. all \in SUBSET (Nat \ {0})
  BY LenProperties DEF ChunkRanks, RowSane
<1>3. \A k \in Nat : Near(file, rows, id, k) = {r \in all : r <= k}
  BY DEF Near
<1> HIDE DEF all
<1>4. CASE all = {}
  <2>1. R = 0
    BY <1>1, <1>4
  <2>2. \A k \in Nat : Near(file, rows, id, k) = {}
    BY <1>3, <1>4
  <2> QED
    BY <2>1, <2>2
<1>5. CASE all # {}
  <2>0. R = Min(all)
    BY <1>1, <1>5
  <2>1. R \in all /\ \A y \in all : R <= y
    <3>1. Min(all) \in all /\ \A y \in all : Min(all) <= y
      BY <1>2, <1>5, LeastOfSome
    <3> QED
      BY <2>0, <3>1
  <2>2. R \in Nat \ {0}
    BY <1>2, <2>1
  <2>3. ASSUME NEW k \in Nat, Near(file, rows, id, k) # {}
        PROVE  R <= k /\ Min(Near(file, rows, id, k)) = R
    <3> DEFINE near == {r \in all : r <= k}
               m == Min(near)
    <3>1. near # {} /\ near \in SUBSET Nat
      BY <1>2, <1>3, <2>3
    <3>2. m \in near /\ \A y \in near : m <= y
      BY <3>1, LeastOfSome
    <3> HIDE DEF m
    <3>3. m \in all /\ m <= k /\ m \in Nat /\ R \in Nat /\ k \in Nat
      BY <1>2, <2>2, <3>2
    <3>4. R <= m
      BY <2>1, <3>3
    <3>5. R <= k
      BY <3>3, <3>4
    <3>6. m <= R
      BY <2>1, <3>2, <3>5
    <3>7. m = R
      BY <3>3, <3>4, <3>6
    <3> QED
      BY <1>3, <3>5, <3>7 DEF m
  <2>4. ASSUME NEW k \in Nat, R <= k
        PROVE  Near(file, rows, id, k) # {}
    BY <1>3, <2>1, <2>4
  <2> QED
    BY <2>2, <2>3, <2>4
<1> QED
  BY <1>4, <1>5

LEMMA PartOf ==
  ASSUME NEW file, NEW rows, NEW id \in NamesChunks(file, rows), RowSane(rows[id]), NEW R,
         R = ChunkRank(file, rows, id)
  PROVE  ReciprocalRank(file, rows)[id] = RankPart(R)
<1>1. MrrTop \in Nat
  BY EvalAssumption
<1>2. ReciprocalRank(file, rows)[id]
        = IF Near(file, rows, id, MrrTop) = {} THEN 0 ELSE Unit \div Min(Near(file, rows, id, MrrTop))
  BY DEF ReciprocalRank
<1>3. R \in Nat /\ (R \in 1 .. MrrTop <=> R # 0 /\ R <= MrrTop)
  BY <1>1, RankSays
<1> QED
  BY <1>1, <1>2, <1>3, RankSays DEF RankPart

\* How a query did, by its two ranks.
LEMMA KindSays ==
  ASSUME NEW a \in Nat, NEW b \in Nat
  PROVE  /\ Classify(a, b) \in {"loss", "regression"} <=> a # 0 /\ (b = 0 \/ a < b)
         /\ Classify(a, b) = "win" <=> b # 0 /\ (a = 0 \/ b < a)
<1>1. CASE a = b
  BY <1>1 DEF Classify
<1>2. CASE a # b /\ a = 0
  BY <1>2 DEF Classify
<1>3. CASE a # b /\ b = 0
  BY <1>3 DEF Classify
<1>4. CASE a # 0 /\ b # 0 /\ b < a
  BY <1>4 DEF Classify
<1>5. CASE a # 0 /\ b # 0 /\ a < b
  BY <1>5 DEF Classify
<1> QED
  BY <1>1, <1>2, <1>3, <1>4, <1>5

\* No worse a rank makes no smaller a part.
LEMMA PartsCompare ==
  ASSUME NEW a \in Nat, NEW b \in Nat, NEW f, NEW g, f = RankPart(a), g = RankPart(b)
  PROVE  /\ f \in Nat /\ g \in Nat
         /\ ~(a # 0 /\ (b = 0 \/ a < b)) => f <= g
<1>1. Unit \in Nat \ {0} /\ MrrTop \in Nat /\ \A r \in 1 .. MrrTop : Unit % r = 0
  BY EvalAssumption
<1>2. a # 0 /\ a <= MrrTop => a \in Nat \ {0} /\ Unit % a = 0
  BY <1>1
<1>3. b # 0 /\ b <= MrrTop => b \in Nat \ {0} /\ Unit % b = 0
  BY <1>1
<1>4. a # 0 /\ a <= MrrTop => Unit \div a \in Nat \ {0}
  BY <1>1, <1>2, SmallerDivisor
<1>5. b # 0 /\ b <= MrrTop => Unit \div b \in Nat \ {0}
  BY <1>1, <1>3, SmallerDivisor
<1>6. ASSUME a # 0, a < b, b <= MrrTop PROVE Unit \div b < Unit \div a
  <2>1. a <= MrrTop /\ b # 0
    BY <1>1, <1>6
  <2>2. a \in Nat \ {0} /\ b \in Nat \ {0} /\ Unit % a = 0 /\ Unit % b = 0
    BY <1>2, <1>3, <1>6, <2>1
  <2> QED
    BY <1>1, <1>6, <2>2, SmallerDivisor
<1>7. ASSUME b # 0, b < a, a <= MrrTop PROVE Unit \div a < Unit \div b
  <2>1. b <= MrrTop /\ a # 0
    BY <1>1, <1>7
  <2>2. a \in Nat \ {0} /\ b \in Nat \ {0} /\ Unit % a = 0 /\ Unit % b = 0
    BY <1>2, <1>3, <1>7, <2>1
  <2> QED
    BY <1>1, <1>7, <2>2, SmallerDivisor
<1> DEFINE x == Unit \div a
           y == Unit \div b
<1>8. a = b => x = y
  OBVIOUS
<1>9. /\ f = IF a # 0 /\ a <= MrrTop THEN x ELSE 0
      /\ g = IF b # 0 /\ b <= MrrTop THEN y ELSE 0
  BY <1>1 DEF RankPart
<1> HIDE DEF x, y
<1> QED
  BY <1>1, <1>4, <1>5, <1>6, <1>7, <1>8, <1>9 DEF x, y

\* What two runs over the same queries are compared by.
SameQueries(file, a, b) ==
  /\ file \in Goldens
  /\ DOMAIN a = DOMAIN b
  /\ \A id \in DOMAIN a : RowSane(a[id]) /\ RowSane(b[id])

Lost(file, a, b, id) ==
  /\ ChunkRank(file, a, id) # 0
  /\ ChunkRank(file, b, id) = 0 \/ ChunkRank(file, a, id) < ChunkRank(file, b, id)

LEMMA QueriesFinite ==
  ASSUME NEW file \in Goldens, NEW rows
  PROVE  IsFiniteSet(NamesChunks(file, rows)) /\ IsFiniteSet(Grounded(file, rows))
<1> DEFINE f == [i \in DOMAIN file |-> file[i].id]
<1>1. IsFiniteSet({f[i] : i \in DOMAIN f})
  BY EvalAssumption, FiniteImage
<1>2. /\ NamesChunks(file, rows) \in SUBSET {f[i] : i \in DOMAIN f}
      /\ Grounded(file, rows) \in SUBSET {f[i] : i \in DOMAIN f}
  BY DEF NamesChunks, Grounded, Asked, Ids
<1> QED
  BY <1>1, <1>2, FS_Subset

\* Of the same number of queries, the metric with the greater total is not rounded below
\* the other, and one whose total is greater by more than a step is rounded above it.
LEMMA RoundedFalls ==
  ASSUME NEW n \in Nat, NEW x \in Nat, NEW y \in Nat
  PROVE  /\ x <= y => ~FellFrom(Rounded(OrZero(Metric(x, n))), Rounded(OrZero(Metric(y, n))))
         /\ n # 0 /\ Survives(x - y, n) => FellFrom(Rounded(OrZero(Metric(x, n))), Rounded(OrZero(Metric(y, n))))
<1>0. Scale \in Nat \ {0} /\ Unit \in Nat \ {0}
  BY EvalAssumption
<1>1. CASE n = 0
  <2> DEFINE q == (2 * Scale * 0 + Unit * 1) \div (2 * Unit * 1)
  <2>1. Rounded(OrZero(Metric(x, n))) = q /\ Rounded(OrZero(Metric(y, n))) = q
    BY <1>1 DEF Rounded, OrZero, Metric
  <2>2. 2 * Scale * 0 + Unit * 1 \in Nat /\ 2 * Unit * 1 \in Nat \ {0}
    BY <1>0
  <2>3. q \in Nat
    BY <2>2, Quotient
  <2> HIDE DEF q
  <2> QED
    BY <1>1, <2>1, <2>3 DEF FellFrom, NaN
<1>2. CASE n # 0
  <2> DEFINE d == 2 * Unit * n
             u == 2 * Scale * x + Unit * n
             v == 2 * Scale * y + Unit * n
             p == u \div d
             q == v \div d
  <2>1. Rounded(OrZero(Metric(x, n))) = p /\ Rounded(OrZero(Metric(y, n))) = q
    BY <1>2 DEF Rounded, OrZero, Metric
  <2>2. Unit * n \in Nat \ {0} /\ Scale * x \in Nat /\ Scale * y \in Nat
    BY <1>0, <1>2
  <2>3. /\ x <= y => Scale * x <= Scale * y
        /\ Scale * (x - y) = Scale * x - Scale * y
    BY <1>0
  <2>4. d = 2 * (Unit * n) /\ u = 2 * (Scale * x) + Unit * n /\ v = 2 * (Scale * y) + Unit * n
    BY <1>0
  <2> HIDE DEF d, u, v
  <2>5. d \in Nat \ {0} /\ u \in Nat /\ v \in Nat
    BY <2>2, <2>4
  <2>6. /\ x <= y => u <= v
        /\ Survives(x - y, n) => v + d <= u
    BY <2>2, <2>3, <2>4 DEF Survives
  <2>7. p \in Nat /\ q \in Nat /\ (u <= v => p <= q) /\ (v + d <= u => q < p)
    BY <2>5, Quotient, QuotientGrows
  <2> HIDE DEF p, q
  <2> QED
    BY <2>1, <2>6, <2>7 DEF FellFrom, NaN
<1> QED
  BY <1>1, <1>2

\* A query that is not lost stays within the first k.
LEMMA HitsStay ==
  ASSUME NEW file, NEW a, NEW b, SameQueries(file, a, b),
         \A id \in NamesChunks(file, a) : ~Lost(file, a, b, id), NEW k \in TopKs
  PROVE  HitWithin(file, a, k) \in SUBSET HitWithin(file, b, k)
<1> DEFINE Q == NamesChunks(file, a)
<1>1. NamesChunks(file, b) = Q /\ \A id \in Q : id \in DOMAIN a /\ RowSane(a[id]) /\ RowSane(b[id])
  BY DEF SameQueries, NamesChunks, Asked
<1>2. k \in Nat
  BY EvalAssumption
<1> SUFFICES ASSUME NEW id \in Q, Near(file, a, id, k) # {} PROVE Near(file, b, id, k) # {}
  BY <1>1 DEF HitWithin
<1> DEFINE ra == ChunkRank(file, a, id)
           rb == ChunkRank(file, b, id)
<1>3. ra \in Nat /\ ra # 0 /\ ra <= k
  BY <1>1, <1>2, RankSays
<1>4. rb \in Nat /\ (rb # 0 /\ rb <= k => Near(file, b, id, k) # {})
  BY <1>1, <1>2, RankSays
<1>5. ~(ra # 0 /\ (rb = 0 \/ ra < rb))
  BY DEF Lost
<1> HIDE DEF ra, rb
<1> QED
  BY <1>2, <1>3, <1>4, <1>5

\* The hits of two runs over the same queries are shares of the same queries.
LEMMA HitsOf ==
  ASSUME NEW file, NEW a, NEW b, SameQueries(file, a, b), NEW k \in TopKs
  PROVE  LET n == Cardinality(NamesChunks(file, a))
         IN /\ n \in Nat /\ Unit \in Nat
            /\ IsFiniteSet(HitWithin(file, a, k)) /\ Cardinality(HitWithin(file, a, k)) \in Nat
            /\ IsFiniteSet(HitWithin(file, b, k)) /\ Cardinality(HitWithin(file, b, k)) \in Nat
            /\ Aggregate(file, a).hit[k] = Rounded(OrZero(Metric(Unit * Cardinality(HitWithin(file, a, k)), n)))
            /\ Aggregate(file, b).hit[k] = Rounded(OrZero(Metric(Unit * Cardinality(HitWithin(file, b, k)), n)))
<1> DEFINE Q == NamesChunks(file, a)
<1>1. NamesChunks(file, b) = Q
  BY DEF SameQueries, NamesChunks, Asked
<1>2. Unit \in Nat
  BY EvalAssumption
<1>3. /\ IsFiniteSet(Q) /\ Cardinality(Q) \in Nat
      /\ HitWithin(file, a, k) \in SUBSET Q /\ HitWithin(file, b, k) \in SUBSET Q
  BY <1>1, QueriesFinite, FS_CardinalityType DEF SameQueries, HitWithin
<1>4. /\ IsFiniteSet(HitWithin(file, a, k)) /\ Cardinality(HitWithin(file, a, k)) \in Nat
      /\ IsFiniteSet(HitWithin(file, b, k)) /\ Cardinality(HitWithin(file, b, k)) \in Nat
  BY <1>3, FS_Subset, FS_CardinalityType
<1>5. Q \cap HitWithin(file, a, k) = HitWithin(file, a, k) /\ Q \cap HitWithin(file, b, k) = HitWithin(file, b, k)
  BY <1>3
<1>6. Aggregate(file, a).hit[k] = Rounded(OrZero(Share(Q, HitWithin(file, a, k))))
  BY AggregateOf
<1>7. Aggregate(file, b).hit[k] = Rounded(OrZero(Share(Q, HitWithin(file, b, k))))
  BY <1>1, AggregateOf
<1>8. /\ Aggregate(file, a).hit[k] = Rounded(OrZero(Metric(Unit * Cardinality(HitWithin(file, a, k)), Cardinality(Q))))
      /\ Aggregate(file, b).hit[k] = Rounded(OrZero(Metric(Unit * Cardinality(HitWithin(file, b, k)), Cardinality(Q))))
  <2> HIDE DEF Q
  <2> QED
    BY <1>5, <1>6, <1>7 DEF Share
<1> QED
  BY <1>2, <1>3, <1>4, <1>8

\* Of no lost query the hits do not get less.
LEMMA HitsHold ==
  ASSUME NEW file, NEW a, NEW b, SameQueries(file, a, b),
         \A id \in NamesChunks(file, a) : ~Lost(file, a, b, id), NEW k \in TopKs
  PROVE  ~FellFrom(Aggregate(file, a).hit[k], Aggregate(file, b).hit[k])
<1> DEFINE x == Unit * Cardinality(HitWithin(file, a, k))
           y == Unit * Cardinality(HitWithin(file, b, k))
           n == Cardinality(NamesChunks(file, a))
<1>1. HitWithin(file, a, k) \in SUBSET HitWithin(file, b, k)
  BY HitsStay
<1>2. /\ IsFiniteSet(HitWithin(file, b, k)) /\ n \in Nat /\ Unit \in Nat
      /\ Cardinality(HitWithin(file, a, k)) \in Nat /\ Cardinality(HitWithin(file, b, k)) \in Nat
      /\ Aggregate(file, a).hit[k] = Rounded(OrZero(Metric(x, n)))
      /\ Aggregate(file, b).hit[k] = Rounded(OrZero(Metric(y, n)))
  BY HitsOf
<1>3. Cardinality(HitWithin(file, a, k)) <= Cardinality(HitWithin(file, b, k))
  BY <1>1, <1>2, FS_Subset
<1>4. x \in Nat /\ y \in Nat /\ x <= y
  BY <1>2, <1>3
<1> HIDE DEF x, y, n
<1> QED
  BY <1>2, <1>4, RoundedFalls

\* Of no won query, one that is out of the first k makes their hits less, and with fewer
\* queries than steps of the rounding it shows.
LEMMA HitsFall ==
  ASSUME NEW file, NEW a, NEW b, SameQueries(file, a, b),
         \A id \in NamesChunks(file, a) : ~Lost(file, b, a, id), NEW k \in TopKs,
         Cardinality(NamesChunks(file, a)) < Scale,
         NEW id \in NamesChunks(file, a), ChunkRank(file, a, id) # 0, ChunkRank(file, a, id) <= k,
         ChunkRank(file, b, id) \notin 1 .. k
  PROVE  FellFrom(Aggregate(file, a).hit[k], Aggregate(file, b).hit[k])
<1> DEFINE ha == HitWithin(file, a, k)
           hb == HitWithin(file, b, k)
           x == Unit * Cardinality(ha)
           y == Unit * Cardinality(hb)
           n == Cardinality(NamesChunks(file, a))
<1>1. SameQueries(file, b, a) /\ NamesChunks(file, b) = NamesChunks(file, a)
  BY DEF SameQueries, NamesChunks, Asked
<1>2. hb \in SUBSET ha
  BY <1>1, HitsStay
<1>3. id \in ha /\ id \notin hb
  <2>1. k \in Nat /\ RowSane(a[id]) /\ RowSane(b[id]) /\ id \in NamesChunks(file, b)
    BY <1>1, EvalAssumption DEF SameQueries, NamesChunks, Asked
  <2>2. Near(file, a, id, k) # {}
    BY <2>1, RankSays
  <2>3. Near(file, b, id, k) = {}
    BY <2>1, RankSays
  <2> QED
    BY <2>2, <2>3 DEF HitWithin
<1>4. /\ IsFiniteSet(ha) /\ n \in Nat /\ n # 0 /\ Unit \in Nat \ {0} /\ Scale \in Nat
      /\ Cardinality(ha) \in Nat /\ Cardinality(hb) \in Nat
      /\ Aggregate(file, a).hit[k] = Rounded(OrZero(Metric(x, n)))
      /\ Aggregate(file, b).hit[k] = Rounded(OrZero(Metric(y, n)))
  <2>1. Unit \in Nat \ {0} /\ Scale \in Nat
    BY EvalAssumption
  <2>2. IsFiniteSet(NamesChunks(file, a)) /\ NamesChunks(file, a) # {}
    BY QueriesFinite DEF SameQueries
  <2>3. n # 0
    BY <2>2, FS_EmptySet
  <2>4. IsFiniteSet(ha) /\ n \in Nat /\ Cardinality(ha) \in Nat /\ Cardinality(hb) \in Nat
    BY HitsOf
  <2>5. /\ Aggregate(file, a).hit[k] = Rounded(OrZero(Metric(x, n)))
        /\ Aggregate(file, b).hit[k] = Rounded(OrZero(Metric(y, n)))
    BY HitsOf
  <2> QED
    BY <2>1, <2>3, <2>4, <2>5
<1>5. Cardinality(hb) + 1 <= Cardinality(ha)
  <2>1. Cardinality(hb) <= Cardinality(ha) /\ Cardinality(hb) # Cardinality(ha)
    BY <1>2, <1>3, <1>4, FS_Subset
  <2> HIDE DEF ha, hb
  <2> QED
    BY <1>4, <2>1
<1> HIDE DEF ha, hb
<1>6. x \in Nat /\ y \in Nat /\ Unit <= x - y
  <2>1. Unit * (Cardinality(hb) + 1) <= Unit * Cardinality(ha)
    BY <1>4, <1>5
  <2>2. Unit * (Cardinality(hb) + 1) = Unit * Cardinality(hb) + Unit
    BY <1>4
  <2> QED
    BY <1>4, <2>1, <2>2
<1> HIDE DEF x, y
<1>7. Survives(x - y, n)
  <2>1. Scale * Unit <= Scale * (x - y)
    BY <1>4, <1>6
  <2>2. Unit * n < Unit * Scale /\ Unit * Scale = Scale * Unit
    BY <1>4
  <2>3. Unit * n \in Int /\ Scale * Unit \in Int /\ Scale * (x - y) \in Int
    BY <1>4, <1>6
  <2> HIDE DEF n
  <2> QED
    BY <2>1, <2>2, <2>3 DEF Survives
<1> HIDE DEF n
<1> QED
  BY <1>4, <1>6, <1>7, RoundedFalls

LEMMA MrrMoves ==
  ASSUME NEW file, NEW a, NEW b, SameQueries(file, a, b)
  PROVE  /\ (\A id \in NamesChunks(file, a) : ~Lost(file, a, b, id)) =>
              ~FellFrom(Aggregate(file, a).mrr, Aggregate(file, b).mrr)
         /\ \A id \in NamesChunks(file, a) :
              /\ \A q \in NamesChunks(file, a) : ~Lost(file, b, a, q)
              /\ Survives(RankPart(ChunkRank(file, a, id)) - RankPart(ChunkRank(file, b, id)),
                          Cardinality(NamesChunks(file, a)))
              => FellFrom(Aggregate(file, a).mrr, Aggregate(file, b).mrr)
<1> DEFINE Q == NamesChunks(file, a)
           f == ReciprocalRank(file, a)
           g == ReciprocalRank(file, b)
           n == Cardinality(Q)
           x == FoldFunction(+, 0, f)
           y == FoldFunction(+, 0, g)
<1>1. NamesChunks(file, b) = Q /\ \A id \in Q : id \in DOMAIN a /\ RowSane(a[id]) /\ RowSane(b[id])
  BY DEF SameQueries, NamesChunks, Asked
<1>2. DOMAIN f = Q /\ DOMAIN g = Q
  BY <1>1 DEF ReciprocalRank
<1>3. IsFiniteSet(Q) /\ n \in Nat /\ (n = 0 <=> Q = {})
  BY QueriesFinite, FS_CardinalityType, FS_EmptySet DEF SameQueries
<1>4. ASSUME NEW id \in Q
      PROVE  /\ f[id] \in Nat /\ g[id] \in Nat
             /\ f[id] = RankPart(ChunkRank(file, a, id)) /\ g[id] = RankPart(ChunkRank(file, b, id))
             /\ ~Lost(file, a, b, id) => f[id] <= g[id]
             /\ ~Lost(file, b, a, id) => g[id] <= f[id]
  <2> DEFINE ra == ChunkRank(file, a, id)
             rb == ChunkRank(file, b, id)
  <2>1. ra \in Nat /\ f[id] = RankPart(ra)
    BY <1>1, RankSays, PartOf
  <2>2. rb \in Nat /\ g[id] = RankPart(rb)
    BY <1>1, RankSays, PartOf
  <2>3. /\ Lost(file, a, b, id) <=> ra # 0 /\ (rb = 0 \/ ra < rb)
        /\ Lost(file, b, a, id) <=> rb # 0 /\ (ra = 0 \/ rb < ra)
    BY DEF Lost
  <2> HIDE DEF ra, rb, f, g
  <2>4. /\ f[id] \in Nat /\ g[id] \in Nat
        /\ ~(ra # 0 /\ (rb = 0 \/ ra < rb)) => f[id] <= g[id]
    BY <2>1, <2>2, PartsCompare
  <2>5. ~(rb # 0 /\ (ra = 0 \/ rb < ra)) => g[id] <= f[id]
    BY <2>1, <2>2, PartsCompare
  <2> QED
    BY <2>1, <2>2, <2>3, <2>4, <2>5 DEF ra, rb
<1>5. /\ Aggregate(file, a).mrr = Rounded(OrZero(Metric(x, n)))
      /\ Aggregate(file, b).mrr = Rounded(OrZero(Metric(y, n)))
  <2>1. /\ Aggregate(file, a).mrr = Rounded(OrZero(OverAll(f)))
        /\ Aggregate(file, b).mrr = Rounded(OrZero(OverAll(g)))
    BY AggregateOf
  <2>2. OverAll(f) = Metric(x, n) /\ OverAll(g) = Metric(y, n)
    <3> HIDE DEF f, g
    <3> QED
      BY <1>2, Zenon DEF OverAll
  <2> QED
    BY <2>1, <2>2, Zenon
<1> HIDE DEF f, g, n, Q
<1>6. ASSUME \A id \in Q : ~Lost(file, a, b, id)
      PROVE  ~FellFrom(Aggregate(file, a).mrr, Aggregate(file, b).mrr)
  <2>1. x \in Nat /\ y \in Nat /\ x <= y
    BY <1>2, <1>3, <1>4, <1>6, SumsCompare
  <2> HIDE DEF x, y
  <2> QED
    BY <1>3, <1>5, <2>1, RoundedFalls
<1>7. ASSUME NEW id \in Q, \A q \in Q : ~Lost(file, b, a, q), Survives(f[id] - g[id], n)
      PROVE  FellFrom(Aggregate(file, a).mrr, Aggregate(file, b).mrr)
  <2>1. \A q \in Q : f[q] \in Nat /\ g[q] \in Nat /\ g[q] <= f[q]
    BY <1>4, <1>7
  <2>2. x \in Nat /\ y \in Nat /\ f[id] - g[id] <= x - y
    BY <1>2, <1>3, <2>1, SumsFall
  <2>3. n # 0
    BY <1>3
  <2> HIDE DEF x, y
  <2>4. Survives(x - y, n)
    <3>1. Scale \in Nat /\ Unit \in Nat /\ f[id] - g[id] \in Int /\ x - y \in Int
      BY <2>1, <2>2, EvalAssumption
    <3>2. Scale * (f[id] - g[id]) <= Scale * (x - y)
      BY <2>2, <3>1
    <3>3. /\ Scale * (f[id] - g[id]) \in Int /\ Scale * (x - y) \in Int /\ Unit * n \in Int
          /\ Unit * n < Scale * (f[id] - g[id])
      BY <1>3, <1>7, <3>1 DEF Survives
    <3> QED
      BY <3>2, <3>3 DEF Survives
  <2> QED
    BY <1>3, <1>5, <2>2, <2>3, <2>4, RoundedFalls
<1>8. ASSUME NEW id \in Q
      PROVE  f[id] = RankPart(ChunkRank(file, a, id)) /\ g[id] = RankPart(ChunkRank(file, b, id))
  BY <1>4
<1> QED
  BY <1>6, <1>7, <1>8 DEF Q, n

\* A run with a grounded answer has citations to fall from, a run without answers none.
LEMMA CitationsFall ==
  ASSUME NEW file, NEW a, NEW b, file \in Goldens, \A id \in DOMAIN a : RowSane(a[id]),
         \E id \in Asked(file, a) : AnswerHas(a[id], "grounded"),
         \A id \in DOMAIN b : b[id].answer = {}
  PROVE  FellFrom(Aggregate(file, a).citations, Aggregate(file, b).citations)
<1> DEFINE cited == {id \in Grounded(file, a) : AnswerHas(a[id], "cited")}
           n == Cardinality(Grounded(file, a))
           x == Unit * Cardinality(Grounded(file, a) \cap cited)
<1>1. Grounded(file, a) # {}
  BY DEF Grounded, Asked, RowSane, AnswerHas
<1>2. Grounded(file, b) = {}
  BY DEF Grounded, Asked
<1>3. IsFiniteSet(Grounded(file, a)) /\ n \in Nat \ {0} /\ Cardinality(Grounded(file, b)) = 0
  BY <1>1, <1>2, QueriesFinite, FS_EmptySet, FS_CardinalityType
<1>4. Cardinality(Grounded(file, a) \cap cited) \in Nat /\ Unit \in Nat \ {0} /\ Scale \in Nat
  BY <1>3, FS_Subset, FS_CardinalityType, EvalAssumption
<1>5. x \in Nat
  BY <1>4
<1>6. Aggregate(file, a).citations = Rounded(Metric(x, n))
  BY AggregateOf DEF Share
<1>7. Aggregate(file, b).citations = NaN
  BY <1>3, AggregateOf DEF Share, Rounded, Metric
<1> HIDE DEF x, n
<1>8. Rounded(Metric(x, n)) \in Nat
  <2>1. 2 * Scale * x + Unit * n \in Nat /\ 2 * Unit * n \in Nat \ {0}
    BY <1>3, <1>4, <1>5
  <2>2. Rounded(Metric(x, n)) = (2 * Scale * x + Unit * n) \div (2 * Unit * n)
    BY <1>3 DEF Rounded, Metric
  <2> QED
    BY <2>1, <2>2, Quotient
<1> QED
  BY <1>6, <1>7, <1>8 DEF FellFrom, NaN

LEMMA GateFits == EvalInv => GateAgreesWithQueries
<1> SUFFICES ASSUME EvalInv, verdict.is = "compared" PROVE GateAgreesWithQueries
  BY DEF GateAgreesWithQueries
<1> DEFINE a == runs[1].rows
           b == runs[2].rows
           A == Aggregate(golden, a)
           B == Aggregate(golden, b)
           byDocs == runs[1].snapshot.chunker # runs[2].snapshot.chunker
           kind == PerQuery(golden, runs[1], runs[2], byDocs)
           Q == NamesChunks(golden, a)
           losing == {id \in Q : kind[id] \in {"loss", "regression"}}
<1>1. /\ Len(runs) = 2 /\ verdict = Comparison(runs[1], runs[2])
      /\ golden \in Goldens
  BY DEF EvalInv, VerdictIsTheirs
<1>2. verdict.byDocs = byDocs /\ verdict.kinds = kind /\ verdict.bad = Regressions(A, B)
  BY <1>1 DEF Comparison
<1>3. /\ \A id \in DOMAIN a : RowSane(a[id])
      /\ \A id \in DOMAIN b : RowSane(b[id])
  <2>1. 1 \in DOMAIN runs /\ 2 \in DOMAIN runs
    BY <1>1, LenProperties DEF EvalInv, RunsSane
  <2> QED
    BY <2>1 DEF EvalInv, RunsSane, RunSane
<1>4. /\ \A bad \in Regressions(A, B) :
           /\ bad[1] = "hit" => \E k \in TopKs : FellFrom(A.hit[k], B.hit[k])
           /\ bad[1] = "mrr" => FellFrom(A.mrr, B.mrr)
      /\ FellFrom(A.mrr, B.mrr) => <<"mrr", 0>> \in Regressions(A, B)
      /\ \A k \in TopKs : FellFrom(A.hit[k], B.hit[k]) => <<"hit", k>> \in Regressions(A, B)
      /\ FellFrom(A.citations, B.citations) => <<"citations", 0>> \in Regressions(A, B)
  <2> HIDE DEF A, B
  <2> QED
    BY DEF Regressions
<1>5. ASSUME DOMAIN a = DOMAIN b, ~byDocs
      PROVE  /\ SameQueries(golden, a, b)
             /\ DOMAIN kind = DOMAIN a
             /\ \A id \in DOMAIN kind : kind[id] = Classify(ChunkRank(golden, a, id), ChunkRank(golden, b, id))
  BY <1>1, <1>3, <1>5 DEF SameQueries, PerQuery, ChunkRank, NamesChunks, Asked
<1>6. ASSUME DOMAIN a = DOMAIN b, ~byDocs, NEW id \in Q
      PROVE  /\ id \in losing <=> Lost(golden, a, b, id)
             /\ kind[id] = "win" <=> Lost(golden, b, a, id)
  <2> DEFINE ra == ChunkRank(golden, a, id)
             rb == ChunkRank(golden, b, id)
  <2>1. id \in DOMAIN kind /\ kind[id] = Classify(ra, rb)
    BY <1>5, <1>6 DEF NamesChunks, Asked
  <2>2. ra \in Nat /\ rb \in Nat
    <3>1. id \in NamesChunks(golden, b) /\ RowSane(a[id]) /\ RowSane(b[id])
      BY <1>3, <1>6 DEF NamesChunks, Asked
    <3> QED
      BY <3>1, RankSays
  <2> HIDE DEF ra, rb, kind
  <2> QED
    BY <2>1, <2>2, KindSays DEF Lost, ra, rb
<1>7. ASSUME DOMAIN a = DOMAIN b, ~byDocs, losing = {}
      PROVE  \A bad \in verdict.bad : bad[1] \notin {"hit", "mrr"}
  <2>1. \A id \in Q : ~Lost(golden, a, b, id)
    BY <1>6, <1>7
  <2>2. /\ \A k \in TopKs : ~FellFrom(A.hit[k], B.hit[k])
        /\ ~FellFrom(A.mrr, B.mrr)
    BY <1>5, <1>7, <2>1, HitsHold, MrrMoves
  <2> HIDE DEF A, B
  <2> QED
    BY <1>2, <1>4, <2>2
<1>8. ASSUME DOMAIN a = DOMAIN b, ~byDocs, \A id \in Q : kind[id] # "win", NEW id \in losing
      PROVE  /\ \A k \in TopKs :
                  Cardinality(Q) < Scale /\ ChunkRank(golden, a, id) <= k /\ ChunkRank(golden, b, id) \notin 1 .. k =>
                    <<"hit", k>> \in verdict.bad
             /\ Survives(RankPart(ChunkRank(golden, a, id)) - RankPart(ChunkRank(golden, b, id)), Cardinality(Q)) =>
                  <<"mrr", 0>> \in verdict.bad
  <2>1. \A q \in Q : ~Lost(golden, b, a, q)
    BY <1>6, <1>8
  <2>2. id \in Q /\ Lost(golden, a, b, id) /\ ChunkRank(golden, a, id) # 0
    BY <1>6, <1>8 DEF Lost
  <2>3. SameQueries(golden, a, b)
    BY <1>5, <1>8
  <2>4. ASSUME NEW k \in TopKs, Cardinality(Q) < Scale, ChunkRank(golden, a, id) <= k,
               ChunkRank(golden, b, id) \notin 1 .. k
        PROVE  FellFrom(A.hit[k], B.hit[k])
    BY <2>1, <2>2, <2>3, <2>4, HitsFall
  <2>5. ASSUME Survives(RankPart(ChunkRank(golden, a, id)) - RankPart(ChunkRank(golden, b, id)), Cardinality(Q))
        PROVE  FellFrom(A.mrr, B.mrr)
    BY <2>1, <2>2, <2>3, <2>5, MrrMoves
  <2> HIDE DEF A, B
  <2> QED
    BY <1>2, <1>4, <2>4, <2>5
<1>9. ASSUME \E id \in Asked(golden, a) : AnswerHas(a[id], "grounded"), \A id \in DOMAIN b : b[id].answer = {}
      PROVE  <<"citations", 0>> \in verdict.bad
  <2>1. FellFrom(A.citations, B.citations)
    BY <1>1, <1>3, <1>9, CitationsFall
  <2> HIDE DEF A, B
  <2> QED
    BY <1>2, <1>4, <2>1
<1> HIDE DEF A, B, kind
<1> QED
  BY <1>2, <1>7, <1>8, <1>9 DEF GateAgreesWithQueries, ChunkRank, NamesChunks

LEMMA GroupsFit == EvalInv => GroupsGetOneVerdict
<1> SUFFICES ASSUME EvalInv, verdict.is = "variants", NEW g \in DOMAIN verdict.groups
             PROVE  LET r == verdict.groups[g]
                    IN Cardinality({m \in {"consistent", "aDominant", "bDominant"} : r[m]})
                         = IF r.measured THEN 1 ELSE 0
  BY DEF GroupsGetOneVerdict
<1> DEFINE last == runs[Len(runs)]
<1>1. runs # << >> /\ Loads(golden) /\ verdict = Consistency(last) /\ golden \in Goldens
  BY DEF EvalInv, VerdictIsTheirs
<1>2. Len(runs) \in DOMAIN runs
  BY <1>1, EmptySeq, LenProperties DEF EvalInv, RunsSane
<1>3. \A id \in DOMAIN last.rows : RowSane(last.rows[id])
  BY <1>2 DEF EvalInv, RunsSane, RunSane
<1> HIDE DEF last
<1>4. verdict.groups = [h \in Groups(golden, last.rows) |-> GroupReport(golden, last.rows, h)]
  BY <1>1 DEF Consistency
<1>5. g \in Groups(golden, last.rows) /\ verdict.groups[g] = GroupReport(golden, last.rows, g)
  BY <1>4
<1>6. GroupsAgree(golden)
  BY <1>1 DEF Loads
<1> QED
  BY <1>1, <1>3, <1>5, <1>6, GroupGetsOne

\* Of every golden file, ranking, rounding and edit in between: a comparison that finds no
\* query lost does not fail its gate over hits and ranks, one that only loses does as far
\* as the loss survives the rounding, grounded answers that are gone are noticed, and a
\* group of paraphrases gets one verdict (compare.rs, metrics.rs, variant.rs).
THEOREM VerdictsAlwaysHold == EvalSpec => []VerdictsHold
<1>1. EvalInv => VerdictsHold
  BY GateFits, GroupsFit DEF VerdictsHold
<1> QED
  BY <1>1, EvalBegins, EvalSteps, PTL DEF EvalSpec

-----------------------------------------------------------------------------
(* AssetStore: bytes and rows *)

\* The local variables of a call, by its next statement.
LocalsOK ==
  \A w \in Writers :
    /\ putPc[w] \in {"write", "find", "drop_docs", "drop_row", "unlink", "upsert", "rename", "document"} =>
         putAsset[w] \in Assets /\ putPath[w] \in Places
    /\ putPc[w] \in {"drop_docs", "drop_row", "unlink", "purge_doc", "purge_row", "purge_unlink"} =>
         staleAsset[w] \in Assets
    /\ putPc[w] \in {"purge_doc", "purge_row", "purge_unlink"} => putPath[w] \in Places
    /\ putPc[w] \in {"write", "rename"} => Copied(putAsset[w])

\* What is too large to copy has no file.
OnlyCopies == \A a \in files : Copied(a)

\* As long as nothing failed, a temporary file is that of a copying put on its way
\* to the rename.
TempsUnderWay ==
  mishaps = MaxMishaps =>
    \A t \in temps :
      /\ putAsset[t.writer] = t.asset /\ Copied(t.asset)
      /\ putPc[t.writer] \in {"find", "drop_docs", "drop_row", "unlink", "upsert", "rename"}

FilesHaveRows == \A a \in files \ leaked : HasAssetRow(a) \/ Unlinking(a)

AssetInv ==
  /\ AssetTypeOK /\ LocalsOK /\ mishaps \in 0 .. MaxMishaps
  /\ OnlyCopies /\ TempsUnderWay /\ RowsHaveBytes /\ FilesHaveRows

LEMMA AssetInitially == AssetInit => AssetInv
  BY AssetAssumption DEF AssetInit, AssetInv, AssetTypeOK, LocalsOK, PutSteps, OnlyCopies, TempsUnderWay,
     RowsHaveBytes, FilesHaveRows, HasAssetRow

LEMMA TypeStep ==
  ASSUME AssetTypeOK, LocalsOK, mishaps \in 0 .. MaxMishaps, [AssetNext]_assetVars
  PROVE  AssetTypeOK' /\ LocalsOK' /\ mishaps' \in 0 .. MaxMishaps
<1> USE AssetAssumption DEF AssetTypeOK, LocalsOK, PutSteps, Copied, putLocals, putBound
<1>1. CASE UNCHANGED assetVars
  BY <1>1 DEF assetVars
<1>2. ASSUME NEW w \in Writers, BeginPut(w) PROVE AssetTypeOK' /\ LocalsOK' /\ mishaps' \in 0 .. MaxMishaps
  BY <1>2 DEF BeginPut, PutGoto
<1>3. ASSUME NEW w \in Writers, WriteTemp(w) PROVE AssetTypeOK' /\ LocalsOK' /\ mishaps' \in 0 .. MaxMishaps
  BY <1>3 DEF WriteTemp, PutGoto
<1>4. ASSUME NEW w \in Writers, FindStale(w) PROVE AssetTypeOK' /\ LocalsOK' /\ mishaps' \in 0 .. MaxMishaps
  BY <1>4 DEF FindStale, PutGoto, StaleAt
<1>5. ASSUME NEW w \in Writers, DropStaleDocs(w) PROVE AssetTypeOK' /\ LocalsOK' /\ mishaps' \in 0 .. MaxMishaps
  BY <1>5 DEF DropStaleDocs, PutGoto
<1>6. ASSUME NEW w \in Writers, DropStaleRow(w) PROVE AssetTypeOK' /\ LocalsOK' /\ mishaps' \in 0 .. MaxMishaps
  BY <1>6 DEF DropStaleRow, PutGoto
<1>7. ASSUME NEW w \in Writers, UnlinkStale(w) PROVE AssetTypeOK' /\ LocalsOK' /\ mishaps' \in 0 .. MaxMishaps
  BY <1>7 DEF UnlinkStale, Unlink, PutGoto
<1>8. ASSUME NEW w \in Writers, UnlinkFails(w) PROVE AssetTypeOK' /\ LocalsOK' /\ mishaps' \in 0 .. MaxMishaps
  BY <1>8 DEF UnlinkFails, PutGoto, PutReturn
<1>9. ASSUME NEW w \in Writers, UpsertRow(w) PROVE AssetTypeOK' /\ LocalsOK' /\ mishaps' \in 0 .. MaxMishaps
  BY <1>9 DEF UpsertRow, PutGoto
<1>10. ASSUME NEW w \in Writers, Rename(w) PROVE AssetTypeOK' /\ LocalsOK' /\ mishaps' \in 0 .. MaxMishaps
  BY <1>10 DEF Rename, PutGoto
<1>11. ASSUME NEW w \in Writers, PutFails(w) PROVE AssetTypeOK' /\ LocalsOK' /\ mishaps' \in 0 .. MaxMishaps
  BY <1>11 DEF PutFails, RemoveTemp, Refuses, PutReturn, PutGoto
<1>12. ASSUME NEW w \in Writers, StoreDocument(w) PROVE AssetTypeOK' /\ LocalsOK' /\ mishaps' \in 0 .. MaxMishaps
  BY <1>12 DEF StoreDocument, PutReturn, PutGoto
<1>13. ASSUME NEW w \in Writers, BeginPurge(w) PROVE AssetTypeOK' /\ LocalsOK' /\ mishaps' \in 0 .. MaxMishaps
  BY <1>13 DEF BeginPurge, PutGoto
<1>14. ASSUME NEW w \in Writers, PurgeDocument(w) PROVE AssetTypeOK' /\ LocalsOK' /\ mishaps' \in 0 .. MaxMishaps
  BY <1>14 DEF PurgeDocument, PutGoto
<1>15. ASSUME NEW w \in Writers, PurgeShared(w) PROVE AssetTypeOK' /\ LocalsOK' /\ mishaps' \in 0 .. MaxMishaps
  BY <1>15 DEF PurgeShared, PutReturn, PutGoto
<1>16. ASSUME NEW w \in Writers, PurgeRow(w) PROVE AssetTypeOK' /\ LocalsOK' /\ mishaps' \in 0 .. MaxMishaps
  BY <1>16 DEF PurgeRow, PutReturn, PutGoto
<1>17. ASSUME NEW w \in Writers, PurgeUnlink(w) PROVE AssetTypeOK' /\ LocalsOK' /\ mishaps' \in 0 .. MaxMishaps
  BY <1>17 DEF PurgeUnlink, Unlink, PutReturn, PutGoto
<1>18. ASSUME NEW w \in Writers, WriterCrash(w) PROVE AssetTypeOK' /\ LocalsOK' /\ mishaps' \in 0 .. MaxMishaps
  BY <1>18 DEF WriterCrash, PutReturn, PutGoto
<1>19. QED
  BY <1>1, <1>2, <1>3, <1>4, <1>5, <1>6, <1>7, <1>8, <1>9, <1>10, <1>11, <1>12, <1>13, <1>14, <1>15, <1>16, <1>17, <1>18 DEF AssetNext

LEMMA CopiesStep ==
  ASSUME AssetInv, [AssetNext]_assetVars
  PROVE  OnlyCopies'
<1> USE DEF AssetInv, LocalsOK, OnlyCopies, Copied, putLocals, putBound
<1>1. CASE UNCHANGED assetVars
  BY <1>1 DEF assetVars
<1>2. ASSUME NEW w \in Writers, BeginPut(w) PROVE OnlyCopies'
  BY <1>2 DEF BeginPut, PutGoto
<1>3. ASSUME NEW w \in Writers, WriteTemp(w) PROVE OnlyCopies'
  BY <1>3 DEF WriteTemp, PutGoto
<1>4. ASSUME NEW w \in Writers, FindStale(w) PROVE OnlyCopies'
  BY <1>4 DEF FindStale, PutGoto, StaleAt
<1>5. ASSUME NEW w \in Writers, DropStaleDocs(w) PROVE OnlyCopies'
  BY <1>5 DEF DropStaleDocs, PutGoto
<1>6. ASSUME NEW w \in Writers, DropStaleRow(w) PROVE OnlyCopies'
  BY <1>6 DEF DropStaleRow, PutGoto
<1>7. ASSUME NEW w \in Writers, UnlinkStale(w) PROVE OnlyCopies'
  BY <1>7 DEF UnlinkStale, Unlink, PutGoto
<1>8. ASSUME NEW w \in Writers, UnlinkFails(w) PROVE OnlyCopies'
  BY <1>8 DEF UnlinkFails, PutGoto, PutReturn
<1>9. ASSUME NEW w \in Writers, UpsertRow(w) PROVE OnlyCopies'
  BY <1>9 DEF UpsertRow, PutGoto
<1>10. ASSUME NEW w \in Writers, Rename(w) PROVE OnlyCopies'
  BY <1>10 DEF Rename, PutGoto
<1>11. ASSUME NEW w \in Writers, PutFails(w) PROVE OnlyCopies'
  BY <1>11 DEF PutFails, RemoveTemp, Refuses, PutReturn, PutGoto
<1>12. ASSUME NEW w \in Writers, StoreDocument(w) PROVE OnlyCopies'
  BY <1>12 DEF StoreDocument, PutReturn, PutGoto
<1>13. ASSUME NEW w \in Writers, BeginPurge(w) PROVE OnlyCopies'
  BY <1>13 DEF BeginPurge, PutGoto
<1>14. ASSUME NEW w \in Writers, PurgeDocument(w) PROVE OnlyCopies'
  BY <1>14 DEF PurgeDocument, PutGoto
<1>15. ASSUME NEW w \in Writers, PurgeShared(w) PROVE OnlyCopies'
  BY <1>15 DEF PurgeShared, PutReturn, PutGoto
<1>16. ASSUME NEW w \in Writers, PurgeRow(w) PROVE OnlyCopies'
  BY <1>16 DEF PurgeRow, PutReturn, PutGoto
<1>17. ASSUME NEW w \in Writers, PurgeUnlink(w) PROVE OnlyCopies'
  BY <1>17 DEF PurgeUnlink, Unlink, PutReturn, PutGoto
<1>18. ASSUME NEW w \in Writers, WriterCrash(w) PROVE OnlyCopies'
  BY <1>18 DEF WriterCrash, PutReturn, PutGoto
<1>19. QED
  BY <1>1, <1>2, <1>3, <1>4, <1>5, <1>6, <1>7, <1>8, <1>9, <1>10, <1>11, <1>12, <1>13, <1>14, <1>15, <1>16, <1>17, <1>18 DEF AssetNext

LEMMA TempsStep ==
  ASSUME AssetInv, [AssetNext]_assetVars
  PROVE  TempsUnderWay'
<1> USE AssetAssumption DEF AssetInv, AssetTypeOK, LocalsOK, TempsUnderWay, Copied, putLocals, putBound
<1>1. CASE UNCHANGED assetVars
  BY <1>1 DEF assetVars
<1>2. ASSUME NEW w \in Writers, BeginPut(w) PROVE TempsUnderWay'
  BY <1>2 DEF BeginPut, PutGoto
<1>3. ASSUME NEW w \in Writers, WriteTemp(w) PROVE TempsUnderWay'
  BY <1>3 DEF WriteTemp, PutGoto
<1>4. ASSUME NEW w \in Writers, FindStale(w) PROVE TempsUnderWay'
  BY <1>4 DEF FindStale, PutGoto, StaleAt
<1>5. ASSUME NEW w \in Writers, DropStaleDocs(w) PROVE TempsUnderWay'
  BY <1>5 DEF DropStaleDocs, PutGoto
<1>6. ASSUME NEW w \in Writers, DropStaleRow(w) PROVE TempsUnderWay'
  BY <1>6 DEF DropStaleRow, PutGoto
<1>7. ASSUME NEW w \in Writers, UnlinkStale(w) PROVE TempsUnderWay'
  BY <1>7 DEF UnlinkStale, Unlink, PutGoto
<1>8. ASSUME NEW w \in Writers, UnlinkFails(w) PROVE TempsUnderWay'
  BY <1>8 DEF UnlinkFails, PutGoto, PutReturn
<1>9. ASSUME NEW w \in Writers, UpsertRow(w) PROVE TempsUnderWay'
  BY <1>9 DEF UpsertRow, PutGoto
<1>10. ASSUME NEW w \in Writers, Rename(w) PROVE TempsUnderWay'
  BY <1>10 DEF Rename, PutGoto
<1>11. ASSUME NEW w \in Writers, PutFails(w) PROVE TempsUnderWay'
  BY <1>11 DEF PutFails, RemoveTemp, Refuses, PutReturn, PutGoto
<1>12. ASSUME NEW w \in Writers, StoreDocument(w) PROVE TempsUnderWay'
  BY <1>12 DEF StoreDocument, PutReturn, PutGoto
<1>13. ASSUME NEW w \in Writers, BeginPurge(w) PROVE TempsUnderWay'
  BY <1>13 DEF BeginPurge, PutGoto
<1>14. ASSUME NEW w \in Writers, PurgeDocument(w) PROVE TempsUnderWay'
  BY <1>14 DEF PurgeDocument, PutGoto
<1>15. ASSUME NEW w \in Writers, PurgeShared(w) PROVE TempsUnderWay'
  BY <1>15 DEF PurgeShared, PutReturn, PutGoto
<1>16. ASSUME NEW w \in Writers, PurgeRow(w) PROVE TempsUnderWay'
  BY <1>16 DEF PurgeRow, PutReturn, PutGoto
<1>17. ASSUME NEW w \in Writers, PurgeUnlink(w) PROVE TempsUnderWay'
  BY <1>17 DEF PurgeUnlink, Unlink, PutReturn, PutGoto
<1>18. ASSUME NEW w \in Writers, WriterCrash(w) PROVE TempsUnderWay'
  BY <1>18 DEF WriterCrash, PutReturn, PutGoto
<1>19. QED
  BY <1>1, <1>2, <1>3, <1>4, <1>5, <1>6, <1>7, <1>8, <1>9, <1>10, <1>11, <1>12, <1>13, <1>14, <1>15, <1>16, <1>17, <1>18 DEF AssetNext

LEMMA RowsStep ==
  ASSUME AssetInv, [AssetNext]_assetVars
  PROVE  RowsHaveBytes'
<1> USE AssetAssumption DEF AssetInv, AssetTypeOK, LocalsOK, RowsHaveBytes, HasAssetRow, Renaming, Copied, putLocals, putBound
<1>1. CASE UNCHANGED assetVars
  BY <1>1 DEF assetVars
<1>2. ASSUME NEW w \in Writers, BeginPut(w) PROVE RowsHaveBytes'
  BY <1>2 DEF BeginPut, PutGoto
<1>3. ASSUME NEW w \in Writers, WriteTemp(w) PROVE RowsHaveBytes'
  BY <1>3 DEF WriteTemp, PutGoto
<1>4. ASSUME NEW w \in Writers, FindStale(w) PROVE RowsHaveBytes'
  BY <1>4 DEF FindStale, PutGoto, StaleAt
<1>5. ASSUME NEW w \in Writers, DropStaleDocs(w) PROVE RowsHaveBytes'
  BY <1>5 DEF DropStaleDocs, PutGoto
<1>6. ASSUME NEW w \in Writers, DropStaleRow(w) PROVE RowsHaveBytes'
  BY <1>6 DEF DropStaleRow, PutGoto
<1>7. ASSUME NEW w \in Writers, UnlinkStale(w) PROVE RowsHaveBytes'
  BY <1>7 DEF UnlinkStale, Unlink, PutGoto
<1>8. ASSUME NEW w \in Writers, UnlinkFails(w) PROVE RowsHaveBytes'
  BY <1>8 DEF UnlinkFails, PutGoto, PutReturn
<1>9. ASSUME NEW w \in Writers, UpsertRow(w) PROVE RowsHaveBytes'
  BY <1>9 DEF UpsertRow, PutGoto
<1>10. ASSUME NEW w \in Writers, Rename(w) PROVE RowsHaveBytes'
  BY <1>10 DEF Rename, PutGoto
<1>11. ASSUME NEW w \in Writers, PutFails(w) PROVE RowsHaveBytes'
  BY <1>11 DEF PutFails, RemoveTemp, Refuses, PutReturn, PutGoto
<1>12. ASSUME NEW w \in Writers, StoreDocument(w) PROVE RowsHaveBytes'
  BY <1>12 DEF StoreDocument, PutReturn, PutGoto
<1>13. ASSUME NEW w \in Writers, BeginPurge(w) PROVE RowsHaveBytes'
  BY <1>13 DEF BeginPurge, PutGoto
<1>14. ASSUME NEW w \in Writers, PurgeDocument(w) PROVE RowsHaveBytes'
  BY <1>14 DEF PurgeDocument, PutGoto
<1>15. ASSUME NEW w \in Writers, PurgeShared(w) PROVE RowsHaveBytes'
  BY <1>15 DEF PurgeShared, PutReturn, PutGoto
<1>16. ASSUME NEW w \in Writers, PurgeRow(w) PROVE RowsHaveBytes'
  BY <1>16 DEF PurgeRow, PutReturn, PutGoto
<1>17. ASSUME NEW w \in Writers, PurgeUnlink(w) PROVE RowsHaveBytes'
  BY <1>17 DEF PurgeUnlink, Unlink, PutReturn, PutGoto
<1>18. ASSUME NEW w \in Writers, WriterCrash(w) PROVE RowsHaveBytes'
  BY <1>18 DEF WriterCrash, PutReturn, PutGoto
<1>19. QED
  BY <1>1, <1>2, <1>3, <1>4, <1>5, <1>6, <1>7, <1>8, <1>9, <1>10, <1>11, <1>12, <1>13, <1>14, <1>15, <1>16, <1>17, <1>18 DEF AssetNext

LEMMA FilesStep ==
  ASSUME AssetInv, [AssetNext]_assetVars
  PROVE  FilesHaveRows'
<1> USE AssetAssumption DEF AssetInv, AssetTypeOK, LocalsOK, OnlyCopies, FilesHaveRows, HasAssetRow, Unlinking, Copied,
        putLocals, putBound
<1>1. CASE UNCHANGED assetVars
  BY <1>1 DEF assetVars
<1>2. ASSUME NEW w \in Writers, BeginPut(w) PROVE FilesHaveRows'
  BY <1>2 DEF BeginPut, PutGoto
<1>3. ASSUME NEW w \in Writers, WriteTemp(w) PROVE FilesHaveRows'
  BY <1>3 DEF WriteTemp, PutGoto
<1>4. ASSUME NEW w \in Writers, FindStale(w) PROVE FilesHaveRows'
  BY <1>4 DEF FindStale, PutGoto, StaleAt
<1>5. ASSUME NEW w \in Writers, DropStaleDocs(w) PROVE FilesHaveRows'
  BY <1>5 DEF DropStaleDocs, PutGoto
<1>6. ASSUME NEW w \in Writers, DropStaleRow(w) PROVE FilesHaveRows'
  BY <1>6 DEF DropStaleRow, PutGoto
<1>7. ASSUME NEW w \in Writers, UnlinkStale(w) PROVE FilesHaveRows'
  BY <1>7 DEF UnlinkStale, Unlink, PutGoto
<1>8. ASSUME NEW w \in Writers, UnlinkFails(w) PROVE FilesHaveRows'
  BY <1>8 DEF UnlinkFails, PutGoto, PutReturn
<1>9. ASSUME NEW w \in Writers, UpsertRow(w) PROVE FilesHaveRows'
  BY <1>9 DEF UpsertRow, PutGoto
<1>10. ASSUME NEW w \in Writers, Rename(w) PROVE FilesHaveRows'
  BY <1>10 DEF Rename, PutGoto
<1>11. ASSUME NEW w \in Writers, PutFails(w) PROVE FilesHaveRows'
  BY <1>11 DEF PutFails, RemoveTemp, Refuses, PutReturn, PutGoto
<1>12. ASSUME NEW w \in Writers, StoreDocument(w) PROVE FilesHaveRows'
  BY <1>12 DEF StoreDocument, PutReturn, PutGoto
<1>13. ASSUME NEW w \in Writers, BeginPurge(w) PROVE FilesHaveRows'
  BY <1>13 DEF BeginPurge, PutGoto
<1>14. ASSUME NEW w \in Writers, PurgeDocument(w) PROVE FilesHaveRows'
  BY <1>14 DEF PurgeDocument, PutGoto
<1>15. ASSUME NEW w \in Writers, PurgeShared(w) PROVE FilesHaveRows'
  BY <1>15 DEF PurgeShared, PutReturn, PutGoto
<1>16. ASSUME NEW w \in Writers, PurgeRow(w) PROVE FilesHaveRows'
  BY <1>16 DEF PurgeRow, PutReturn, PutGoto
<1>17. ASSUME NEW w \in Writers, PurgeUnlink(w) PROVE FilesHaveRows'
  BY <1>17 DEF PurgeUnlink, Unlink, PutReturn, PutGoto
<1>18. ASSUME NEW w \in Writers, WriterCrash(w) PROVE FilesHaveRows'
  BY <1>18 DEF WriterCrash, PutReturn, PutGoto
<1>19. QED
  BY <1>1, <1>2, <1>3, <1>4, <1>5, <1>6, <1>7, <1>8, <1>9, <1>10, <1>11, <1>12, <1>13, <1>14, <1>15, <1>16, <1>17, <1>18 DEF AssetNext

-----------------------------------------------------------------------------

LEMMA AssetInvariant == AssetSpec => []AssetInv
<1>1. ASSUME AssetInv, [AssetNext]_assetVars PROVE AssetInv'
  <2>1. AssetTypeOK' /\ LocalsOK' /\ mishaps' \in 0 .. MaxMishaps
    BY <1>1, TypeStep DEF AssetInv
  <2>2. QED
    BY <1>1, <2>1, CopiesStep, TempsStep, RowsStep, FilesStep DEF AssetInv
<1>2. QED
  BY <1>1, AssetInitially, PTL DEF AssetSpec

\* Rows and copied files follow each other through every interleaving and crash.
THEOREM BytesAlwaysFollowRows == AssetSpec => []BytesFollowRows
<1>1. AssetInv => BytesFollowRows
  BY DEF AssetInv, BytesFollowRows, NoBytesLeak, FilesHaveRows, TempsUnderWay
<1>2. QED
  BY <1>1, AssetInvariant, PTL

-----------------------------------------------------------------------------
(* What a stored document tells of the run that made it *)

OcrEngines  == {"e1", "e2"}
Captions == {"off", "v1", "v2"}

Recognized(on, engine) == IF on THEN {engine, "failed"} ELSE {"off"}
Captioned(by) == IF by # "off" THEN {by, "failed"} ELSE {"off"}

TextRow(d) ==
  /\ d.made.ocr = "off" /\ d.made.caption = "off"
  /\ d.parser = <<d.made.parser, <<d.made.chunking>>>>

ImageRow(d) ==
  /\ d.content.shape # "corrupt"
  /\ \E on \in BOOLEAN, e \in OcrEngines, c \in Captions :
       /\ d.parser = <<d.made.parser, <<d.made.chunking, on, IF on THEN e ELSE "unused", c>>>>
       /\ d.made.ocr \in Recognized(on, e)
       /\ d.made.caption \in Captioned(c)

PdfRow(d) ==
  /\ d.content.shape # "encrypted" /\ d.made.caption = "off"
  /\ \/ d.parser = <<d.made.parser, <<d.made.chunking, "unused">>>> /\ d.made.ocr = "off"
     \/ \E ocr, always \in BOOLEAN, e \in OcrEngines :
          /\ ocr \/ always
          /\ d.parser = <<d.made.parser, <<d.made.chunking, ocr, always, e>>>>
          /\ d.made.ocr \in Recognized(d.content.shape # "typed" \/ always, e)

\* What the program of the time made of a source file.
LostBy(d)   == medium = "ast" /\ d.content.shape = "novel" /\ d.build.parser = "p1"
Hollow(d)   == medium # "shell" /\ d.content.shape = "hollow"
BaseOf(d)   == IF medium \in {"manifest", "shell"} THEN None ELSE d.build.parser
CodeRow(d) ==
  /\ d.content.shape # "binary"
  /\ d.made.ocr = "off" /\ d.made.caption = "off" /\ d.made.chunking = 0
  /\ d.made.parser = IF LostBy(d) THEN None ELSE BaseOf(d)
  /\ d.chunker = IF LostBy(d) \/ Hollow(d) \/ medium = "shell" THEN Tier3 ELSE d.build.chunker
  /\ IF LostBy(d) \/ Hollow(d) THEN d.parser = <<None>>
     ELSE \E i, j \in {1, 2} : d.parser = <<BaseOf(d), <<i, j>>>>

RowTells(d) ==
  /\ d \in MediaDocs
  /\ d.made.content = d.content /\ d.made.chunker = d.chunker
  /\ medium # "audio"
  /\ medium = "markdown" => TextRow(d)
  /\ medium = "image" => ImageRow(d)
  /\ medium = "pdf" => PdfRow(d)
  /\ medium \in CodeMedia => CodeRow(d)

-----------------------------------------------------------------------------
(* The invariant *)

MediaTyped ==
  /\ medium \in Media /\ mediaFile \in Files(medium)
  /\ knobs \in [chunking : {1, 2}, ocr : BOOLEAN, alwaysOn : BOOLEAN, engine : OcrEngines,
                caption : Captions, code : {1, 2}, tuning : {1, 2}, embedder : {"none", "m1"}]
  /\ build \in [parser : {"p1", "p2"}, chunker : {"c1", "c2"}]
  /\ mediaPc \in {"idle", "dispatch", "extract", "store", "embed"}

\* The document in hand is one this run could make.
InHand ==
  /\ mediaPc \in {"store", "embed"} =>
       /\ medium # "audio"
       /\ \E made \in ChunksOfFile : mediaDoc = DocumentOf(made)
  /\ mediaPc = "embed" => docRow = mediaDoc
  /\ mediaPc = "extract" => medium # "audio"

\* After a run that ended well the row is what the skip check looks for.
SettledRow ==
  settled =>
    /\ mediaPc \in {"idle", "dispatch"}
    /\ mediaPc = "dispatch" => ~forced
    /\ medium # "audio" =>
         docRow # NoDoc /\ docRow.content = mediaFile
           /\ (StoredIsFallback \/ SameVersions) /\ SameEmbedder

MediaInv ==
  /\ MediaTyped
  /\ docRow # NoDoc => RowTells(docRow)
  /\ InHand
  /\ SettledRow
  /\ UnchangedIsFresh

-----------------------------------------------------------------------------
(* What a run makes tells of it *)

\* The record of what chunks are made from has the types the invariant names.
LEMMA MadeTyped ==
  ASSUME MediaTyped, NEW made \in ChunksOfFile, medium # "audio"
  PROVE  /\ made \in Makings /\ made.content = mediaFile
         /\ made.tuning = knobs.tuning
<1> USE DEF MediaTyped, OcrEngines, Captions
<1>0. mediaFile \in AllFiles /\ medium \in {"markdown", "image", "pdf", "ast", "manifest", "shell"}
  BY DEF AllFiles, Media, CodeMedia
<1>1. \A p \in Parsers, c \in ChunkersUsed, o \in {"off", "failed", "e1", "e2"}, t \in {"off", "failed", "v1", "v2"} :
        LET m == MadeOf(p, c, o, t) IN m \in Makings /\ m.content = mediaFile /\ m.tuning = knobs.tuning
  BY <1>0 DEF MadeOf, Makings
<1>2. /\ OcrOutcomes \subseteq {"off", "failed", "e1", "e2"}
      /\ CaptionOutcomes \subseteq {"off", "failed", "v1", "v2"}
  BY DEF OcrOutcomes, CaptionOutcomes
<1>3. /\ build.parser \in Parsers /\ build.chunker \in ChunkersUsed /\ None \in Parsers
      /\ Tier3 \in ChunkersUsed /\ BaseVersion \in Parsers /\ ChunkerVersion \in ChunkersUsed
  BY DEF Parsers, ChunkersUsed, BaseVersion, ChunkerVersion
<1> HIDE DEF MediaTyped, OcrEngines, Captions
<1>4. CASE medium = "image"
  <2>1. PICK o \in OcrOutcomes, c \in CaptionOutcomes : made = MadeOf(build.parser, build.chunker, o, c)
    BY <1>4 DEF ChunksOfFile, ImageChunks, CodeMedia
  <2> QED
    BY <2>1, <1>1, <1>2, <1>3
<1>5. CASE medium = "pdf"
  <2>1. PICK o \in OcrOutcomes \cup {"off"} : made = MadeOf(build.parser, build.chunker, o, "off")
    BY <1>5 DEF ChunksOfFile, PdfChunks, CodeMedia
  <2> QED
    BY <2>1, <1>1, <1>2, <1>3
<1>6. CASE medium \in CodeMedia
  <2>1. made = MadeOf(IF ExtractFellBack THEN None ELSE BaseVersion,
                      IF ExtractFellBack \/ ChunkFellBack THEN Tier3 ELSE ChunkerVersion, "off", "off")
    BY <1>6 DEF ChunksOfFile, CodeChunks, Synthesized, BaseVersion, CodeMedia
  <2> QED
    BY <2>1, <1>1, <1>3
<1>7. CASE medium = "markdown"
  <2>1. made = MadeOf(build.parser, build.chunker, "off", "off")
    BY <1>7 DEF ChunksOfFile, MarkdownChunks, CodeMedia
  <2> QED
    BY <2>1, <1>1, <1>3
<1> QED
  BY <1>0, <1>4, <1>5, <1>6, <1>7 DEF CodeMedia

\* The composite version is a version.
LEMMA CompositeTyped ==
  ASSUME MediaTyped
  PROVE  Composite \in Parsers \X Signatures
<1> USE DEF MediaTyped, OcrEngines, Captions
<1>1. BaseVersion \in Parsers
  BY DEF BaseVersion, Parsers
<1>2. Signature \in Signatures
  <2>1. CASE medium = "image"
    BY <2>1 DEF Signature, Signatures, EngineVersion, OcrActive
  <2>2. CASE medium = "pdf" /\ OcrActive
    BY <2>2 DEF Signature, Signatures, EngineVersion, OcrActive
  <2>3. CASE medium = "pdf" /\ ~OcrActive
    BY <2>3 DEF Signature, Signatures, EngineVersion
  <2>4. CASE medium \in CodeMedia
    BY <2>4 DEF Signature, Signatures, CodeMedia
  <2>5. CASE medium \notin CodeMedia \cup {"image", "pdf"}
    BY <2>5 DEF Signature, Signatures
  <2> QED
    BY <2>1, <2>2, <2>3, <2>4, <2>5
<1> QED
  BY <1>1, <1>2 DEF Composite

LEMMA TextTells ==
  ASSUME MediaTyped, medium = "markdown", NEW made \in ChunksOfFile
  PROVE  TextRow(DocumentOf(made))
<1>1. made = MadeOf(build.parser, build.chunker, "off", "off")
  BY DEF ChunksOfFile, MarkdownChunks, CodeMedia
<1> QED
  BY <1>1 DEF MediaTyped, TextRow, DocumentOf, MadeOf, Composite, BaseVersion, Signature, CodeMedia, Tier3

LEMMA ImageTells ==
  ASSUME MediaTyped, medium = "image", NEW made \in ChunksOfFile
  PROVE  ImageRow(DocumentOf(made))
<1>1. mediaFile.shape # "corrupt"
  BY DEF ChunksOfFile, ImageChunks, CodeMedia
<1>2. PICK o \in OcrOutcomes, c \in CaptionOutcomes : made = MadeOf(build.parser, build.chunker, o, c)
  BY DEF ChunksOfFile, ImageChunks, CodeMedia
<1> DEFINE d == DocumentOf(made)
<1>3. /\ made.ocr = o /\ made.caption = c /\ made.chunking = knobs.chunking
      /\ made.parser = build.parser /\ made.chunker = build.chunker
  BY <1>2 DEF MadeOf, CodeMedia
<1>4. /\ d.content = mediaFile /\ d.made = made
      /\ d.parser = <<build.parser, <<knobs.chunking, knobs.ocr, EngineVersion, knobs.caption>>>>
  BY <1>3 DEF MediaTyped, DocumentOf, Composite, BaseVersion, Signature, CodeMedia, Tier3
<1>5. /\ EngineVersion = IF knobs.ocr THEN knobs.engine ELSE "unused"
      /\ o \in Recognized(knobs.ocr, knobs.engine) /\ c \in Captioned(knobs.caption)
  BY DEF EngineVersion, OcrActive, OcrOutcomes, CaptionOutcomes, Recognized, Captioned
<1>6. knobs.ocr \in BOOLEAN /\ knobs.engine \in OcrEngines /\ knobs.caption \in Captions
  BY DEF MediaTyped
<1> QED
  BY <1>1, <1>3, <1>4, <1>5, <1>6 DEF ImageRow

LEMMA PdfTells ==
  ASSUME MediaTyped, medium = "pdf", NEW made \in ChunksOfFile
  PROVE  PdfRow(DocumentOf(made))
<1>1. mediaFile.shape # "encrypted"
  BY DEF ChunksOfFile, PdfChunks, CodeMedia
<1>2. PICK o \in IF mediaFile.shape = "typed" /\ ~knobs.alwaysOn THEN {"off"} ELSE OcrOutcomes :
        made = MadeOf(build.parser, build.chunker, o, "off")
  BY DEF ChunksOfFile, PdfChunks, CodeMedia
<1> DEFINE d == DocumentOf(made)
<1>3. /\ made.ocr = o /\ made.caption = "off" /\ made.chunking = knobs.chunking
      /\ made.parser = build.parser /\ made.chunker = build.chunker
  BY <1>2 DEF MadeOf, CodeMedia
<1>4. /\ d.content = mediaFile /\ d.made = made /\ d.parser = <<build.parser, Signature>>
  BY <1>3 DEF MediaTyped, DocumentOf, Composite, BaseVersion, CodeMedia, Tier3
<1>5. OcrActive <=> knobs.ocr \/ knobs.alwaysOn
  BY DEF OcrActive
<1>6. knobs.ocr \in BOOLEAN /\ knobs.alwaysOn \in BOOLEAN /\ knobs.engine \in OcrEngines
  BY DEF MediaTyped
<1>7. CASE OcrActive
  <2>1. Signature = <<knobs.chunking, knobs.ocr, knobs.alwaysOn, knobs.engine>>
    BY <1>7 DEF Signature, EngineVersion, CodeMedia
  <2>2. o \in Recognized(mediaFile.shape # "typed" \/ knobs.alwaysOn, knobs.engine)
    BY <1>7 DEF Recognized, OcrOutcomes
  <2> QED
    BY <1>1, <1>3, <1>4, <1>5, <1>6, <1>7, <2>1, <2>2 DEF PdfRow
<1>8. CASE ~OcrActive
  <2>1. Signature = <<knobs.chunking, "unused">> /\ o = "off"
    BY <1>8, <1>6 DEF Signature, EngineVersion, OcrOutcomes, CodeMedia
  <2> QED
    BY <1>1, <1>3, <1>4, <2>1 DEF PdfRow
<1> QED
  BY <1>7, <1>8

LEMMA CodeTells ==
  ASSUME MediaTyped, medium \in CodeMedia, NEW made \in ChunksOfFile
  PROVE  CodeRow(DocumentOf(made))
<1>1. mediaFile.shape # "binary"
  BY DEF ChunksOfFile, CodeChunks, CodeMedia
<1>2. made = MadeOf(IF ExtractFellBack THEN None ELSE BaseVersion,
                    IF ExtractFellBack \/ ChunkFellBack THEN Tier3 ELSE ChunkerVersion, "off", "off")
  BY DEF ChunksOfFile, CodeChunks, Synthesized, BaseVersion, CodeMedia
<1> DEFINE d == DocumentOf(made)
<1>3. /\ made.ocr = "off" /\ made.caption = "off" /\ made.chunking = 0
      /\ made.parser = IF ExtractFellBack THEN None ELSE BaseVersion
      /\ made.chunker = IF ExtractFellBack \/ ChunkFellBack THEN Tier3 ELSE ChunkerVersion
  BY <1>2 DEF MadeOf
<1>4. /\ d.content = mediaFile /\ d.made = made /\ d.build = build /\ d.chunker = made.chunker
      /\ d.parser = IF medium # "shell" /\ made.chunker = Tier3 THEN <<None>> ELSE Composite
  BY DEF DocumentOf
<1>5. /\ LostBy(d) <=> ExtractFellBack
      /\ Hollow(d) <=> ChunkFellBack
      /\ BaseOf(d) = BaseVersion
  BY <1>4 DEF LostBy, Hollow, BaseOf, ExtractFellBack, ChunkFellBack, BaseVersion
<1>6. ChunkerVersion = IF medium = "shell" THEN Tier3 ELSE build.chunker
  BY DEF ChunkerVersion
<1>7. build.chunker # Tier3 /\ (ExtractFellBack \/ ChunkFellBack => medium # "shell")
  BY DEF MediaTyped, Tier3, ExtractFellBack, ChunkFellBack
<1>8. Composite = <<BaseVersion, <<knobs.chunking, knobs.code>>>>
  BY DEF Composite, Signature, CodeMedia
<1>9. knobs.chunking \in {1, 2} /\ knobs.code \in {1, 2}
  BY DEF MediaTyped
<1>10. d.chunker = IF LostBy(d) \/ Hollow(d) \/ medium = "shell" THEN Tier3 ELSE d.build.chunker
  BY <1>3, <1>4, <1>5, <1>6, <1>7
<1>11. IF LostBy(d) \/ Hollow(d) THEN d.parser = <<None>>
       ELSE \E i, j \in {1, 2} : d.parser = <<BaseOf(d), <<i, j>>>>
  BY <1>3, <1>4, <1>5, <1>6, <1>7, <1>8, <1>9
<1> QED
  BY <1>1, <1>3, <1>4, <1>5, <1>10, <1>11 DEF CodeRow

\* A document in hand tells of the run that made it.
LEMMA DocumentTells ==
  ASSUME MediaTyped, medium # "audio", NEW made \in ChunksOfFile
  PROVE  RowTells(DocumentOf(made))
<1> DEFINE d == DocumentOf(made)
<1>1. made \in Makings /\ made.content = mediaFile
  BY MadeTyped
<1>2. Composite \in Parsers \X Signatures
  BY CompositeTyped
<1>3. mediaFile \in AllFiles /\ knobs.embedder \in {"none", "m1"}
      /\ build \in [parser : {"p1", "p2"}, chunker : {"c1", "c2"}]
  BY DEF MediaTyped, AllFiles
<1>4. made.parser \in Parsers /\ made.chunker \in ChunkersUsed
  BY <1>1 DEF Makings
<1>5. d \in MediaDocs /\ d.made.content = d.content /\ d.made.chunker = d.chunker
  BY <1>1, <1>2, <1>3, <1>4 DEF MediaDocs, DocumentOf
<1> HIDE DEF d
<1> QED
  BY <1>5, TextTells, ImageTells, PdfTells, CodeTells DEF RowTells, d

-----------------------------------------------------------------------------
(* What the skip check takes for fresh is fresh *)

\* A record of what chunks are made from is what a run makes if its fields are.
LEMMA Remade ==
  ASSUME NEW made \in Makings, made.content = mediaFile,
         made.chunking = IF medium \in CodeMedia THEN 0 ELSE knobs.chunking
  PROVE  [made EXCEPT !.tuning = knobs.tuning]
           = MadeOf(made.parser, made.chunker, made.ocr, made.caption)
BY DEF Makings, MadeOf

LEMMA FreshText ==
  ASSUME MediaTyped, medium = "markdown", docRow # NoDoc, RowTells(docRow), UpToDate
  PROVE  [docRow.made EXCEPT !.tuning = knobs.tuning] \in ChunksOfFile
<1> DEFINE made == docRow.made
<1>1. /\ docRow.content = mediaFile /\ docRow.parser = Composite /\ docRow.chunker = build.chunker
  BY DEF UpToDate, SameFile, SameVersions, StoredIsFallback, ChunkerVersion
<1>2. /\ made \in Makings /\ made.content = mediaFile /\ made.chunker = build.chunker
      /\ TextRow(docRow)
  BY <1>1 DEF RowTells, MediaDocs
<1>3. /\ Composite = <<build.parser, <<knobs.chunking>>>>
  BY DEF Composite, BaseVersion, Signature, CodeMedia
<1>4. made.parser = build.parser /\ made.chunking = knobs.chunking
  <2>1. <<made.parser, <<made.chunking>>>> = <<build.parser, <<knobs.chunking>>>>
    BY <1>1, <1>2, <1>3 DEF TextRow
  <2>2. made.parser = build.parser /\ <<made.chunking>> = <<knobs.chunking>>
    BY <2>1
  <2>3. <<made.chunking>>[1] = <<knobs.chunking>>[1]
    BY <2>2
  <2> QED
    BY <2>2, <2>3
<1>5. [made EXCEPT !.tuning = knobs.tuning] = MadeOf(build.parser, build.chunker, "off", "off")
  BY <1>2, <1>4, Remade DEF TextRow, CodeMedia
<1> QED
  BY <1>5 DEF ChunksOfFile, MarkdownChunks, CodeMedia

LEMMA FreshImage ==
  ASSUME MediaTyped, medium = "image", docRow # NoDoc, RowTells(docRow), UpToDate
  PROVE  [docRow.made EXCEPT !.tuning = knobs.tuning] \in ChunksOfFile
<1> DEFINE made == docRow.made
<1>1. /\ docRow.content = mediaFile /\ docRow.parser = Composite /\ docRow.chunker = build.chunker
  BY DEF UpToDate, SameFile, SameVersions, StoredIsFallback, ChunkerVersion
<1>2. /\ made \in Makings /\ made.content = mediaFile /\ made.chunker = build.chunker
      /\ ImageRow(docRow)
  BY <1>1 DEF RowTells, MediaDocs
<1>3. Composite = <<build.parser, <<knobs.chunking, knobs.ocr, EngineVersion, knobs.caption>>>>
  BY DEF Composite, BaseVersion, Signature, CodeMedia
<1>4. PICK on \in BOOLEAN, e \in OcrEngines, c \in Captions :
        /\ docRow.parser = <<made.parser, <<made.chunking, on, IF on THEN e ELSE "unused", c>>>>
        /\ made.ocr \in Recognized(on, e)
        /\ made.caption \in Captioned(c)
  BY <1>2 DEF ImageRow
<1>5. /\ made.parser = build.parser /\ made.chunking = knobs.chunking
      /\ on = knobs.ocr /\ (IF on THEN e ELSE "unused") = EngineVersion /\ c = knobs.caption
  BY <1>1, <1>3, <1>4
<1>6. made.ocr \in OcrOutcomes /\ made.caption \in CaptionOutcomes
  BY <1>4, <1>5 DEF Recognized, Captioned, OcrOutcomes, CaptionOutcomes, OcrActive, EngineVersion
<1>7. [made EXCEPT !.tuning = knobs.tuning] = MadeOf(build.parser, build.chunker, made.ocr, made.caption)
  BY <1>2, <1>5, Remade DEF CodeMedia
<1>8. mediaFile.shape # "corrupt"
  BY <1>1, <1>2 DEF ImageRow
<1> QED
  BY <1>6, <1>7, <1>8 DEF ChunksOfFile, ImageChunks, CodeMedia

LEMMA FreshPdf ==
  ASSUME MediaTyped, medium = "pdf", docRow # NoDoc, RowTells(docRow), UpToDate
  PROVE  [docRow.made EXCEPT !.tuning = knobs.tuning] \in ChunksOfFile
<1> DEFINE made == docRow.made
           outcomes == IF mediaFile.shape = "typed" /\ ~knobs.alwaysOn THEN {"off"} ELSE OcrOutcomes
<1>1. /\ docRow.content = mediaFile /\ docRow.parser = Composite /\ docRow.chunker = build.chunker
  BY DEF UpToDate, SameFile, SameVersions, StoredIsFallback, ChunkerVersion
<1>2. /\ made \in Makings /\ made.content = mediaFile /\ made.chunker = build.chunker
      /\ PdfRow(docRow)
  BY <1>1 DEF RowTells, MediaDocs
<1>3. Composite = <<build.parser, IF OcrActive THEN <<knobs.chunking, knobs.ocr, knobs.alwaysOn, knobs.engine>>
                                  ELSE <<knobs.chunking, "unused">>>>
  BY DEF Composite, BaseVersion, Signature, CodeMedia, EngineVersion
<1>4. knobs.ocr \in BOOLEAN /\ knobs.alwaysOn \in BOOLEAN
  BY DEF MediaTyped
<1>5. made.parser = build.parser /\ made.chunking = knobs.chunking /\ made.ocr \in outcomes
  <2>1. CASE docRow.parser = <<made.parser, <<made.chunking, "unused">>>> /\ made.ocr = "off"
    <3>1. ~OcrActive
      BY <1>1, <1>3, <2>1
    <3> QED
      BY <1>1, <1>3, <2>1, <3>1 DEF OcrOutcomes
  <2>2. ASSUME NEW ocr \in BOOLEAN, NEW always \in BOOLEAN, NEW e \in OcrEngines,
               docRow.parser = <<made.parser, <<made.chunking, ocr, always, e>>>>,
               made.ocr \in Recognized(docRow.content.shape # "typed" \/ always, e)
        PROVE  made.parser = build.parser /\ made.chunking = knobs.chunking /\ made.ocr \in outcomes
    <3>1. OcrActive
      BY <1>1, <1>3, <2>2
    <3>2. /\ made.parser = build.parser /\ made.chunking = knobs.chunking
          /\ always = knobs.alwaysOn /\ e = knobs.engine
      BY <1>1, <1>3, <2>2, <3>1
    <3> QED
      BY <1>1, <1>4, <2>2, <3>1, <3>2 DEF Recognized, OcrOutcomes
  <2> QED
    BY <1>2, <2>1, <2>2 DEF PdfRow
<1>6. [made EXCEPT !.tuning = knobs.tuning] = MadeOf(build.parser, build.chunker, made.ocr, "off")
  BY <1>2, <1>5, Remade DEF PdfRow, CodeMedia
<1>7. mediaFile.shape # "encrypted"
  BY <1>1, <1>2 DEF PdfRow
<1> QED
  BY <1>5, <1>6, <1>7 DEF ChunksOfFile, PdfChunks, CodeMedia

\* What a fallback stored is fresh as long as the program is the one that stored it.
LEMMA FreshCode ==
  ASSUME MediaTyped, medium \in CodeMedia, docRow # NoDoc, RowTells(docRow), UpToDate
  PROVE  \/ [docRow.made EXCEPT !.tuning = knobs.tuning] \in ChunksOfFile
         \/ StoredIsFallback /\ docRow.build # build
<1> DEFINE made == docRow.made
<1>1. docRow.content = mediaFile /\ (StoredIsFallback \/ SameVersions)
  BY DEF UpToDate, SameFile
<1>2. /\ made \in Makings /\ made.content = mediaFile /\ made.chunker = docRow.chunker
      /\ CodeRow(docRow) /\ made.chunking = 0 /\ made.ocr = "off" /\ made.caption = "off"
      /\ mediaFile.shape # "binary"
  BY <1>1 DEF RowTells, MediaDocs, CodeRow
<1>3. [made EXCEPT !.tuning = knobs.tuning] = MadeOf(made.parser, made.chunker, "off", "off")
  BY <1>2, Remade
<1>4. SUFFICES ASSUME ~(StoredIsFallback /\ docRow.build # build)
      PROVE  /\ made.parser = IF ExtractFellBack THEN None ELSE BaseVersion
             /\ made.chunker = IF ExtractFellBack \/ ChunkFellBack THEN Tier3 ELSE ChunkerVersion
  BY <1>2, <1>3 DEF ChunksOfFile, CodeChunks, Synthesized, BaseVersion, CodeMedia
<1>5. Hollow(docRow) <=> ChunkFellBack
  BY <1>1 DEF Hollow, ChunkFellBack
<1>6. CASE StoredIsFallback
  <2>1. docRow.build = build
    BY <1>4, <1>6
  <2>2. (LostBy(docRow) <=> ExtractFellBack) /\ BaseOf(docRow) = BaseVersion
    BY <1>1, <2>1 DEF LostBy, ExtractFellBack, BaseOf, BaseVersion
  <2> QED
    BY <1>2, <1>5, <2>1, <2>2 DEF CodeRow, ChunkerVersion
<1>7. CASE SameVersions
  <2>1. docRow.parser = <<BaseVersion, <<knobs.chunking, knobs.code>>>> /\ docRow.chunker = ChunkerVersion
    BY <1>7 DEF SameVersions, Composite, Signature, CodeMedia
  <2>2. docRow.parser # <<None>>
    BY <2>1
  <2>3. /\ ~LostBy(docRow) /\ ~Hollow(docRow)
        /\ \E i, j \in {1, 2} : docRow.parser = <<BaseOf(docRow), <<i, j>>>>
    BY <1>2, <2>2 DEF CodeRow
  <2>4. BaseOf(docRow) = BaseVersion
    BY <2>1, <2>3
  <2>5. ~ExtractFellBack
    BY <1>1, <2>3, <2>4 DEF LostBy, ExtractFellBack, BaseOf, BaseVersion
  <2> QED
    BY <1>2, <1>5, <2>1, <2>3, <2>4, <2>5 DEF CodeRow
<1> QED
  BY <1>1, <1>6, <1>7

LEMMA FreshIsFresh ==
  ASSUME MediaTyped, docRow # NoDoc, RowTells(docRow), UpToDate
  PROVE  \/ [docRow.made EXCEPT !.tuning = knobs.tuning] \in ChunksOfFile
         \/ StoredIsFallback /\ docRow.build # build
<1>1. medium \in {"markdown", "image", "pdf"} \cup CodeMedia
  BY DEF MediaTyped, Media, RowTells
<1> QED
  BY <1>1, FreshText, FreshImage, FreshPdf, FreshCode

-----------------------------------------------------------------------------
(* The steps *)

\* The row a run has just stored is the one the skip check looks for.
LEMMA StoredIsCurrent ==
  ASSUME MediaTyped, medium # "audio", NEW made \in ChunksOfFile, docRow = DocumentOf(made)
  PROVE  /\ docRow # NoDoc /\ docRow.content = mediaFile
         /\ StoredIsFallback \/ SameVersions
         /\ SameEmbedder
<1>1. docRow # NoDoc
  BY DocumentTells, MediaAssumption DEF RowTells
<1>2. /\ docRow.content = mediaFile /\ docRow.embedder = knobs.embedder /\ docRow.chunker = made.chunker
      /\ docRow.parser = IF medium # "shell" /\ made.chunker = Tier3 THEN <<None>> ELSE Composite
  BY DEF DocumentOf
<1>3. build.chunker # Tier3 /\ medium \in {"markdown", "image", "pdf"} \cup CodeMedia
  BY DEF MediaTyped, Media, Tier3
<1> SUFFICES StoredIsFallback \/ SameVersions
  BY <1>1, <1>2 DEF SameEmbedder
<1>4. CASE medium = "image"
  BY <1>2, <1>3, <1>4 DEF ChunksOfFile, ImageChunks, MadeOf, CodeMedia, SameVersions, ChunkerVersion
<1>5. CASE medium = "pdf"
  BY <1>2, <1>3, <1>5 DEF ChunksOfFile, PdfChunks, MadeOf, CodeMedia, SameVersions, ChunkerVersion
<1>6. CASE medium = "markdown"
  BY <1>2, <1>3, <1>6 DEF ChunksOfFile, MarkdownChunks, MadeOf, CodeMedia, SameVersions, ChunkerVersion
<1>7. CASE medium \in CodeMedia
  <2>1. made.chunker = IF ExtractFellBack \/ ChunkFellBack THEN Tier3 ELSE ChunkerVersion
    BY <1>7 DEF ChunksOfFile, CodeChunks, MadeOf, CodeMedia
  <2>2. CASE made.chunker = Tier3 /\ medium # "shell"
    BY <1>2, <1>7, <2>2 DEF StoredIsFallback, CodeMedia
  <2>3. CASE ~(made.chunker = Tier3 /\ medium # "shell")
    BY <1>2, <1>7, <2>1, <2>3 DEF SameVersions, ChunkerVersion, ExtractFellBack, ChunkFellBack
  <2> QED
    BY <2>2, <2>3
<1> QED
  BY <1>3, <1>4, <1>5, <1>6, <1>7

\* What a step that leaves the file, the settings and the program alone keeps.
LEMMA SameMaking ==
  ASSUME UNCHANGED <<medium, mediaFile, knobs, build>>
  PROVE  /\ ChunksOfFile' = ChunksOfFile
         /\ \A made : DocumentOf(made)' = DocumentOf(made)
         /\ Composite' = Composite /\ ChunkerVersion' = ChunkerVersion
         /\ \A d : RowTells(d)' <=> RowTells(d)
<1>1. Composite' = Composite /\ ChunkerVersion' = ChunkerVersion
  BY DEF Composite, BaseVersion, Signature, EngineVersion, OcrActive, ChunkerVersion
<1>2. \A d : RowTells(d)' <=> RowTells(d)
  BY DEF RowTells, TextRow, ImageRow, PdfRow, CodeRow, LostBy, Hollow, BaseOf, Recognized, Captioned
<1>3. \A made : DocumentOf(made)' = DocumentOf(made)
  BY <1>1 DEF DocumentOf
<1>4. ChunksOfFile' = ChunksOfFile
  <2>1. \A p, c, o, t : MadeOf(p, c, o, t)' = MadeOf(p, c, o, t)
    BY DEF MadeOf
  <2>2. ImageChunks' = ImageChunks /\ PdfChunks' = PdfChunks
    BY <2>1 DEF ImageChunks, PdfChunks, OcrOutcomes, CaptionOutcomes, OcrActive
  <2>3. MarkdownChunks' = MarkdownChunks /\ CodeChunks' = CodeChunks
    BY <1>1, <2>1 DEF MarkdownChunks, CodeChunks, Synthesized, ExtractFellBack, ChunkFellBack
  <2> QED
    BY <2>2, <2>3 DEF ChunksOfFile
<1> QED
  BY <1>1, <1>2, <1>3, <1>4

\* A step that leaves those alone and the row with them.
LEMMA SameRow ==
  ASSUME UNCHANGED <<medium, mediaFile, knobs, build, docRow>>
  PROVE  /\ ChunksOfFile' = ChunksOfFile
         /\ RowTells(docRow)' <=> RowTells(docRow)
         /\ StoredIsFallback' <=> StoredIsFallback
         /\ SameVersions' <=> SameVersions
         /\ SameEmbedder' <=> SameEmbedder
BY SameMaking DEF StoredIsFallback, SameVersions, SameEmbedder

LEMMA MediaStart == MediaInit => MediaInv
<1> SUFFICES ASSUME MediaInit PROVE MediaInv
  OBVIOUS
<1>1. MediaTyped
  BY DEF MediaInit, Installed, MediaTyped, OcrEngines, Captions
<1> QED
  BY <1>1 DEF MediaInit, MediaInv, InHand, SettledRow, UnchangedIsFresh

LEMMA MediaStep ==
  ASSUME MediaInv, [MediaNext]_mediaVars
  PROVE  MediaInv'
<1> USE DEF MediaInv
<1>1. ASSUME Turn, mediaFile' \in Files(medium), MediaTyped', UNCHANGED medium
      PROVE  MediaInv'
  <2>1. docRow' # NoDoc => RowTells(docRow)'
    BY <1>1 DEF Turn, RowTells, TextRow, ImageRow, PdfRow, CodeRow, LostBy, Hollow, BaseOf,
                Recognized, Captioned
  <2> QED
    BY <1>1, <2>1 DEF Turn, InHand, SettledRow, UnchangedIsFresh
<1>2. CASE EditMedia
  BY <1>1, <1>2 DEF EditMedia, Turn, MediaTyped
<1>3. CASE ChangeKnob
  <2>1. MediaTyped'
    BY <1>3 DEF ChangeKnob, Turn, MediaTyped, Values, Concern, OcrEngines, Captions
  <2> QED
    BY <1>1, <1>3, <2>1 DEF ChangeKnob, Turn, MediaTyped
<1>4. CASE Upgrade
  <2>1. MediaTyped'
    BY <1>4 DEF Upgrade, Turn, MediaTyped
  <2> QED
    BY <1>1, <1>4, <2>1 DEF Upgrade, Turn, MediaTyped
<1>5. ASSUME NEW force \in BOOLEAN, BeginAsset(force)
      PROVE  MediaInv'
  <2>1. UNCHANGED <<medium, mediaFile, knobs, build, docRow>>
    BY <1>5 DEF BeginAsset
  <2>2. SettledRow'
    BY <1>5, <2>1, SameRow DEF BeginAsset, SettledRow
  <2>3. UnchangedIsFresh'
    <3>1. settled' = (settled /\ ~force) /\ report' = report
      BY <1>5 DEF BeginAsset
    <3>2. /\ knobs.tuning' = knobs.tuning /\ docRow.made' = docRow.made
          /\ (docRow.build # build)' <=> docRow.build # build
          /\ ChunksOfFile' = ChunksOfFile /\ (StoredIsFallback' <=> StoredIsFallback)
      BY <2>1, SameRow
    <3> QED
      BY <3>1, <3>2, Zenon DEF UnchangedIsFresh
  <2> QED
    BY <1>5, <2>1, <2>2, <2>3, SameRow DEF BeginAsset, MediaTyped, InHand
\* A run that ends, keeping the row, whatever it reports.
<1>6. ASSUME NEW kind, ReportAs(kind), UNCHANGED <<medium, mediaFile, knobs, build, docRow>>,
             kind \in {"new", "updated", "unchanged", "skipped"} /\ medium # "audio" =>
               docRow # NoDoc /\ docRow.content = mediaFile
                 /\ (StoredIsFallback \/ SameVersions) /\ SameEmbedder,
             kind = "unchanged" => UpToDate
      PROVE  MediaInv'
  <2>1. MediaTyped' /\ InHand'
    BY <1>6 DEF ReportAs, MediaTyped, InHand
  <2>2. SettledRow'
    BY <1>6, SameRow DEF ReportAs, SettledRow
  <2>3. UnchangedIsFresh'
    <3>1. CASE kind = "unchanged"
      <4>1. docRow # NoDoc /\ RowTells(docRow)
        BY <1>6, <3>1 DEF UpToDate, SameFile
      <4> QED
        BY <1>6, <3>1, <4>1, FreshIsFresh, SameRow DEF UnchangedIsFresh
    <3>2. CASE kind # "unchanged"
      BY <1>6, <3>2 DEF ReportAs, UnchangedIsFresh
    <3> QED
      BY <3>1, <3>2
  <2> QED
    BY <1>6, <2>1, <2>2, <2>3, SameRow
<1>7. CASE SkipUnsupported
  BY <1>6, <1>7 DEF SkipUnsupported
<1>8. CASE SkipFresh
  BY <1>6, <1>8 DEF SkipFresh, UpToDate, SameFile
<1>9. CASE Process
  <2>1. ~settled
    BY <1>9 DEF Process, SettledRow, UpToDate, SameFile
  <2>2. docRow' # NoDoc => docRow' = docRow
    BY <1>9 DEF Process
  <2>3. docRow' # NoDoc => RowTells(docRow)'
    BY <1>9, <2>2, SameRow DEF Process
  <2> QED
    BY <1>9, <2>1, <2>3 DEF Process, MediaTyped, InHand, SettledRow, UnchangedIsFresh
<1>10. CASE Extract
  <2>1. UNCHANGED <<medium, mediaFile, knobs, build, docRow>> /\ ~settled
    BY <1>10 DEF Extract, SettledRow
  <2>2. PICK made \in ChunksOfFile : mediaDoc' = DocumentOf(made)
    BY <1>10 DEF Extract
  <2>3. InHand'
    BY <1>10, <2>1, <2>2, SameMaking DEF Extract, InHand
  <2> QED
    BY <1>10, <2>1, <2>3, SameRow DEF Extract, MediaTyped, SettledRow, UnchangedIsFresh
<1>11. CASE ExtractFails
  BY <1>6, <1>11 DEF ExtractFails
<1>12. CASE StoreRow
  <2>1. UNCHANGED <<medium, mediaFile, knobs, build, mediaDoc>> /\ ~settled /\ docRow' = mediaDoc
    BY <1>12 DEF StoreRow, SettledRow
  <2>2. PICK made \in ChunksOfFile : mediaDoc = DocumentOf(made)
    BY <1>12 DEF StoreRow, InHand
  <2>3. medium # "audio" /\ RowTells(mediaDoc)
    BY <1>12, <2>2, DocumentTells DEF StoreRow, InHand
  <2>4. InHand'
    BY <1>12, <2>1, <2>2, <2>3, SameMaking DEF StoreRow, InHand
  <2>5. RowTells(docRow)'
    BY <2>1, <2>3, SameMaking
  <2> QED
    BY <1>12, <2>1, <2>4, <2>5 DEF StoreRow, MediaTyped, SettledRow, UnchangedIsFresh
<1>13. CASE StoreFails
  BY <1>6, <1>13 DEF StoreFails
<1>14. CASE Finish
  <2>1. PICK made \in ChunksOfFile : docRow = DocumentOf(made) /\ medium # "audio"
    BY <1>14 DEF Finish, InHand
  <2>2. /\ docRow # NoDoc /\ docRow.content = mediaFile
        /\ StoredIsFallback \/ SameVersions
        /\ SameEmbedder
    BY <2>1, StoredIsCurrent
  <2> QED
    BY <1>6, <1>14, <2>2 DEF Finish
<1>15. CASE VectorsFail
  BY <1>6, <1>15 DEF VectorsFail
<1>16. CASE Killed
  BY <1>6, <1>16 DEF Killed
<1>17. CASE UNCHANGED mediaVars
  <2>1. UNCHANGED <<medium, mediaFile, knobs, build, docRow>>
    BY <1>17 DEF mediaVars
  <2>2. InHand'
    BY <1>17, <2>1, SameMaking DEF mediaVars, InHand
  <2> QED
    BY <1>17, <2>1, <2>2, SameRow DEF mediaVars, MediaTyped, SettledRow, UnchangedIsFresh
<1> QED
  BY <1>2, <1>3, <1>4, <1>5, <1>7, <1>8, <1>9, <1>10, <1>11, <1>12, <1>13, <1>14, <1>15, <1>16,
     <1>17 DEF MediaNext

\* The skip check of ingest_one_asset, for files of every medium and any number of
\* contents, edits, changed settings and upgrades: what it leaves alone has the chunks a
\* run would make now, up to what the signature leaves out and what a fallback of an
\* older program stored, and what a run took in well it does not take in again.
THEOREM SkipsAreRight == MediaSpec => []SkipsAreExact
<1>1. MediaInv => SkipsAreExact
  BY DEF MediaInv, SettledRow, SkipsAreExact, SecondRunSkips
<1> QED
  BY MediaStart, MediaStep, <1>1, PTL DEF MediaSpec

-----------------------------------------------------------------------------
(* Settings: what each migration step leaves of the OCR tables *)

\* The names an OCR table has had, and one document's tables by those names in another.
OcrNames == {Image, Pdf, Shared, "image.ocr", "pdf.ocr"}

SameOcr(doc, other) ==
  \A t \in OcrNames :
    /\ (t \in DOMAIN doc) <=> (t \in DOMAIN other)
    /\ t \in DOMAIN other => doc[t] = other[t]

LEMMA MapFacts ==
  ASSUME NEW f, NEW g, NEW x
  PROVE  /\ DOMAIN Overlaid(f, g) = DOMAIN f \cup DOMAIN g
         /\ x \in DOMAIN f => Overlaid(f, g)[x] = f[x]
         /\ x \in DOMAIN g /\ x \notin DOMAIN f => Overlaid(f, g)[x] = g[x]
BY DEF Overlaid

LEMMA NamesAreApart ==
  /\ Image # Pdf /\ Image # Shared /\ Pdf # Shared
  /\ \A t \in OcrNames : t \notin {"workspace", "indexing", "ingest", "chunking", "ingest.chunking",
                                    "image.caption", "ingest.image.caption"}
  /\ OcrTables \subseteq OcrNames /\ Shared \in OcrNames
  /\ "image.ocr" \in OcrNames /\ "pdf.ocr" \in OcrNames
  /\ "image.ocr" \notin {Image, Pdf, Shared, "pdf.ocr"} /\ "pdf.ocr" \notin {Image, Pdf, Shared}
  /\ OcrTables = {Image, Pdf}
BY DEF OcrNames, Image, Pdf, Shared, OcrTables

LEMMA SettingOneTable ==
  ASSUME NEW doc, NEW t, t \notin OcrNames, NEW table
  PROVE  SameOcr(SetTable(doc, t, table), doc) /\ SameOcr(Drop(doc, t), doc)
<1> DEFINE set == SetTable(doc, t, table)
           dropped == Drop(doc, t)
<1>1. /\ DOMAIN set = DOMAIN doc \cup {t} /\ \A x \in DOMAIN doc \ {t} : set[x] = doc[x]
      /\ DOMAIN dropped = DOMAIN doc \ {t} /\ \A x \in DOMAIN doc \ {t} : dropped[x] = doc[x]
  BY DEF SetTable, Drop, Overlaid, Single, Restrict
<1> HIDE DEF set, dropped
<1> QED
  BY <1>1 DEF SameOcr, set, dropped

LEMMA SameIsTransitive ==
  ASSUME NEW a, NEW b, NEW c, SameOcr(a, b), SameOcr(b, c)
  PROVE  SameOcr(a, c)
BY DEF SameOcr

LEMMA SameIsReflexive == \A doc : SameOcr(doc, doc)
BY DEF SameOcr

LEMMA MovingAnotherTable ==
  ASSUME NEW doc, NEW from, NEW to, from \notin OcrNames, to \notin OcrNames
  PROVE  SameOcr(MoveTable(doc, from, to), doc)
<1>1. /\ SameOcr(Drop(doc, from), doc)
      /\ SameOcr(SetTable(Drop(doc, from), to, doc[from]), Drop(doc, from))
  BY SettingOneTable
<1>2. SameOcr(SetTable(Drop(doc, from), to, doc[from]), doc)
  BY <1>1, SameIsTransitive
<1> QED
  BY <1>1, <1>2, SameIsReflexive DEF MoveTable

LEMMA EarlierStepsKeepOcr ==
  ASSUME NEW doc
  PROVE  /\ SameOcr(Step1To2(doc), doc)
         /\ SameOcr(MoveIndexingKeys(doc), doc)
         /\ SameOcr(Step3To4(doc), doc)
<1>1. SameOcr(Step1To2(doc), doc)
  BY SettingOneTable, NamesAreApart, SameIsReflexive DEF Step1To2
<1>2. SameOcr(MoveIndexingKeys(doc), doc)
  <2> DEFINE ingest == Overlaid(Table(doc, "ingest"), doc["indexing"])
  <2>1. /\ SameOcr(Drop(doc, "indexing"), doc)
        /\ SameOcr(SetTable(Drop(doc, "indexing"), "ingest", ingest), Drop(doc, "indexing"))
    BY SettingOneTable, NamesAreApart
  <2>2. SameOcr(SetTable(Drop(doc, "indexing"), "ingest", ingest), doc)
    BY <2>1, SameIsTransitive
  <2> QED
    BY <2>2, SameIsReflexive DEF MoveIndexingKeys
<1>3. SameOcr(Step3To4(doc), doc)
  BY SettingOneTable, NamesAreApart, SameIsReflexive DEF Step3To4
<1> QED
  BY <1>1, <1>2, <1>3

\* Where one medium's table is after version 2's is moved to version 3's place.
LEMMA MovingAnOcrTable ==
  ASSUME NEW doc, NEW old \in {"image.ocr", "pdf.ocr"}, NEW t \in OcrTables
  PROVE  LET moved == MoveTable(doc, old, t)
         IN /\ (t \in DOMAIN moved) <=> (t \in DOMAIN doc \/ old \in DOMAIN doc)
            /\ t \in DOMAIN doc => moved[t] = doc[t]
            /\ t \notin DOMAIN doc /\ old \in DOMAIN doc => moved[t] = doc[old]
            /\ \A x \in OcrNames \ {old, t} :
                 /\ (x \in DOMAIN moved) <=> (x \in DOMAIN doc)
                 /\ x \in DOMAIN doc => moved[x] = doc[x]
<1> DEFINE dropped == Drop(doc, old)
           set == SetTable(dropped, t, doc[old])
<1>1. old # t
  BY NamesAreApart
<1>2. DOMAIN dropped = DOMAIN doc \ {old} /\ \A x \in DOMAIN doc \ {old} : dropped[x] = doc[x]
  BY DEF SetTable, Drop, Overlaid, Single, Restrict
<1>3. /\ DOMAIN set = DOMAIN dropped \cup {t} /\ set[t] = doc[old]
      /\ \A x \in DOMAIN dropped \ {t} : set[x] = dropped[x]
  BY DEF SetTable, Drop, Overlaid, Single, Restrict
<1> HIDE DEF dropped, set
<1>4. MoveTable(doc, old, t) = IF old \notin DOMAIN doc THEN doc
                               ELSE IF t \in DOMAIN doc THEN dropped ELSE set
  BY DEF MoveTable, dropped, set
<1> QED
  BY <1>1, <1>2, <1>3, <1>4

-----------------------------------------------------------------------------
(* Settings: the document before version 5 means what the file means *)

\* A key's value in its medium's own table or, in none, its default.
OwnOrDefault(doc, t, k) == IF k \in Keys(doc, t) THEN doc[t][k] ELSE DefaultOcr(t, k)

\* A document at version 4 in which the media's tables give what the file means.
Faithful(doc, file) ==
  /\ Shared \notin DOMAIN doc
  /\ \A t \in OcrTables, k \in OcrKeys : OwnOrDefault(doc, t, k) = Meaning(file, t, k)

LEMMA FaithfulAsBefore ==
  ASSUME NEW doc, NEW other, NEW file, SameOcr(doc, other), Faithful(other, file)
  PROVE  Faithful(doc, file)
BY NamesAreApart DEF SameOcr, Faithful, OwnOrDefault, Keys

\* What the user wrote, of a file that has no shared block.
LEMMA NotShared ==
  ASSUME NEW file, Shared \notin DOMAIN file.tables
  PROVE  \A k : k \notin Keys(file.tables, Shared)
BY DEF Keys

LEMMA TablesAtVersion3 ==
  ASSUME NEW file, Shared \notin DOMAIN file.tables, ~(SchemaOf(file) < 3)
  PROVE  Faithful(file.tables, file)
BY NotShared DEF Faithful, OwnOrDefault, Meaning, Written, Keys, Table

\* After the tables are moved each medium's is the one its file means.
LEMMA MovedTables ==
  ASSUME NEW file, SchemaOf(file) < 3, NEW doc, SameOcr(doc, file.tables)
  PROVE  LET images == MoveTable(MoveTable(doc, "image.ocr", Image), "image.caption", "ingest.image.caption")
             moved == MoveTable(images, "pdf.ocr", Pdf)
         IN /\ (Shared \in DOMAIN moved) <=> (Shared \in DOMAIN file.tables)
            /\ \A t \in OcrTables :
                 /\ Keys(moved, t) = DOMAIN Written(file, t)
                 /\ \A k \in Keys(moved, t) : moved[t][k] = Written(file, t)[k]
<1> DEFINE image == MoveTable(doc, "image.ocr", Image)
           images == MoveTable(image, "image.caption", "ingest.image.caption")
           moved == MoveTable(images, "pdf.ocr", Pdf)
           tables == file.tables
<1>1. /\ (Image \in DOMAIN image) <=> (Image \in DOMAIN doc \/ "image.ocr" \in DOMAIN doc)
      /\ Image \in DOMAIN doc => image[Image] = doc[Image]
      /\ Image \notin DOMAIN doc /\ "image.ocr" \in DOMAIN doc => image[Image] = doc["image.ocr"]
      /\ \A x \in OcrNames \ {"image.ocr", Image} :
           /\ (x \in DOMAIN image) <=> (x \in DOMAIN doc)
           /\ x \in DOMAIN doc => image[x] = doc[x]
  BY MovingAnOcrTable, NamesAreApart
<1>2. SameOcr(images, image)
  BY MovingAnotherTable, NamesAreApart
<1>3. /\ (Pdf \in DOMAIN moved) <=> (Pdf \in DOMAIN images \/ "pdf.ocr" \in DOMAIN images)
      /\ Pdf \in DOMAIN images => moved[Pdf] = images[Pdf]
      /\ Pdf \notin DOMAIN images /\ "pdf.ocr" \in DOMAIN images => moved[Pdf] = images["pdf.ocr"]
      /\ \A x \in OcrNames \ {"pdf.ocr", Pdf} :
           /\ (x \in DOMAIN moved) <=> (x \in DOMAIN images)
           /\ x \in DOMAIN images => moved[x] = images[x]
  BY MovingAnOcrTable, NamesAreApart
<1> HIDE DEF image, images, moved
<1>4. \A x \in {Image, Pdf, Shared, "pdf.ocr", "image.ocr"} : x \in OcrNames
  BY NamesAreApart
<1>5. /\ (Image \in DOMAIN moved) <=> (Image \in DOMAIN image)
      /\ Image \in DOMAIN image => moved[Image] = image[Image]
      /\ (Shared \in DOMAIN moved) <=> (Shared \in DOMAIN doc)
  BY <1>1, <1>2, <1>3, <1>4, NamesAreApart DEF SameOcr
<1>6. /\ (Pdf \in DOMAIN images) <=> (Pdf \in DOMAIN doc)
      /\ ("pdf.ocr" \in DOMAIN images) <=> ("pdf.ocr" \in DOMAIN doc)
      /\ Pdf \in DOMAIN doc => images[Pdf] = doc[Pdf]
      /\ "pdf.ocr" \in DOMAIN doc => images["pdf.ocr"] = doc["pdf.ocr"]
  BY <1>1, <1>2, <1>4, NamesAreApart DEF SameOcr
<1>7. \A x \in {Image, Pdf, Shared, "pdf.ocr", "image.ocr"} :
         /\ (x \in DOMAIN doc) <=> (x \in DOMAIN tables)
         /\ x \in DOMAIN tables => doc[x] = tables[x]
  BY <1>4 DEF SameOcr
<1>8. /\ (Image \in DOMAIN moved) <=> (Image \in DOMAIN tables \/ "image.ocr" \in DOMAIN tables)
      /\ Image \in DOMAIN tables => moved[Image] = tables[Image]
      /\ Image \notin DOMAIN tables /\ "image.ocr" \in DOMAIN tables => moved[Image] = tables["image.ocr"]
  BY <1>1, <1>5, <1>7
<1>9. /\ (Pdf \in DOMAIN moved) <=> (Pdf \in DOMAIN tables \/ "pdf.ocr" \in DOMAIN tables)
      /\ Pdf \in DOMAIN tables => moved[Pdf] = tables[Pdf]
      /\ Pdf \notin DOMAIN tables /\ "pdf.ocr" \in DOMAIN tables => moved[Pdf] = tables["pdf.ocr"]
  BY <1>3, <1>6, <1>7
<1>10. /\ Keys(moved, Image) = DOMAIN Written(file, Image)
       /\ \A k \in Keys(moved, Image) : moved[Image][k] = Written(file, Image)[k]
  BY <1>8 DEF Written, Keys, Table, tables
<1>11. /\ Keys(moved, Pdf) = DOMAIN Written(file, Pdf)
       /\ \A k \in Keys(moved, Pdf) : moved[Pdf][k] = Written(file, Pdf)[k]
  BY <1>9, NamesAreApart DEF Written, Keys, Table, tables
<1> QED
  BY <1>5, <1>7, <1>10, <1>11, NamesAreApart DEF image, images, moved, tables

\* The paddle keys copied are the ones the PDFs borrowed.
LEMMA CopiedAsBorrowed ==
  ASSUME NEW file, SchemaOf(file) < 3, Shared \notin DOMAIN file.tables,
         NEW doc, Shared \notin DOMAIN doc,
         \A t \in OcrTables :
           /\ Keys(doc, t) = DOMAIN Written(file, t)
           /\ \A k \in Keys(doc, t) : doc[t][k] = Written(file, t)[k]
  PROVE  Faithful(CopyImagePaddleToPdf(doc), file)
<1> DEFINE copied == CopyImagePaddleToPdf(doc)
           borrowed == PaddleKeys \cap Keys(doc, Image)
           borrows == /\ OcrTables \subseteq DOMAIN doc /\ "engine" \in Keys(doc, Pdf)
                      /\ doc[Pdf]["engine"] = "paddle-onnx"
<1>1. \A k : k \notin Keys(file.tables, Shared)
  BY NotShared
<1>2. CASE borrows
  <2>1. copied = SetTable(doc, Pdf, Overlaid(doc[Pdf], Restrict(doc[Image], borrowed)))
    BY <1>2 DEF CopyImagePaddleToPdf
  <2>2. /\ DOMAIN copied = DOMAIN doc \cup {Pdf} /\ copied[Image] = doc[Image]
        /\ copied[Pdf] = Overlaid(doc[Pdf], Restrict(doc[Image], borrowed))
    BY <1>2, <2>1, NamesAreApart DEF SetTable, Overlaid, Single
  <2>3. /\ Keys(copied, Image) = Keys(doc, Image)
        /\ \A k \in Keys(doc, Image) : copied[Image][k] = doc[Image][k]
        /\ Keys(copied, Pdf) = Keys(doc, Pdf) \cup borrowed
        /\ \A k \in Keys(doc, Pdf) : copied[Pdf][k] = doc[Pdf][k]
        /\ \A k \in borrowed \ Keys(doc, Pdf) : copied[Pdf][k] = doc[Image][k]
    BY <1>2, <2>2, NamesAreApart DEF Keys, Overlaid, Restrict
  <2> HIDE DEF copied
  <2>4. \A k \in OcrKeys : OwnOrDefault(copied, Image, k) = Meaning(file, Image, k)
    BY <1>1, <2>3, NamesAreApart DEF OwnOrDefault, Meaning
  <2>5. \A k \in OcrKeys : OwnOrDefault(copied, Pdf, k) = Meaning(file, Pdf, k)
    <3> SUFFICES ASSUME NEW k \in OcrKeys PROVE OwnOrDefault(copied, Pdf, k) = Meaning(file, Pdf, k)
      OBVIOUS
    <3>1. Keys(doc, Pdf) = DOMAIN Written(file, Pdf) /\ Keys(doc, Image) = DOMAIN Written(file, Image)
      BY NamesAreApart
    <3>2. CASE k \in Keys(doc, Pdf)
      BY <2>3, <3>1, <3>2, NamesAreApart DEF OwnOrDefault, Meaning
    <3>3. CASE k \in borrowed \ Keys(doc, Pdf)
      <4>1. OwnOrDefault(copied, Pdf, k) = Written(file, Image)[k]
        BY <2>3, <3>3, NamesAreApart DEF OwnOrDefault
      <4>2. Written(file, Pdf)["engine"] = "paddle-onnx" /\ "engine" \in DOMAIN Written(file, Pdf)
        BY <1>2, <3>1, NamesAreApart
      <4> QED
        BY <3>1, <3>3, <4>1, <4>2 DEF Meaning
    <3>4. CASE k \notin borrowed /\ k \notin Keys(doc, Pdf)
      BY <1>1, <2>3, <3>1, <3>4 DEF OwnOrDefault, Meaning
    <3> QED
      BY <3>2, <3>3, <3>4
  <2> QED
    BY <2>2, <2>4, <2>5, NamesAreApart DEF Faithful, copied
<1>3. CASE ~borrows
  <2>1. copied = doc
    BY <1>3 DEF CopyImagePaddleToPdf
  <2> HIDE DEF copied
  <2>2. /\ Keys(doc, Pdf) = DOMAIN Written(file, Pdf) /\ Keys(doc, Image) = DOMAIN Written(file, Image)
        /\ \A k \in Keys(doc, Pdf) : doc[Pdf][k] = Written(file, Pdf)[k]
        /\ \A k \in Keys(doc, Image) : doc[Image][k] = Written(file, Image)[k]
    BY NamesAreApart
  <2>3. \A k : k \in DOMAIN Written(file, Image) /\ "engine" \in DOMAIN Written(file, Pdf)
                 => Written(file, Pdf)["engine"] # "paddle-onnx"
    <3>1. (\E k : k \in Keys(doc, Image)) /\ "engine" \in Keys(doc, Pdf) => OcrTables \subseteq DOMAIN doc
      BY NamesAreApart DEF Keys
    <3> QED
      BY <1>3, <2>2, <3>1
  <2>4. \A k \in OcrKeys : OwnOrDefault(doc, Image, k) = Meaning(file, Image, k)
    BY <1>1, <2>2, NamesAreApart DEF OwnOrDefault, Meaning
  <2>5. \A k \in OcrKeys : OwnOrDefault(doc, Pdf, k) = Meaning(file, Pdf, k)
    BY <1>1, <2>2, <2>3 DEF OwnOrDefault, Meaning
  <2> QED
    BY <2>1, <2>4, <2>5, NamesAreApart DEF Faithful, copied
<1> QED
  BY <1>2, <1>3

\* The document the steps up to version 4 leave gives each medium what the file means.
LEMMA StepsAreFaithful ==
  ASSUME NEW file, Shared \notin DOMAIN file.tables, SchemaOf(file) \in Nat
  PROVE  LET v == SchemaOf(file)
             doc2 == IF v < 2 THEN Step1To2(file.tables) ELSE file.tables
             doc3 == IF v < 3 THEN Step2To3(doc2) ELSE doc2
         IN Faithful(IF v < 4 THEN Step3To4(doc3) ELSE doc3, file)
<1> DEFINE v == SchemaOf(file)
           doc2 == IF v < 2 THEN Step1To2(file.tables) ELSE file.tables
           doc3 == IF v < 3 THEN Step2To3(doc2) ELSE doc2
<1>1. SameOcr(doc2, file.tables)
  BY EarlierStepsKeepOcr, SameIsReflexive
<1> HIDE DEF doc2
<1>2. Faithful(doc3, file)
  <2>1. CASE v < 3
    <3> DEFINE chunked == MoveTable(MoveIndexingKeys(doc2), "chunking", "ingest.chunking")
               images == MoveTable(MoveTable(chunked, "image.ocr", Image), "image.caption", "ingest.image.caption")
               moved == MoveTable(images, "pdf.ocr", Pdf)
    <3>1. SameOcr(MoveIndexingKeys(doc2), doc2)
      BY EarlierStepsKeepOcr
    <3>2. SameOcr(chunked, MoveIndexingKeys(doc2))
      BY MovingAnotherTable, NamesAreApart
    <3>3. SameOcr(chunked, file.tables)
      BY <1>1, <3>1, <3>2, SameIsTransitive
    <3>4. /\ Shared \notin DOMAIN moved
          /\ \A t \in OcrTables :
               /\ Keys(moved, t) = DOMAIN Written(file, t)
               /\ \A k \in Keys(moved, t) : moved[t][k] = Written(file, t)[k]
      <4> HIDE DEF chunked
      <4> QED
        BY <2>1, <3>3, MovedTables
    <3> HIDE DEF moved
    <3>5. Faithful(CopyImagePaddleToPdf(moved), file)
      BY <2>1, <3>4, CopiedAsBorrowed
    <3> QED
      BY <2>1, <3>5 DEF Step2To3, moved
  <2>2. CASE ~(v < 3)
    <3>1. doc3 = file.tables
      BY <2>2 DEF doc2
    <3>2. Faithful(file.tables, file)
      BY <2>2, TablesAtVersion3
    <3> QED
      BY <3>1, <3>2
  <2> QED
    BY <2>1, <2>2
<1> HIDE DEF doc3
<1>3. Faithful(Step3To4(doc3), file)
  BY <1>2, EarlierStepsKeepOcr, FaithfulAsBefore
<1> QED
  BY <1>2, <1>3 DEF doc2, doc3

-----------------------------------------------------------------------------
(* Settings: the shared block, the defaults and what is loaded *)

\* The defaults: what an OCR table of the default document has, and its values.
DefaultKeys(t) ==
  CASE t = Image -> {"enabled"}
    [] t = Pdf -> {"engine", "model", "score_thresh", "enabled"}
    [] OTHER -> {"engine", "model", "score_thresh"}

LEMMA DefaultsOfOcr ==
  /\ \A t \in {Image, Pdf, Shared} : Keys(DefaultDocument, t) = DefaultKeys(t)
  /\ \A t \in OcrTables : \A k \in DefaultKeys(t) : DefaultDocument[t][k] = DefaultOcr(t, k)
  /\ \A k \in DefaultKeys(Shared) : DefaultDocument[Shared][k] = DefaultOcr(Image, k)
<1> DEFINE plain == [t \in DefaultTables |-> DefaultTable(t)]
           shared == {"engine", "model", "score_thresh"}
           own == shared \cup {"enabled"}
<1>1. /\ Image \in DOMAIN plain /\ Pdf \in DOMAIN plain /\ Shared \notin DOMAIN plain
      /\ plain[Image] = DefaultTable(Image) /\ plain[Pdf] = DefaultTable(Pdf)
  BY DEF DefaultTables, OcrTables, Image, Pdf, Shared
<1>2. OcrKeys \ OptionKeys = own
  BY DEF OcrKeys, EngineKeys, OptionKeys
<1>3. \A t \in OcrTables : DefaultTable(t) = [k \in own |-> DefaultOcr(t, k)]
  BY <1>2 DEF DefaultTable, OcrTables, Image, Pdf
<1>4. /\ plain[Image] = [k \in own |-> DefaultOcr(Image, k)]
      /\ plain[Pdf] = [k \in own |-> DefaultOcr(Pdf, k)]
  BY <1>1, <1>3, NamesAreApart
<1> HIDE DEF plain
<1>5. Keys(plain, Image) = own /\ Keys(plain, Pdf) = own /\ Keys(plain, Shared) = {}
  BY <1>1, <1>4 DEF Keys
<1>6. Hoisted(plain) = shared
  BY <1>5 DEF Hoisted, EngineKeys, OptionKeys
<1> DEFINE image == Restrict(plain[Image], DOMAIN plain[Image] \ shared)
           rest == SetTable(plain, Image, image)
           block == Overlaid(Table(plain, Shared), Restrict(plain[Image], shared))
<1>7. Hoisted(plain) # {}
  BY <1>6
<1>8. DefaultDocument = SetTable(rest, Shared, block)
  BY <1>6, <1>7 DEF DefaultDocument, Step4To5, plain
<1>9. /\ DOMAIN rest = DOMAIN plain \cup {Image} /\ rest[Image] = image /\ rest[Pdf] = plain[Pdf]
  BY <1>1, NamesAreApart DEF SetTable, Overlaid, Single
<1>10. DOMAIN image = {"enabled"} /\ image["enabled"] = DefaultOcr(Image, "enabled")
  BY <1>4 DEF Restrict
<1>11. DOMAIN block = shared /\ \A k \in shared : block[k] = DefaultOcr(Image, k)
  BY <1>4, <1>5 DEF Restrict, Overlaid, Table
<1> HIDE DEF image, rest, block
<1>12. /\ Image \in DOMAIN DefaultDocument /\ DefaultDocument[Image] = image
       /\ Pdf \in DOMAIN DefaultDocument /\ DefaultDocument[Pdf] = plain[Pdf]
       /\ Shared \in DOMAIN DefaultDocument /\ DefaultDocument[Shared] = block
  BY <1>1, <1>8, <1>9, NamesAreApart DEF SetTable, Overlaid, Single
<1>13. Keys(DefaultDocument, Image) = {"enabled"} /\ Keys(DefaultDocument, Pdf) = own
       /\ Keys(DefaultDocument, Shared) = shared
  BY <1>4, <1>10, <1>11, <1>12 DEF Keys
<1>14. DefaultKeys(Image) = {"enabled"} /\ DefaultKeys(Pdf) = own /\ DefaultKeys(Shared) = shared
  BY NamesAreApart DEF DefaultKeys
<1>15. \A k \in own : DefaultDocument[Pdf][k] = DefaultOcr(Pdf, k)
  BY <1>4, <1>12
<1> QED
  BY <1>10, <1>11, <1>12, <1>13, <1>14, <1>15, NamesAreApart

\* A key of a reconciled table: the document's own, or the default's.
LEMMA Reconciled ==
  ASSUME NEW doc, NEW t \in {Image, Pdf, Shared}
  PROVE  LET all == Reconcile(DefaultDocument, doc)
         IN /\ Keys(all, t) = Keys(doc, t) \cup DefaultKeys(t)
            /\ \A k \in Keys(doc, t) : all[t][k] = doc[t][k]
            /\ \A k \in DefaultKeys(t) \ Keys(doc, t) : all[t][k] = DefaultDocument[t][k]
<1> DEFINE all == Reconcile(DefaultDocument, doc)
           ref == DefaultDocument
<1>1. Keys(ref, t) = DefaultKeys(t)
  BY DefaultsOfOcr
<1>2. DOMAIN all = DOMAIN ref \cup DOMAIN doc
      /\ \A x \in DOMAIN all : all[x] = Overlaid(Table(doc, x), Table(ref, x))
  BY DEF Reconcile
<1> HIDE DEF all, ref
<1>3. t \in DOMAIN ref
  <2>1. DefaultKeys(t) # {}
    BY DEF DefaultKeys
  <2> QED
    BY <1>1, <2>1 DEF Keys
<1>4. t \in DOMAIN all /\ all[t] = Overlaid(Table(doc, t), Table(ref, t))
  BY <1>2, <1>3
<1> QED
  BY <1>1, <1>4 DEF Keys, Table, Overlaid, all, ref

\* The value of a key after the shared block is resolved over the defaults.
LEMMA ResolvedOverDefaults ==
  ASSUME NEW doc, NEW t \in OcrTables, NEW k \in OcrKeys
  PROVE  ResolveOcr(Reconcile(DefaultDocument, doc))[t][k] =
           IF k \in Keys(doc, t) THEN doc[t][k]
           ELSE IF k \in DefaultKeys(t) THEN DefaultOcr(t, k)
           ELSE IF k \in Keys(doc, Shared) THEN doc[Shared][k]
           ELSE DefaultOcr(t, k)
<1> DEFINE all == Reconcile(DefaultDocument, doc)
<1>1. /\ Keys(all, t) = Keys(doc, t) \cup DefaultKeys(t)
      /\ \A x \in Keys(doc, t) : all[t][x] = doc[t][x]
      /\ \A x \in DefaultKeys(t) \ Keys(doc, t) : all[t][x] = DefaultDocument[t][x]
  BY Reconciled, NamesAreApart
<1>2. /\ Keys(all, Shared) = Keys(doc, Shared) \cup DefaultKeys(Shared)
      /\ \A x \in Keys(doc, Shared) : all[Shared][x] = doc[Shared][x]
      /\ \A x \in DefaultKeys(Shared) \ Keys(doc, Shared) : all[Shared][x] = DefaultDocument[Shared][x]
  BY Reconciled
<1> HIDE DEF all
<1>3. ResolveOcr(all)[t][k] =
        IF k \in Keys(all, t) THEN all[t][k]
        ELSE IF k \in Keys(all, Shared) THEN all[Shared][k] ELSE DefaultOcr(t, k)
  BY DEF ResolveOcr
<1>4. DefaultKeys(Shared) \subseteq DefaultKeys(Pdf)
  BY NamesAreApart DEF DefaultKeys
<1>5. k \in DefaultKeys(Shared) /\ k \notin DefaultKeys(t) => t = Image
  BY <1>4, NamesAreApart
<1> QED
  BY <1>1, <1>2, <1>3, <1>5, DefaultsOfOcr DEF all

\* Hoisting the image's keys changes no setting of either medium.
LEMMA HoistingKeepsMeaning ==
  ASSUME NEW file, NEW doc, Faithful(doc, file), NEW t \in OcrTables, NEW k \in OcrKeys
  PROVE  ResolveOcr(Reconcile(DefaultDocument, Step4To5(doc)))[t][k] = Meaning(file, t, k)
<1> DEFINE hoisted == Step4To5(doc)
<1>1. Keys(doc, Shared) = {} /\ OwnOrDefault(doc, t, k) = Meaning(file, t, k)
  BY DEF Faithful, Keys
<1>2. DefaultKeys(Image) = {"enabled"} /\ DefaultKeys(Pdf) = {"engine", "model", "score_thresh", "enabled"}
  BY NamesAreApart DEF DefaultKeys
<1>3. CASE Hoisted(doc) = {}
  BY <1>1, <1>3, ResolvedOverDefaults DEF Step4To5, OwnOrDefault
<1>4. CASE Hoisted(doc) # {}
  <2> DEFINE image == Restrict(doc[Image], DOMAIN doc[Image] \ Hoisted(doc))
             rest == SetTable(doc, Image, image)
             block == Overlaid(Table(doc, Shared), Restrict(doc[Image], Hoisted(doc)))
  <2>1. hoisted = SetTable(rest, Shared, block)
    BY <1>4 DEF Step4To5
  <2>2. DOMAIN rest = DOMAIN doc \cup {Image} /\ rest[Image] = image
        /\ (Pdf \in DOMAIN doc => rest[Pdf] = doc[Pdf])
    BY NamesAreApart DEF SetTable, Overlaid, Single
  <2>3. DOMAIN image = DOMAIN doc[Image] \ Hoisted(doc) /\ \A x \in DOMAIN image : image[x] = doc[Image][x]
    BY DEF Restrict
  <2>4. DOMAIN block = Hoisted(doc) /\ \A x \in Hoisted(doc) : block[x] = doc[Image][x]
    BY <1>1 DEF Overlaid, Restrict, Table
  <2>5. Image \in DOMAIN doc /\ Hoisted(doc) \subseteq Keys(doc, Image) /\ Keys(doc, Image) = DOMAIN doc[Image]
    BY <1>4 DEF Hoisted, Keys
  <2> HIDE DEF rest, image, block
  <2>6. /\ DOMAIN hoisted = DOMAIN rest \cup {Shared} /\ hoisted[Shared] = block
        /\ \A x \in DOMAIN rest \ {Shared} : hoisted[x] = rest[x]
    BY <2>1 DEF SetTable, Overlaid, Single
  <2> HIDE DEF hoisted
  <2>7. /\ Keys(hoisted, Image) = Keys(doc, Image) \ Hoisted(doc)
        /\ \A x \in Keys(doc, Image) \ Hoisted(doc) : hoisted[Image][x] = doc[Image][x]
    BY <2>2, <2>3, <2>5, <2>6, NamesAreApart DEF Keys
  <2>8. /\ Keys(hoisted, Pdf) = Keys(doc, Pdf)
        /\ \A x \in Keys(doc, Pdf) : hoisted[Pdf][x] = doc[Pdf][x]
    BY <2>2, <2>6, NamesAreApart DEF Keys
  <2>9. /\ Keys(hoisted, Shared) = Hoisted(doc)
        /\ \A x \in Hoisted(doc) : hoisted[Shared][x] = doc[Image][x]
    BY <2>4, <2>6 DEF Keys
  <2>10. /\ "enabled" \notin Hoisted(doc)
         /\ \A x \in OcrKeys : x \in Hoisted(doc) /\ x \notin DefaultKeys(Pdf) => x \in Keys(doc, Pdf)
    BY <1>2 DEF Hoisted, EngineKeys, OptionKeys, OcrKeys
  <2>11. ResolveOcr(Reconcile(DefaultDocument, hoisted))[t][k] =
           IF k \in Keys(hoisted, t) THEN hoisted[t][k]
           ELSE IF k \in DefaultKeys(t) THEN DefaultOcr(t, k)
           ELSE IF k \in Keys(hoisted, Shared) THEN hoisted[Shared][k]
           ELSE DefaultOcr(t, k)
    BY ResolvedOverDefaults
  <2>12. CASE t = Image
    <3>1. ResolveOcr(Reconcile(DefaultDocument, hoisted))[t][k] = OwnOrDefault(doc, t, k)
      BY <1>2, <2>5, <2>7, <2>9, <2>10, <2>11, <2>12 DEF OwnOrDefault
    <3> QED
      BY <1>1, <3>1 DEF hoisted
  <2>13. CASE t = Pdf
    <3>1. ResolveOcr(Reconcile(DefaultDocument, hoisted))[t][k] = OwnOrDefault(doc, t, k)
      BY <2>8, <2>9, <2>10, <2>11, <2>13 DEF OwnOrDefault
    <3> QED
      BY <1>1, <3>1 DEF hoisted
  <2> QED
    BY <2>12, <2>13, NamesAreApart
<1> QED
  BY <1>3, <1>4

\* What a file's OCR settings are loaded as: its tables, or its migrated ones.
LEMMA SchemaIsKnown ==
  ASSUME NEW file \in ConfigFiles
  PROVE  /\ SchemaOf(file) \in 1 .. CurrentSchema
         /\ SchemaOf(file) < CurrentSchema => Shared \notin DOMAIN file.tables
         /\ RunSteps(file) = IF SchemaOf(file) < 5
                             THEN LET v == SchemaOf(file)
                                      doc2 == IF v < 2 THEN Step1To2(file.tables) ELSE file.tables
                                      doc3 == IF v < 3 THEN Step2To3(doc2) ELSE doc2
                                  IN Step4To5(IF v < 4 THEN Step3To4(doc3) ELSE doc3)
                             ELSE file.tables
<1>1. file.version \in 0 .. 5 /\ (Shared \in DOMAIN file.tables => file.version = 5)
  BY ConfigAssumption DEF CurrentSchema
<1>2. SchemaOf(file) \in 1 .. 5 /\ (SchemaOf(file) = 5 <=> file.version = 5)
  BY <1>1 DEF SchemaOf
<1> HIDE DEF SchemaOf
<1>3. SchemaOf(file) >= 5 => ~(SchemaOf(file) < 2) /\ ~(SchemaOf(file) < 3) /\ ~(SchemaOf(file) < 4)
  BY <1>2
<1> QED
  BY <1>1, <1>2, <1>3 DEF CurrentSchema, RunSteps

LEMMA OldFilesResolve ==
  ASSUME NEW file \in ConfigFiles, SchemaOf(file) < 5, NEW t \in OcrTables, NEW k \in OcrKeys
  PROVE  ResolveOcr(Reconcile(DefaultDocument, RunSteps(file)))[t][k] = Meaning(file, t, k)
<1> DEFINE v == SchemaOf(file)
           doc2 == IF v < 2 THEN Step1To2(file.tables) ELSE file.tables
           doc3 == IF v < 3 THEN Step2To3(doc2) ELSE doc2
           doc4 == IF v < 4 THEN Step3To4(doc3) ELSE doc3
<1>1. /\ Shared \notin DOMAIN file.tables /\ SchemaOf(file) \in Nat
      /\ RunSteps(file) = Step4To5(doc4)
  BY SchemaIsKnown DEF CurrentSchema
<1>2. Faithful(doc4, file)
  BY <1>1, StepsAreFaithful
<1> HIDE DEF doc4
<1>3. ResolveOcr(Reconcile(DefaultDocument, Step4To5(doc4)))[t][k] = Meaning(file, t, k)
  BY <1>2, HoistingKeepsMeaning
<1> QED
  BY <1>1, <1>3

LEMMA CurrentFilesResolve ==
  ASSUME NEW file \in ConfigFiles, ~(SchemaOf(file) < 5), NEW t \in OcrTables, NEW k \in OcrKeys
  PROVE  /\ ResolveOcr(file.tables)[t][k] = Meaning(file, t, k)
         /\ ~SharedReachesDefaults(file) =>
              ResolveOcr(Reconcile(DefaultDocument, RunSteps(file)))[t][k] = Meaning(file, t, k)
<1> DEFINE doc == file.tables
<1>1. SchemaOf(file) \in Nat /\ ~(SchemaOf(file) < 3) /\ RunSteps(file) = doc
  BY SchemaIsKnown DEF CurrentSchema
<1>2. Meaning(file, t, k) = IF k \in Keys(doc, t) THEN doc[t][k]
                            ELSE IF k \in Keys(doc, Shared) THEN doc[Shared][k] ELSE DefaultOcr(t, k)
  BY <1>1 DEF Meaning, Written, Table
<1>3. ASSUME ~SharedReachesDefaults(file)
      PROVE  ResolveOcr(Reconcile(DefaultDocument, doc))[t][k] = Meaning(file, t, k)
  <2>1. k \in DefaultKeys(t) /\ k \notin Keys(doc, t) => k \notin Keys(doc, Shared)
    BY <1>3, NamesAreApart DEF SharedReachesDefaults, DefaultKeys, OptionKeys
  <2>2. ResolveOcr(Reconcile(DefaultDocument, doc))[t][k] =
          IF k \in Keys(doc, t) THEN doc[t][k]
          ELSE IF k \in DefaultKeys(t) THEN DefaultOcr(t, k)
          ELSE IF k \in Keys(doc, Shared) THEN doc[Shared][k]
          ELSE DefaultOcr(t, k)
    BY ResolvedOverDefaults
  <2> QED
    BY <1>2, <2>1, <2>2
<1>4. ResolveOcr(doc)[t][k] = Meaning(file, t, k)
  BY <1>2 DEF ResolveOcr
<1> QED
  BY <1>1, <1>3, <1>4

\* Migrating what was migrated records nothing.
LEMMA MigratingTwice ==
  ASSUME NEW file, file # Unparsable
  PROVE  /\ MigrateDocument(file).file.version = CurrentSchema
         /\ MigrateDocument(file).file.tables = Reconcile(DefaultDocument, RunSteps(file))
         /\ ~MigrateDocument(MigrateDocument(file).file).changed
<1> DEFINE once == MigrateDocument(file).file
           doc == Reconcile(DefaultDocument, RunSteps(file))
           ref == DefaultDocument
           again == Reconcile(ref, once.tables)
<1>1. once = [version |-> CurrentSchema, tables |-> doc]
  BY DEF MigrateDocument
<1>2. once.version = 5 /\ once.tables = doc
  BY <1>1 DEF CurrentSchema
<1>3. DOMAIN ref \subseteq DOMAIN doc /\ \A t \in DOMAIN ref : Keys(ref, t) \subseteq DOMAIN doc[t]
  BY DEF Reconcile, Overlaid, Table
<1> HIDE DEF doc, once, ref
<1>4. SchemaOf(once) = 5 /\ RunSteps(once) = doc
  BY <1>2 DEF SchemaOf, RunSteps
<1>5. DOMAIN again = DOMAIN doc
  BY <1>2, <1>3 DEF Reconcile
<1>6. \A t \in DOMAIN again : DOMAIN again[t] = DOMAIN doc[t]
  <2>1. \A t \in DOMAIN again : DOMAIN again[t] = Keys(doc, t) \cup Keys(ref, t)
    BY <1>2 DEF Reconcile, Overlaid, Table
  <2> QED
    BY <1>3, <1>5, <2>1 DEF Keys
<1> HIDE DEF again
<1>7. ~Recorded(once, again)
  BY <1>2, <1>4, <1>5, <1>6 DEF Recorded, Keys
<1>8. CASE once = Unparsable
  BY <1>2, <1>8 DEF MigrateDocument, once, doc, CurrentSchema
<1>9. CASE once # Unparsable
  BY <1>2, <1>4, <1>7, <1>9 DEF MigrateDocument, once, doc, again, ref, CurrentSchema
<1> QED
  BY <1>8, <1>9

\* What loading a file of the user's, or its migration, gives.
LEMMA LoadsAsMeant ==
  ASSUME NEW file \in ConfigFiles, file # Unparsable, NEW disk, FromFile(disk).valid,
         disk = file \/ (disk = MigrateDocument(file).file /\ ~SharedReachesDefaults(file)),
         NEW t \in OcrTables, NEW k \in OcrKeys
  PROVE  FromFile(disk).ocr[t][k] = Meaning(file, t, k)
<1> DEFINE tables == IF SchemaOf(disk) < CurrentSchema THEN MigrateDocument(disk).file.tables ELSE disk.tables
<1>1. disk # Unparsable
  BY DEF FromFile, Invalid
<1>2. FromFile(disk).ocr = ResolveOcr(tables)
  BY <1>1 DEF FromFile, Invalid
<1>3. CASE disk = file /\ SchemaOf(file) < 5
  BY <1>1, <1>2, <1>3, MigratingTwice, OldFilesResolve DEF CurrentSchema
<1>4. CASE disk = file /\ ~(SchemaOf(file) < 5)
  BY <1>2, <1>4, CurrentFilesResolve DEF CurrentSchema
<1>5. CASE disk = MigrateDocument(file).file /\ ~SharedReachesDefaults(file)
  <2>1. disk.version = 5 /\ disk.tables = Reconcile(DefaultDocument, RunSteps(file))
    BY <1>5, MigratingTwice DEF CurrentSchema
  <2>2. SchemaOf(disk) = 5
    BY <2>1 DEF SchemaOf
  <2>3. tables = disk.tables
    BY <2>2 DEF CurrentSchema
  <2>4. ResolveOcr(Reconcile(DefaultDocument, RunSteps(file)))[t][k] = Meaning(file, t, k)
    BY <1>5, OldFilesResolve, CurrentFilesResolve
  <2> QED
    BY <1>2, <2>1, <2>3, <2>4
<1> QED
  BY <1>3, <1>4, <1>5

\* The environment changes an engine or a switch, and only with a name in it.
LEMMA EnvironmentChanges ==
  ASSUME NEW disk, NEW env, NEW t \in OcrTables, NEW k \in OcrKeys
  PROVE  LET loaded == ApplyEnv(FromFile(disk), env)
         IN /\ loaded.valid <=> FromFile(disk).valid
            /\ loaded.valid => \/ loaded.ocr[t][k] = FromFile(disk).ocr[t][k]
                               \/ k \in {"engine", "enabled"} /\ DOMAIN env # {}
<1> DEFINE file == FromFile(disk)
           loaded == ApplyEnv(file, env)
           Given(name, value) == IF name \in DOMAIN env THEN env[name] ELSE value
           switch == IF t = Image THEN "KEBAB_IMAGE_OCR_ENABLED" ELSE "KEBAB_PDF_OCR_ENABLED"
           tables == IF SchemaOf(disk) < CurrentSchema THEN MigrateDocument(disk).file.tables ELSE disk.tables
           chunking == Overlaid(Table(tables, "ingest.chunking"), DefaultChunking)
           table == [[file.ocr[t] EXCEPT !["engine"] = Given("KEBAB_OCR_ENGINE", file.ocr[t]["engine"])]
                       EXCEPT !["enabled"] = Given(switch, file.ocr[t]["enabled"])]
<1>1. CASE ~file.valid
  BY <1>1 DEF ApplyEnv
<1>2. CASE file.valid
  <2>1. file = [valid |-> TRUE, ocr |-> ResolveOcr(tables), sources |-> ResolvedSources(tables),
                chunking |-> chunking]
    BY <1>2 DEF FromFile, Invalid
  <2>2. DOMAIN file.ocr[t] = OcrKeys
    BY <2>1 DEF ResolveOcr
  <2> HIDE DEF file, tables, chunking
  <2>3. loaded.valid = TRUE /\ loaded.ocr[t] = table
    BY <1>2, <2>1 DEF ApplyEnv
  <2>4. table[k] = file.ocr[t][k] \/ (k \in {"engine", "enabled"} /\ DOMAIN env # {})
    BY <2>2
  <2> QED
    BY <1>2, <2>3, <2>4 DEF file
<1> QED
  BY <1>1, <1>2

-----------------------------------------------------------------------------
(* Settings: migrations, kills and loads *)

\* A migration under way works from the user's own file, and keeps it before it replaces it.
MigrationUnderWay ==
  /\ migration \in {"none", "backup", "write", "rename"}
  /\ migration # "none" => configFile = original /\ outcome = MigrateDocument(original).file
  /\ migration \in {"write", "rename"} => backup = original
  /\ migration = "rename" => tmpFile = outcome

ConfigInv ==
  /\ original \in ConfigFiles \cup {Unparsable}
  /\ MigrationUnderWay
  /\ OriginalIsKept
  /\ SettingsSurvive

LEMMA UnparsableStays ==
  /\ MigrateDocument(Unparsable).file = Unparsable /\ ~MigrateDocument(Unparsable).changed
  /\ ~FromFile(Unparsable).valid
BY DEF MigrateDocument, FromFile, Invalid

LEMMA ConfigBegins == ConfigInit => ConfigInv
BY DEF ConfigInit, ConfigInv, MigrationUnderWay, OriginalIsKept, SettingsSurvive, NotLoaded

LEMMA SettingsStand ==
  ASSUME SettingsSurvive, UNCHANGED <<settings, environment, original>>,
         configFile = original \/ configFile' = configFile
  PROVE  SettingsSurvive'
BY DEF SettingsSurvive

LEMMA LoadKeepsSettings ==
  ASSUME ConfigInv, LoadConfig
  PROVE  SettingsSurvive'
<1>1. PICK env \in Environments :
        /\ settings' = ApplyEnv(FromFile(configFile), env) /\ environment' = env
        /\ UNCHANGED <<configFile, original>>
  BY DEF LoadConfig
<1> SUFFICES ASSUME settings'.valid, configFile = original \/ ~SharedReachesDefaults(original),
                    NEW t \in OcrTables, NEW k \in OcrKeys
             PROVE  \/ settings'.ocr[t][k] = Meaning(original, t, k)
                    \/ k \in {"engine", "enabled"} /\ DOMAIN environment' # {}
  BY <1>1 DEF SettingsSurvive
<1>2. /\ FromFile(configFile).valid
      /\ \/ settings'.ocr[t][k] = FromFile(configFile).ocr[t][k]
         \/ k \in {"engine", "enabled"} /\ DOMAIN env # {}
  BY <1>1, EnvironmentChanges
<1>3. original # Unparsable /\ original \in ConfigFiles
  BY <1>2, UnparsableStays DEF ConfigInv, OriginalIsKept
<1>4. FromFile(configFile).ocr[t][k] = Meaning(original, t, k)
  BY <1>2, <1>3, LoadsAsMeant DEF ConfigInv, OriginalIsKept
<1> QED
  BY <1>1, <1>2, <1>4

LEMMA ConfigSteps == ConfigInv /\ [ConfigNext]_configVars => ConfigInv'
<1> SUFFICES ASSUME ConfigInv, [ConfigNext]_configVars PROVE ConfigInv'
  OBVIOUS
<1>1. original' = original
  BY DEF ConfigNext, MigrateRead, MigrateBackup, MigrateWrite, MigrateRename, MigrateKilled, LoadConfig, configVars
<1>2. CASE MigrateRead
  <2>1. configFile = original
    BY <1>2, MigratingTwice, UnparsableStays DEF MigrateRead, ConfigInv, OriginalIsKept
  <2>2. MigrationUnderWay' /\ OriginalIsKept'
    BY <1>2, <2>1 DEF MigrateRead, MigrationUnderWay, OriginalIsKept
  <2> QED
    BY <1>1, <1>2, <2>2, SettingsStand DEF MigrateRead, ConfigInv
<1>3. CASE MigrateBackup
  <2>1. MigrationUnderWay' /\ OriginalIsKept'
    BY <1>3 DEF MigrateBackup, ConfigInv, MigrationUnderWay, OriginalIsKept
  <2> QED
    BY <1>1, <1>3, <2>1, SettingsStand DEF MigrateBackup, ConfigInv
<1>4. CASE MigrateWrite
  <2>1. MigrationUnderWay' /\ OriginalIsKept'
    BY <1>4 DEF MigrateWrite, ConfigInv, MigrationUnderWay, OriginalIsKept
  <2> QED
    BY <1>1, <1>4, <2>1, SettingsStand DEF MigrateWrite, ConfigInv
<1>5. CASE MigrateRename
  <2>1. MigrationUnderWay' /\ OriginalIsKept'
    BY <1>5 DEF MigrateRename, ConfigInv, MigrationUnderWay, OriginalIsKept
  <2>2. configFile = original
    BY <1>5 DEF MigrateRename, ConfigInv, MigrationUnderWay
  <2> QED
    BY <1>1, <1>5, <2>1, <2>2, SettingsStand DEF MigrateRename, ConfigInv
<1>6. CASE MigrateKilled
  <2>1. MigrationUnderWay' /\ OriginalIsKept'
    BY <1>6 DEF MigrateKilled, ConfigInv, MigrationUnderWay, OriginalIsKept
  <2> QED
    BY <1>1, <1>6, <2>1, SettingsStand DEF MigrateKilled, ConfigInv
<1>7. CASE LoadConfig
  <2>1. MigrationUnderWay' /\ OriginalIsKept'
    BY <1>7 DEF LoadConfig, ConfigInv, MigrationUnderWay, OriginalIsKept
  <2> QED
    BY <1>1, <1>7, <2>1, LoadKeepsSettings DEF ConfigInv
<1>8. CASE UNCHANGED configVars
  BY <1>8 DEF configVars, ConfigInv, MigrationUnderWay, OriginalIsKept, SettingsSurvive
<1> QED
  BY <1>2, <1>3, <1>4, <1>5, <1>6, <1>7, <1>8 DEF ConfigNext

\* kebab config migrate and Config::load, whatever the user's file has in its tables and
\* whichever version it is: no chain of migrations, kills and loads changes what the file says
\* of OCR, and before the migrated file replaces the user's, that one is in the backup and
\* stays there.  (Files: a known version, and the shared block only in the current one.)
THEOREM MigrationAlwaysKeepsSettings == ConfigSpec => []MigrationKeepsSettings
<1>1. ConfigInv => MigrationKeepsSettings
  BY DEF ConfigInv, MigrationKeepsSettings
<1> QED
  BY ConfigBegins, ConfigSteps, <1>1, PTL DEF ConfigSpec


-----------------------------------------------------------------------------
(* Chunks: what a walk over a list computes *)

\* The states g of a walk over s by the steps of a table.
Walks(g, step, base, s) ==
  g = [i \in 0 .. Len(s) |-> IF i = 0 THEN base ELSE step[<<g[i - 1], s[i]>>]]

\* A walk whose steps lead from states to states has its states.
LEMMA WalkExists ==
  ASSUME NEW X, NEW Y, NEW base \in X, NEW step \in [X \X Y -> X], NEW s \in Seq(Y)
  PROVE  \E g : Walks(g, step, base, s) /\ \A i \in 0 .. Len(s) : g[i] \in X
<1> DEFINE Steps(g, n) ==
             /\ \A i \in 0 .. n : g[i] \in X
             /\ g = [i \in 0 .. n |-> IF i = 0 THEN base ELSE step[<<g[i - 1], s[i]>>]]
           T == {n \in Nat : n <= Len(s) => \E g : Steps(g, n)}
<1>0. Len(s) \in Nat /\ \A i \in 1 .. Len(s) : s[i] \in Y
  BY LenProperties, ElementOfSeq
<1>1. 0 \in T
  <2> DEFINE g == [i \in 0 .. 0 |-> base]
  <2>1. Steps(g, 0)
    OBVIOUS
  <2> QED
    BY <2>1
<1>2. ASSUME NEW n \in Nat, n \in T PROVE n + 1 \in T
  <2> SUFFICES ASSUME n + 1 <= Len(s) PROVE \E g : Steps(g, n + 1)
    OBVIOUS
  <2>1. PICK g : Steps(g, n)
    BY <1>0, <1>2
  <2> DEFINE x == step[<<g[n], s[n + 1]>>]
             h == [i \in 0 .. n + 1 |-> IF i <= n THEN g[i] ELSE x]
  <2>2. x \in X
    <3>1. g[n] \in X /\ s[n + 1] \in Y
      BY <1>0, <2>1
    <3> QED
      BY <3>1
  <2> HIDE DEF x
  <2>3. \A i \in 0 .. n + 1 : h[i] \in X
    BY <2>1, <2>2
  <2>4. ASSUME NEW i \in 0 .. n + 1
        PROVE  h[i] = IF i = 0 THEN base ELSE step[<<h[i - 1], s[i]>>]
    <3>1. CASE i <= n
      <4>1. h[i] = g[i] /\ (i # 0 => h[i - 1] = g[i - 1])
        BY <3>1
      <4>2. g[i] = IF i = 0 THEN base ELSE step[<<g[i - 1], s[i]>>]
        BY <2>1, <3>1
      <4> HIDE DEF h
      <4> QED
        BY <4>1, <4>2
    <3>2. CASE ~(i <= n)
      <4>1. i = n + 1 /\ h[i] = x /\ h[i - 1] = g[n]
        BY <3>2
      <4> HIDE DEF h
      <4> QED
        BY <4>1 DEF x
    <3> QED
      BY <3>1, <3>2
  <2>5. h = [i \in 0 .. n + 1 |-> IF i = 0 THEN base ELSE step[<<h[i - 1], s[i]>>]]
    <3> DEFINE body == [i \in 0 .. n + 1 |-> IF i = 0 THEN base ELSE step[<<h[i - 1], s[i]>>]]
    <3>1. \A i \in 0 .. n + 1 : h[i] = body[i]
      BY <2>4
    <3> QED
      BY <2>4
  <2> HIDE DEF h
  <2>6. Steps(h, n + 1)
    BY <2>3, <2>5
  <2> QED
    BY <2>6
<1>3. Len(s) \in T
  <2> HIDE DEF T
  <2> QED
    BY <1>0, <1>1, <1>2, NatSets
<1> QED
  BY <1>0, <1>3 DEF Walks

-----------------------------------------------------------------------------
(* Chunks: lists of lists *)

\* No two elements have the same id.
Distinct(s) == \A i, j \in DOMAIN s : s[i].id = s[j].id => i = j

\* Nor have two of the first n lists of s.
DistinctUpTo(s, n) ==
  \A g, h \in 1 .. n : \A i \in DOMAIN s[g], j \in DOMAIN s[h] : s[g][i].id = s[h][j].id => g = h /\ i = j

\* Lists without a common id, laid one behind the other.
LEMMA FlattenedDistinct ==
  ASSUME NEW S, NEW s \in Seq(Seq(S)), DistinctUpTo(s, Len(s))
  PROVE  /\ FlattenSeq(s) \in Seq(S) /\ Distinct(FlattenSeq(s))
         /\ \A k \in DOMAIN FlattenSeq(s) : \E g \in 1 .. Len(s) : \E i \in DOMAIN s[g] : FlattenSeq(s)[k] = s[g][i]
<1> DEFINE n == Len(s)
           Body(f, m) == [i \in 1 .. m |-> IF i = 1 THEN s[i] ELSE f[i - 1] \o s[i]]
           F == CHOOSE f : f = Body(f, n)
           T == {m \in Nat : \E f : f = Body(f, m)}
           From(t, m) == \A k \in DOMAIN t : \E g \in 1 .. m : \E i \in DOMAIN s[g] : t[k] = s[g][i]
           Good(t, m) == t \in Seq(S) /\ Distinct(t) /\ From(t, m)
<1>0. n \in Nat /\ \A i \in 1 .. n : s[i] \in Seq(S)
  BY LenProperties, ElementOfSeq
<1>1. 0 \in T
  <2> DEFINE f == [i \in 1 .. 0 |-> << >>]
  <2>1. f = Body(f, 0)
    OBVIOUS
  <2> QED
    BY <2>1
<1>2. ASSUME NEW m \in Nat, m \in T PROVE m + 1 \in T
  <2>1. PICK f : f = Body(f, m)
    BY <1>2
  <2> DEFINE x == IF m = 0 THEN s[1] ELSE f[m] \o s[m + 1]
             h == [i \in 1 .. m + 1 |-> IF i <= m THEN f[i] ELSE x]
  <2> HIDE DEF x
  <2>2. ASSUME NEW i \in 1 .. m + 1 PROVE h[i] = IF i = 1 THEN s[i] ELSE h[i - 1] \o s[i]
    <3>1. CASE i <= m
      <4>1. h[i] = f[i] /\ (i # 1 => h[i - 1] = f[i - 1])
        BY <3>1
      <4>2. i \in 1 .. m
        BY <3>1
      <4>3. f[i] = Body(f, m)[i]
        BY <2>1
      <4>4. f[i] = IF i = 1 THEN s[i] ELSE f[i - 1] \o s[i]
        BY <4>2, <4>3
      <4> HIDE DEF h
      <4> QED
        BY <4>1, <4>4
    <3>2. CASE ~(i <= m)
      <4>1. i = m + 1 /\ h[i] = x /\ (i # 1 => m # 0 /\ h[i - 1] = f[m])
        BY <3>2
      <4> HIDE DEF h
      <4> QED
        BY <4>1 DEF x
    <3> QED
      BY <3>1, <3>2
  <2>3. h = Body(h, m + 1)
    BY <2>2
  <2> HIDE DEF h, Body
  <2> QED
    BY <2>3
<1>3. n \in T
  <2> HIDE DEF T
  <2> QED
    BY <1>0, <1>1, <1>2, NatSets
<1>4. F = Body(F, n)
  BY <1>3
<1> HIDE DEF F
<1>5. ASSUME NEW i \in 1 .. n PROVE F[i] = IF i = 1 THEN s[i] ELSE F[i - 1] \o s[i]
  BY <1>4
<1> DEFINE R == {m \in Nat : m \in 1 .. n => Good(F[m], m)}
<1>6. 0 \in R
  OBVIOUS
<1>7. ASSUME NEW m \in Nat, m \in R PROVE m + 1 \in R
  <2> SUFFICES ASSUME m + 1 \in 1 .. n PROVE Good(F[m + 1], m + 1)
    <3> HIDE DEF Good
    <3> QED
      OBVIOUS
  <2> DEFINE b == s[m + 1]
  <2>0. b \in Seq(S) /\ Len(b) \in Nat /\ DOMAIN b = 1 .. Len(b)
    BY <1>0, LenProperties
  <2>1. CASE m = 0
    <3>1. F[m + 1] = b
      BY <1>5, <2>1
    <3>2. Distinct(b)
      BY <2>0, <2>1 DEF Distinct, DistinctUpTo
    <3>3. From(b, m + 1)
      OBVIOUS
    <3> QED
      BY <2>0, <3>1, <3>2, <3>3
  <2>2. CASE m # 0
    <3> DEFINE a == F[m]
    <3>1. Good(a, m) /\ m \in 1 .. n
      BY <1>7, <2>2
    <3>2. F[m + 1] = a \o b
      <4>1. m + 1 \in 1 .. n /\ m + 1 # 1 /\ (m + 1) - 1 = m
        BY <2>2
      <4>2. F[m + 1] = IF m + 1 = 1 THEN s[m + 1] ELSE F[(m + 1) - 1] \o s[m + 1]
        BY <1>5, <4>1
      <4> QED
        BY <4>1, <4>2
    <3>3. a \in Seq(S) /\ Len(a) \in Nat /\ DOMAIN a = 1 .. Len(a)
      BY <3>1, LenProperties
    <3>4. Distinct(a) /\ From(a, m)
      BY <3>1
    <3> HIDE DEF a, b
    <3> DEFINE t == a \o b
    <3>5. /\ t \in Seq(S) /\ Len(t) = Len(a) + Len(b) /\ DOMAIN t = 1 .. Len(a) + Len(b)
          /\ \A k \in 1 .. Len(a) + Len(b) : t[k] = IF k <= Len(a) THEN a[k] ELSE b[k - Len(a)]
      BY <2>0, <3>3, ConcatProperties, LenProperties
    <3> HIDE DEF t
    <3>6. ASSUME NEW k \in DOMAIN t
          PROVE  \/ k \in 1 .. Len(a) /\ t[k] = a[k]
                 \/ k - Len(a) \in 1 .. Len(b) /\ t[k] = b[k - Len(a)]
      BY <2>0, <3>3, <3>5
    <3>7. From(t, m + 1)
      <4> SUFFICES ASSUME NEW k \in DOMAIN t
                   PROVE  \E g \in 1 .. m + 1 : \E i \in DOMAIN s[g] : t[k] = s[g][i]
        OBVIOUS
      <4>1. CASE k \in 1 .. Len(a) /\ t[k] = a[k]
        <5>1. PICK g \in 1 .. m : \E i \in DOMAIN s[g] : a[k] = s[g][i]
          BY <3>3, <3>4, <4>1
        <5>2. g \in 1 .. m + 1
          OBVIOUS
        <5> QED
          BY <4>1, <5>1, <5>2
      <4>2. CASE k - Len(a) \in 1 .. Len(b) /\ t[k] = b[k - Len(a)]
        <5>1. m + 1 \in 1 .. m + 1 /\ k - Len(a) \in DOMAIN s[m + 1]
          BY <2>0, <4>2 DEF b
        <5> QED
          BY <4>2, <5>1 DEF b
      <4> QED
        BY <3>6, <4>1, <4>2
    <3>8. ASSUME NEW k \in 1 .. Len(a), NEW i \in 1 .. Len(b) PROVE a[k].id # b[i].id
      <4>1. PICK g \in 1 .. m : \E l \in DOMAIN s[g] : a[k] = s[g][l]
        BY <3>3, <3>4
      <4>2. PICK l \in DOMAIN s[g] : a[k] = s[g][l]
        BY <4>1
      <4>3. g \in 1 .. n /\ m + 1 \in 1 .. n /\ g # m + 1 /\ i \in DOMAIN s[m + 1]
        BY <1>0, <2>0 DEF b
      <4> QED
        BY <4>2, <4>3 DEF DistinctUpTo, b
    <3>9. \A i, j \in 1 .. Len(b) : b[i].id = b[j].id => i = j
      BY <2>0 DEF DistinctUpTo, b
    <3>10. Distinct(t)
      <4> SUFFICES ASSUME NEW k \in DOMAIN t, NEW l \in DOMAIN t, t[k].id = t[l].id PROVE k = l
        BY DEF Distinct
      <4>1. k \in Nat /\ l \in Nat
        BY <2>0, <3>3, <3>5
      <4>2. CASE k \in 1 .. Len(a) /\ t[k] = a[k] /\ l \in 1 .. Len(a) /\ t[l] = a[l]
        BY <3>3, <3>4, <4>2 DEF Distinct
      <4>3. CASE /\ k - Len(a) \in 1 .. Len(b) /\ t[k] = b[k - Len(a)]
                 /\ l - Len(a) \in 1 .. Len(b) /\ t[l] = b[l - Len(a)]
        <5>1. k - Len(a) = l - Len(a)
          BY <3>9, <4>3
        <5> QED
          BY <3>3, <4>1, <5>1
      <4> QED
        BY <3>6, <3>8, <4>2, <4>3
    <3> QED
      BY <3>2, <3>5, <3>7, <3>10 DEF t
  <2> QED
    BY <2>1, <2>2
<1>8. ASSUME NEW m \in Nat PROVE m \in R
  <2> HIDE DEF R
  <2> QED
    BY <1>6, <1>7, NatSets
<1>9. CASE n = 0
  <2>1. FlattenSeq(s) = s /\ s = << >>
    BY <1>9, EmptySeq DEF FlattenSeq
  <2> QED
    BY <2>1, EmptySeq DEF Distinct
<1>10. CASE n # 0
  <2>1. FlattenSeq(s) = F[n]
    BY <1>10 DEF FlattenSeq, F
  <2>2. Good(F[n], n)
    <3>1. n \in R /\ n \in 1 .. n
      <4> HIDE DEF R
      <4> QED
        BY <1>0, <1>8, <1>10
    <3> HIDE DEF Good
    <3> QED
      BY <3>1
  <2> QED
    BY <2>1, <2>2
<1> QED
  BY <1>9, <1>10

\* A table over 1 .. n is a list.
LEMMA TabledList ==
  ASSUME NEW n \in Nat, NEW s, s = [i \in 1 .. n |-> s[i]]
  PROVE  IsSequence(s) /\ Len(s) = n /\ DOMAIN s = 1 .. n
<1> DEFINE V == {s[i] : i \in 1 .. n}
<1>1. \A i \in 1 .. n : s[i] \in V
  OBVIOUS
<1> HIDE DEF V
<1>2. s \in Seq(V) /\ Len(s) = n
  BY <1>1
<1> QED
  BY <1>2, LenProperties DEF IsSequence

LEMMA OneElement ==
  ASSUME NEW x
  PROVE  IsSequence(<<x>>) /\ Len(<<x>>) = 1 /\ DOMAIN <<x>> = 1 .. 1 /\ <<x>>[1] = x
<1>1. <<x>> \in Seq({x}) /\ Len(<<x>>) = 1 /\ DOMAIN <<x>> = 1 .. 1 /\ <<x>>[1] = x
  OBVIOUS
<1> QED
  BY <1>1 DEF IsSequence

\* The same, whatever the lists hold.
LEMMA FlatDistinct ==
  ASSUME NEW s, IsSequence(s), \A g \in 1 .. Len(s) : IsSequence(s[g]), DistinctUpTo(s, Len(s))
  PROVE  /\ IsSequence(FlattenSeq(s)) /\ Distinct(FlattenSeq(s))
         /\ \A k \in DOMAIN FlattenSeq(s) : \E g \in 1 .. Len(s) : \E i \in DOMAIN s[g] : FlattenSeq(s)[k] = s[g][i]
<1> DEFINE S == UNION {{s[g][i] : i \in 1 .. Len(s[g])} : g \in 1 .. Len(s)}
<1>1. Len(s) \in Nat /\ s = [g \in 1 .. Len(s) |-> s[g]]
  BY LenProperties DEF IsSequence
<1>2. ASSUME NEW g \in 1 .. Len(s) PROVE s[g] \in Seq(S)
  <2> DEFINE t == s[g]
  <2>1. Len(t) \in Nat /\ t = [i \in 1 .. Len(t) |-> t[i]]
    BY LenProperties DEF IsSequence
  <2>2. \A i \in 1 .. Len(t) : t[i] \in S
    OBVIOUS
  <2> HIDE DEF t, S
  <2>3. t \in Seq(S)
    BY <2>1, <2>2
  <2> QED
    BY <2>3 DEF t
<1> HIDE DEF S
<1>3. s \in Seq(Seq(S))
  BY <1>1, <1>2
<1> QED
  BY <1>3, FlattenedDistinct DEF IsSequence

\* Lists whose ids name the list.
LEMMA KeyedApart ==
  ASSUME NEW s, NEW n, NEW key, \A g \in 1 .. n : Distinct(s[g]),
         \A g \in 1 .. n : \A i \in DOMAIN s[g] : s[g][i].id[1] = key[g],
         \A g, h \in 1 .. n : key[g] = key[h] => g = h
  PROVE  DistinctUpTo(s, n)
BY DEF Distinct, DistinctUpTo

-----------------------------------------------------------------------------
(* Chunks: texts *)

LEMMA BytesCounted ==
  ASSUME NEW text \in Seq(Characters)
  PROVE  ByteLen(text) \in Nat /\ TokensOf(text) \in Nat /\ (text = << >> => ByteLen(text) = 0)
<1> DEFINE n == Len(text)
           Body(g) == [i \in 0 .. n |-> IF i = 0 THEN 0 ELSE g[i - 1] + CharBytes(text[i])]
           U == CHOOSE g : g = Body(g)
           step == [p \in Nat \X Characters |-> p[1] + CharBytes(p[2])]
<1>0. n \in Nat /\ \A i \in 1 .. n : text[i] \in Characters
  BY LenProperties, ElementOfSeq
<1>1. \A c : CharBytes(c) \in Nat
  BY DEF CharBytes
<1>2. step \in [Nat \X Characters -> Nat]
  BY <1>1
<1>3. PICK g : Walks(g, step, 0, text) /\ \A i \in 0 .. n : g[i] \in Nat
  <2> HIDE DEF step
  <2> QED
    BY <1>2, WalkExists
<1>4. ASSUME NEW i \in 0 .. n PROVE g[i] = IF i = 0 THEN 0 ELSE g[i - 1] + CharBytes(text[i])
  <2>1. g[i] = IF i = 0 THEN 0 ELSE step[<<g[i - 1], text[i]>>]
    BY <1>3 DEF Walks
  <2>2. i # 0 => <<g[i - 1], text[i]>> \in Nat \X Characters
    BY <1>0, <1>3
  <2> QED
    BY <2>1, <2>2
<1>5. g = Body(g)
  BY <1>3, <1>4 DEF Walks
<1>6. U = Body(U)
  BY <1>5
<1> HIDE DEF U
<1>7. U[0] = 0 /\ \A i \in 1 .. n : U[i] = U[i - 1] + CharBytes(text[i])
  BY <1>0, <1>6
<1> DEFINE T == {m \in Nat : m <= n => U[m] \in Nat}
<1>8. 0 \in T /\ \A m \in Nat : m \in T => m + 1 \in T
  BY <1>0, <1>1, <1>7
<1>9. n \in T
  <2> HIDE DEF T
  <2> QED
    BY <1>0, <1>8, NatSets
<1>10. ByteLen(text) = U[n]
  BY DEF ByteLen, Over, U
<1>11. ByteLen(text) \in Nat
  BY <1>0, <1>9, <1>10
<1>12. TokensOf(text) \in Nat
  BY <1>11 DEF TokensOf, DivCeil, BytesPerToken
<1>13. text = << >> => ByteLen(text) = 0
  BY <1>7, <1>10
<1> QED
  BY <1>11, <1>12, <1>13

LEMMA Newlines ==
  <<"nl">> \in Seq(Characters) /\ <<"nl", "nl">> \in Seq(Characters)
<1>1. "nl" \in Characters
  BY DEF Characters
<1> QED
  BY <1>1

\* Texts joined are a text.
LEMMA JoinedIsText ==
  ASSUME NEW sep \in Seq(Characters), NEW parts \in Seq(Seq(Characters))
  PROVE  JoinWith(sep, parts) \in Seq(Characters)
<1> DEFINE Text == Seq(Characters)
<1>1. CASE parts = << >>
  <2>1. JoinWith(sep, parts) = << >>
    BY <1>1, Zenon DEF JoinWith
  <2> QED
    BY <2>1, EmptySeq
<1>2. CASE parts # << >>
  <2> DEFINE rest == Tail(parts)
             n == Len(rest)
             Body(g) == [i \in 0 .. n |-> IF i = 0 THEN Head(parts) ELSE g[i - 1] \o sep \o rest[i]]
             U == CHOOSE g : g = Body(g)
             step == [p \in Text \X Text |-> p[1] \o sep \o p[2]]
  <2>0. /\ Head(parts) \in Text /\ rest \in Seq(Text) /\ n \in Nat
        /\ \A i \in 1 .. n : rest[i] \in Text
    BY <1>2, HeadTailProperties, LenProperties, ElementOfSeq
  <2>1. \A s, t \in Text : s \o sep \o t \in Text
    OBVIOUS
  <2> HIDE DEF Text
  <2>2. step \in [Text \X Text -> Text]
    BY <2>1
  <2> HIDE DEF rest
  <2>3. PICK g : Walks(g, step, Head(parts), rest) /\ \A i \in 0 .. n : g[i] \in Text
    <3> HIDE DEF step
    <3> QED
      BY <2>0, <2>2, WalkExists
  <2>4. ASSUME NEW i \in 0 .. n PROVE g[i] = IF i = 0 THEN Head(parts) ELSE g[i - 1] \o sep \o rest[i]
    <3>1. g[i] = IF i = 0 THEN Head(parts) ELSE step[<<g[i - 1], rest[i]>>]
      BY <2>3 DEF Walks
    <3>2. i # 0 => <<g[i - 1], rest[i]>> \in Text \X Text
      BY <2>0, <2>3
    <3> QED
      BY <3>1, <3>2
  <2>5. g = Body(g)
    BY <2>3, <2>4 DEF Walks
  <2>6. U = Body(U)
    BY <2>5
  <2> HIDE DEF U
  <2>7. U[0] = Head(parts) /\ \A i \in 1 .. n : U[i] = U[i - 1] \o sep \o rest[i]
    <3>1. ASSUME NEW i \in 0 .. n PROVE U[i] = IF i = 0 THEN Head(parts) ELSE U[i - 1] \o sep \o rest[i]
      <4>1. U[i] = Body(U)[i]
        BY <2>6
      <4> QED
        BY <4>1
    <3>2. 0 \in 0 .. n /\ \A i \in 1 .. n : i \in 0 .. n /\ i # 0
      BY <2>0
    <3> QED
      BY <3>1, <3>2
  <2> DEFINE T == {m \in Nat : m <= n => U[m] \in Text}
  <2>8. 0 \in T
    BY <2>0, <2>7
  <2>9. ASSUME NEW m \in Nat, m \in T PROVE m + 1 \in T
    <3> SUFFICES ASSUME m + 1 <= n PROVE U[m + 1] \in Text
      OBVIOUS
    <3>1. m + 1 \in 1 .. n /\ (m + 1) - 1 = m /\ U[m] \in Text
      BY <2>0, <2>9
    <3>2. U[m + 1] = U[m] \o sep \o rest[m + 1]
      BY <2>7, <3>1
    <3> QED
      BY <2>0, <2>1, <3>1, <3>2
  <2>10. n \in T
    <3> HIDE DEF T
    <3> QED
      BY <2>0, <2>8, <2>9, NatSets
  <2>11. JoinWith(sep, parts) = U[n]
    BY <1>2 DEF JoinWith, Over, U, rest
  <2> QED
    BY <2>0, <2>10, <2>11 DEF Text
<1> QED
  BY <1>1, <1>2

-----------------------------------------------------------------------------
(* Chunks: runs and what is picked of them *)

\* The elements of p are some of s, in their order.
TakenInOrder(p, s, at) ==
  /\ \A k \in 1..Cardinality(at) : \E i \in at : p[k] = s[i]
  /\ \A k, l \in 1..Cardinality(at) : k < l => \E i, j \in at : i < j /\ p[k] = s[i] /\ p[l] = s[j]

LEMMA PickedInOrder ==
  ASSUME NEW s, NEW n \in Nat, NEW at \in SUBSET (1..n)
  PROVE  TakenInOrder(Picked(s, at), s, at)
<1>1. ASSUME NEW k \in 1..Cardinality(at) PROVE \E i \in at : Rank(at, i) = k /\ Picked(s, at)[k] = s[i]
  <2>1. PICK i \in at : Rank(at, i) = k
    BY Ranks
  <2> QED
    BY <2>1, PickedAtRank
<1>2. ASSUME NEW k \in 1..Cardinality(at), NEW l \in 1..Cardinality(at), k < l
      PROVE  \E i, j \in at : i < j /\ Picked(s, at)[k] = s[i] /\ Picked(s, at)[l] = s[j]
  <2>1. PICK i \in at : Rank(at, i) = k /\ Picked(s, at)[k] = s[i]
    BY <1>1
  <2>2. PICK j \in at : Rank(at, j) = l /\ Picked(s, at)[l] = s[j]
    BY <1>1
  <2>3. Cardinality(at) \in Nat
    BY Ranks
  <2>4. k \in Nat /\ l \in Nat /\ i \in Nat /\ j \in Nat
    BY <2>3
  <2>5. j < i => l < k
    BY <2>1, <2>2, Ranks
  <2>6. j = i => l = k
    BY <2>1, <2>2
  <2>7. i < j
    BY <1>2, <2>4, <2>5, <2>6
  <2> QED
    BY <2>1, <2>2, <2>7
<1> QED
  BY <1>1, <1>2 DEF TakenInOrder

\* r is a list of runs of 1 .. n, one behind the other.
RunsUpTo(r, n) ==
  /\ r \in Seq([a : Nat, b : Nat])
  /\ \A i \in 1 .. Len(r) : 1 <= r[i].a /\ r[i].a <= r[i].b + 1 /\ r[i].b <= n
  /\ \A i, j \in 1 .. Len(r) : i < j => r[i].b < r[j].a

LEMMA RunsInOrder ==
  ASSUME NEW n \in Nat, NEW cuts \in SUBSET (1..n)
  PROVE  RunsUpTo(Runs(n, cuts), n)
<1> DEFINE id == [i \in 1 .. n |-> i]
           at == Picked(id, cuts)
           c == Cardinality(cuts)
           r == Runs(n, cuts)
<1>1. Len(at) = c /\ c \in Nat
  BY PickedFromThere
<1>0. /\ \A k \in 1 .. c : \E i \in cuts : at[k] = id[i]
      /\ \A k, l \in 1 .. c : k < l => \E i, j \in cuts : i < j /\ at[k] = id[i] /\ at[l] = id[j]
  <2>1. TakenInOrder(at, id, cuts)
    BY PickedInOrder
  <2> HIDE DEF at, id
  <2> QED
    BY <2>1 DEF TakenInOrder
<1>2. ASSUME NEW k \in 1 .. c PROVE at[k] \in 1 .. n
  <2> HIDE DEF id
  <2>1. \E i \in cuts : at[k] = id[i]
    BY <1>0
  <2>2. PICK i \in cuts : at[k] = id[i]
    BY <2>1
  <2> QED
    BY <2>2 DEF id
<1>3. ASSUME NEW k \in 1 .. c, NEW l \in 1 .. c, k < l PROVE at[k] < at[l]
  <2> HIDE DEF id
  <2>1. PICK i, j \in cuts : i < j /\ at[k] = id[i] /\ at[l] = id[j]
    BY <1>0, <1>3
  <2> QED
    BY <2>1 DEF id
<1> HIDE DEF at, c
<1> DEFINE lo(k) == IF k = 1 THEN 1 ELSE at[k - 1] + 1
           hi(k) == IF k <= c THEN at[k] - 1 ELSE n
<1>4. r = [k \in 1 .. c + 1 |-> [a |-> lo(k), b |-> hi(k)]]
  BY <1>1 DEF Runs, at
<1>5. ASSUME NEW k \in 1 .. c + 1
      PROVE  /\ k # 1 => k - 1 \in 1 .. c /\ at[k - 1] \in 1 .. n
             /\ k <= c => k \in 1 .. c /\ at[k] \in 1 .. n
  BY <1>1, <1>2
<1>6. ASSUME NEW k \in 1 .. c + 1 PROVE lo(k) \in Nat /\ 1 <= lo(k) /\ hi(k) \in Nat /\ hi(k) <= n /\ lo(k) <= hi(k) + 1
  <2>1. k <= c /\ k # 1 => at[k - 1] < at[k]
    BY <1>1, <1>3, <1>5
  <2> QED
    BY <1>1, <1>5, <2>1
<1>7. ASSUME NEW i \in 1 .. c + 1, NEW j \in 1 .. c + 1, i < j PROVE hi(i) < lo(j)
  <2>1. i \in 1 .. c /\ j - 1 \in 1 .. c /\ j # 1 /\ i <= j - 1 /\ i <= c
    BY <1>1, <1>7
  <2>2. at[i] <= at[j - 1] /\ at[i] \in Nat /\ at[j - 1] \in Nat
    BY <1>2, <1>3, <2>1
  <2> QED
    BY <2>1, <2>2
<1> HIDE DEF lo, hi, r
<1>8. r \in Seq([a : Nat, b : Nat]) /\ Len(r) = c + 1
  <2> DEFINE R == [a : Nat, b : Nat]
  <2>1. \A k \in 1 .. c + 1 : [a |-> lo(k), b |-> hi(k)] \in R
    BY <1>6
  <2> HIDE DEF R
  <2>2. c + 1 \in Nat /\ r \in [1 .. c + 1 -> R]
    BY <1>1, <1>4, <2>1
  <2>3. r \in Seq(R) /\ Len(r) = c + 1
    BY <2>2
  <2> QED
    BY <2>3 DEF R
<1>9. ASSUME NEW k \in 1 .. c + 1 PROVE r[k].a = lo(k) /\ r[k].b = hi(k)
  BY <1>4
<1> QED
  BY <1>6, <1>7, <1>8, <1>9 DEF RunsUpTo, r

\* Some of the runs are runs.
LEMMA PickedRuns ==
  ASSUME NEW n, NEW r, RunsUpTo(r, n), NEW at \in SUBSET (1 .. Len(r))
  PROVE  /\ RunsUpTo(Picked(r, at), n)
         /\ \A k \in 1 .. Len(Picked(r, at)) : \E i \in at : Picked(r, at)[k] = r[i]
<1> DEFINE R == [a : Nat, b : Nat]
           p == Picked(r, at)
<1>1. r \in Seq(R) /\ Len(r) \in Nat
  BY LenProperties DEF RunsUpTo
<1> HIDE DEF R
<1>2. p \in Seq(R) /\ Len(p) = Cardinality(at)
  BY <1>1, PickedIsList
<1>0. /\ \A k \in 1 .. Cardinality(at) : \E i \in at : p[k] = r[i]
      /\ \A k, l \in 1 .. Cardinality(at) : k < l => \E i, j \in at : i < j /\ p[k] = r[i] /\ p[l] = r[j]
  <2>1. TakenInOrder(p, r, at)
    BY <1>1, PickedInOrder
  <2> HIDE DEF p
  <2> QED
    BY <2>1 DEF TakenInOrder
<1>3. ASSUME NEW k \in 1 .. Len(p) PROVE \E i \in at : p[k] = r[i]
  BY <1>0, <1>2
<1>4. ASSUME NEW k \in 1 .. Len(p), NEW l \in 1 .. Len(p), k < l PROVE p[k].b < p[l].a
  <2>1. k \in 1 .. Cardinality(at) /\ l \in 1 .. Cardinality(at)
    BY <1>2
  <2>2. PICK i, j \in at : i < j /\ p[k] = r[i] /\ p[l] = r[j]
    BY <1>0, <1>4, <2>1
  <2> QED
    BY <2>2 DEF RunsUpTo
<1> HIDE DEF p
<1>5. ASSUME NEW k \in 1 .. Len(p) PROVE 1 <= p[k].a /\ p[k].a <= p[k].b + 1 /\ p[k].b <= n
  BY <1>3 DEF RunsUpTo
<1> QED
  BY <1>2, <1>3, <1>4, <1>5 DEF RunsUpTo, R, p

-----------------------------------------------------------------------------
(* Chunks: the pieces of a text *)

LEMMA LinesAreTexts ==
  ASSUME NEW text \in Seq(Characters)
  PROVE  TextLines(text) \in Seq(Seq(Characters))
<1> DEFINE cuts == {i \in DOMAIN text : text[i] = "nl"}
           r == Runs(Len(text), cuts)
           line == [i \in DOMAIN r |-> SubSeq(text, r[i].a, r[i].b)]
<1>1. Len(text) \in Nat /\ cuts \in SUBSET (1 .. Len(text)) /\ \A i \in 1 .. Len(text) : text[i] \in Characters
  BY LenProperties, ElementOfSeq
<1> HIDE DEF cuts
<1>2. RunsUpTo(r, Len(text))
  BY <1>1, RunsInOrder
<1> HIDE DEF r
<1>3. Len(r) \in Nat /\ DOMAIN r = 1 .. Len(r)
  BY <1>2, LenProperties DEF RunsUpTo
<1>4. ASSUME NEW i \in 1 .. Len(r) PROVE line[i] \in Seq(Characters)
  <2>1. /\ r[i] \in [a : Nat, b : Nat] /\ 1 <= r[i].a /\ r[i].b <= Len(text)
    BY <1>2, <1>3, ElementOfSeq DEF RunsUpTo
  <2>2. \A k \in r[i].a .. r[i].b : text[k] \in Characters
    BY <1>1, <2>1
  <2>3. SubSeq(text, r[i].a, r[i].b) \in Seq(Characters)
    BY <2>1, <2>2, SubSeqProperties
  <2> QED
    BY <1>3, <2>3
<1>5. line \in Seq(Seq(Characters))
  <2> DEFINE Text == Seq(Characters)
  <2>1. line \in [1 .. Len(r) -> Text]
    BY <1>3, <1>4
  <2> HIDE DEF Text, line
  <2> QED
    BY <1>3, <2>1 DEF Text
<1>6. TextLines(text) = line
  BY DEF TextLines, r, cuts
<1> QED
  BY <1>5, <1>6

LEMMA CharsInPieces ==
  ASSUME NEW s \in Seq(Characters), NEW allowed
  PROVE  CharPieces(s, allowed) \in Seq(Seq(Characters))
<1> DEFINE Text == Seq(Characters)
           X == [open : Text, out : Seq(Text)]
           Over1(st, c) == st.open # << >> /\ ByteLen(st.open) + CharBytes(c) > allowed * BytesPerToken
           Add(st, c) == IF Over1(st, c) THEN [open |-> <<c>>, out |-> Append(st.out, st.open)]
                         ELSE [st EXCEPT !.open = Append(@, c)]
           base == [open |-> << >>, out |-> << >>]
           n == Len(s)
           Body(g) == [i \in 0 .. n |-> IF i = 0 THEN base ELSE Add(g[i - 1], s[i])]
           U == CHOOSE g : g = Body(g)
           step == [p \in X \X Characters |-> Add(p[1], p[2])]
<1>0. n \in Nat /\ \A i \in 1 .. n : s[i] \in Characters
  BY LenProperties, ElementOfSeq
<1>1. base \in X
  OBVIOUS
<1>2. ASSUME NEW st \in X, NEW c \in Characters PROVE Add(st, c) \in X
  <2> HIDE DEF Over1
  <2>1. st = [open |-> st.open, out |-> st.out] /\ st.open \in Text /\ st.out \in Seq(Text)
    OBVIOUS
  <2>2. Append(st.open, c) \in Text /\ <<c>> \in Text
    BY <2>1
  <2>3. Append(st.out, st.open) \in Seq(Text)
    <3> HIDE DEF Text
    <3> QED
      BY <2>1, AppendProperties
  <2> HIDE DEF Text
  <2> QED
    BY <2>1, <2>2, <2>3
<1> HIDE DEF Add, X, base
<1>3. step \in [X \X Characters -> X]
  BY <1>2
<1>4. PICK g : Walks(g, step, base, s) /\ \A i \in 0 .. n : g[i] \in X
  <2> HIDE DEF step
  <2> QED
    BY <1>1, <1>3, WalkExists
<1>5. ASSUME NEW i \in 0 .. n PROVE g[i] = IF i = 0 THEN base ELSE Add(g[i - 1], s[i])
  <2>1. g[i] = IF i = 0 THEN base ELSE step[<<g[i - 1], s[i]>>]
    BY <1>4 DEF Walks
  <2>2. i # 0 => <<g[i - 1], s[i]>> \in X \X Characters
    BY <1>0, <1>4
  <2> QED
    BY <2>1, <2>2
<1>6. g = Body(g)
  BY <1>4, <1>5 DEF Walks
<1>7. U = Body(U)
  BY <1>6
<1> HIDE DEF U
<1>8. U[0] = base /\ \A i \in 1 .. n : U[i] = Add(U[i - 1], s[i])
  BY <1>0, <1>7
<1> DEFINE T == {m \in Nat : m <= n => U[m] \in X}
<1>9. 0 \in T
  BY <1>1, <1>8
<1>10. ASSUME NEW m \in Nat, m \in T PROVE m + 1 \in T
  <2> SUFFICES ASSUME m + 1 <= n PROVE U[m + 1] \in X
    OBVIOUS
  <2>1. m + 1 \in 1 .. n /\ (m + 1) - 1 = m /\ U[m] \in X
    BY <1>0, <1>10
  <2>2. U[m + 1] = Add(U[m], s[m + 1])
    BY <1>8, <2>1
  <2> QED
    BY <1>0, <1>2, <2>1, <2>2
<1>11. U[n] \in X
  <2> HIDE DEF T
  <2>1. n \in T
    BY <1>0, <1>9, <1>10, NatSets
  <2> QED
    BY <1>0, <2>1 DEF T
<1>12. CharPieces(s, allowed) = Append(U[n].out, U[n].open)
  BY DEF CharPieces, Over, U, Add, base, Over1
<1>13. U[n].out \in Seq(Text) /\ U[n].open \in Text
  BY <1>11 DEF X
<1> HIDE DEF Text
<1> QED
  BY <1>12, <1>13, AppendProperties DEF Text

LEMMA PiecesAreTexts ==
  ASSUME NEW text \in Seq(Characters), NEW wanted
  PROVE  TextPieces(text, wanted) \in Seq(Seq(Characters))
<1> DEFINE Text == Seq(Characters)
           X == [open : Seq(Text), out : Seq(Text)]
           allowed == Max({wanted, 1})
           Flush(st) == IF st.open = << >> THEN st.out ELSE Append(st.out, JoinWith(<<"nl">>, st.open))
           Long(line) == TokensOf(line) > allowed
           Full(st, line) == st.open # << >> /\ TokensOf(JoinWith(<<"nl">>, Append(st.open, line))) > allowed
           Add(st, line) ==
             IF Long(line) THEN [open |-> << >>, out |-> Flush(st) \o CharPieces(line, allowed)]
             ELSE IF Full(st, line) THEN [open |-> <<line>>, out |-> Flush(st)]
             ELSE [st EXCEPT !.open = Append(@, line)]
           base == [open |-> << >>, out |-> << >>]
           s == TextLines(text)
           n == Len(s)
           Body(g) == [i \in 0 .. n |-> IF i = 0 THEN base ELSE Add(g[i - 1], s[i])]
           U == CHOOSE g : g = Body(g)
           step == [p \in X \X Text |-> Add(p[1], p[2])]
<1>0. s \in Seq(Text) /\ n \in Nat /\ \A i \in 1 .. n : s[i] \in Text
  <2>1. s \in Seq(Text)
    BY LinesAreTexts
  <2> HIDE DEF Text, s
  <2> QED
    BY <2>1, LenProperties, ElementOfSeq
<1>1. base \in X
  OBVIOUS
<1>a. ASSUME NEW st \in X PROVE Flush(st) \in Seq(Text)
  <2>1. st.open \in Seq(Text) /\ st.out \in Seq(Text)
    OBVIOUS
  <2>2. JoinWith(<<"nl">>, st.open) \in Text
    <3>1. <<"nl">> \in Text
      BY Newlines
    <3> DEFINE sep == <<"nl">>
    <3> HIDE DEF sep
    <3>2. JoinWith(sep, st.open) \in Text
      BY <2>1, <3>1, JoinedIsText DEF sep
    <3> QED
      BY <3>2 DEF sep
  <2> HIDE DEF Text
  <2> QED
    BY <2>1, <2>2, AppendProperties
<1>2. ASSUME NEW st \in X, NEW line \in Text PROVE Add(st, line) \in X
  <2>1. st = [open |-> st.open, out |-> st.out] /\ st.open \in Seq(Text) /\ st.out \in Seq(Text)
    OBVIOUS
  <2>2. CharPieces(line, allowed) \in Seq(Text)
    <3> HIDE DEF allowed
    <3> QED
      BY CharsInPieces
  <2>3. Flush(st) \in Seq(Text)
    BY <1>a
  <2> HIDE DEF Text, Flush, Long, Full, allowed
  <2>4. Flush(st) \o CharPieces(line, allowed) \in Seq(Text)
    BY <2>2, <2>3, ConcatProperties
  <2>5. <<line>> \in Seq(Text) /\ Append(st.open, line) \in Seq(Text) /\ << >> \in Seq(Text)
    BY <2>1, AppendProperties, EmptySeq
  <2> QED
    BY <2>1, <2>3, <2>4, <2>5
<1> HIDE DEF Add, X, base, s, Text
<1>3. step \in [X \X Text -> X]
  BY <1>2
<1>4. PICK g : Walks(g, step, base, s) /\ \A i \in 0 .. n : g[i] \in X
  <2> HIDE DEF step
  <2> QED
    BY <1>0, <1>1, <1>3, WalkExists
<1>5. ASSUME NEW i \in 0 .. n PROVE g[i] = IF i = 0 THEN base ELSE Add(g[i - 1], s[i])
  <2>1. g[i] = IF i = 0 THEN base ELSE step[<<g[i - 1], s[i]>>]
    BY <1>4 DEF Walks
  <2>2. i # 0 => <<g[i - 1], s[i]>> \in X \X Text
    BY <1>0, <1>4
  <2> QED
    BY <2>1, <2>2
<1>6. g = Body(g)
  BY <1>4, <1>5 DEF Walks
<1>7. U = Body(U)
  BY <1>6
<1> HIDE DEF U
<1>8. U[0] = base /\ \A i \in 1 .. n : U[i] = Add(U[i - 1], s[i])
  BY <1>0, <1>7
<1> DEFINE T == {m \in Nat : m <= n => U[m] \in X}
<1>9. 0 \in T
  BY <1>1, <1>8
<1>10. ASSUME NEW m \in Nat, m \in T PROVE m + 1 \in T
  <2> SUFFICES ASSUME m + 1 <= n PROVE U[m + 1] \in X
    OBVIOUS
  <2>1. m + 1 \in 1 .. n /\ (m + 1) - 1 = m /\ U[m] \in X
    BY <1>0, <1>10
  <2>2. U[m + 1] = Add(U[m], s[m + 1])
    BY <1>8, <2>1
  <2> QED
    BY <1>0, <1>2, <2>1, <2>2
<1>11. U[n] \in X
  <2> HIDE DEF T
  <2>1. n \in T
    BY <1>0, <1>9, <1>10, NatSets
  <2> QED
    BY <1>0, <2>1 DEF T
<1>12. TextPieces(text, wanted) = Flush(U[n])
  BY DEF TextPieces, Over, U, Add, base, s
<1> QED
  BY <1>a, <1>11, <1>12 DEF Text

-----------------------------------------------------------------------------
(* Chunks: Markdown *)

MdBlocks == [kind : {"heading", "prose", "atom", "image"}, text : Seq(Characters)]

LEMMA BlockCounted ==
  ASSUME NEW doc \in Seq(MdBlocks), NEW i \in 1 .. Len(doc)
  PROVE  BlockTokens(doc, i) \in Nat
<1>1. doc[i] \in MdBlocks
  BY ElementOfSeq
<1>2. doc[i].text \in Seq(Characters)
  BY <1>1 DEF MdBlocks
<1> QED
  BY <1>2, BytesCounted DEF BlockTokens

\* The overlap is taken from the open blocks.
LEMMA SeedOfOpen ==
  ASSUME NEW doc \in Seq(MdBlocks), NEW E \in SUBSET (1 .. Len(doc)), NEW open \in Seq(E), NEW policy \in ChunkPolicies
  PROVE  OverlapSeed(doc, open, policy) \in Seq(E)
<1> DEFINE X == [taken : Seq(E), left : Nat, done : BOOLEAN]
           seedBudget == Min({policy.overlap, policy.target \div 2})
           Ended(st, i) == BlockTokens(doc, i) > st.left /\ st.taken # << >>
           Left(st, i) == IF BlockTokens(doc, i) >= st.left THEN 0 ELSE st.left - BlockTokens(doc, i)
           Carry(st, i) ==
             IF st.left = 0 \/ st.done THEN st
             ELSE IF Ended(st, i) THEN [st EXCEPT !.done = TRUE]
             ELSE [taken |-> <<i>> \o st.taken, done |-> FALSE, left |-> Left(st, i)]
           base == [taken |-> << >>, left |-> seedBudget, done |-> FALSE]
           some == {k \in DOMAIN open : ~IsHeading(doc, open[k])}
           picked == Picked(open, some)
           s == Reverse(picked)
           n == Len(s)
           Body(g) == [i \in 0 .. n |-> IF i = 0 THEN base ELSE Carry(g[i - 1], s[i])]
           U == CHOOSE g : g = Body(g)
           step == [p \in X \X E |-> Carry(p[1], p[2])]
<1>0. s \in Seq(E) /\ n \in Nat /\ \A i \in 1 .. n : s[i] \in E
  <2>1. some \in SUBSET (1 .. Len(open))
    BY LenProperties
  <2> HIDE DEF some
  <2>2. picked \in Seq(E)
    BY <2>1, PickedIsList
  <2> HIDE DEF picked
  <2>3. Len(picked) \in Nat /\ \A i \in 1 .. Len(picked) : picked[i] \in E
    BY <2>2, LenProperties, ElementOfSeq
  <2>4. s = [i \in 1 .. Len(picked) |-> picked[(Len(picked) - i) + 1]]
    BY DEF Reverse
  <2>5. \A i \in 1 .. Len(picked) : (Len(picked) - i) + 1 \in 1 .. Len(picked)
    BY <2>3
  <2>6. s \in Seq(E)
    BY <2>3, <2>4, <2>5
  <2> HIDE DEF s
  <2> QED
    BY <2>6, LenProperties, ElementOfSeq
<1>1. base \in X
  <2>1. policy.overlap \in Nat /\ policy.target \in Nat
    BY ChunkAssumption
  <2>2. seedBudget \in Nat
    <3>1. {policy.overlap, policy.target \div 2} \in SUBSET Nat
      BY <2>1
    <3>2. Min({policy.overlap, policy.target \div 2}) \in {policy.overlap, policy.target \div 2}
      BY <3>1, LeastOfSome
    <3> QED
      BY <3>1, <3>2
  <2> HIDE DEF seedBudget
  <2> QED
    BY <2>2, EmptySeq
<1>2. ASSUME NEW st \in X, NEW i \in E PROVE Carry(st, i) \in X
  <2>1. st = [taken |-> st.taken, left |-> st.left, done |-> st.done]
        /\ st.taken \in Seq(E) /\ st.left \in Nat /\ st.done \in BOOLEAN
    OBVIOUS
  <2>2. <<i>> \o st.taken \in Seq(E)
    BY <2>1, ConcatProperties
  <2>3. Left(st, i) \in Nat
    BY <2>1, BlockCounted
  <2> HIDE DEF Left, Ended
  <2> QED
    BY <2>1, <2>2, <2>3
<1> HIDE DEF Carry, X, base, s
<1>3. step \in [X \X E -> X]
  BY <1>2
<1>4. PICK g : Walks(g, step, base, s) /\ \A i \in 0 .. n : g[i] \in X
  <2> HIDE DEF step
  <2> QED
    BY <1>0, <1>1, <1>3, WalkExists
<1>5. ASSUME NEW i \in 0 .. n PROVE g[i] = IF i = 0 THEN base ELSE Carry(g[i - 1], s[i])
  <2>1. g[i] = IF i = 0 THEN base ELSE step[<<g[i - 1], s[i]>>]
    BY <1>4 DEF Walks
  <2>2. i # 0 => <<g[i - 1], s[i]>> \in X \X E
    BY <1>0, <1>4
  <2> QED
    BY <2>1, <2>2
<1>6. g = Body(g)
  BY <1>4, <1>5 DEF Walks
<1>7. U = Body(U)
  BY <1>6
<1> HIDE DEF U
<1>8. U[0] = base /\ \A i \in 1 .. n : U[i] = Carry(U[i - 1], s[i])
  BY <1>0, <1>7
<1> DEFINE T == {m \in Nat : m <= n => U[m] \in X}
<1>9. 0 \in T
  BY <1>1, <1>8
<1>10. ASSUME NEW m \in Nat, m \in T PROVE m + 1 \in T
  <2> SUFFICES ASSUME m + 1 <= n PROVE U[m + 1] \in X
    OBVIOUS
  <2>1. m + 1 \in 1 .. n /\ (m + 1) - 1 = m /\ U[m] \in X
    BY <1>0, <1>10
  <2>2. U[m + 1] = Carry(U[m], s[m + 1])
    BY <1>8, <2>1
  <2> QED
    BY <1>0, <1>2, <2>1, <2>2
<1>11. U[n] \in X
  <2> HIDE DEF T
  <2>1. n \in T
    BY <1>0, <1>9, <1>10, NatSets
  <2> QED
    BY <1>0, <2>1 DEF T
<1>12. OverlapSeed(doc, open, policy) = U[n].taken
  BY DEF OverlapSeed, Over, U, Carry, base, s
<1> QED
  BY <1>11, <1>12 DEF X

\* Each of two lists has a number greater than all of the one before it.
Rises(out) ==
  \A k, l \in 1 .. Len(out) : k < l =>
    \E x \in 1 .. Len(out[l]) : \A y \in 1 .. Len(out[k]) : out[k][y] < out[l][x]

\* Where the i-th block leaves the groups: the open one has the block, the closed ones do not.
Grouped(st, i) ==
  /\ st = [open |-> st.open, out |-> st.out]
  /\ st.open \in Seq(1 .. i) /\ st.out \in Seq(Seq(1 .. i)) /\ Rises(st.out)
  /\ st.open # << >> => /\ \E x \in 1 .. Len(st.open) : st.open[x] = i
                        /\ st.out \in Seq(Seq(1 .. (i - 1)))

LEMMA AllBelow == \A i, j \in Nat : i < j => \A v \in 1 .. i : v < j
  OBVIOUS

LEMMA Earlier == \A m \in Nat : \A k, l \in 1 .. (m + 1) : k < l => k \in 1 .. m
  OBVIOUS

\* A group that has a greater number than all the closed ones goes behind them.
LEMMA GroupAdded ==
  ASSUME NEW i \in Nat, NEW j \in Nat, i < j, NEW out \in Seq(Seq(1 .. i)), Rises(out),
         NEW group \in Seq(1 .. j), \E x \in 1 .. Len(group) : group[x] = j
  PROVE  Append(out, group) \in Seq(Seq(1 .. j)) /\ Rises(Append(out, group))
<1> DEFINE new == Append(out, group)
<1>1. out \in Seq(Seq(1 .. j))
  <2>1. Seq(1 .. i) \in SUBSET Seq(1 .. j)
    <3>1. 1 .. i \in SUBSET (1 .. j)
      OBVIOUS
    <3> QED
      BY <3>1
  <2> DEFINE A == Seq(1 .. i)
             B == Seq(1 .. j)
  <2> HIDE DEF A, B
  <2>2. A \in SUBSET B /\ out \in Seq(A)
    BY <2>1 DEF A, B
  <2>3. out \in Seq(B)
    BY <2>2
  <2> QED
    BY <2>3 DEF B
<1>2. /\ new \in Seq(Seq(1 .. j)) /\ Len(new) = Len(out) + 1 /\ Len(out) \in Nat
      /\ \A k \in 1 .. Len(out) : new[k] = out[k]
      /\ new[Len(out) + 1] = group
  <2> DEFINE B == Seq(1 .. j)
  <2>1. out \in Seq(B) /\ group \in B
    BY <1>1
  <2> HIDE DEF B
  <2> QED
    BY <2>1, AppendProperties, LenProperties DEF B
<1>3. ASSUME NEW k \in 1 .. Len(out), NEW y \in 1 .. Len(out[k]) PROVE out[k][y] \in 1 .. i
  <2>1. out[k] \in Seq(1 .. i)
    <3> DEFINE A == Seq(1 .. i)
    <3> HIDE DEF A
    <3>1. out \in Seq(A)
      BY DEF A
    <3> QED
      BY <3>1, ElementOfSeq DEF A
  <2> QED
    BY <2>1, ElementOfSeq
<1> HIDE DEF new
<1>4. ASSUME NEW k \in 1 .. Len(new), NEW l \in 1 .. Len(new), k < l
      PROVE  \E x \in 1 .. Len(new[l]) : \A y \in 1 .. Len(new[k]) : new[k][y] < new[l][x]
  <2>1. k \in 1 .. Len(out) /\ new[k] = out[k]
    <3>1. k \in 1 .. (Len(out) + 1) /\ l \in 1 .. (Len(out) + 1) /\ Len(out) \in Nat
      BY <1>2
    <3>2. k \in 1 .. Len(out)
      BY <1>4, <3>1, Earlier
    <3> QED
      BY <1>2, <3>2
  <2>2. CASE l \in 1 .. Len(out)
    BY <1>2, <1>4, <2>1, <2>2 DEF Rises
  <2>3. CASE l \notin 1 .. Len(out)
    <3>1. new[l] = group
      BY <1>2, <2>3
    <3>2. PICK x \in 1 .. Len(group) : group[x] = j
      OBVIOUS
    <3>3. \A y \in 1 .. Len(out[k]) : out[k][y] < j
      <4>1. ASSUME NEW y \in 1 .. Len(out[k]) PROVE out[k][y] < j
        <5>1. out[k][y] \in 1 .. i
          BY <1>3, <2>1
        <5> QED
          BY <5>1, AllBelow
      <4> QED
        BY <4>1
    <3> QED
      BY <2>1, <3>1, <3>2, <3>3
  <2> QED
    BY <2>2, <2>3
<1> QED
  BY <1>2, <1>4 DEF Rises, new

Closed(st) == IF st.open = << >> THEN st.out ELSE Append(st.out, st.open)

LEMMA ClosedRises ==
  ASSUME NEW i \in Nat, NEW st, Grouped(st, i)
  PROVE  Closed(st) \in Seq(Seq(1 .. i)) /\ Rises(Closed(st))
<1>1. CASE st.open = << >>
  BY <1>1 DEF Grouped, Closed
<1>2. CASE st.open # << >>
  <2>1. /\ st.open \in Seq(1 .. i) /\ st.out \in Seq(Seq(1 .. (i - 1))) /\ Rises(st.out)
        /\ \E x \in 1 .. Len(st.open) : st.open[x] = i
    BY <1>2 DEF Grouped
  <2>2. i # 0
    <3>1. PICK x \in 1 .. Len(st.open) : st.open[x] = i
      BY <2>1
    <3>2. st.open[x] \in 1 .. i
      BY <2>1, ElementOfSeq
    <3> QED
      BY <3>1, <3>2
  <2>3. i - 1 \in Nat /\ i - 1 < i
    BY <2>2
  <2>4. Append(st.out, st.open) \in Seq(Seq(1 .. i)) /\ Rises(Append(st.out, st.open))
    BY <2>1, <2>3, GroupAdded
  <2> QED
    BY <1>2, <2>4 DEF Closed
<1> QED
  BY <1>1, <1>2

\* Lists of small numbers are lists of numbers.
LEMMA WiderLists ==
  ASSUME NEW i \in Nat, NEW j \in Nat, i <= j
  PROVE  (\A s \in Seq(1 .. i) : s \in Seq(1 .. j)) /\ (\A s \in Seq(Seq(1 .. i)) : s \in Seq(Seq(1 .. j)))
<1> DEFINE A == Seq(1 .. i)
           B == Seq(1 .. j)
<1>1. A \in SUBSET B
  <2>1. 1 .. i \in SUBSET (1 .. j)
    OBVIOUS
  <2> QED
    BY <2>1
<1> HIDE DEF A, B
<1>2. \A s \in Seq(A) : s \in Seq(B)
  BY <1>1
<1> QED
  BY <1>1, <1>2 DEF A, B

\* One block more.
LEMMA OneBlockMore ==
  ASSUME NEW doc \in Seq(MdBlocks), NEW policy \in ChunkPolicies, NEW i \in Nat, i + 1 <= Len(doc),
         NEW st, Grouped(st, i), NEW full \in BOOLEAN
  PROVE  /\ Grouped([open |-> <<i + 1>>, out |-> Closed(st)], i + 1)
         /\ Grouped([open |-> << >>, out |-> Append(Closed(st), <<i + 1>>)], i + 1)
         /\ Grouped([open |-> Append(OverlapSeed(doc, st.open, policy), i + 1), out |-> Closed(st)], i + 1)
         /\ Grouped([st EXCEPT !.open = Append(@, i + 1)], i + 1)
<1> DEFINE j == i + 1
           seed == OverlapSeed(doc, st.open, policy)
<1>1. Closed(st) \in Seq(Seq(1 .. i)) /\ Rises(Closed(st))
  BY ClosedRises
<1>2. /\ st = [open |-> st.open, out |-> st.out] /\ st.open \in Seq(1 .. i) /\ st.out \in Seq(Seq(1 .. i))
      /\ Rises(st.out)
  BY DEF Grouped
<1>3. j \in Nat /\ j - 1 = i /\ i < j /\ i <= j /\ j \in 1 .. j
  OBVIOUS
<1>4. Closed(st) \in Seq(Seq(1 .. j)) /\ st.out \in Seq(Seq(1 .. j)) /\ st.open \in Seq(1 .. j)
  BY <1>1, <1>2, <1>3, WiderLists
<1>5. seed \in Seq(1 .. j)
  <2> DEFINE E == 1 .. i
  <2>1. E \in SUBSET (1 .. Len(doc)) /\ st.open \in Seq(E)
    <3>1. Len(doc) \in Nat
      BY LenProperties
    <3> QED
      BY <1>2, <3>1
  <2> HIDE DEF E
  <2>2. seed \in Seq(E)
    BY <2>1, SeedOfOpen
  <2> QED
    BY <1>3, <2>2, WiderLists DEF E
<1> HIDE DEF j, seed
<1>6. ASSUME NEW s \in Seq(1 .. j)
      PROVE  Append(s, j) \in Seq(1 .. j) /\ \E x \in 1 .. Len(Append(s, j)) : Append(s, j)[x] = j
  <2>1. Append(s, j) \in Seq(1 .. j) /\ Len(Append(s, j)) = Len(s) + 1 /\ Append(s, j)[Len(s) + 1] = j /\ Len(s) \in Nat
    BY <1>3, AppendProperties, LenProperties
  <2> DEFINE t == Append(s, j)
  <2> HIDE DEF t
  <2>2. Len(s) + 1 \in 1 .. Len(t) /\ t[Len(s) + 1] = j
    BY <2>1 DEF t
  <2> QED
    BY <2>1, <2>2 DEF t
<1>7. <<j>> \in Seq(1 .. j) /\ \E x \in 1 .. Len(<<j>>) : <<j>>[x] = j
  <2>1. <<j>> \in Seq(1 .. j) /\ 1 \in 1 .. Len(<<j>>) /\ <<j>>[1] = j
    BY <1>3
  <2> QED
    BY <2>1
<1>8. Grouped([open |-> <<j>>, out |-> Closed(st)], j)
  <2> DEFINE new == [open |-> <<j>>, out |-> Closed(st)]
  <2>1. new.open = <<j>> /\ new.out = Closed(st) /\ new = [open |-> new.open, out |-> new.out]
    OBVIOUS
  <2> HIDE DEF new
  <2> QED
    BY <1>1, <1>3, <1>4, <1>7, <2>1 DEF Grouped, new
<1>9. Grouped([open |-> << >>, out |-> Append(Closed(st), <<j>>)], j)
  <2> DEFINE new == [open |-> << >>, out |-> Append(Closed(st), <<j>>)]
  <2>1. Append(Closed(st), <<j>>) \in Seq(Seq(1 .. j)) /\ Rises(Append(Closed(st), <<j>>))
    BY <1>1, <1>3, <1>7, GroupAdded
  <2>2. new.open = << >> /\ new.out = Append(Closed(st), <<j>>) /\ new = [open |-> new.open, out |-> new.out]
    OBVIOUS
  <2>3. << >> \in Seq(1 .. j)
    BY EmptySeq
  <2> HIDE DEF new
  <2> QED
    BY <2>1, <2>2, <2>3 DEF Grouped, new
<1>10. Grouped([open |-> Append(seed, j), out |-> Closed(st)], j)
  <2> DEFINE new == [open |-> Append(seed, j), out |-> Closed(st)]
  <2>1. new.open = Append(seed, j) /\ new.out = Closed(st) /\ new = [open |-> new.open, out |-> new.out]
    OBVIOUS
  <2>2. Append(seed, j) \in Seq(1 .. j) /\ \E x \in 1 .. Len(Append(seed, j)) : Append(seed, j)[x] = j
    BY <1>5, <1>6
  <2> HIDE DEF new
  <2> QED
    BY <1>1, <1>3, <1>4, <2>1, <2>2 DEF Grouped, new
<1>11. Grouped([st EXCEPT !.open = Append(@, j)], j)
  <2> DEFINE new == [st EXCEPT !.open = Append(@, j)]
  <2>1. new.open = Append(st.open, j) /\ new.out = st.out /\ new = [open |-> new.open, out |-> new.out]
    <3> DEFINE o == st.open
               u == st.out
               v == Append(o, j)
    <3>1. st = [open |-> o, out |-> u]
      BY <1>2
    <3> HIDE DEF o, u, v
    <3>2. [st EXCEPT !.open = v] = [open |-> v, out |-> u]
      BY <3>1
    <3>3. new = [st EXCEPT !.open = v]
      BY DEF v, o
    <3> HIDE DEF new
    <3> QED
      BY <3>2, <3>3 DEF v, o, u
  <2>2. Append(st.open, j) \in Seq(1 .. j) /\ \E x \in 1 .. Len(Append(st.open, j)) : Append(st.open, j)[x] = j
    BY <1>4, <1>6
  <2> HIDE DEF new
  <2> QED
    BY <1>2, <1>3, <1>4, <2>1, <2>2 DEF Grouped, new
<1> QED
  BY <1>8, <1>9, <1>10, <1>11 DEF j, seed

\* The groups of a document are lists of its blocks, and rise.
LEMMA GroupsRise ==
  ASSUME NEW doc \in Seq(MdBlocks), NEW policy \in ChunkPolicies
  PROVE  GroupBlocks(doc, policy) \in Seq(Seq(1 .. Len(doc))) /\ Rises(GroupBlocks(doc, policy))
<1> DEFINE n == Len(doc)
           B == Seq(1 .. n)
           X == [open : B, out : Seq(B)]
           Full(st, i) == /\ OpenTokens(doc, st.open) + BlockTokens(doc, i) > policy.target
                          /\ \E k \in DOMAIN st.open : ~IsHeading(doc, st.open[k])
           Alone(st, i) == [open |-> <<i>>, out |-> Closed(st)]
           Apart(st, i) == [open |-> << >>, out |-> Append(Closed(st), <<i>>)]
           After(st, i) == [open |-> Append(OverlapSeed(doc, st.open, policy), i), out |-> Closed(st)]
           With(st, i) == [st EXCEPT !.open = Append(@, i)]
           Add(st, i) ==
             CASE doc[i].kind = "heading" -> Alone(st, i)
               [] doc[i].kind \in {"atom", "image"} -> Apart(st, i)
               [] doc[i].kind = "prose" /\ Full(st, i) -> After(st, i)
               [] OTHER -> With(st, i)
           base == [open |-> << >>, out |-> << >>]
           s == [i \in DOMAIN doc |-> i]
           Body(g) == [i \in 0 .. Len(s) |-> IF i = 0 THEN base ELSE Add(g[i - 1], s[i])]
           U == CHOOSE g : g = Body(g)
           step == [p \in X \X (1 .. n) |-> Add(p[1], p[2])]
<1>0. /\ n \in Nat /\ s \in Seq(1 .. n) /\ Len(s) = n /\ \A i \in 1 .. n : s[i] = i
  <2>1. n \in Nat /\ s = [i \in 1 .. n |-> i]
    BY LenProperties
  <2> HIDE DEF s
  <2>2. s \in Seq(1 .. n) /\ Len(s) = n
    BY <2>1
  <2> QED
    BY <2>1, <2>2
<1> HIDE DEF Full
<1>1. ASSUME NEW st, NEW i \in 1 .. n
      PROVE  Add(st, i) \in {Alone(st, i), Apart(st, i), After(st, i), With(st, i)}
  <2>1. doc[i].kind \in {"heading", "prose", "atom", "image"}
    <3>1. doc[i] \in MdBlocks
      BY ElementOfSeq
    <3> QED
      BY <3>1 DEF MdBlocks
  <2> HIDE DEF Alone, Apart, After, With
  <2>2. CASE doc[i].kind = "heading"
    BY <2>2
  <2>3. CASE doc[i].kind \in {"atom", "image"}
    BY <2>3
  <2>4. CASE doc[i].kind = "prose" /\ Full(st, i)
    BY <2>4
  <2>5. CASE doc[i].kind = "prose" /\ ~Full(st, i)
    BY <2>5
  <2> QED
    BY <2>1, <2>2, <2>3, <2>4, <2>5
<1> HIDE DEF Add
<1>2. ASSUME NEW st \in X, NEW i \in 1 .. n PROVE Add(st, i) \in X
  <2>1. st.open \in B /\ st.out \in Seq(B)
    OBVIOUS
  <2>2. <<i>> \in B /\ << >> \in B /\ Append(st.open, i) \in B
    BY <2>1
  <2>3. Append(OverlapSeed(doc, st.open, policy), i) \in B
    <3> DEFINE E == 1 .. n
    <3>1. OverlapSeed(doc, st.open, policy) \in Seq(E)
      <4>1. E \in SUBSET (1 .. Len(doc)) /\ st.open \in Seq(E)
        BY <2>1
      <4> HIDE DEF E
      <4> QED
        BY <4>1, SeedOfOpen
    <3> QED
      BY <3>1, AppendProperties
  <2> HIDE DEF B
  <2>4. Closed(st) \in Seq(B) /\ Append(Closed(st), <<i>>) \in Seq(B)
    <3>1. Closed(st) \in Seq(B)
      BY <2>1, AppendProperties DEF Closed
    <3> QED
      BY <2>2, <3>1, AppendProperties
  <2>5. Alone(st, i) \in X /\ Apart(st, i) \in X /\ After(st, i) \in X
    BY <2>2, <2>3, <2>4
  <2>6. With(st, i) \in X
    <3> DEFINE v == Append(st.open, i)
    <3>1. v \in B
      BY <2>2
    <3> HIDE DEF v
    <3>2. [st EXCEPT !.open = v] \in X
      BY <3>1
    <3> QED
      BY <3>2 DEF v
  <2> HIDE DEF X, Alone, Apart, After, With
  <2> QED
    BY <1>1, <2>5, <2>6
<1>3. base \in X
  <2>1. << >> \in B /\ << >> \in Seq(B)
    BY EmptySeq
  <2> HIDE DEF B
  <2> QED
    BY <2>1
<1> HIDE DEF X, base, s
<1>4. step \in [X \X (1 .. n) -> X]
  BY <1>2
<1>5. PICK g : Walks(g, step, base, s) /\ \A i \in 0 .. Len(s) : g[i] \in X
  <2> HIDE DEF step
  <2> QED
    BY <1>0, <1>3, <1>4, WalkExists
<1>6. ASSUME NEW i \in 0 .. Len(s) PROVE g[i] = IF i = 0 THEN base ELSE Add(g[i - 1], s[i])
  <2>1. g[i] = IF i = 0 THEN base ELSE step[<<g[i - 1], s[i]>>]
    BY <1>5 DEF Walks
  <2>2. i # 0 => <<g[i - 1], s[i]>> \in X \X (1 .. n)
    BY <1>0, <1>5
  <2> QED
    BY <2>1, <2>2
<1>7. g = Body(g)
  BY <1>5, <1>6 DEF Walks
<1>8. U = Body(U)
  BY <1>7
<1> HIDE DEF U
<1>9. U[0] = base /\ \A i \in 1 .. n : U[i] = Add(U[i - 1], i)
  <2>1. ASSUME NEW i \in 0 .. n PROVE U[i] = IF i = 0 THEN base ELSE Add(U[i - 1], s[i])
    <3>1. U[i] = Body(U)[i]
      BY <1>8
    <3> QED
      BY <1>0, <3>1
  <2>2. 0 \in 0 .. n /\ \A i \in 1 .. n : i \in 0 .. n /\ i # 0 /\ s[i] = i
    BY <1>0
  <2> QED
    BY <2>1, <2>2
<1> DEFINE T == {m \in Nat : m <= n => Grouped(U[m], m)}
<1>10. 0 \in T
  <2> SUFFICES Grouped(base, 0)
    BY <1>9
  <2>1. base.open = << >> /\ base.out = << >> /\ base = [open |-> base.open, out |-> base.out]
    BY DEF base
  <2>2. << >> \in Seq(1 .. 0) /\ << >> \in Seq(Seq(1 .. 0)) /\ Rises(<< >>)
    BY EmptySeq DEF Rises
  <2> QED
    BY <2>1, <2>2 DEF Grouped
<1>11. ASSUME NEW m \in Nat, m \in T PROVE m + 1 \in T
  <2> SUFFICES ASSUME m + 1 <= n PROVE Grouped(U[m + 1], m + 1)
    OBVIOUS
  <2>1. m + 1 \in 1 .. n /\ (m + 1) - 1 = m /\ Grouped(U[m], m)
    BY <1>0, <1>11
  <2>2. U[m + 1] = Add(U[m], m + 1)
    BY <1>9, <2>1
  <2>3. /\ Grouped(Alone(U[m], m + 1), m + 1) /\ Grouped(Apart(U[m], m + 1), m + 1)
        /\ Grouped(After(U[m], m + 1), m + 1) /\ Grouped(With(U[m], m + 1), m + 1)
    <3> DEFINE st == U[m]
    <3>1. Grouped(st, m)
      BY <2>1
    <3> HIDE DEF st
    <3> QED
      BY <3>1, OneBlockMore DEF st
  <2> HIDE DEF Alone, Apart, After, With
  <2>4. Add(U[m], m + 1) \in {Alone(U[m], m + 1), Apart(U[m], m + 1), After(U[m], m + 1), With(U[m], m + 1)}
    BY <1>1, <2>1
  <2> QED
    BY <2>2, <2>3, <2>4
<1>12. Grouped(U[n], n)
  <2> HIDE DEF T
  <2>1. n \in T
    BY <1>0, <1>10, <1>11, NatSets
  <2> QED
    BY <1>0, <2>1 DEF T
<1>13. GroupBlocks(doc, policy) = Closed(U[Len(s)])
  BY DEF GroupBlocks, Over, U, Add, base, s, Full, Closed
<1> QED
  BY <1>0, <1>12, <1>13, ClosedRises

\* Of two lists that rise neither has the elements of the other.
LEMMA RisingDiffer ==
  ASSUME NEW n \in Nat, NEW out \in Seq(Seq(1 .. n)), Rises(out),
         NEW k \in 1 .. Len(out), NEW l \in 1 .. Len(out), ToSet(out[k]) = ToSet(out[l])
  PROVE  k = l
<1>0. ASSUME NEW i \in 1 .. Len(out)
      PROVE  /\ DOMAIN out[i] = 1 .. Len(out[i]) /\ \A x \in 1 .. Len(out[i]) : out[i][x] \in Nat
             /\ ToSet(out[i]) = {out[i][x] : x \in 1 .. Len(out[i])}
  <2> DEFINE B == Seq(1 .. n)
             t == out[i]
  <2>1. t \in B
    <3> HIDE DEF B
    <3> QED
      BY ElementOfSeq DEF B
  <2> HIDE DEF t
  <2>2. DOMAIN t = 1 .. Len(t) /\ \A x \in 1 .. Len(t) : t[x] \in 1 .. n
    BY <2>1, LenProperties, ElementOfSeq
  <2>3. \A x \in 1 .. Len(t) : t[x] \in Nat
    BY <2>2
  <2> QED
    BY <2>2, <2>3 DEF ToSet, t
<1>1. ASSUME NEW a \in 1 .. Len(out), NEW b \in 1 .. Len(out), a < b, ToSet(out[a]) = ToSet(out[b])
      PROVE  FALSE
  <2>1. PICK x \in 1 .. Len(out[b]) : \A y \in 1 .. Len(out[a]) : out[a][y] < out[b][x]
    BY <1>1 DEF Rises
  <2>2. out[b][x] \in ToSet(out[a])
    BY <1>0, <1>1
  <2>3. PICK y \in 1 .. Len(out[a]) : out[a][y] = out[b][x]
    BY <1>0, <2>2
  <2>4. out[a][y] < out[b][x] /\ out[a][y] \in Nat
    BY <1>0, <2>1
  <2> QED
    BY <2>3, <2>4
<1>2. k \in Nat /\ l \in Nat
  <2> DEFINE B == Seq(1 .. n)
  <2> HIDE DEF B
  <2>1. Len(out) \in Nat
    BY LenProperties DEF B
  <2> QED
    BY <2>1
<1> QED
  BY <1>1, <1>2

\* The pieces of a group have its blocks in their ids, and their number.
LEMMA MarkdownDistinct ==
  ASSUME NEW doc \in Seq(MdBlocks), NEW policy \in ChunkPolicies
  PROVE  IsSequence(HeadingV2(doc, policy)) /\ Distinct(HeadingV2(doc, policy))
<1> DEFINE groups == GroupBlocks(doc, policy)
           Small(g) == EmbedTokens(doc, groups[g]) <= policy.max
           Pieces(g) == TextPieces(GroupText(doc, groups[g]), policy.max)
           One(g) == MdChunk(groups[g], << >>, GroupText(doc, groups[g]))
           Piece(g, i) == MdChunk(groups[g], <<"seg", i - 1>>, Pieces(g)[i])
           Split(g) == [i \in DOMAIN Pieces(g) |-> Piece(g, i)]
           list == [g \in DOMAIN groups |-> IF Small(g) THEN <<One(g)>> ELSE Split(g)]
           m == Len(groups)
<1>0. m \in Nat /\ DOMAIN groups = 1 .. m /\ \A g \in 1 .. m : groups[g] \in Seq(1 .. Len(doc))
  <2> DEFINE B == Seq(1 .. Len(doc))
  <2>1. groups \in Seq(B)
    BY GroupsRise
  <2> HIDE DEF groups, B
  <2>2. m \in Nat /\ DOMAIN groups = 1 .. m /\ \A g \in 1 .. m : groups[g] \in B
    BY <2>1, LenProperties, ElementOfSeq
  <2> QED
    BY <2>2 DEF B
<1>1. ASSUME NEW g \in 1 .. m, NEW h \in 1 .. m, ToSet(groups[g]) = ToSet(groups[h]) PROVE g = h
  <2>1. groups \in Seq(Seq(1 .. Len(doc))) /\ Rises(groups) /\ Len(doc) \in Nat
    BY GroupsRise, LenProperties
  <2> HIDE DEF groups
  <2> QED
    BY <1>1, <2>1, RisingDiffer
<1>2. ASSUME NEW g \in 1 .. m PROVE \E n \in Nat : DOMAIN Pieces(g) = 1 .. n
  <2> DEFINE group == groups[g]
             parts == [k \in DOMAIN group |-> doc[group[k]].text]
             Text == Seq(Characters)
  <2>1. group \in Seq(1 .. Len(doc))
    BY <1>0
  <2> HIDE DEF group
  <2>2. Len(group) \in Nat /\ DOMAIN group = 1 .. Len(group) /\ \A k \in 1 .. Len(group) : group[k] \in 1 .. Len(doc)
    BY <2>1, LenProperties, ElementOfSeq
  <2>3. \A i \in 1 .. Len(doc) : doc[i].text \in Text
    <3>1. \A i \in 1 .. Len(doc) : doc[i] \in MdBlocks
      BY ElementOfSeq
    <3> QED
      BY <3>1 DEF MdBlocks
  <2>4. parts \in Seq(Text)
    <3> HIDE DEF Text
    <3>1. \A k \in 1 .. Len(group) : parts[k] \in Text
      BY <2>2, <2>3
    <3>2. parts = [k \in 1 .. Len(group) |-> parts[k]]
      BY <2>2
    <3> HIDE DEF parts
    <3> QED
      BY <2>2, <3>1, <3>2
  <2> HIDE DEF parts
  <2> DEFINE sep == <<"nl", "nl">>
  <2>5. sep \in Text
    BY Newlines
  <2> HIDE DEF sep
  <2>6. JoinWith(sep, parts) \in Text
    BY <2>4, <2>5, JoinedIsText
  <2>7. GroupText(doc, group) \in Text
    BY <2>6 DEF GroupText, sep, parts
  <2>8. TextPieces(GroupText(doc, group), policy.max) \in Seq(Text)
    BY <2>7, PiecesAreTexts
  <2> HIDE DEF Text
  <2> QED
    BY <2>8, LenProperties DEF group
<1> HIDE DEF groups, Small, Pieces
<1>3. \A group, suffix, text : MdChunk(group, suffix, text).id = <<ToSet(group), suffix>>
  BY DEF MdChunk
<1>4. ASSUME NEW g \in 1 .. m
      PROVE  /\ IsSequence(list[g])
             /\ \A i \in DOMAIN list[g] : list[g][i].id[1] = ToSet(groups[g])
             /\ \A i, j \in DOMAIN list[g] : list[g][i].id = list[g][j].id => i = j
  <2>1. CASE Small(g)
    <3>1. list[g] = <<One(g)>>
      BY <1>0, <2>1
    <3>2. One(g).id = <<ToSet(groups[g]), << >>>>
      BY <1>3
    <3> HIDE DEF One, list
    <3>3. IsSequence(<<One(g)>>) /\ DOMAIN <<One(g)>> = 1 .. 1 /\ <<One(g)>>[1] = One(g)
      BY OneElement
    <3>4. \A i \in 1 .. 1 : i = 1
      OBVIOUS
    <3>5. One(g).id[1] = ToSet(groups[g])
      BY <3>2
    <3> QED
      BY <3>1, <3>3, <3>4, <3>5
  <2>2. CASE ~Small(g)
    <3>1. list[g] = Split(g)
      BY <1>0, <2>2
    <3>2. PICK n \in Nat : DOMAIN Pieces(g) = 1 .. n
      BY <1>2
    <3>3. \A i \in 1 .. n : Piece(g, i).id = <<ToSet(groups[g]), <<"seg", i - 1>>>>
      BY <1>3
    <3> HIDE DEF Piece, list
    <3>4. DOMAIN Split(g) = 1 .. n /\ \A i \in 1 .. n : Split(g)[i] = Piece(g, i)
      BY <3>2
    <3>5. Split(g) \in Seq({Piece(g, i) : i \in 1 .. n})
      BY <3>2
    <3> HIDE DEF Split
    <3>6. ASSUME NEW i \in 1 .. n, NEW j \in 1 .. n, Piece(g, i).id = Piece(g, j).id PROVE i = j
      <4>1. <<"seg", i - 1>> = <<"seg", j - 1>>
        BY <3>3, <3>6
      <4>2. i - 1 = j - 1
        BY <4>1
      <4> QED
        BY <4>2
    <3>7. \A i \in 1 .. n : Piece(g, i).id[1] = ToSet(groups[g])
      BY <3>3
    <3> QED
      BY <3>1, <3>4, <3>5, <3>6, <3>7 DEF IsSequence
  <2> QED
    BY <2>1, <2>2
<1>5. IsSequence(list) /\ Len(list) = m
  <2>1. list = [g \in 1 .. m |-> list[g]]
    BY <1>0
  <2> HIDE DEF list
  <2> QED
    BY <1>0, <2>1, TabledList
<1> HIDE DEF list
<1>6. DistinctUpTo(list, m)
  BY <1>1, <1>4 DEF DistinctUpTo
<1>7. HeadingV2(doc, policy) = FlattenSeq(list)
  BY DEF HeadingV2, SplitGroup, list, groups, Small, Pieces
<1> QED
  BY <1>4, <1>5, <1>6, <1>7, FlatDistinct

-----------------------------------------------------------------------------
(* Chunks: what is cut off piece by piece *)

\* A table of lists: nothing where nothing is left, else an item and the list of the rest.
Unfolds(G, D, left, next, item) ==
  G = [d \in D |-> IF left[d] = 0 THEN << >> ELSE <<item[d]>> \o G[next[d]]]

LEMMA UnfoldExists ==
  ASSUME NEW D, NEW top \in Nat, NEW left \in [D -> 0 .. top], NEW next \in [D -> D], NEW item,
         \A d \in D : left[d] # 0 => left[next[d]] < left[d]
  PROVE  \E G : Unfolds(G, D, left, next, item)
<1> DEFINE E(m) == {d \in D : left[d] <= m}
           Body(G, m) == [d \in E(m) |-> IF left[d] = 0 THEN << >> ELSE <<item[d]>> \o G[next[d]]]
           T == {m \in Nat : \E G : G = Body(G, m)}
<1>1. 0 \in T
  <2> DEFINE G == [d \in E(0) |-> << >>]
  <2>1. \A d \in E(0) : left[d] = 0
    OBVIOUS
  <2>2. G = Body(G, 0)
    BY <2>1
  <2> HIDE DEF G, Body
  <2> QED
    BY <2>2
<1>2. ASSUME NEW m \in Nat, m \in T PROVE m + 1 \in T
  <2>1. PICK g : g = Body(g, m)
    BY <1>2
  <2> DEFINE h == [d \in E(m + 1) |-> IF left[d] <= m THEN g[d] ELSE <<item[d]>> \o g[next[d]]]
  <2>2. ASSUME NEW d \in E(m + 1)
        PROVE  h[d] = IF left[d] = 0 THEN << >> ELSE <<item[d]>> \o h[next[d]]
    <3>0. /\ d \in D /\ left[d] \in Nat /\ left[d] <= m + 1 /\ next[d] \in D /\ left[next[d]] \in Nat
          /\ (left[d] # 0 => left[next[d]] < left[d])
      OBVIOUS
    <3>1. left[d] # 0 => next[d] \in E(m + 1) /\ h[next[d]] = g[next[d]]
      BY <3>0
    <3>2. CASE left[d] <= m
      <4>1. d \in E(m) /\ h[d] = g[d]
        BY <3>0, <3>2
      <4>2. g[d] = Body(g, m)[d]
        BY <2>1
      <4>3. g[d] = IF left[d] = 0 THEN << >> ELSE <<item[d]>> \o g[next[d]]
        BY <4>1, <4>2
      <4> HIDE DEF h
      <4> QED
        BY <3>1, <4>1, <4>3
    <3>3. CASE ~(left[d] <= m)
      <4>1. h[d] = <<item[d]>> \o g[next[d]] /\ left[d] # 0
        BY <3>0, <3>3
      <4> HIDE DEF h
      <4> QED
        BY <3>1, <4>1
    <3> QED
      BY <3>2, <3>3
  <2>3. h = Body(h, m + 1)
    <3> DEFINE body == Body(h, m + 1)
    <3>1. \A d \in E(m + 1) : h[d] = body[d]
      BY <2>2
    <3>2. h = [d \in E(m + 1) |-> h[d]] /\ body = [d \in E(m + 1) |-> body[d]]
      OBVIOUS
    <3> HIDE DEF h, body
    <3>3. h = body
      BY <3>1, <3>2
    <3> QED
      BY <3>3 DEF body
  <2> HIDE DEF h, Body
  <2> QED
    BY <2>3
<1>3. top \in T
  <2> HIDE DEF T
  <2> QED
    BY <1>1, <1>2, NatSets
<1>4. PICK G : G = Body(G, top)
  BY <1>3
<1>5. E(top) = D
  OBVIOUS
<1> QED
  BY <1>4, <1>5 DEF Unfolds

\* The items of a list come from places of D, each beyond the one before, from low on.
Unfolded(t, D, left, item, at, low) ==
  /\ IsSequence(t)
  /\ \A k \in 1 .. Len(t) : \E d \in D : left[d] # 0 /\ t[k] = item[d] /\ at[d] >= low
  /\ \A k, l \in 1 .. Len(t) : k < l =>
       \E d, e \in D : left[d] # 0 /\ left[e] # 0 /\ t[k] = item[d] /\ t[l] = item[e] /\ at[d] < at[e]

\* One item before the others.
LEMMA OneBefore ==
  ASSUME NEW x, NEW t, IsSequence(t)
  PROVE  /\ IsSequence(<<x>> \o t) /\ Len(<<x>> \o t) = Len(t) + 1 /\ Len(t) \in Nat /\ (<<x>> \o t)[1] = x
         /\ \A k \in 1 .. Len(t) + 1 : k # 1 => k - 1 \in 1 .. Len(t) /\ (<<x>> \o t)[k] = t[k - 1]
<1>1. PICK S : t \in Seq(S)
  BY DEF IsSequence
<1> DEFINE V == S \cup {x}
           new == <<x>> \o t
<1>2. <<x>> \in Seq(V) /\ t \in Seq(V) /\ Len(<<x>>) = 1 /\ <<x>>[1] = x /\ Len(t) \in Nat
  BY <1>1, LenProperties
<1> HIDE DEF V
<1>3. new \in Seq(V) /\ Len(new) = 1 + Len(t) /\ \A k \in 1 .. 1 + Len(t) : new[k] = IF k <= 1 THEN <<x>>[k] ELSE t[k - 1]
  <2> DEFINE o == <<x>>
  <2>1. o \in Seq(V) /\ Len(o) = 1
    BY <1>2
  <2> HIDE DEF o
  <2>2. o \o t \in Seq(V) /\ Len(o \o t) = 1 + Len(t) /\ \A k \in 1 .. 1 + Len(t) : (o \o t)[k] = IF k <= 1 THEN o[k] ELSE t[k - 1]
    BY <1>2, <2>1, ConcatProperties
  <2> QED
    BY <2>2 DEF o
<1> HIDE DEF new
<1>4. IsSequence(new) /\ Len(new) = Len(t) + 1
  BY <1>2, <1>3 DEF IsSequence
<1>5. new[1] = x
  BY <1>2, <1>3
<1>6. ASSUME NEW k \in 1 .. Len(t) + 1, k # 1 PROVE k - 1 \in 1 .. Len(t) /\ new[k] = t[k - 1]
  BY <1>2, <1>3, <1>6
<1> QED
  BY <1>2, <1>4, <1>5, <1>6 DEF new

LEMMA UnfoldedInOrder ==
  ASSUME NEW D, NEW top \in Nat, NEW left \in [D -> 0 .. top], NEW next \in [D -> D], NEW item,
         NEW at \in [D -> Nat], \A d \in D : left[d] # 0 => left[next[d]] < left[d] /\ at[d] < at[next[d]],
         NEW G, Unfolds(G, D, left, next, item), NEW d \in D
  PROVE  Unfolded(G[d], D, left, item, at, at[d])
<1> DEFINE T == {m \in Nat : \A e \in D : left[e] <= m => Unfolded(G[e], D, left, item, at, at[e])}
<1>0. ASSUME NEW e \in D
      PROVE  G[e] = IF left[e] = 0 THEN << >> ELSE <<item[e]>> \o G[next[e]]
  BY DEF Unfolds
<1>1. ASSUME NEW e \in D, left[e] = 0 PROVE Unfolded(G[e], D, left, item, at, at[e])
  <2>1. G[e] = << >>
    BY <1>0, <1>1
  <2>2. << >> \in Seq({}) /\ Len(<< >>) = 0
    BY EmptySeq
  <2> QED
    BY <2>1, <2>2 DEF Unfolded, IsSequence
<1>2. 0 \in T
  BY <1>1
<1>3. ASSUME NEW m \in Nat, m \in T PROVE m + 1 \in T
  <2> SUFFICES ASSUME NEW e \in D, left[e] <= m + 1 PROVE Unfolded(G[e], D, left, item, at, at[e])
    OBVIOUS
  <2>1. CASE left[e] = 0
    BY <1>1, <2>1
  <2>2. CASE left[e] # 0
    <3> DEFINE t == G[next[e]]
               new == <<item[e]>> \o t
    <3>0. /\ next[e] \in D /\ left[next[e]] \in Nat /\ left[e] \in Nat /\ left[next[e]] < left[e]
          /\ at[e] \in Nat /\ at[next[e]] \in Nat /\ at[e] < at[next[e]]
      BY <2>2
    <3>1. left[next[e]] <= m
      BY <3>0
    <3>2. Unfolded(t, D, left, item, at, at[next[e]])
      BY <1>3, <3>0, <3>1
    <3>3. G[e] = new
      BY <1>0, <2>2
    <3> HIDE DEF t
    <3>4. /\ IsSequence(new) /\ Len(new) = Len(t) + 1 /\ Len(t) \in Nat /\ new[1] = item[e]
          /\ \A k \in 1 .. Len(t) + 1 : k # 1 => k - 1 \in 1 .. Len(t) /\ new[k] = t[k - 1]
      BY <3>2, OneBefore DEF Unfolded
    <3> HIDE DEF new
    <3>5. ASSUME NEW k \in 1 .. Len(new) PROVE \E f \in D : left[f] # 0 /\ new[k] = item[f] /\ at[f] >= at[e]
      <4>1. CASE k = 1
        BY <2>2, <3>0, <3>4, <4>1
      <4>2. CASE k # 1
        <5>1. k - 1 \in 1 .. Len(t) /\ new[k] = t[k - 1]
          BY <3>4, <4>2
        <5>2. PICK f \in D : left[f] # 0 /\ t[k - 1] = item[f] /\ at[f] >= at[next[e]]
          BY <3>2, <5>1 DEF Unfolded
        <5>3. at[f] \in Nat /\ at[f] >= at[e]
          BY <3>0, <5>2
        <5> QED
          BY <5>1, <5>2, <5>3
      <4> QED
        BY <4>1, <4>2
    <3>6. ASSUME NEW k \in 1 .. Len(new), NEW l \in 1 .. Len(new), k < l
          PROVE  \E f, h \in D : left[f] # 0 /\ left[h] # 0 /\ new[k] = item[f] /\ new[l] = item[h] /\ at[f] < at[h]
      <4>1. l # 1 /\ l - 1 \in 1 .. Len(t) /\ new[l] = t[l - 1]
        <5>1. l # 1
          BY <3>4, <3>6
        <5> QED
          BY <3>4, <5>1
      <4>2. CASE k = 1
        <5>1. PICK h \in D : left[h] # 0 /\ t[l - 1] = item[h] /\ at[h] >= at[next[e]]
          BY <3>2, <4>1 DEF Unfolded
        <5>2. at[e] < at[h] /\ new[k] = item[e]
          <6>1. at[h] \in Nat
            BY <5>1
          <6> QED
            BY <3>0, <3>4, <4>2, <5>1, <6>1
        <5> QED
          BY <2>2, <4>1, <5>1, <5>2
      <4>3. CASE k # 1
        <5>1. k - 1 \in 1 .. Len(t) /\ new[k] = t[k - 1]
          BY <3>4, <4>3
        <5>2. k - 1 < l - 1
          BY <3>4, <3>6
        <5>3. \A a, b \in 1 .. Len(t) : a < b =>
                \E f, h \in D : left[f] # 0 /\ left[h] # 0 /\ t[a] = item[f] /\ t[b] = item[h] /\ at[f] < at[h]
          BY <3>2 DEF Unfolded
        <5>4. \E f, h \in D : left[f] # 0 /\ left[h] # 0 /\ t[k - 1] = item[f] /\ t[l - 1] = item[h] /\ at[f] < at[h]
          <6> DEFINE a == k - 1
                     b == l - 1
          <6>1. a \in 1 .. Len(t) /\ b \in 1 .. Len(t) /\ a < b
            BY <4>1, <5>1, <5>2
          <6> HIDE DEF a, b
          <6>2. \E f, h \in D : left[f] # 0 /\ left[h] # 0 /\ t[a] = item[f] /\ t[b] = item[h] /\ at[f] < at[h]
            BY <5>3, <6>1
          <6> QED
            BY <6>2 DEF a, b
        <5> QED
          BY <4>1, <5>1, <5>4
      <4> QED
        BY <4>2, <4>3
    <3> QED
      BY <3>3, <3>4, <3>5, <3>6 DEF Unfolded
  <2> QED
    BY <2>1, <2>2
<1>4. top \in T
  <2> HIDE DEF T
  <2> QED
    BY <1>2, <1>3, NatSets
<1> QED
  BY <1>4

-----------------------------------------------------------------------------
(* Chunks: code *)

\* What of a unit begins where, each part behind the one before.
LEMMA PartsInOrder ==
  ASSUME NEW lines, Len(lines) \in Nat
  PROVE  /\ IsSequence(AstParts(lines))
         /\ \A i \in 1 .. Len(AstParts(lines)) : AstParts(lines)[i].a \in Nat
         /\ \A i, j \in 1 .. Len(AstParts(lines)) : i < j => AstParts(lines)[i].a < AstParts(lines)[j].a
<1> DEFINE total == Len(lines)
           D == 0 .. total
           End(start) == Min({start + AstMaxLines, total})
           Floor(start) == Min({start + (AstMaxLines * 4) \div 5, End(start)})
           Blanks(start) == {i \in Floor(start) .. End(start) - 1 : BlankLine(lines[i + 1])}
           Cut(start) == IF End(start) < total /\ Blanks(start) # {} THEN Max(Blanks(start)) + 1 ELSE End(start)
           Part(start) == [a |-> start + 1, b |-> Cut(start)]
           Body(G) == [start \in D |-> IF start = total THEN << >> ELSE <<Part(start)>> \o G[Cut(start)]]
           Parts == CHOOSE G : G = Body(G)
           left == [d \in D |-> total - d]
           next == [d \in D |-> IF d = total THEN d ELSE Cut(d)]
           item == [d \in D |-> Part(d)]
           at == [d \in D |-> d]
<1>1. ASSUME NEW start \in D, start # total PROVE Cut(start) \in D /\ start < Cut(start)
  <2>1. start \in Nat /\ start < total /\ total \in Nat /\ AstMaxLines \in Nat /\ AstMaxLines > 0
    BY <1>1, ChunkAssumption
  <2>2. (AstMaxLines * 4) \div 5 \in Nat
    BY <2>1
  <2>3. End(start) \in {start + AstMaxLines, total}
    <3>1. {start + AstMaxLines, total} \in SUBSET Nat
      BY <2>1
    <3> QED
      BY <3>1, LeastOfSome
  <2>4. End(start) <= total
    <3>1. {start + AstMaxLines, total} \in SUBSET Nat
      BY <2>1
    <3> QED
      BY <3>1, LeastOfSome
  <2> HIDE DEF End
  <2>5. End(start) \in Nat /\ start < End(start)
    BY <2>1, <2>3
  <2>6. Floor(start) \in {start + (AstMaxLines * 4) \div 5, End(start)}
    <3>1. {start + (AstMaxLines * 4) \div 5, End(start)} \in SUBSET Nat
      BY <2>1, <2>2, <2>5
    <3> QED
      BY <3>1, LeastOfSome
  <2> HIDE DEF Floor
  <2>7. Floor(start) \in Nat /\ start <= Floor(start)
    BY <2>1, <2>2, <2>5, <2>6
  <2>8. CASE End(start) < total /\ Blanks(start) # {}
    <3> DEFINE S == Blanks(start)
    <3>1. S \in SUBSET Nat
      BY <2>7
    <3>2. IsFiniteSet(S)
      <4>1. S \in SUBSET (Floor(start) .. End(start) - 1)
        OBVIOUS
      <4>2. IsFiniteSet(Floor(start) .. End(start) - 1)
        BY <2>5, <2>7, FS_Interval
      <4> HIDE DEF S
      <4> QED
        BY <4>1, <4>2, FS_Subset
    <3>3. Max(S) \in S
      <4> HIDE DEF S
      <4> QED
        BY <2>8, <3>1, <3>2, GreatestOfSome DEF S
    <3>4. Max(S) \in Nat /\ Floor(start) <= Max(S) /\ Max(S) <= End(start) - 1
      BY <3>1, <3>3
    <3>5. Cut(start) = Max(S) + 1
      BY <2>8
    <3> HIDE DEF S, Cut, Blanks
    <3> QED
      BY <2>1, <2>4, <2>5, <2>7, <3>4, <3>5
  <2>9. CASE ~(End(start) < total /\ Blanks(start) # {})
    <3>1. Cut(start) = End(start)
      BY <2>9
    <3> HIDE DEF Cut
    <3> QED
      BY <2>1, <2>4, <2>5, <3>1
  <2> QED
    BY <2>8, <2>9
<1> HIDE DEF Cut
<1>2. /\ total \in Nat /\ left \in [D -> 0 .. total] /\ next \in [D -> D] /\ at \in [D -> Nat]
      /\ \A d \in D : left[d] # 0 => left[next[d]] < left[d] /\ at[d] < at[next[d]]
      /\ \A d \in D : left[d] = 0 <=> d = total
  <2>1. left \in [D -> 0 .. total] /\ at \in [D -> Nat]
    OBVIOUS
  <2>2. next \in [D -> D]
    BY <1>1
  <2>3. ASSUME NEW d \in D PROVE /\ left[d] = 0 <=> d = total
                                 /\ left[d] # 0 => left[next[d]] < left[d] /\ at[d] < at[next[d]]
    <3>1. d \in Nat /\ d <= total /\ left[d] = total - d /\ at[d] = d
      OBVIOUS
    <3>2. CASE d # total
      <4>1. next[d] = Cut(d) /\ Cut(d) \in D /\ d < Cut(d)
        BY <1>1, <3>2
      <4>2. left[next[d]] = total - Cut(d) /\ at[next[d]] = Cut(d)
        BY <4>1
      <4> HIDE DEF left, at, next
      <4> QED
        BY <3>1, <4>1, <4>2
    <3> QED
      BY <3>1, <3>2
  <2> QED
    BY <2>1, <2>2, <2>3
<1>3. PICK g : Unfolds(g, D, left, next, item)
  <2> HIDE DEF left, next, item, at, D
  <2> QED
    BY <1>2, UnfoldExists
<1>4. \A G : Unfolds(G, D, left, next, item) <=> G = Body(G)
  <2> SUFFICES ASSUME NEW G PROVE Unfolds(G, D, left, next, item) <=> G = Body(G)
    OBVIOUS
  <2> DEFINE Other == [d \in D |-> IF left[d] = 0 THEN << >> ELSE <<item[d]>> \o G[next[d]]]
  <2>1. ASSUME NEW d \in D PROVE Other[d] = Body(G)[d]
    <3>1. Other[d] = IF left[d] = 0 THEN << >> ELSE <<item[d]>> \o G[next[d]]
      OBVIOUS
    <3>2. Body(G)[d] = IF d = total THEN << >> ELSE <<Part(d)>> \o G[Cut(d)]
      OBVIOUS
    <3>3. item[d] = Part(d) /\ (d # total => next[d] = Cut(d))
      OBVIOUS
    <3> HIDE DEF Other, Body, item, next, left, Part
    <3> QED
      BY <1>2, <3>1, <3>2, <3>3
  <2>2. Other = [d \in D |-> Other[d]] /\ Body(G) = [d \in D |-> Body(G)[d]]
    OBVIOUS
  <2> HIDE DEF Other, Body
  <2>3. Other = Body(G)
    BY <2>1, <2>2
  <2> QED
    BY <2>3 DEF Unfolds, Other
<1>5. Unfolds(Parts, D, left, next, item)
  BY <1>3, <1>4
<1> HIDE DEF Parts
<1> DEFINE t == Parts[0]
<1>6. Unfolded(t, D, left, item, at, at[0])
  <2>1. 0 \in D
    BY <1>2
  <2> HIDE DEF left, next, item, at, D
  <2> QED
    BY <1>2, <1>5, <2>1, UnfoldedInOrder
<1>7. AstParts(lines) = t
  BY DEF AstParts, Parts, Cut
<1>8. \A d \in D : item[d].a = d + 1 /\ at[d] = d /\ d \in Nat
  OBVIOUS
<1> HIDE DEF t, item, at, left, D
<1>9. ASSUME NEW i \in 1 .. Len(t) PROVE t[i].a \in Nat
  <2>1. PICK d \in D : t[i] = item[d]
    BY <1>6 DEF Unfolded
  <2> QED
    BY <1>8, <2>1
<1>10. ASSUME NEW i \in 1 .. Len(t), NEW j \in 1 .. Len(t), i < j PROVE t[i].a < t[j].a
  <2>1. PICK d, e \in D : t[i] = item[d] /\ t[j] = item[e] /\ at[d] < at[e]
    BY <1>6, <1>10 DEF Unfolded
  <2> QED
    BY <1>8, <2>1
<1>11. IsSequence(t)
  BY <1>6 DEF Unfolded
<1> QED
  BY <1>7, <1>9, <1>10, <1>11

\* The parts of a unit have the unit in their ids, and their first line.
LEMMA UnitDistinct ==
  ASSUME NEW u, NEW unit \in [from : Nat, lines : Seq(STRING)]
  PROVE  /\ IsSequence(AstUnit(u, unit)) /\ Distinct(AstUnit(u, unit))
         /\ \A i \in DOMAIN AstUnit(u, unit) : AstUnit(u, unit)[i].id[1] = {u}
<1> DEFINE parts == AstParts(unit.lines)
           One == CodeChunk({u}, << >>, unit.lines, unit.from, 1, Len(unit.lines))
           Part(i) == CodeChunk({u}, <<"L", unit.from + parts[i].a - 1>>, unit.lines,
                                unit.from, parts[i].a, parts[i].b)
           split == [i \in DOMAIN parts |-> Part(i)]
           res == AstUnit(u, unit)
<1>0. unit.from \in Nat /\ Len(unit.lines) \in Nat
  BY LenProperties
<1>1. \A suffix, a, b : /\ CodeChunk({u}, suffix, unit.lines, unit.from, a, b).id = <<{u}, suffix>>
                       /\ CodeChunk({u}, suffix, unit.lines, unit.from, a, b).id[1] = {u}
  BY DEF CodeChunk
<1>2. CASE Len(unit.lines) <= AstMaxLines
  <2>1. res = <<One>>
    BY <1>2 DEF AstUnit
  <2>2. One.id[1] = {u}
    BY <1>1
  <2> HIDE DEF One, res
  <2>3. IsSequence(<<One>>) /\ DOMAIN <<One>> = 1 .. 1 /\ <<One>>[1] = One /\ \A i \in 1 .. 1 : i = 1
    BY OneElement
  <2> QED
    BY <2>1, <2>2, <2>3 DEF Distinct, res
<1>3. CASE ~(Len(unit.lines) <= AstMaxLines)
  <2>1. res = split
    BY <1>3 DEF AstUnit
  <2>2. /\ IsSequence(parts) /\ \A i \in 1 .. Len(parts) : parts[i].a \in Nat
        /\ \A i, j \in 1 .. Len(parts) : i < j => parts[i].a < parts[j].a
    BY <1>0, PartsInOrder
  <2> HIDE DEF parts
  <2>3. Len(parts) \in Nat /\ DOMAIN parts = 1 .. Len(parts)
    BY <2>2, LenProperties DEF IsSequence
  <2>4. ASSUME NEW i \in 1 .. Len(parts), NEW j \in 1 .. Len(parts), Part(i).id = Part(j).id PROVE i = j
    <3>1. <<"L", unit.from + parts[i].a - 1>> = <<"L", unit.from + parts[j].a - 1>>
      BY <1>1, <2>4
    <3>2. unit.from + parts[i].a - 1 = unit.from + parts[j].a - 1
      BY <3>1
    <3>3. parts[i].a = parts[j].a /\ parts[i].a \in Nat /\ i \in Nat /\ j \in Nat
      BY <1>0, <2>2, <2>3, <3>2
    <3>4. ~(parts[i].a < parts[j].a) /\ ~(parts[j].a < parts[i].a)
      BY <3>3
    <3>5. ~(i < j) /\ ~(j < i)
      BY <2>2, <3>4
    <3> QED
      BY <3>3, <3>5
  <2>5. ASSUME NEW i \in 1 .. Len(parts) PROVE Part(i).id[1] = {u}
    <3> DEFINE suffix == <<"L", unit.from + parts[i].a - 1>>
               a == parts[i].a
               b == parts[i].b
    <3> HIDE DEF suffix, a, b
    <3>1. CodeChunk({u}, suffix, unit.lines, unit.from, a, b).id[1] = {u}
      BY <1>1
    <3> QED
      BY <3>1 DEF suffix, a, b
  <2> HIDE DEF Part
  <2>6. IsSequence(split) /\ DOMAIN split = 1 .. Len(parts) /\ \A i \in 1 .. Len(parts) : split[i] = Part(i)
    <3>1. split = [i \in 1 .. Len(parts) |-> split[i]] /\ \A i \in 1 .. Len(parts) : split[i] = Part(i)
      BY <2>3
    <3> HIDE DEF split
    <3> QED
      BY <2>3, <3>1, TabledList
  <2> HIDE DEF split, res
  <2> QED
    BY <2>1, <2>4, <2>5, <2>6 DEF Distinct, res
<1> QED
  BY <1>2, <1>3

LEMMA AstDistinct ==
  ASSUME NEW doc \in Seq([from : Nat, lines : Seq(STRING)])
  PROVE  IsSequence(CodeAstV1(doc)) /\ Distinct(CodeAstV1(doc))
<1> DEFINE s == [u \in DOMAIN doc |-> AstUnit(u, doc[u])]
           n == Len(doc)
           key == [u \in 1 .. n |-> {u}]
           AstUnits == [from : Nat, lines : Seq(STRING)]
<1>0. n \in Nat /\ DOMAIN doc = 1 .. n /\ \A u \in 1 .. n : doc[u] \in AstUnits
  <2> HIDE DEF AstUnits
  <2> QED
    BY LenProperties, ElementOfSeq DEF AstUnits
<1>1. s = [u \in 1 .. n |-> s[u]] /\ \A u \in 1 .. n : s[u] = AstUnit(u, doc[u])
  BY <1>0
<1>2. ASSUME NEW u \in 1 .. n
      PROVE  IsSequence(s[u]) /\ Distinct(s[u]) /\ \A i \in DOMAIN s[u] : s[u][i].id[1] = key[u]
  <2>1. doc[u] \in [from : Nat, lines : Seq(STRING)]
    BY <1>0
  <2>2. key[u] = {u}
    OBVIOUS
  <2> HIDE DEF key, s
  <2> QED
    BY <1>1, <2>1, <2>2, UnitDistinct
<1>3. \A u, v \in 1 .. n : key[u] = key[v] => u = v
  OBVIOUS
<1> HIDE DEF s, key
<1>4. IsSequence(s) /\ Len(s) = n
  BY <1>0, <1>1, TabledList
<1>5. DistinctUpTo(s, n)
  BY <1>2, <1>3, KeyedApart
<1>6. CodeAstV1(doc) = FlattenSeq(s)
  BY DEF CodeAstV1, s
<1> QED
  BY <1>2, <1>4, <1>5, <1>6, FlatDistinct

\* Lines a .. b of a file without blocks: chunks that begin on different lines among them.
LinesWithin(t, a, b) ==
  /\ IsSequence(t) /\ Distinct(t)
  /\ \A i \in 1 .. Len(t) : \E f \in a .. b : t[i].id = <<{}, <<"L", f>>>>

LEMMA Products ==
  \A k, l, m \in Nat : (k <= l => k * m <= l * m) /\ (m > 0 /\ k < l => k * m < l * m)
<1> SUFFICES ASSUME NEW k \in Nat, NEW l \in Nat, NEW m \in Nat
             PROVE  (k <= l => k * m <= l * m) /\ (m > 0 /\ k < l => k * m < l * m)
  OBVIOUS
<1>1. l * m = k * m + (l - k) * m
  OBVIOUS
<1>2. k <= l => (l - k) * m >= 0
  OBVIOUS
<1>3. m > 0 /\ k < l => (l - k) * m >= 1
  OBVIOUS
<1> QED
  BY <1>1, <1>2, <1>3

\* Windows every m lines, as many as are needed for n lines, begin within them.
LEMMA WindowsBegin ==
  ASSUME NEW n \in Nat, NEW m \in Nat, m > 0, NEW w \in 1 .. DivCeil(n, m)
  PROVE  (w - 1) * m \in Nat /\ (w - 1) * m < n
<1> DEFINE q == (n + m - 1) \div m
<1>1. q \in Nat /\ q * m <= n + m - 1
  OBVIOUS
<1>2. w \in 1 .. q /\ w \in Nat /\ w <= q
  BY <1>1 DEF DivCeil
<1> HIDE DEF q
<1>3. w * m <= q * m /\ w * m \in Nat /\ q * m \in Nat
  BY <1>1, <1>2, Products
<1>4. (w - 1) * m = w * m - m /\ w - 1 \in Nat
  BY <1>2
<1>5. (w - 1) * m \in Nat
  BY <1>4
<1> QED
  BY <1>1, <1>3, <1>4, <1>5

\* A window every m lines.
LEMMA WindowsDistinct ==
  ASSUME NEW lines, NEW a \in Nat, NEW b \in Nat, NEW m \in Nat, m > 0, NEW n \in Nat, NEW t, NEW to,
         t = [w \in 1 .. n |-> CodeChunk({}, <<"L", a + (w - 1) * m>>, lines, 1, a + (w - 1) * m, to[w])],
         \A w \in 1 .. n : (w - 1) * m \in Nat /\ a + (w - 1) * m <= b
  PROVE  LinesWithin(t, a, b)
<1> DEFINE first(w) == a + (w - 1) * m
<1>1. \A w \in 1 .. n : t[w].id = <<{}, <<"L", first(w)>>>>
  BY DEF CodeChunk
<1>2. IsSequence(t) /\ Len(t) = n /\ DOMAIN t = 1 .. n
  <2>1. t = [w \in 1 .. n |-> t[w]]
    OBVIOUS
  <2> QED
    BY <2>1, TabledList
<1>3. \A w \in 1 .. n : first(w) \in a .. b
  OBVIOUS
<1>4. ASSUME NEW v \in 1 .. n, NEW w \in 1 .. n, first(v) = first(w) PROVE v = w
  <2>1. (v - 1) * m = (w - 1) * m /\ v - 1 \in Nat /\ w - 1 \in Nat
    BY <1>4
  <2>2. ~(v - 1 < w - 1) /\ ~(w - 1 < v - 1)
    <3> DEFINE x == v - 1
               y == w - 1
    <3>1. x \in Nat /\ y \in Nat /\ x * m = y * m
      BY <2>1
    <3> HIDE DEF x, y
    <3>2. x * m \in Nat /\ y * m \in Nat /\ (x < y => x * m < y * m) /\ (y < x => y * m < x * m)
      BY <3>1, Products
    <3>3. ~(x < y) /\ ~(y < x)
      BY <3>1, <3>2
    <3> QED
      BY <3>3 DEF x, y
  <2> QED
    BY <2>1, <2>2
<1> HIDE DEF first
<1>5. Distinct(t)
  <2> SUFFICES ASSUME NEW v \in 1 .. n, NEW w \in 1 .. n, t[v].id = t[w].id PROVE v = w
    BY <1>2 DEF Distinct
  <2>1. <<"L", first(v)>> = <<"L", first(w)>>
    BY <1>1
  <2>2. first(v) = first(w)
    BY <2>1
  <2> QED
    BY <1>4, <2>2
<1> QED
  BY <1>1, <1>2, <1>3, <1>5 DEF LinesWithin

LEMMA OversizeDistinct ==
  ASSUME NEW lines, NEW a \in Nat, NEW b \in Nat, a <= b, NEW key
  PROVE  /\ IsSequence(WithOversize(lines, a, b, key)) /\ Distinct(WithOversize(lines, a, b, key))
         /\ key = <<"L", a>> => LinesWithin(WithOversize(lines, a, b, key), a, b)
<1> DEFINE m == AstMaxLines
           n == DivCeil(b + 1 - a, m)
           to == [w \in 1 .. n |-> Min({a + (w - 1) * m + m - 1, b})]
           t == [w \in 1 .. n |-> CodeChunk({}, <<"L", a + (w - 1) * m>>, lines, 1, a + (w - 1) * m, to[w])]
           one == CodeChunk({}, key, lines, 1, a, b)
           res == WithOversize(lines, a, b, key)
<1>0. m \in Nat /\ m > 0
  BY ChunkAssumption
<1>1. CASE b + 1 - a <= AstMaxLines
  <2>1. res = <<one>>
    BY <1>1 DEF WithOversize
  <2>2. one.id = <<{}, key>>
    BY DEF CodeChunk
  <2> HIDE DEF one, res
  <2>3. /\ IsSequence(<<one>>) /\ Len(<<one>>) = 1 /\ DOMAIN <<one>> = 1 .. 1 /\ <<one>>[1] = one
        /\ \A i \in 1 .. 1 : i = 1
    BY OneElement
  <2>4. a \in a .. b
    OBVIOUS
  <2>5. Distinct(res)
    BY <2>1, <2>3 DEF Distinct
  <2> QED
    BY <2>1, <2>2, <2>3, <2>4, <2>5 DEF LinesWithin, res
<1>2. CASE ~(b + 1 - a <= AstMaxLines)
  <2>1. res = t
    BY <1>2 DEF WithOversize
  <2>2. n \in Nat
    BY <1>0 DEF DivCeil
  <2>3. ASSUME NEW w \in 1 .. n PROVE (w - 1) * m \in Nat /\ a + (w - 1) * m <= b
    <3>1. b + 1 - a \in Nat
      OBVIOUS
    <3>2. (w - 1) * m \in Nat /\ (w - 1) * m < b + 1 - a
      BY <1>0, <3>1, WindowsBegin
    <3> QED
      BY <3>2
  <2>4. LinesWithin(t, a, b)
    <3> DEFINE s == t
    <3>1. s = [w \in 1 .. n |-> CodeChunk({}, <<"L", a + (w - 1) * m>>, lines, 1, a + (w - 1) * m, to[w])]
      OBVIOUS
    <3> HIDE DEF s, to, n, m
    <3>2. LinesWithin(s, a, b)
      BY <1>0, <2>2, <2>3, <3>1, WindowsDistinct
    <3> QED
      BY <3>2 DEF s
  <2> QED
    BY <2>1, <2>4 DEF LinesWithin
<1> QED
  BY <1>1, <1>2

\* Runs one behind the other, each with its chunks.
LEMMA RunsDistinct ==
  ASSUME NEW n \in Nat, NEW r, RunsUpTo(r, n), NEW s, s = [i \in DOMAIN r |-> s[i]],
         \A i \in 1 .. Len(r) : LinesWithin(s[i], r[i].a, r[i].b)
  PROVE  IsSequence(FlattenSeq(s)) /\ Distinct(FlattenSeq(s))
<1> DEFINE m == Len(r)
<1>1. m \in Nat /\ DOMAIN r = 1 .. m
  BY LenProperties DEF RunsUpTo
<1>2. \A i \in 1 .. m : r[i].a \in Nat /\ r[i].b \in Nat
  <2> DEFINE R == [a : Nat, b : Nat]
  <2>1. r \in Seq(R)
    BY DEF RunsUpTo
  <2> HIDE DEF R
  <2>2. \A i \in 1 .. m : r[i] \in R
    BY <2>1, ElementOfSeq
  <2> QED
    BY <2>2 DEF R
<1>3. IsSequence(s) /\ Len(s) = m
  BY <1>1, TabledList
<1>4. ASSUME NEW g \in 1 .. m PROVE IsSequence(s[g]) /\ Distinct(s[g]) /\ DOMAIN s[g] = 1 .. Len(s[g])
  <2>1. IsSequence(s[g]) /\ Distinct(s[g])
    BY DEF LinesWithin
  <2> QED
    BY <2>1, LenProperties DEF IsSequence
<1>5. ASSUME NEW g \in 1 .. m, NEW h \in 1 .. m, g < h,
             NEW i \in 1 .. Len(s[g]), NEW j \in 1 .. Len(s[h])
      PROVE  s[g][i].id # s[h][j].id
  <2>1. PICK e \in r[g].a .. r[g].b : s[g][i].id = <<{}, <<"L", e>>>>
    BY DEF LinesWithin
  <2>2. PICK f \in r[h].a .. r[h].b : s[h][j].id = <<{}, <<"L", f>>>>
    BY DEF LinesWithin
  <2>3. r[g].b < r[h].a
    BY <1>5 DEF RunsUpTo
  <2>4. e # f
    BY <1>2, <2>3
  <2> HIDE DEF m
  <2>5. <<{}, <<"L", e>>>> # <<{}, <<"L", f>>>>
    BY <2>4
  <2> QED
    BY <2>1, <2>2, <2>5
<1>6. DistinctUpTo(s, m)
  <2> SUFFICES ASSUME NEW g \in 1 .. m, NEW h \in 1 .. m, NEW i \in DOMAIN s[g], NEW j \in DOMAIN s[h],
                      s[g][i].id = s[h][j].id
               PROVE  g = h /\ i = j
    BY DEF DistinctUpTo
  <2>1. g = h
    <3>1. i \in 1 .. Len(s[g]) /\ j \in 1 .. Len(s[h])
      BY <1>4
    <3>2. ~(g < h) /\ ~(h < g)
      BY <1>5, <3>1
    <3>3. g \in Nat /\ h \in Nat
      BY <1>1
    <3> QED
      BY <3>2, <3>3
  <2>2. i = j
    BY <1>4, <2>1 DEF Distinct
  <2> QED
    BY <2>1, <2>2
<1> QED
  BY <1>3, <1>4, <1>6, FlatDistinct

LEMMA ManifestDistinct ==
  ASSUME NEW lines \in Seq(STRING)
  PROVE  IsSequence(K8sManifest(lines)) /\ Distinct(K8sManifest(lines))
<1> DEFINE n == Len(lines)
           cuts == {k \in DOMAIN lines : lines[k] = "sep"}
           stretches == Runs(n, cuts)
           full == {i \in DOMAIN stretches : \E k \in stretches[i].a .. stretches[i].b : ~BlankLine(lines[k])}
           slices == Picked(stretches, full)
           Has(r, what) == \E k \in r.a .. r.b : lines[k] = what
           res == {i \in DOMAIN slices : Has(slices[i], "res")}
           r == Picked(slices, res)
           s == [i \in DOMAIN r |-> WithOversize(lines, r[i].a, r[i].b, <<"L", r[i].a>>)]
           bad == \E i \in DOMAIN slices : Has(slices[i], "bad")
<1>1. n \in Nat /\ cuts \in SUBSET (1 .. n)
  BY LenProperties
<1>2. RunsUpTo(stretches, n)
  <2> HIDE DEF cuts
  <2> QED
    BY <1>1, RunsInOrder
<1>3. RunsUpTo(slices, n)
  <2>1. full \in SUBSET (1 .. Len(stretches))
    <3> HIDE DEF stretches
    <3>1. DOMAIN stretches = 1 .. Len(stretches)
      BY <1>2, LenProperties DEF RunsUpTo
    <3> QED
      BY <3>1
  <2> HIDE DEF stretches, full
  <2> QED
    BY <1>2, <2>1, PickedRuns
<1> HIDE DEF slices
<1>4. res \in SUBSET (1 .. Len(slices))
  <2>1. DOMAIN slices = 1 .. Len(slices)
    BY <1>3, LenProperties DEF RunsUpTo
  <2> QED
    BY <2>1
<1>5. RunsUpTo(r, n) /\ \A k \in 1 .. Len(r) : \E i \in res : r[k] = slices[i]
  <2> HIDE DEF res
  <2> QED
    BY <1>3, <1>4, PickedRuns
<1>6. ASSUME NEW i \in 1 .. Len(r) PROVE r[i].a \in Nat /\ r[i].b \in Nat /\ r[i].a <= r[i].b
  <2>1. PICK k \in res : r[i] = slices[k]
    BY <1>5
  <2> HIDE DEF r
  <2>2. r[i] \in [a : Nat, b : Nat]
    BY <1>5, ElementOfSeq DEF RunsUpTo
  <2>3. PICK l \in r[i].a .. r[i].b : lines[l] = "res"
    BY <2>1
  <2> QED
    BY <2>2, <2>3
<1> HIDE DEF r
<1>7. ASSUME NEW i \in 1 .. Len(r) PROVE LinesWithin(s[i], r[i].a, r[i].b)
  <2>1. DOMAIN r = 1 .. Len(r)
    BY <1>5, LenProperties DEF RunsUpTo
  <2>2. s[i] = WithOversize(lines, r[i].a, r[i].b, <<"L", r[i].a>>)
    BY <2>1
  <2> HIDE DEF s
  <2> QED
    BY <1>6, <2>2, OversizeDistinct
<1>8. s = [i \in DOMAIN r |-> s[i]]
  OBVIOUS
<1>9. K8sManifest(lines) = IF bad THEN << >> ELSE FlattenSeq(s)
  BY DEF K8sManifest, YamlSlices, s, r, slices
<1> HIDE DEF s, bad
<1>10. IsSequence(FlattenSeq(s)) /\ Distinct(FlattenSeq(s))
  BY <1>1, <1>5, <1>7, <1>8, RunsDistinct
<1>11. IsSequence(<< >>) /\ Distinct(<< >>)
  <2>1. << >> \in Seq({}) /\ DOMAIN << >> = 1 .. 0
    OBVIOUS
  <2> QED
    BY <2>1 DEF IsSequence, Distinct
<1> QED
  BY <1>9, <1>10, <1>11

LEMMA WholeDistinct ==
  ASSUME NEW lines \in Seq(STRING)
  PROVE  IsSequence(WholeFile(lines)) /\ Distinct(WholeFile(lines))
<1> DEFINE b == Max({1, Len(lines)})
<1>1. b \in Nat /\ 1 <= b
  <2>1. {1, Len(lines)} \in SUBSET Nat /\ IsFiniteSet({1, Len(lines)})
    <3> DEFINE l == Len(lines)
    <3>1. l \in Nat
      BY LenProperties
    <3> HIDE DEF l
    <3>2. IsFiniteSet({l}) /\ {1, l} = {l} \cup {1}
      BY FS_Singleton
    <3>3. IsFiniteSet({l} \cup {1})
      BY <3>2, FS_AddElement
    <3> DEFINE two == {1, l}
    <3>4. two = {l} \cup {1} /\ \A x \in two : x \in Nat
      BY <3>1
    <3> HIDE DEF two
    <3>5. IsFiniteSet(two) /\ two \in SUBSET Nat
      BY <3>3, <3>4
    <3>6. IsFiniteSet({1, l}) /\ {1, l} \in SUBSET Nat
      BY <3>5 DEF two
    <3> QED
      BY <3>6 DEF l
  <2>2. Max({1, Len(lines)}) \in {1, Len(lines)} /\ \A y \in {1, Len(lines)} : Max({1, Len(lines)}) >= y
    BY <2>1, GreatestOfSome
  <2> QED
    BY <2>1, <2>2
<1> HIDE DEF b
<1>2. IsSequence(WithOversize(lines, 1, b, << >>)) /\ Distinct(WithOversize(lines, 1, b, << >>))
  BY <1>1, OversizeDistinct
<1> QED
  BY <1>2 DEF WholeFile, b

\* The first n windows of a paragraph.
FirstWindows(lines, p, stride, n) ==
  [w \in 1 .. n |-> CodeChunk({}, <<"L", p.a + (w - 1) * stride>>, lines, 1, p.a + (w - 1) * stride,
                              Min({p.a + (w - 1) * stride + ParaLines - 1, p.b}))]

LEMMA WindowsOfParagraph ==
  ASSUME NEW lines, NEW p, NEW stride, stride = ParaLines - ParaOverlap, NEW extra,
         extra = IF p.b + 1 - p.a <= ParaLines THEN 0 ELSE DivCeil(p.b + 1 - p.a - ParaLines, stride)
  PROVE  ParagraphWindows(lines, p) = FirstWindows(lines, p, stride, extra + 1)
BY DEF ParagraphWindows, FirstWindows

\* The windows of a paragraph begin within it.
LEMMA ParagraphWithin ==
  ASSUME NEW lines, NEW p, p.a \in Nat, p.b \in Nat, p.a <= p.b
  PROVE  LinesWithin(ParagraphWindows(lines, p), p.a, p.b)
<1> DEFINE stride == ParaLines - ParaOverlap
<1>0. stride \in Nat /\ stride > 0 /\ ParaLines \in Nat /\ ParaOverlap \in Nat /\ ParaLines > 0
  BY ChunkAssumption
<1>6. p.a \in Nat /\ p.b \in Nat /\ p.a <= p.b
  OBVIOUS
<1>7. LinesWithin(ParagraphWindows(lines, p), p.a, p.b)
  <2> DEFINE len == p.b + 1 - p.a
             more == p.b + 1 - p.a - ParaLines
             extra == IF len <= ParaLines THEN 0 ELSE DivCeil(more, stride)
             to == [w \in 1 .. extra + 1 |-> Min({p.a + (w - 1) * stride + ParaLines - 1, p.b})]
             t == [w \in 1 .. extra + 1 |->
                     CodeChunk({}, <<"L", p.a + (w - 1) * stride>>, lines, 1, p.a + (w - 1) * stride, to[w])]
  <2>0. len \in Nat /\ len > 0 /\ more = len - ParaLines
    BY <1>0, <1>6
  <2>1. extra \in Nat
    <3> HIDE DEF len, more, stride
    <3>1. CASE len <= ParaLines
      BY <3>1
    <3>2. CASE ~(len <= ParaLines)
      <4> DEFINE x == more + stride - 1
      <4>1. x \in Nat
        BY <1>0, <2>0, <3>2
      <4>2. extra = x \div stride
        BY <3>2 DEF DivCeil
      <4> HIDE DEF x, extra
      <4> QED
        BY <1>0, <4>1, <4>2
    <3> QED
      BY <3>1, <3>2
  <2>2. ASSUME NEW w \in 1 .. extra + 1 PROVE (w - 1) * stride \in Nat /\ p.a + (w - 1) * stride <= p.b
    <3>1. CASE w = 1
      <4>1. (w - 1) * stride = 0
        BY <1>0, <3>1
      <4> QED
        BY <1>6, <4>1
    <3>2. CASE w # 1
      <4> DEFINE v == w - 1
      <4>1. len > ParaLines /\ extra = DivCeil(more, stride) /\ v \in 1 .. DivCeil(more, stride)
        <5> DEFINE need == DivCeil(more, stride)
        <5> HIDE DEF len, more, need
        <5>1. extra = IF len <= ParaLines THEN 0 ELSE need
          BY DEF need
        <5> HIDE DEF extra
        <5>2. v \in 1 .. extra
          BY <2>1, <3>2
        <5> QED
          BY <1>0, <2>0, <5>1, <5>2 DEF need
      <4>2. more \in Nat
        BY <1>0, <2>0, <4>1
      <4> HIDE DEF v, more, extra, len, stride
      <4>3. (v - 1) * stride \in Nat /\ (v - 1) * stride < more
        BY <1>0, <4>1, <4>2, WindowsBegin
      <4>4. v * stride = (v - 1) * stride + stride
        <5>1. v \in Nat
          BY <2>1 DEF v
        <5> QED
          BY <1>0, <5>1
      <4>5. v * stride \in Nat /\ v * stride < more + stride
        BY <1>0, <4>2, <4>3, <4>4
      <4>6. more + stride = len - ParaOverlap
        BY <1>0, <2>0 DEF stride
      <4>7. v * stride < len
        BY <1>0, <2>0, <4>5, <4>6
      <4> QED
        BY <1>6, <4>5, <4>7 DEF v, len
    <3> QED
      BY <3>1, <3>2
  <2>3. t = ParagraphWindows(lines, p)
    <3>1. stride = ParaLines - ParaOverlap
      OBVIOUS
    <3>2. extra = IF p.b + 1 - p.a <= ParaLines THEN 0 ELSE DivCeil(p.b + 1 - p.a - ParaLines, stride)
      OBVIOUS
    <3>3. \A w \in 1 .. extra + 1 : to[w] = Min({p.a + (w - 1) * stride + ParaLines - 1, p.b})
      OBVIOUS
    <3> HIDE DEF to, extra, stride
    <3>4. ParagraphWindows(lines, p) = FirstWindows(lines, p, stride, extra + 1)
      BY <3>1, <3>2, WindowsOfParagraph
    <3>5. t = FirstWindows(lines, p, stride, extra + 1)
      BY <3>3 DEF FirstWindows
    <3> QED
      BY <3>4, <3>5
  <2>4. LinesWithin(t, p.a, p.b)
    <3> DEFINE z == t
               m == extra + 1
    <3>1. m \in Nat /\ z = [w \in 1 .. m |-> CodeChunk({}, <<"L", p.a + (w - 1) * stride>>, lines, 1, p.a + (w - 1) * stride, to[w])]
      BY <2>1
    <3>2. \A w \in 1 .. m : (w - 1) * stride \in Nat /\ p.a + (w - 1) * stride <= p.b
      BY <2>2
    <3> HIDE DEF z, to, m, extra, stride
    <3>3. LinesWithin(z, p.a, p.b)
      BY <1>0, <1>6, <3>1, <3>2, WindowsDistinct
    <3> QED
      BY <3>3 DEF z
  <2> QED
    BY <2>3, <2>4
<1> QED
  BY <1>7

LEMMA ParagraphsDistinct ==
  ASSUME NEW lines \in Seq(STRING)
  PROVE  IsSequence(TextParagraphV1(lines)) /\ Distinct(TextParagraphV1(lines))
<1> DEFINE n == Len(lines)
           cuts == {k \in DOMAIN lines : BlankLine(lines[k])}
           stretches == Runs(n, cuts)
           full == {i \in DOMAIN stretches : stretches[i].a <= stretches[i].b}
           r == Picked(stretches, full)
           s == [i \in DOMAIN r |-> ParagraphWindows(lines, r[i])]
<1>1. n \in Nat /\ cuts \in SUBSET (1 .. n)
  BY LenProperties
<1>2. RunsUpTo(stretches, n)
  <2> HIDE DEF cuts
  <2> QED
    BY <1>1, RunsInOrder
<1>3. full \in SUBSET (1 .. Len(stretches))
  <2> HIDE DEF stretches
  <2>1. DOMAIN stretches = 1 .. Len(stretches)
    BY <1>2, LenProperties DEF RunsUpTo
  <2> QED
    BY <2>1
<1>4. RunsUpTo(r, n) /\ \A k \in 1 .. Len(r) : \E i \in full : r[k] = stretches[i]
  <2> HIDE DEF stretches, full
  <2> QED
    BY <1>2, <1>3, PickedRuns
<1>5. ASSUME NEW i \in 1 .. Len(r) PROVE r[i].a \in Nat /\ r[i].b \in Nat /\ r[i].a <= r[i].b
  <2>1. PICK k \in full : r[i] = stretches[k]
    BY <1>4
  <2> HIDE DEF r
  <2>2. r[i] \in [a : Nat, b : Nat]
    BY <1>4, ElementOfSeq DEF RunsUpTo
  <2> QED
    BY <2>1, <2>2
<1> HIDE DEF r
<1>7. ASSUME NEW i \in 1 .. Len(r) PROVE LinesWithin(s[i], r[i].a, r[i].b)
  <2>1. DOMAIN r = 1 .. Len(r)
    BY <1>4, LenProperties DEF RunsUpTo
  <2>2. s[i] = ParagraphWindows(lines, r[i])
    BY <2>1
  <2> HIDE DEF s
  <2> QED
    BY <1>5, <2>2, ParagraphWithin
<1>8. s = [i \in DOMAIN r |-> s[i]]
  OBVIOUS
<1>9. TextParagraphV1(lines) = FlattenSeq(s)
  BY DEF TextParagraphV1, Paragraphs, s, r
<1> HIDE DEF s
<1>10. IsSequence(FlattenSeq(s)) /\ Distinct(FlattenSeq(s))
  BY <1>1, <1>4, <1>7, <1>8, RunsDistinct
<1> QED
  BY <1>9, <1>10

-----------------------------------------------------------------------------
(* Chunks: pages *)

\* The places where a segment may begin, in order.
BoundsRise(bounds, n) ==
  /\ Len(bounds) \in Nat /\ Len(bounds) >= 1
  /\ \A k \in 1 .. Len(bounds) : bounds[k] \in 0 .. n
  /\ \A k, l \in 1 .. Len(bounds) : k < l => bounds[k] < bounds[l]

LEMMA PageBoundsRise ==
  ASSUME NEW text \in Seq(Characters)
  PROVE  BoundsRise(PageBounds(text), Len(text))
<1> DEFINE n == Len(text)
           Ends(k) == \/ text[k] = "nl" /\ text[k + 1] = "nl"
                      \/ text[k] = "dot" /\ text[k + 1] \in Whitespace
           at == {k \in 1 .. n + 1 : k \in {1, n + 1} \/ (k > 2 /\ Ends(k - 2))}
           s == [k \in 1 .. n + 1 |-> k - 1]
           p == Picked(s, at)
           c == Cardinality(at)
<1>1. n \in Nat /\ n + 1 \in Nat
  BY LenProperties
<1>2. at \in SUBSET (1 .. n + 1) /\ 1 \in at
  BY <1>1
<1> HIDE DEF at
<1>3. TakenInOrder(p, s, at) /\ Len(p) = c
  <2>1. TakenInOrder(p, s, at)
    BY <1>1, <1>2, PickedInOrder
  <2>2. Len(p) = c
    BY <1>1, <1>2, PickedFromThere
  <2> QED
    BY <2>1, <2>2
<1>4. c \in Nat /\ c >= 1
  <2>1. IsFiniteSet(at)
    <3>1. IsFiniteSet(1 .. n + 1)
      BY <1>1, FS_Interval
    <3> QED
      BY <1>2, <3>1, FS_Subset
  <2>2. c \in Nat /\ c # 0
    BY <1>2, <2>1, FS_CardinalityType, FS_EmptySet
  <2> HIDE DEF c
  <2> QED
    BY <2>2
<1>5. \A i \in at : s[i] = i - 1 /\ i \in 1 .. n + 1
  BY <1>2
<1> HIDE DEF p, s, c
<1>6. ASSUME NEW k \in 1 .. c PROVE p[k] \in 0 .. n
  <2>1. PICK i \in at : p[k] = s[i]
    BY <1>3 DEF TakenInOrder, c
  <2> QED
    BY <1>1, <1>5, <2>1
<1>7. ASSUME NEW k \in 1 .. c, NEW l \in 1 .. c, k < l PROVE p[k] < p[l]
  <2>1. PICK i, j \in at : i < j /\ p[k] = s[i] /\ p[l] = s[j]
    BY <1>3, <1>7 DEF TakenInOrder, c
  <2> QED
    BY <1>1, <1>5, <2>1
<1>8. PageBounds(text) = p
  BY DEF PageBounds, p, s, at
<1> QED
  BY <1>3, <1>4, <1>6, <1>7, <1>8 DEF BoundsRise

\* Segments of a text of n characters that start one behind the other.
SegmentsRise(t, n) ==
  /\ IsSequence(t)
  /\ \A k \in 1 .. Len(t) : t[k].start \in Nat /\ t[k].from \in 0 .. n /\ t[k].to \in 0 .. n
  /\ \A k, l \in 1 .. Len(t) : k < l => t[k].start < t[l].start

LEMMA SegmentsInOrder ==
  ASSUME NEW text \in Seq(Characters), NEW policy
  PROVE  SegmentsRise(PageSegments(text, policy), Len(text))
<1> DEFINE n == Len(text)
           bounds == PageBounds(text)
           m == Len(bounds)
           target == Max({policy.target * BytesPerToken, 1})
           overlap == Min({policy.overlap * BytesPerToken, target \div 2})
           Reached(b) == {e \in b + 1 .. m : SpanBytes(text, bounds[b], bounds[e]) <= target}
           Stop(b) == Max({b + 1} \cup Reached(b))
           Back(start, floor) == {a \in floor .. start : SpanBytes(text, a, start) <= overlap}
           Overlapped(start, floor) == Min({start} \cup Back(start, floor))
           From(d) == IF d[1] = 1 THEN bounds[d[1]] ELSE Overlapped(bounds[d[1]], d[2])
           Seg(d) == [start |-> bounds[d[1]], from |-> From(d), to |-> bounds[Stop(d[1])]]
           D == (1 .. m) \X (0 .. n)
           Body(G) == [d \in D |-> IF d[1] = m THEN << >> ELSE <<Seg(d)>> \o G[<<Stop(d[1]), From(d)>>]]
           Grow == CHOOSE G : G = Body(G)
           left == [d \in D |-> m - d[1]]
           next == [d \in D |-> IF d[1] = m THEN d ELSE <<Stop(d[1]), From(d)>>]
           item == [d \in D |-> Seg(d)]
           at == [d \in D |-> d[1]]
<1>0. n \in Nat
  BY LenProperties
<1>1. /\ m \in Nat /\ m >= 1 /\ \A k \in 1 .. m : bounds[k] \in 0 .. n
      /\ \A k, l \in 1 .. m : k < l => bounds[k] < bounds[l]
  BY PageBoundsRise DEF BoundsRise
<1> HIDE DEF bounds
<1>2. ASSUME NEW b \in 1 .. m, b # m PROVE Stop(b) \in 1 .. m /\ b < Stop(b)
  <2> DEFINE S == {b + 1} \cup Reached(b)
  <2>1. b \in Nat /\ m \in Nat /\ b < m
    BY <1>1, <1>2
  <2>2. \A e \in S : e \in b + 1 .. m
    BY <2>1
  <2>3. S \in SUBSET Nat /\ S # {}
    BY <2>1, <2>2
  <2>4. IsFiniteSet(S)
    <3>1. IsFiniteSet(b + 1 .. m)
      BY <2>1, FS_Interval
    <3>2. S \in SUBSET (b + 1 .. m)
      BY <2>2
    <3> HIDE DEF S
    <3> QED
      BY <3>1, <3>2, FS_Subset
  <2>5. Max(S) \in S
    <3> HIDE DEF S
    <3> QED
      BY <2>3, <2>4, GreatestOfSome
  <2>6. Stop(b) \in b + 1 .. m
    BY <2>2, <2>5
  <2> HIDE DEF Stop
  <2> QED
    BY <2>1, <2>6
<1>3. ASSUME NEW d \in D PROVE From(d) \in 0 .. n
  <2> DEFINE start == bounds[d[1]]
             S == {start} \cup Back(start, d[2])
  <2>1. start \in 0 .. n /\ d[2] \in 0 .. n
    BY <1>1
  <2>2. \A a \in S : a \in 0 .. n
    BY <1>0, <2>1
  <2>3. S \in SUBSET Nat /\ S # {}
    BY <1>0, <2>2
  <2>4. Min(S) \in S
    <3> HIDE DEF S
    <3> QED
      BY <2>3, LeastOfSome
  <2>5. Overlapped(start, d[2]) \in 0 .. n
    BY <2>2, <2>4
  <2> HIDE DEF Overlapped
  <2> QED
    BY <2>1, <2>5
<1> HIDE DEF Stop, From
<1>4. /\ left \in [D -> 0 .. m] /\ next \in [D -> D] /\ at \in [D -> Nat]
      /\ \A d \in D : left[d] # 0 => left[next[d]] < left[d] /\ at[d] < at[next[d]]
      /\ \A d \in D : left[d] = 0 <=> d[1] = m
  <2>1. left \in [D -> 0 .. m] /\ at \in [D -> Nat]
    <3>1. \A d \in D : m - d[1] \in 0 .. m /\ d[1] \in Nat
      BY <1>1
    <3> HIDE DEF D
    <3> QED
      BY <3>1
  <2>2. ASSUME NEW d \in D PROVE next[d] \in D
    <3>1. CASE d[1] # m
      <4>1. Stop(d[1]) \in 1 .. m /\ From(d) \in 0 .. n
        BY <1>2, <1>3, <3>1
      <4> QED
        BY <3>1, <4>1
    <3> QED
      BY <3>1
  <2>3. ASSUME NEW d \in D PROVE /\ left[d] = 0 <=> d[1] = m
                                 /\ left[d] # 0 => left[next[d]] < left[d] /\ at[d] < at[next[d]]
    <3>1. d[1] \in 1 .. m /\ d[1] \in Nat /\ left[d] = m - d[1] /\ at[d] = d[1]
      BY <1>1
    <3>2. CASE d[1] # m
      <4>1. next[d] = <<Stop(d[1]), From(d)>> /\ Stop(d[1]) \in 1 .. m /\ d[1] < Stop(d[1]) /\ next[d] \in D
        BY <1>2, <2>2, <3>1, <3>2
      <4>2. left[next[d]] = m - Stop(d[1]) /\ at[next[d]] = Stop(d[1])
        BY <4>1
      <4> HIDE DEF left, at, next, D
      <4> QED
        BY <1>1, <3>1, <4>1, <4>2
    <3> HIDE DEF left, at, next, D
    <3> QED
      BY <1>1, <3>1, <3>2
  <2>4. next \in [D -> D]
    <3> DEFINE f == next
    <3>1. f = [d \in D |-> f[d]] /\ \A d \in D : f[d] \in D
      BY <2>2
    <3> HIDE DEF f, D
    <3>2. f \in [D -> D]
      BY <3>1
    <3> QED
      BY <3>2 DEF f
  <2> QED
    BY <2>1, <2>3, <2>4
<1>5. PICK g : Unfolds(g, D, left, next, item)
  <2> HIDE DEF left, next, item, at, D
  <2> QED
    BY <1>1, <1>4, UnfoldExists
<1>6. \A G : Unfolds(G, D, left, next, item) <=> G = Body(G)
  <2> SUFFICES ASSUME NEW G PROVE Unfolds(G, D, left, next, item) <=> G = Body(G)
    OBVIOUS
  <2> DEFINE Other == [d \in D |-> IF left[d] = 0 THEN << >> ELSE <<item[d]>> \o G[next[d]]]
  <2>1. ASSUME NEW d \in D PROVE Other[d] = Body(G)[d]
    <3>1. Other[d] = IF left[d] = 0 THEN << >> ELSE <<item[d]>> \o G[next[d]]
      OBVIOUS
    <3>2. Body(G)[d] = IF d[1] = m THEN << >> ELSE <<Seg(d)>> \o G[<<Stop(d[1]), From(d)>>]
      OBVIOUS
    <3>3. item[d] = Seg(d) /\ (d[1] # m => next[d] = <<Stop(d[1]), From(d)>>)
      OBVIOUS
    <3> HIDE DEF Other, Body, item, next, left, Seg, D
    <3> QED
      BY <1>4, <3>1, <3>2, <3>3
  <2>2. Other = [d \in D |-> Other[d]] /\ Body(G) = [d \in D |-> Body(G)[d]]
    OBVIOUS
  <2> HIDE DEF Other, Body, D
  <2>3. Other = Body(G)
    BY <2>1, <2>2
  <2> QED
    BY <2>3 DEF Unfolds, Other
<1>7. Unfolds(Grow, D, left, next, item)
  BY <1>5, <1>6
<1> HIDE DEF Grow
<1> DEFINE t == Grow[<<1, 0>>]
<1>8. Unfolded(t, D, left, item, at, at[<<1, 0>>])
  <2>1. <<1, 0>> \in D
    BY <1>0, <1>1
  <2> HIDE DEF left, next, item, at, D
  <2> QED
    BY <1>1, <1>4, <1>7, <2>1, UnfoldedInOrder
<1>9. ASSUME NEW d \in D, left[d] # 0
      PROVE  /\ item[d].start = bounds[d[1]] /\ item[d].from \in 0 .. n /\ item[d].to \in 0 .. n
             /\ d[1] \in 1 .. m /\ at[d] = d[1] /\ bounds[d[1]] \in Nat
  <2>1. d[1] \in 1 .. m /\ at[d] = d[1] /\ d[1] # m
    BY <1>4, <1>9
  <2>2. Stop(d[1]) \in 1 .. m /\ From(d) \in 0 .. n
    BY <1>2, <1>3, <2>1
  <2>3. bounds[d[1]] \in 0 .. n /\ bounds[Stop(d[1])] \in 0 .. n
    BY <1>1, <2>1, <2>2
  <2>4. item[d].start = bounds[d[1]] /\ item[d].from = From(d) /\ item[d].to = bounds[Stop(d[1])]
    OBVIOUS
  <2> HIDE DEF item, at, D, left
  <2> QED
    BY <2>1, <2>2, <2>3, <2>4
<1> HIDE DEF t, item, at, left, D
<1>10. ASSUME NEW i \in 1 .. Len(t) PROVE t[i].start \in Nat /\ t[i].from \in 0 .. n /\ t[i].to \in 0 .. n
  <2>1. PICK d \in D : left[d] # 0 /\ t[i] = item[d]
    BY <1>8 DEF Unfolded
  <2> QED
    BY <1>9, <2>1
<1>11. ASSUME NEW i \in 1 .. Len(t), NEW j \in 1 .. Len(t), i < j PROVE t[i].start < t[j].start
  <2>1. PICK d, e \in D : left[d] # 0 /\ left[e] # 0 /\ t[i] = item[d] /\ t[j] = item[e] /\ at[d] < at[e]
    BY <1>8, <1>11 DEF Unfolded
  <2>2. t[i].start = bounds[d[1]] /\ t[j].start = bounds[e[1]] /\ d[1] < e[1] /\ d[1] \in 1 .. m /\ e[1] \in 1 .. m
    BY <1>9, <2>1
  <2> QED
    BY <1>1, <2>2
<1>12. SegmentsRise(t, n)
  BY <1>8, <1>10, <1>11 DEF Unfolded, SegmentsRise
<1>13. CASE ByteLen(text) <= target
  <2> DEFINE whole == [start |-> 0, from |-> 0, to |-> n]
  <2>1. PageSegments(text, policy) = <<whole>>
    BY <1>13 DEF PageSegments
  <2>2. whole.start = 0 /\ whole.from = 0 /\ whole.to = n
    OBVIOUS
  <2> HIDE DEF whole
  <2>3. IsSequence(<<whole>>) /\ Len(<<whole>>) = 1 /\ <<whole>>[1] = whole /\ \A i \in 1 .. 1 : i = 1
    BY OneElement
  <2> QED
    BY <1>0, <2>1, <2>2, <2>3 DEF SegmentsRise
<1>14. CASE ~(ByteLen(text) <= target)
  <2>1. PageSegments(text, policy) = t
    BY <1>14, Zenon DEF PageSegments, t, Grow, bounds, Stop, From, D
  <2> QED
    BY <1>12, <2>1
<1> QED
  BY <1>13, <1>14

\* Chunks of one page; chunks of one segment of it.
OfPage(t, page) == IsSequence(t) /\ Distinct(t) /\ \A i \in DOMAIN t : t[i].id[1] = {page}
OfSegment(t, page, start) == OfPage(t, page) /\ \A i \in DOMAIN t : t[i].id[2][2] = start

\* The pieces of a segment have its page and its start in their ids, and their number.
LEMMA SegmentDistinct ==
  ASSUME NEW page, NEW text \in Seq(Characters), NEW policy,
         NEW s, s.from \in 0 .. Len(text), s.to \in 0 .. Len(text)
  PROVE  OfSegment(SegmentChunks(page, text, s, policy), page, s.start)
<1> DEFINE slice == SubSeq(text, s.from + 1, s.to)
           pieces == IF TokensOf(slice) > policy.max THEN TextPieces(slice, policy.max) ELSE <<slice>>
           suffix(i) == IF Len(pieces) = 1 THEN <<"c", s.start>> ELSE <<"c", s.start, "s", i - 1>>
           chunk(i) == [id |-> <<{page}, suffix(i)>>, text |-> pieces[i], from |-> s.from, to |-> s.to]
           res == [i \in DOMAIN pieces |-> chunk(i)]
           m == Len(pieces)
<1>1. IsSequence(pieces) /\ m \in Nat /\ DOMAIN pieces = 1 .. m
  <2>1. slice \in Seq(Characters)
    <3>1. \A k \in 1 .. Len(text) : text[k] \in Characters
      BY ElementOfSeq
    <3>2. Len(text) \in Nat
      BY LenProperties
    <3>3. s.from + 1 \in Int /\ s.to \in Int /\ \A k \in s.from + 1 .. s.to : text[k] \in Characters
      BY <3>1, <3>2
    <3> QED
      BY <3>3, SubSeqProperties
  <2> HIDE DEF slice
  <2>2. TextPieces(slice, policy.max) \in Seq(Seq(Characters))
    BY <2>1, PiecesAreTexts
  <2>3. IsSequence(<<slice>>)
    BY OneElement
  <2>4. IsSequence(pieces)
    BY <2>2, <2>3 DEF IsSequence
  <2> HIDE DEF pieces
  <2> QED
    BY <2>4, LenProperties DEF IsSequence
<1>2. SegmentChunks(page, text, s, policy) = res
  BY Zenon DEF SegmentChunks, SegmentKey
<1> HIDE DEF pieces
<1>3. ASSUME NEW i \in 1 .. m PROVE suffix(i)[2] = s.start
  OBVIOUS
<1>4. ASSUME NEW i \in 1 .. m, NEW j \in 1 .. m, suffix(i) = suffix(j) PROVE i = j
  <2>1. CASE m = 1
    BY <2>1
  <2>2. CASE m # 1
    <3>1. <<"c", s.start, "s", i - 1>> = <<"c", s.start, "s", j - 1>>
      BY <1>4, <2>2
    <3>2. i - 1 = j - 1
      BY <3>1
    <3> QED
      BY <1>1, <3>2
  <2> QED
    BY <2>1, <2>2
<1> HIDE DEF suffix
<1>5. /\ IsSequence(res) /\ DOMAIN res = 1 .. m
      /\ \A i \in 1 .. m : res[i] = chunk(i)
  <2>1. res = [i \in 1 .. m |-> res[i]] /\ \A i \in 1 .. m : res[i] = chunk(i)
    BY <1>1
  <2> HIDE DEF res
  <2> QED
    BY <1>1, <2>1, TabledList
<1>6. \A i \in 1 .. m : chunk(i).id = <<{page}, suffix(i)>> /\ chunk(i).id[1] = {page} /\ chunk(i).id[2] = suffix(i)
  OBVIOUS
<1> HIDE DEF res, chunk
<1>7. ASSUME NEW i \in 1 .. m PROVE res[i].id[1] = {page} /\ res[i].id[2] = suffix(i)
  BY <1>5, <1>6
<1>8. Distinct(res)
  <2> SUFFICES ASSUME NEW i \in 1 .. m, NEW j \in 1 .. m, res[i].id = res[j].id PROVE i = j
    BY <1>5 DEF Distinct
  <2>1. suffix(i) = suffix(j)
    BY <1>7
  <2> QED
    BY <1>4, <2>1
<1> QED
  BY <1>2, <1>3, <1>5, <1>7, <1>8 DEF OfSegment, OfPage

\* A page.
LEMMA PageDistinct ==
  ASSUME NEW page, NEW text \in Seq(Characters), NEW policy
  PROVE  OfPage(PdfPage(page, text, policy), page)
<1> DEFINE segments == PageSegments(text, policy)
           n == Len(segments)
           s == [k \in DOMAIN segments |-> SegmentChunks(page, text, segments[k], policy)]
           res == FlattenSeq(s)
<1>1. SegmentsRise(segments, Len(text))
  BY SegmentsInOrder
<1> HIDE DEF segments
<1>2. n \in Nat /\ DOMAIN segments = 1 .. n
  BY <1>1, LenProperties DEF SegmentsRise, IsSequence
<1>3. s = [k \in 1 .. n |-> s[k]] /\ \A k \in 1 .. n : s[k] = SegmentChunks(page, text, segments[k], policy)
  BY <1>2
<1> HIDE DEF s
<1>4. ASSUME NEW k \in 1 .. n
      PROVE  /\ IsSequence(s[k]) /\ Distinct(s[k])
             /\ \A i \in DOMAIN s[k] : s[k][i].id[1] = {page} /\ s[k][i].id[2][2] = segments[k].start
  <2>1. segments[k].from \in 0 .. Len(text) /\ segments[k].to \in 0 .. Len(text)
    BY <1>1 DEF SegmentsRise
  <2>2. OfSegment(SegmentChunks(page, text, segments[k], policy), page, segments[k].start)
    BY <2>1, SegmentDistinct
  <2>3. OfSegment(s[k], page, segments[k].start)
    BY <1>3, <2>2
  <2> QED
    BY <2>3 DEF OfSegment, OfPage
<1>5. ASSUME NEW k \in 1 .. n, NEW l \in 1 .. n, segments[k].start = segments[l].start PROVE k = l
  <2>1. /\ k \in Nat /\ l \in Nat /\ segments[k].start \in Nat
        /\ (k < l => segments[k].start < segments[l].start) /\ (l < k => segments[l].start < segments[k].start)
    BY <1>1, <1>2 DEF SegmentsRise
  <2> QED
    BY <1>5, <2>1
<1>6. DistinctUpTo(s, n)
  <2> SUFFICES ASSUME NEW g \in 1 .. n, NEW h \in 1 .. n, NEW i \in DOMAIN s[g], NEW j \in DOMAIN s[h],
                      s[g][i].id = s[h][j].id
               PROVE  g = h /\ i = j
    BY DEF DistinctUpTo
  <2>1. segments[g].start = segments[h].start
    BY <1>4
  <2>2. g = h
    BY <1>5, <2>1
  <2> QED
    BY <1>4, <2>2 DEF Distinct
<1>7. /\ IsSequence(res) /\ Distinct(res)
      /\ \A k \in DOMAIN res : \E g \in 1 .. n : \E i \in DOMAIN s[g] : res[k] = s[g][i]
  <2>1. IsSequence(s) /\ Len(s) = n
    BY <1>2, <1>3, TabledList
  <2> QED
    BY <1>4, <1>6, <2>1, FlatDistinct
<1>8. \A k \in DOMAIN res : res[k].id[1] = {page}
  BY <1>4, <1>7
<1>9. PdfPage(page, text, policy) = IF BlankText(text) THEN << >> ELSE res
  BY DEF PdfPage, s, segments
<1> HIDE DEF res
<1>10. IsSequence(<< >>) /\ Distinct(<< >>) /\ DOMAIN << >> = {}
  <2>1. << >> \in Seq({}) /\ DOMAIN << >> = {}
    OBVIOUS
  <2> QED
    BY <2>1 DEF IsSequence, Distinct
<1> QED
  BY <1>7, <1>8, <1>9, <1>10 DEF OfPage

LEMMA PdfDistinct ==
  ASSUME NEW doc \in Seq(Seq(Characters)), NEW policy
  PROVE  IsSequence(PdfPageV1(doc, policy)) /\ Distinct(PdfPageV1(doc, policy))
<1> DEFINE s == [p \in DOMAIN doc |-> PdfPage(p, doc[p], policy)]
           n == Len(doc)
           key == [p \in 1 .. n |-> {p}]
           Text == Seq(Characters)
<1>0. n \in Nat /\ DOMAIN doc = 1 .. n /\ \A p \in 1 .. n : doc[p] \in Text
  <2> HIDE DEF Text
  <2> QED
    BY LenProperties, ElementOfSeq DEF Text
<1>1. s = [p \in 1 .. n |-> s[p]] /\ \A p \in 1 .. n : s[p] = PdfPage(p, doc[p], policy)
  BY <1>0
<1>2. ASSUME NEW p \in 1 .. n
      PROVE  IsSequence(s[p]) /\ Distinct(s[p]) /\ \A i \in DOMAIN s[p] : s[p][i].id[1] = key[p]
  <2>1. doc[p] \in Seq(Characters)
    BY <1>0
  <2>2. key[p] = {p}
    OBVIOUS
  <2> HIDE DEF key, s
  <2>3. OfPage(PdfPage(p, doc[p], policy), p)
    BY <2>1, PageDistinct
  <2>4. OfPage(s[p], p)
    BY <1>1, <2>3
  <2> QED
    BY <2>2, <2>4 DEF OfPage
<1>3. \A p, q \in 1 .. n : key[p] = key[q] => p = q
  OBVIOUS
<1> HIDE DEF s, key
<1>4. IsSequence(s) /\ Len(s) = n
  BY <1>0, <1>1, TabledList
<1>5. DistinctUpTo(s, n)
  BY <1>2, <1>3, KeyedApart
<1>6. PdfPageV1(doc, policy) = FlattenSeq(s)
  BY DEF PdfPageV1, s
<1> QED
  BY <1>2, <1>4, <1>5, <1>6, FlatDistinct

-----------------------------------------------------------------------------
(* Chunks: the ids of a document *)

LEMMA CodeDistinct ==
  ASSUME NEW doc
  PROVE  /\ doc \in Seq([from : Nat, lines : Seq(STRING)])
              => IsSequence(ChunkCode("ast", doc)) /\ Distinct(ChunkCode("ast", doc))
         /\ doc \in Seq(STRING) => \A lang \in {"yaml", "file", "shell"} :
              IsSequence(ChunkCode(lang, doc)) /\ Distinct(ChunkCode(lang, doc))
<1>1. ASSUME doc \in Seq([from : Nat, lines : Seq(STRING)])
      PROVE  IsSequence(ChunkCode("ast", doc)) /\ Distinct(ChunkCode("ast", doc))
  <2> DEFINE first == CodeAstV1(doc)
             block == FirstBlock("ast", doc)
             AstUnits == [from : Nat, lines : Seq(STRING)]
  <2>1. IsSequence(first) /\ Distinct(first)
    BY <1>1, AstDistinct
  <2>2. block \in Seq(STRING)
    <3>1. CASE doc = << >>
      BY <3>1, EmptySeq DEF FirstBlock
    <3>2. CASE doc # << >>
      <4>1. Head(doc) \in AstUnits
        <5> HIDE DEF AstUnits
        <5> QED
          BY <1>1, <3>2, HeadTailProperties DEF AstUnits
      <4> QED
        BY <3>2, <4>1 DEF FirstBlock
    <3> QED
      BY <3>1, <3>2
  <2>3. IsSequence(TextParagraphV1(block)) /\ Distinct(TextParagraphV1(block))
    BY <2>2, ParagraphsDistinct
  <2>4. ChunkCode("ast", doc) \in {first, TextParagraphV1(block)}
    BY DEF ChunkCode
  <2> HIDE DEF first, block
  <2> QED
    BY <2>1, <2>3, <2>4
<1>2. ASSUME doc \in Seq(STRING), NEW lang \in {"yaml", "file", "shell"}
      PROVE  IsSequence(ChunkCode(lang, doc)) /\ Distinct(ChunkCode(lang, doc))
  <2>1. /\ IsSequence(K8sManifest(doc)) /\ Distinct(K8sManifest(doc))
        /\ IsSequence(WholeFile(doc)) /\ Distinct(WholeFile(doc))
        /\ IsSequence(TextParagraphV1(doc)) /\ Distinct(TextParagraphV1(doc))
    BY <1>2, ManifestDistinct, WholeDistinct, ParagraphsDistinct
  <2>2. ChunkCode(lang, doc) \in {K8sManifest(doc), WholeFile(doc), TextParagraphV1(doc)}
    <3>1. FirstBlock(lang, doc) = doc
      BY <1>2 DEF FirstBlock
    <3> QED
      BY <1>2, <3>1 DEF ChunkCode
  <2> QED
    BY <2>1, <2>2
<1> QED
  BY <1>1, <1>2

ChunkInv == chunkPolicy \in ChunkPolicies /\ Distinct(chunks)

\* For every document of every kind and every policy: no two chunks of it get one id.  The
\* groups of a Markdown document rise, so that no two have the same blocks; the segments of
\* a page, the parts of a unit and the windows of a file each begin behind the one before,
\* and what shares these is numbered.
THEOREM ChunkIdsNeverClash == ChunkSpec => []ChunkIdsDistinct
<1>1. ChunkInit => ChunkInv
  <2>1. Distinct(<< >>)
    <3>1. DOMAIN << >> = {}
      OBVIOUS
    <3> QED
      BY <3>1 DEF Distinct
  <2> QED
    BY <2>1 DEF ChunkInit, ChunkInv
<1>2. ChunkInv /\ [ChunkNext]_chunkVars => ChunkInv'
  <2> SUFFICES ASSUME ChunkInv, [ChunkNext]_chunkVars PROVE ChunkInv'
    OBVIOUS
  <2>1. CASE UNCHANGED chunkVars
    BY <2>1 DEF ChunkInv, chunkVars, Distinct
  <2>2. ASSUME NEW used, NEW doc, NEW result, Chunked(used, doc, result), Distinct(result) PROVE ChunkInv'
    BY <2>2 DEF Chunked, ChunkInv, Distinct
  <2>3. CASE ChunkMarkdown
    <3>1. PICK doc \in MdDocs : Chunked("markdown", doc, HeadingV2(doc, chunkPolicy))
      BY <2>3 DEF ChunkMarkdown
    <3>2. doc \in Seq(MdBlocks) /\ chunkPolicy \in ChunkPolicies
      BY ChunkAssumption DEF ChunkInv, MdBlocks
    <3> QED
      BY <2>2, <3>1, <3>2, MarkdownDistinct
  <2>4. CASE ChunkPdf
    <3>1. PICK doc \in PdfDocs : Chunked("pdf", doc, PdfPageV1(doc, chunkPolicy))
      BY <2>4 DEF ChunkPdf
    <3>2. doc \in Seq(Seq(Characters))
      BY ChunkAssumption
    <3> QED
      BY <2>2, <3>1, <3>2, PdfDistinct
  <2>5. CASE ChunkAst
    <3>1. PICK doc \in AstDocs : Chunked("ast", doc, ChunkCode("ast", doc))
      BY <2>5 DEF ChunkAst
    <3>2. doc \in Seq([from : Nat, lines : Seq(STRING)])
      BY ChunkAssumption
    <3> QED
      BY <2>2, <3>1, <3>2, CodeDistinct
  <2>6. CASE ChunkFile
    <3>1. PICK doc \in LineFiles, lang \in {"yaml", "file", "shell"} : Chunked(lang, doc, ChunkCode(lang, doc))
      BY <2>6 DEF ChunkFile
    <3>2. doc \in Seq(STRING)
      BY ChunkAssumption
    <3> QED
      BY <2>2, <3>1, <3>2, CodeDistinct
  <2>7. CASE ChunkFallenBack
    <3>1. PICK doc \in LineFiles : Chunked("shell", doc, TextParagraphV1(doc))
      BY <2>7 DEF ChunkFallenBack
    <3>2. doc \in Seq(STRING)
      BY ChunkAssumption
    <3> QED
      BY <2>2, <3>1, <3>2, ParagraphsDistinct
  <2> QED
    BY <2>1, <2>3, <2>4, <2>5, <2>6, <2>7 DEF ChunkNext
<1>3. ChunkInv => ChunkIdsDistinct
  BY DEF ChunkInv, Distinct, ChunkIdsDistinct
<1> QED
  BY <1>1, <1>2, <1>3, PTL DEF ChunkSpec

-----------------------------------------------------------------------------
(* Workspace: the walk *)

\* The strings of the model, those it names itself included.
PathWords == STRING \cup {External, "", "kebabignore"}
Ways == Seq(PathWords)
TreeEntry == [path : Ways, real : Ways, dir : BOOLEAN, bytes : PathWords, marks : SUBSET PathWords]
Categories == {"builtin", "gitignore", "kebabignore", "other", "generated", "size_exceeded"}
WalkStates == [accepted : SUBSET TreeEntry, skipped : SUBSET [real : Ways, category : Categories],
               pruned : SUBSET Ways, visited : SUBSET Ways]

\* An entry that was excluded, and what the report says of it.
Passed(walk, d) == Excluded(d, excludes) /\ [real |-> d.real, category |-> Category(d)] \in walk.skipped

\* What has become of a file by the i-th entry.
Settled(walk, tree, names, k) ==
  ~tree[k].dir =>
    \/ \E j \in 1 .. k : /\ IsStrictPrefix(tree[j].path, tree[k].path)
                         /\ Passed(walk, tree[j]) \/ Revisited(tree, j)
    \/ Passed(walk, tree[k])
    \/ names # {} /\ tree[k].path \notin names
    \/ Unfit(tree[k]) /\ [real |-> tree[k].real, category |-> Misfit(tree[k])] \in walk.skipped
    \/ tree[k] \in walk.accepted

\* The walk after i entries: what it has pruned was excluded or reached before.
WalkedSoFar(walk, tree, names, i) ==
  /\ walk \in WalkStates
  /\ \A p \in walk.pruned : \E j \in 1 .. i :
       p = tree[j].path /\ (Passed(walk, tree[j]) \/ Revisited(tree, j))
  /\ \A v \in walk.visited : v = << >> \/ \E j \in 1 .. i : tree[j].dir /\ tree[j].real = v
  /\ \A e \in walk.accepted : \E j \in 1 .. i : e = tree[j] /\ ~e.dir
  /\ \A k \in 1 .. i : Settled(walk, tree, names, k)

\* One entry leads from a walk to one that has kept what it had.
LEMMA OneVisit ==
  ASSUME NEW walk \in WalkStates, NEW e \in TreeEntry, NEW names
  PROVE  LET next == Visit(walk, e, excludes, names) IN
         /\ next \in WalkStates
         /\ walk.accepted \subseteq next.accepted /\ walk.skipped \subseteq next.skipped
         /\ \/ \E p \in walk.pruned : IsStrictPrefix(p, e.path) /\ next = walk
            \/ /\ Passed(next, e)
               /\ next.pruned = walk.pruned \cup {e.path} /\ next.visited = walk.visited
               /\ next.accepted = walk.accepted
            \/ /\ e.dir /\ e.real \in walk.visited
               /\ next.pruned = walk.pruned \cup {e.path} /\ next.visited = walk.visited
               /\ next.accepted = walk.accepted
            \/ /\ e.dir
               /\ next.pruned = walk.pruned /\ next.visited = walk.visited \cup {e.real}
               /\ next.accepted = walk.accepted
            \/ /\ ~e.dir /\ next.pruned = walk.pruned /\ next.visited = walk.visited
               /\ \/ /\ next.accepted = walk.accepted
                     /\ \/ names # {} /\ e.path \notin names
                        \/ Unfit(e) /\ [real |-> e.real, category |-> Misfit(e)] \in next.skipped
                  \/ next.accepted = walk.accepted \cup {e}
<1> DEFINE next == Visit(walk, e, excludes, names)
<1>1. e.path \in Ways /\ e.real \in Ways /\ Category(e) \in Categories /\ Misfit(e) \in Categories
  <2>2. Category(e) \in Categories
    BY DEF Category, Categories
  <2>3. Misfit(e) \in Categories
    BY DEF Misfit, Categories
  <2>4. e.path \in Ways /\ e.real \in Ways
    BY DEF TreeEntry
  <2> QED
    BY <2>2, <2>3, <2>4
<1>2. /\ walk = [accepted |-> walk.accepted, skipped |-> walk.skipped, pruned |-> walk.pruned,
                 visited |-> walk.visited]
      /\ walk.accepted \in SUBSET TreeEntry /\ walk.skipped \in SUBSET [real : Ways, category : Categories]
      /\ walk.pruned \in SUBSET Ways /\ walk.visited \in SUBSET Ways
  BY DEF WalkStates
<1>3. CASE \E d \in walk.pruned : IsStrictPrefix(d, e.path)
  <2>1. next = walk
    BY <1>3 DEF Visit
  <2> QED
    BY <1>3, <2>1
<1>4. CASE (~\E d \in walk.pruned : IsStrictPrefix(d, e.path)) /\ Excluded(e, excludes)
  <2>1. next = [walk EXCEPT !.skipped = @ \cup {[real |-> e.real, category |-> Category(e)]},
                            !.pruned = @ \cup {e.path}]
    <3>1. next = Prune(Skip(walk, e, Category(e)), e)
      BY <1>4 DEF Visit
    <3> QED
      BY <1>2, <3>1 DEF Prune, Skip
  <2> HIDE DEF next
  <2>2. /\ next.accepted = walk.accepted /\ next.visited = walk.visited
        /\ next.pruned = walk.pruned \cup {e.path}
        /\ next.skipped = walk.skipped \cup {[real |-> e.real, category |-> Category(e)]}
        /\ next = [accepted |-> next.accepted, skipped |-> next.skipped, pruned |-> next.pruned,
                   visited |-> next.visited]
    BY <1>2, <2>1
  <2>4. next \in WalkStates
    <3>1. [real |-> e.real, category |-> Category(e)] \in [real : Ways, category : Categories]
      BY <1>1
    <3>2. /\ next.skipped \in SUBSET [real : Ways, category : Categories]
          /\ next.accepted \in SUBSET TreeEntry /\ next.pruned \in SUBSET Ways /\ next.visited \in SUBSET Ways
      BY <1>1, <1>2, <2>2, <3>1
    <3> QED
      BY <2>2, <3>2 DEF WalkStates
  <2>3. Passed(next, e)
    BY <1>4, <2>2 DEF Passed
  <2> QED
    BY <2>2, <2>3, <2>4 DEF next
<1>5. CASE (~\E d \in walk.pruned : IsStrictPrefix(d, e.path)) /\ ~Excluded(e, excludes) /\ e.dir
  <2>1. next = Enter(walk, e)
    BY <1>5 DEF Visit
  <2> HIDE DEF next
  <2>2. CASE e.real \in walk.visited
    <3>1. next = [walk EXCEPT !.pruned = @ \cup {e.path}]
      BY <2>1, <2>2 DEF Enter, Prune
    <3> QED
      BY <1>1, <1>2, <1>5, <2>2, <3>1 DEF WalkStates, next
  <2>3. CASE e.real \notin walk.visited
    <3>1. next = [walk EXCEPT !.visited = @ \cup {e.real}]
      BY <2>1, <2>3 DEF Enter
    <3> QED
      BY <1>1, <1>2, <1>5, <2>3, <3>1 DEF WalkStates, next
  <2> QED
    BY <2>2, <2>3
<1>6. CASE (~\E d \in walk.pruned : IsStrictPrefix(d, e.path)) /\ ~Excluded(e, excludes) /\ ~e.dir
  <2>1. next = Take(walk, e, names)
    BY <1>6 DEF Visit
  <2> HIDE DEF next
  <2>2. CASE names # {} /\ e.path \notin names
    <3>1. next = walk
      BY <2>1, <2>2 DEF Take
    <3> QED
      BY <1>6, <2>2, <3>1 DEF next
  <2>3. CASE ~(names # {} /\ e.path \notin names) /\ Unfit(e)
    <3>1. next = [walk EXCEPT !.skipped = @ \cup {[real |-> e.real, category |-> Misfit(e)]}]
      BY <2>1, <2>3 DEF Take, Skip
    <3> QED
      BY <1>1, <1>2, <1>6, <2>3, <3>1 DEF WalkStates, next
  <2>4. CASE ~(names # {} /\ e.path \notin names) /\ ~Unfit(e)
    <3>1. next = [walk EXCEPT !.accepted = @ \cup {e}]
      BY <2>1, <2>4 DEF Take
    <3> QED
      BY <1>1, <1>2, <1>6, <2>4, <3>1 DEF WalkStates, next
  <2> QED
    BY <2>2, <2>3, <2>4
<1> QED
  BY <1>3, <1>4, <1>5, <1>6

\* One entry more.
LEMMA WalkedOneMore ==
  ASSUME NEW tree \in Seq(TreeEntry), NEW names, NEW i \in Nat, i < Len(tree), NEW walk,
         WalkedSoFar(walk, tree, names, i)
  PROVE  WalkedSoFar(Visit(walk, tree[i + 1], excludes, names), tree, names, i + 1)
<1> DEFINE e == tree[i + 1]
           next == Visit(walk, e, excludes, names)
<1>1. e \in TreeEntry /\ walk \in WalkStates /\ i + 1 \in Nat
  BY ElementOfSeq DEF WalkedSoFar
<1>2. /\ next \in WalkStates
      /\ walk.accepted \subseteq next.accepted /\ walk.skipped \subseteq next.skipped
      /\ \/ \E p \in walk.pruned : IsStrictPrefix(p, e.path) /\ next = walk
         \/ /\ Passed(next, e)
            /\ next.pruned = walk.pruned \cup {e.path} /\ next.visited = walk.visited
            /\ next.accepted = walk.accepted
         \/ /\ e.dir /\ e.real \in walk.visited
            /\ next.pruned = walk.pruned \cup {e.path} /\ next.visited = walk.visited
            /\ next.accepted = walk.accepted
         \/ /\ e.dir
            /\ next.pruned = walk.pruned /\ next.visited = walk.visited \cup {e.real}
            /\ next.accepted = walk.accepted
         \/ /\ ~e.dir /\ next.pruned = walk.pruned /\ next.visited = walk.visited
            /\ \/ /\ next.accepted = walk.accepted
                  /\ \/ names # {} /\ e.path \notin names
                     \/ Unfit(e) /\ [real |-> e.real, category |-> Misfit(e)] \in next.skipped
               \/ next.accepted = walk.accepted \cup {e}
  BY <1>1, OneVisit
<1> HIDE DEF next, e
<1>3. \A d : Passed(walk, d) => Passed(next, d)
  BY <1>2 DEF Passed
<1>4. \A j \in 1 .. i : j \in 1 .. i + 1
  BY <1>1
<1>5. i + 1 \in 1 .. i + 1 /\ \A j \in 1 .. i + 1 : j = i + 1 \/ j \in 1 .. i
  BY <1>1
<1>6. e.dir /\ e.real \in walk.visited => Revisited(tree, i + 1)
  <2> SUFFICES ASSUME e.dir, e.real \in walk.visited PROVE Revisited(tree, i + 1)
    OBVIOUS
  <2>1. e.real = << >> \/ \E j \in 1 .. i : tree[j].dir /\ tree[j].real = e.real
    BY DEF WalkedSoFar
  <2>2. 1 .. (i + 1) - 1 = 1 .. i
    BY <1>1
  <2> QED
    BY <2>1, <2>2 DEF Revisited, e
<1>7. \A p \in next.pruned : \E j \in 1 .. i + 1 :
        p = tree[j].path /\ (Passed(next, tree[j]) \/ Revisited(tree, j))
  <2> TAKE p \in next.pruned
  <2>1. CASE p \in walk.pruned
    BY <1>3, <1>4, <2>1 DEF WalkedSoFar
  <2>2. CASE p \notin walk.pruned
    <3>1. p = e.path /\ (Passed(next, e) \/ Revisited(tree, i + 1))
      BY <1>2, <1>6, <2>2
    <3> QED
      BY <1>5, <3>1 DEF e
  <2> QED
    BY <2>1, <2>2
<1>8. \A v \in next.visited : v = << >> \/ \E j \in 1 .. i + 1 : tree[j].dir /\ tree[j].real = v
  <2> TAKE v \in next.visited
  <2>1. CASE v \in walk.visited
    BY <1>4, <2>1 DEF WalkedSoFar
  <2>2. CASE v \notin walk.visited
    <3>1. v = e.real /\ e.dir
      BY <1>2, <2>2
    <3> QED
      BY <1>5, <3>1 DEF e
  <2> QED
    BY <2>1, <2>2
<1>9. \A a \in next.accepted : \E j \in 1 .. i + 1 : a = tree[j] /\ ~a.dir
  <2> TAKE a \in next.accepted
  <2>1. CASE a \in walk.accepted
    BY <1>4, <2>1 DEF WalkedSoFar
  <2>2. CASE a \notin walk.accepted
    <3>1. a = e /\ ~e.dir
      BY <1>2, <2>2
    <3> QED
      BY <1>5, <3>1 DEF e
  <2> QED
    BY <2>1, <2>2
<1>10. \A k \in 1 .. i : Settled(next, tree, names, k)
  <2> TAKE k \in 1 .. i
  <2>1. Settled(walk, tree, names, k)
    BY DEF WalkedSoFar
  <2> QED
    BY <1>2, <1>3, <2>1 DEF Settled
<1>11. Settled(next, tree, names, i + 1)
  <2> SUFFICES ASSUME ~e.dir
               PROVE  \/ \E j \in 1 .. i + 1 : /\ IsStrictPrefix(tree[j].path, e.path)
                                               /\ Passed(next, tree[j]) \/ Revisited(tree, j)
                      \/ Passed(next, e)
                      \/ names # {} /\ e.path \notin names
                      \/ Unfit(e) /\ [real |-> e.real, category |-> Misfit(e)] \in next.skipped
                      \/ e \in next.accepted
    BY DEF Settled, e
  <2>1. CASE \E p \in walk.pruned : IsStrictPrefix(p, e.path)
    <3>1. PICK p \in walk.pruned : IsStrictPrefix(p, e.path)
      BY <2>1
    <3>2. PICK j \in 1 .. i : p = tree[j].path /\ (Passed(walk, tree[j]) \/ Revisited(tree, j))
      BY <3>1 DEF WalkedSoFar
    <3> QED
      BY <1>3, <1>4, <3>1, <3>2
  <2>2. CASE ~\E p \in walk.pruned : IsStrictPrefix(p, e.path)
    BY <1>2, <2>2
  <2> QED
    BY <2>1, <2>2
<1>12. \A k \in 1 .. i + 1 : Settled(next, tree, names, k)
  BY <1>5, <1>10, <1>11
<1> QED
  BY <1>2, <1>7, <1>8, <1>9, <1>12 DEF WalkedSoFar, next, e

\* The walk of a root, whatever is below it.
LEMMA WalkIsWalked ==
  ASSUME NEW root, NEW names, Entries(root) \in Seq(TreeEntry)
  PROVE  WalkedSoFar(Walk(root, names), Entries(root), names, Len(Entries(root)))
<1> DEFINE s == Entries(root)
           n == Len(s)
           base == [accepted |-> {}, skipped |-> {}, pruned |-> {}, visited |-> {<< >>}]
           X == WalkStates
           step == [p \in X \X TreeEntry |-> Visit(p[1], p[2], excludes, names)]
           Body(h) == [i \in 0 .. n |-> IF i = 0 THEN base ELSE Visit(h[i - 1], s[i], excludes, names)]
           U == CHOOSE h : h = Body(h)
<1>0. n \in Nat /\ \A i \in 1 .. n : s[i] \in TreeEntry
  BY LenProperties, ElementOfSeq
<1>1. base \in X
  <2>1. << >> \in Ways
    BY EmptySeq DEF Ways
  <2> QED
    BY <2>1 DEF WalkStates
<1>2. \A w \in X, e \in TreeEntry : Visit(w, e, excludes, names) \in X
  BY OneVisit
<1>3. step \in [X \X TreeEntry -> X]
  BY <1>2
<1>4. PICK g : Walks(g, step, base, s) /\ \A i \in 0 .. n : g[i] \in X
  <2> HIDE DEF step, base, X, s
  <2> QED
    BY <1>1, <1>3, WalkExists DEF s
<1> HIDE DEF base, X
<1>5. ASSUME NEW i \in 0 .. n PROVE g[i] = IF i = 0 THEN base ELSE Visit(g[i - 1], s[i], excludes, names)
  <2>1. g[i] = IF i = 0 THEN base ELSE step[<<g[i - 1], s[i]>>]
    BY <1>4 DEF Walks
  <2>2. i # 0 => <<g[i - 1], s[i]>> \in X \X TreeEntry
    BY <1>0, <1>4
  <2> QED
    BY <2>1, <2>2
<1>6. g = Body(g)
  BY <1>4, <1>5 DEF Walks
<1>7. U = Body(U)
  BY <1>6
<1> HIDE DEF U
<1>8. U[0] = base /\ \A i \in 1 .. n : U[i] = Visit(U[i - 1], s[i], excludes, names)
  BY <1>0, <1>7
<1> DEFINE T == {m \in Nat : m <= n => WalkedSoFar(U[m], s, names, m)}
<1>9. 0 \in T
  BY <1>1, <1>8 DEF WalkedSoFar, base, X
<1>10. ASSUME NEW m \in Nat, m \in T PROVE m + 1 \in T
  <2> SUFFICES ASSUME m + 1 <= n PROVE WalkedSoFar(U[m + 1], s, names, m + 1)
    OBVIOUS
  <2>1. m + 1 \in 1 .. n /\ (m + 1) - 1 = m /\ m < n /\ WalkedSoFar(U[m], s, names, m)
    BY <1>0, <1>10
  <2>2. U[m + 1] = Visit(U[m], s[m + 1], excludes, names)
    BY <1>8, <2>1
  <2> HIDE DEF s
  <2> QED
    BY <2>1, <2>2, WalkedOneMore DEF s
<1>11. n \in T
  <2> HIDE DEF T
  <2> QED
    BY <1>0, <1>9, <1>10, NatSets
<1>12. Walk(root, names) = U[n]
  BY DEF Walk, WalkTree, U, base
<1> QED
  BY <1>0, <1>11, <1>12

-----------------------------------------------------------------------------
(* Workspace: what is below a root *)

WsTyped ==
  /\ below \in [Roots -> UNION {Arrangements[r] : r \in Roots}]
  /\ \A r \in Roots : below[r] \in Arrangements[r]
  /\ IsFiniteSet(DOMAIN outside) /\ outside \in [DOMAIN outside -> STRING] /\ DOMAIN outside \subseteq STRING
  /\ sources \in SourceChoices

\* The names of the model are words, and << >> and _external are ways.
LEMMA WordsOfItsOwn ==
  /\ External \in PathWords /\ "" \in PathWords /\ "kebabignore" \in PathWords /\ STRING \subseteq PathWords
  /\ << >> \in Ways /\ <<External>> \in Ways /\ <<External>>[1] = External /\ Len(<<External>>) = 1
<1>1. /\ External \in PathWords /\ "" \in PathWords /\ "kebabignore" \in PathWords /\ STRING \subseteq PathWords
  BY DEF PathWords
<1>2. ASSUME NEW S, NEW x \in S PROVE << >> \in Seq(S) /\ <<x>> \in Seq(S)
  OBVIOUS
<1>3. << >> \in Seq(PathWords) /\ <<External>> \in Seq(PathWords)
  BY <1>1, <1>2, Zenon
<1>4. <<External>>[1] = External /\ Len(<<External>>) = 1
  OBVIOUS
<1> QED
  BY <1>1, <1>3, <1>4 DEF Ways

\* A prefix agrees with what it begins.
LEMMA PrefixAgrees ==
  ASSUME NEW p \in Ways, NEW q \in Ways, IsPrefix(p, q)
  PROVE  Len(p) \in Nat /\ Len(q) \in Nat /\ Len(p) <= Len(q) /\ \A i \in 1 .. Len(p) : p[i] = q[i]
<1>1. Len(p) \in Nat /\ Len(q) \in Nat /\ Len(p) <= Len(q)
  BY LenProperties DEF IsPrefix, Ways
<1>2. SubSeq(p, 1, Len(p)) = SubSeq(q, 1, Len(p))
  BY DEF IsPrefix
<1>3. ASSUME NEW i \in 1 .. Len(p) PROVE p[i] = q[i]
  <2>1. /\ SubSeq(p, 1, Len(p))[i] = p[i]
        /\ SubSeq(q, 1, Len(p))[i] = q[i]
    BY <1>1 DEF Ways
  <2> QED
    BY <1>2, <2>1
<1> QED
  BY <1>1, <1>3

\* A strict prefix is shorter.
LEMMA SamePrefix ==
  ASSUME NEW p \in Ways, NEW q \in Ways, IsStrictPrefix(p, q)
  PROVE  Len(p) < Len(q) /\ IsPrefix(p, q)
<1>1. IsPrefix(p, q) /\ p # q
  BY DEF IsStrictPrefix
<1>2. Len(p) \in Nat /\ Len(q) \in Nat /\ Len(p) <= Len(q) /\ \A i \in 1 .. Len(p) : p[i] = q[i]
  BY <1>1, PrefixAgrees
<1>3. Len(p) # Len(q)
  <2> SUFFICES ASSUME Len(p) = Len(q) PROVE p = q
    BY <1>1
  <2> QED
    BY <1>2, SeqEqual DEF Ways
<1> QED
  BY <1>1, <1>2, <1>3

\* A path is a prefix of itself.
LEMMA PrefixOfItself ==
  ASSUME NEW p \in Ways PROVE IsPrefix(p, p)
BY LenProperties DEF IsPrefix, Ways

\* What may be below a root, as entries.
LEMMA TreesAreEntries ==
  ASSUME WsTyped, NEW root \in Roots
  PROVE  /\ below[root] \in Seq(TreeEntry)
         /\ OncePerPath(below[root]) /\ Mirrored(below[root]) /\ ExternalApart(below[root])
<1> DEFINE t == below[root]
           Plain == [path : Paths, real : Paths, dir : BOOLEAN, bytes : STRING, marks : SUBSET STRING]
<1>1. t \in Seq(Plain) /\ OncePerPath(t) /\ Mirrored(t) /\ ExternalApart(t)
  <2>1. t \in Arrangements[root] /\ Arrangements[root] \subseteq Seq(Plain)
    BY WsAssumption DEF WsTyped
  <2>2. \A tree \in Arrangements[root] : OncePerPath(tree) /\ Mirrored(tree) /\ ExternalApart(tree)
    BY WsAssumption
  <2> HIDE DEF Plain
  <2> QED
    BY <2>1, <2>2
<1>2. \A p \in Paths : p \in Ways
  <2> TAKE p \in Paths
  <2>1. p \in Seq(STRING)
    BY DEF Paths
  <2>2. Len(p) \in Nat /\ p \in [1 .. Len(p) -> STRING]
    BY <2>1, LenProperties, SeqDef
  <2>3. p \in [1 .. Len(p) -> PathWords]
    BY <2>2 DEF PathWords
  <2> QED
    BY <2>2, <2>3 DEF Ways
<1>3. Plain \subseteq TreeEntry
  BY <1>2 DEF TreeEntry, PathWords
<1> HIDE DEF Plain
<1>4. Len(t) \in Nat /\ t \in [1 .. Len(t) -> Plain]
  BY <1>1, LenProperties
<1>5. t \in [1 .. Len(t) -> TreeEntry]
  BY <1>3, <1>4
<1> QED
  BY <1>1, <1>4, <1>5

\* The files of _external in directory order are all of them, each once.
LEMMA OutsideListed ==
  ASSUME WsTyped, NEW prefix \in {<< >>, <<External>>}
  PROVE  LET s == SetToSeq(OutsideFiles(prefix)) IN
         /\ s \in Seq(TreeEntry) /\ OncePerPath(s)
         /\ \A i \in 1 .. Len(s) : \E name \in DOMAIN outside : s[i] = OutsideFile(prefix, name)
         /\ \A name \in DOMAIN outside : \E i \in 1 .. Len(s) : s[i] = OutsideFile(prefix, name)
<1> DEFINE S == OutsideFiles(prefix)
           s == SetToSeq(S)
<1>0. External \in PathWords /\ prefix \in Ways /\ STRING \subseteq PathWords
  BY WordsOfItsOwn
<1>1. IsFiniteSet(S)
  <2> DEFINE f == [name \in DOMAIN outside |-> OutsideFile(prefix, name)]
  <2>1. IsFiniteSet(DOMAIN f) /\ S = {f[x] : x \in DOMAIN f}
    BY DEF WsTyped, OutsideFiles
  <2> HIDE DEF f, S
  <2> QED
    BY <2>1, FiniteImage
<1>2. S \subseteq TreeEntry
  <2> SUFFICES ASSUME NEW name \in DOMAIN outside PROVE OutsideFile(prefix, name) \in TreeEntry
    BY DEF OutsideFiles
  <2>0. prefix \in Ways /\ External \in PathWords
    BY <1>0
  <2>1. name \in PathWords /\ outside[name] \in PathWords
    BY <1>0 DEF WsTyped
  <2>2. Append(prefix, name) \in Ways /\ <<External, name>> \in Ways
    BY <1>0, <2>1, AppendProperties DEF Ways
  <2> QED
    BY <2>1, <2>2 DEF OutsideFile, TreeEntry
<1>3. /\ s \in Seq(S) /\ {s[j] : j \in 1 .. Len(s)} = S
      /\ \A i, j \in 1 .. Len(s) : s[i] = s[j] => i = j
  <2> HIDE DEF S
  <2> QED
    BY <1>1, SetAsList
<1>4. s \in Seq(TreeEntry) /\ Len(s) \in Nat /\ DOMAIN s = 1 .. Len(s)
  <2> HIDE DEF S, s
  <2>1. Len(s) \in Nat /\ s \in [1 .. Len(s) -> S]
    BY <1>3, LenProperties
  <2>2. s \in [1 .. Len(s) -> TreeEntry]
    BY <1>2, <2>1
  <2> QED
    BY <2>1, <2>2
<1> HIDE DEF s
<1>5. \A i \in 1 .. Len(s) : \E name \in DOMAIN outside : s[i] = OutsideFile(prefix, name)
  BY <1>3 DEF OutsideFiles
<1>6. \A name \in DOMAIN outside : \E i \in 1 .. Len(s) : s[i] = OutsideFile(prefix, name)
  BY <1>3 DEF OutsideFiles
<1>7. OncePerPath(s)
  <2> SUFFICES ASSUME NEW i \in 1 .. Len(s), NEW j \in 1 .. Len(s), s[i].path = s[j].path PROVE i = j
    BY <1>4 DEF OncePerPath
  <2>1. PICK x \in DOMAIN outside : s[i] = OutsideFile(prefix, x)
    BY <1>5
  <2>2. PICK y \in DOMAIN outside : s[j] = OutsideFile(prefix, y)
    BY <1>5
  <2>3. Append(prefix, x) = Append(prefix, y)
    BY <2>1, <2>2 DEF OutsideFile
  <2>4. x = y
    <3>1. x \in PathWords /\ y \in PathWords /\ prefix \in Seq(PathWords)
      BY <1>0 DEF WsTyped, Ways
    <3>2. Append(prefix, x)[Len(prefix) + 1] = x /\ Append(prefix, y)[Len(prefix) + 1] = y
      BY <3>1, AppendProperties
    <3> QED
      BY <2>3, <3>2
  <2> QED
    BY <1>3, <2>1, <2>2, <2>4
<1> QED
  BY <1>4, <1>5, <1>6, <1>7 DEF s

ExternalDir ==
  [path |-> <<External>>, real |-> <<External>>, dir |-> TRUE, bytes |-> "",
   marks |-> IF ignoring THEN {"kebabignore"} ELSE {}]

\* The primary root, with the copies behind what else is below it.
LEMMA PrimaryIsTree ==
  ASSUME WsTyped, NEW root \in Roots, root = Primary, outside # << >>
  PROVE  /\ Entries(root) \in Seq(TreeEntry)
         /\ OncePerPath(Entries(root)) /\ Mirrored(Entries(root))
<1> DEFINE b == below[root]
           o == SetToSeq(OutsideFiles(<<External>>))
           n == Len(b)
           m == Len(o)
           t == Entries(root)
<1>1. b \in Seq(TreeEntry) /\ OncePerPath(b) /\ Mirrored(b) /\ ExternalApart(b)
  BY TreesAreEntries
<1>2. /\ o \in Seq(TreeEntry) /\ OncePerPath(o)
      /\ \A i \in 1 .. m : \E name \in DOMAIN outside : o[i] = OutsideFile(<<External>>, name)
  BY OutsideListed
<1>3. External \in PathWords /\ ExternalDir \in TreeEntry
  <2>1. External \in PathWords /\ "" \in PathWords /\ "kebabignore" \in PathWords
    BY WordsOfItsOwn
  <2>2. <<External>> \in Ways
    BY WordsOfItsOwn
  <2>3. (IF ignoring THEN {"kebabignore"} ELSE {}) \in SUBSET PathWords
    BY <2>1
  <2>4. PICK M \in SUBSET PathWords :
          ExternalDir = [path |-> <<External>>, real |-> <<External>>, dir |-> TRUE, bytes |-> "", marks |-> M]
    BY <2>3 DEF ExternalDir
  <2> QED
    BY <2>1, <2>2, <2>4 DEF TreeEntry
<1>4. t = b \o <<ExternalDir>> \o o
  <2>1. root # External
    BY WsAssumption
  <2> QED
    BY <2>1 DEF Entries, ExternalDir
<1>5. n \in Nat /\ m \in Nat /\ DOMAIN b = 1 .. n /\ DOMAIN o = 1 .. m
  BY <1>1, <1>2, LenProperties
<1> HIDE DEF b, o, t
<1>6. /\ t \in Seq(TreeEntry) /\ Len(t) = n + 1 + m
      /\ \A i \in 1 .. n : t[i] = b[i]
      /\ t[n + 1] = ExternalDir
      /\ \A i \in 1 .. m : t[n + 1 + i] = o[i]
  <2> DEFINE c == b \o <<ExternalDir>>
  <2>1. c \in Seq(TreeEntry) /\ Len(c) = n + 1 /\ \A i \in 1 .. n + 1 : c[i] = IF i <= n THEN b[i] ELSE ExternalDir
    <3>1. <<ExternalDir>> \in Seq(TreeEntry) /\ Len(<<ExternalDir>>) = 1 /\ <<ExternalDir>>[1] = ExternalDir
      BY <1>3
    <3>2. /\ c \in Seq(TreeEntry) /\ Len(c) = n + 1
          /\ \A i \in 1 .. n + 1 : c[i] = IF i <= n THEN b[i] ELSE <<ExternalDir>>[i - n]
      BY <1>1, <1>5, <3>1, ConcatProperties
    <3>3. \A i \in 1 .. n + 1 : ~(i <= n) => i - n = 1
      BY <1>5
    <3> HIDE DEF c
    <3> QED
      BY <3>1, <3>2, <3>3
  <2> HIDE DEF c
  <2>2. /\ c \o o \in Seq(TreeEntry) /\ Len(c \o o) = Len(c) + m
        /\ \A i \in 1 .. Len(c) + m : (c \o o)[i] = IF i <= Len(c) THEN c[i] ELSE o[i - Len(c)]
    BY <1>2, <1>5, <2>1, ConcatProperties
  <2>3. t = c \o o
    BY <1>4 DEF c
  <2>4. \A i \in 1 .. m : t[n + 1 + i] = o[i]
    <3> TAKE i \in 1 .. m
    <3>1. n + 1 + i \in 1 .. Len(c) + m /\ ~(n + 1 + i <= Len(c)) /\ (n + 1 + i) - Len(c) = i
      BY <1>5, <2>1
    <3> QED
      BY <2>2, <2>3, <3>1
  <2>5. \A i \in 1 .. n + 1 : t[i] = c[i]
    BY <1>5, <2>1, <2>2, <2>3
  <2>6. \A i \in 1 .. n : i \in 1 .. n + 1 /\ i <= n
    BY <1>5
  <2>7. n + 1 \in 1 .. n + 1 /\ ~(n + 1 <= n)
    BY <1>5
  <2> QED
    BY <2>1, <2>2, <2>3, <2>4, <2>5, <2>6, <2>7
<1>7. Len(t) \in Nat /\ DOMAIN t = 1 .. Len(t) /\ \A i \in 1 .. Len(t) : t[i] \in TreeEntry
  BY <1>6, LenProperties, ElementOfSeq
<1>8. \A i \in 1 .. Len(t) : i \in 1 .. n \/ i = n + 1 \/ \E k \in 1 .. m : i = n + 1 + k
  <2> TAKE i \in 1 .. Len(t)
  <2> SUFFICES ASSUME i > n + 1 PROVE \E k \in 1 .. m : i = n + 1 + k
    BY <1>5, <1>6
  <2>1. i - (n + 1) \in 1 .. m /\ i = n + 1 + (i - (n + 1))
    BY <1>5, <1>6
  <2> QED
    BY <2>1
<1>9. \A i \in 1 .. n : /\ t[i].path # << >> /\ t[i].path[1] # External
                        /\ t[i].real = << >> \/ t[i].real[1] # External
  <2> TAKE i \in 1 .. n
  <2>1. /\ t[i].path # << >> /\ Head(t[i].path) # External
        /\ t[i].real = << >> \/ Head(t[i].real) # External
    BY <1>1, <1>5, <1>6 DEF ExternalApart
  <2>2. t[i].path \in Ways /\ t[i].real \in Ways
    BY <1>5, <1>6, <1>7 DEF TreeEntry
  <2>3. \A p \in Ways : p # << >> => Head(p) = p[1]
    BY EmptySeq, LenProperties DEF Ways
  <2> QED
    BY <2>1, <2>2, <2>3
<1>10. ExternalDir.path = <<External>> /\ ExternalDir.real = <<External>> /\ ExternalDir.dir
  BY DEF ExternalDir
<1>11. \A k \in 1 .. m : ~o[k].dir /\ Len(o[k].path) = 2 /\ o[k].path[1] = External
  <2> TAKE k \in 1 .. m
  <2>1. PICK name \in DOMAIN outside : o[k] = OutsideFile(<<External>>, name)
    BY <1>2
  <2>2. o[k].path = Append(<<External>>, name) /\ ~o[k].dir
    BY <2>1 DEF OutsideFile
  <2>3. name \in PathWords /\ <<External>> \in Seq(PathWords)
    BY WordsOfItsOwn DEF WsTyped, Ways
  <2>4. 1 \in 1 .. Len(<<External>>) /\ Len(<<External>>) + 1 = 2
    OBVIOUS
  <2>5. Len(Append(<<External>>, name)) = 2 /\ Append(<<External>>, name)[1] = <<External>>[1]
    BY <2>3, <2>4, AppendProperties
  <2> QED
    BY <2>2, <2>5, WordsOfItsOwn
<1>12. <<External>>[1] = External /\ Len(<<External>>) = 1
  BY WordsOfItsOwn
<1>13. /\ t[n + 1].path[1] = External /\ Len(t[n + 1].path) = 1
  BY <1>6, <1>10, <1>12
<1>14. \A i : i = n + 1 \/ (\E k \in 1 .. m : i = n + 1 + k) => t[i].path[1] = External
  BY <1>6, <1>11, <1>13
<1>15. \A i : (\E k \in 1 .. m : i = n + 1 + k) => Len(t[i].path) = 2 /\ ~t[i].dir
  BY <1>6, <1>11
<1>16. OncePerPath(t)
  <2> SUFFICES ASSUME NEW i \in 1 .. Len(t), NEW j \in 1 .. Len(t), t[i].path = t[j].path PROVE i = j
    BY <1>7 DEF OncePerPath
  <2>1. CASE i \in 1 .. n /\ j \in 1 .. n
    BY <1>1, <1>5, <1>6, <2>1 DEF OncePerPath
  <2>2. CASE i \in 1 .. n /\ j \notin 1 .. n
    <3>1. j = n + 1 \/ \E k \in 1 .. m : j = n + 1 + k
      BY <1>8, <2>2
    <3>2. t[j].path[1] = External
      BY <1>14, <3>1
    <3> QED
      BY <1>9, <2>2, <3>2
  <2>3. CASE i \notin 1 .. n /\ j \in 1 .. n
    <3>1. i = n + 1 \/ \E k \in 1 .. m : i = n + 1 + k
      BY <1>8, <2>3
    <3>2. t[i].path[1] = External
      BY <1>14, <3>1
    <3> QED
      BY <1>9, <2>3, <3>2
  <2>4. CASE i \notin 1 .. n /\ j \notin 1 .. n
    <3>1. CASE i = n + 1 /\ j = n + 1
      BY <3>1
    <3>2. CASE i = n + 1 /\ \E k \in 1 .. m : j = n + 1 + k
      <4>1. Len(t[i].path) = 1 /\ Len(t[j].path) = 2
        BY <1>13, <1>15, <3>2
      <4>2. Len(t[i].path) = Len(t[j].path)
        OBVIOUS
      <4>3. 1 # 2
        OBVIOUS
      <4> QED
        BY ONLY <4>1, <4>2, <4>3
    <3>3. CASE j = n + 1 /\ \E k \in 1 .. m : i = n + 1 + k
      <4>1. Len(t[j].path) = 1 /\ Len(t[i].path) = 2
        BY <1>13, <1>15, <3>3
      <4>2. Len(t[i].path) = Len(t[j].path)
        OBVIOUS
      <4>3. 1 # 2
        OBVIOUS
      <4> QED
        BY ONLY <4>1, <4>2, <4>3
    <3>4. ASSUME NEW k \in 1 .. m, i = n + 1 + k, NEW l \in 1 .. m, j = n + 1 + l PROVE i = j
      <4>1. o[k].path = o[l].path
        BY <1>6, <3>4
      <4>2. k = l
        BY <1>2, <1>5, <4>1 DEF OncePerPath
      <4> QED
        BY <3>4, <4>2
    <3> QED
      BY <1>8, <2>4, <3>1, <3>2, <3>3, <3>4
  <2> QED
    BY <2>1, <2>2, <2>3, <2>4
<1>17. Mirrored(t)
  <2> SUFFICES ASSUME NEW j \in 1 .. Len(t), NEW k \in 1 .. Len(t), Revisited(t, j),
                      IsStrictPrefix(t[j].path, t[k].path), ~t[k].dir
               PROVE  \E l \in 1 .. k - 1 : ~t[l].dir /\ t[l].real = t[k].real /\ t[l].bytes = t[k].bytes
    BY <1>7 DEF Mirrored
  <2>1. t[j].dir /\ (t[j].real = << >> \/ \E i \in 1 .. j - 1 : t[i].dir /\ t[i].real = t[j].real)
    BY DEF Revisited
  <2>2. j \in 1 .. n
    <3> SUFFICES ASSUME j \notin 1 .. n PROVE FALSE
      OBVIOUS
    <3>1. j = n + 1
      BY <1>8, <1>15, <2>1
    <3>2. t[j].real = <<External>>
      BY <1>6, <1>10, <3>1
    <3>3. PICK i \in 1 .. j - 1 : t[i].real = t[j].real
      BY <2>1, <3>2
    <3>4. i \in 1 .. n
      BY <1>5, <3>1, <3>3
    <3>5. <<External>> # << >>
      BY <1>12
    <3> QED
      BY <1>9, <1>12, <3>2, <3>3, <3>4, <3>5
  <2>3. t[j].path \in Ways /\ t[k].path \in Ways
    BY <1>7 DEF TreeEntry
  <2>4. /\ Len(t[j].path) \in Nat /\ Len(t[k].path) \in Nat /\ Len(t[j].path) < Len(t[k].path)
        /\ \A i \in 1 .. Len(t[j].path) : t[j].path[i] = t[k].path[i]
    BY <2>3, SamePrefix, PrefixAgrees
  <2>5. Len(t[j].path) # 0
    BY <1>9, <2>2, <2>3, EmptySeq DEF Ways
  <2>6. t[j].path[1] = t[k].path[1]
    <3>1. 1 \in 1 .. Len(t[j].path)
      BY <2>4, <2>5
    <3> QED
      BY <2>4, <3>1
  <2>7. k \in 1 .. n
    <3> SUFFICES ASSUME k \notin 1 .. n PROVE FALSE
      OBVIOUS
    <3>1. k = n + 1 \/ \E i \in 1 .. m : k = n + 1 + i
      BY <1>8
    <3>2. t[k].path[1] = External
      BY <1>14, <3>1
    <3> QED
      BY <1>9, <2>2, <2>6, <3>2
  <2>8. Revisited(b, j)
    <3>1. t[j] = b[j] /\ \A i \in 1 .. j - 1 : i \in 1 .. n
      BY <1>5, <1>6, <2>2
    <3>2. \A i \in 1 .. j - 1 : t[i] = b[i]
      BY <1>6, <3>1
    <3> QED
      BY <2>1, <3>1, <3>2 DEF Revisited
  <2>9. t[k] = b[k] /\ t[j] = b[j]
    BY <1>6, <2>2, <2>7
  <2>10. PICK l \in 1 .. k - 1 : ~b[l].dir /\ b[l].real = b[k].real /\ b[l].bytes = b[k].bytes
    <3>1. j \in DOMAIN b /\ k \in DOMAIN b /\ IsStrictPrefix(b[j].path, b[k].path) /\ ~b[k].dir
      BY <1>5, <2>2, <2>7, <2>9
    <3> QED
      BY <1>1, <2>8, <3>1 DEF Mirrored
  <2>11. l \in 1 .. n /\ t[l] = b[l]
    BY <1>5, <1>6, <2>7
  <2> QED
    BY <2>9, <2>10, <2>11
<1> QED
  BY <1>6, <1>16, <1>17 DEF t

\* The primary root is one of the roots.
LEMMA PrimaryIsRoot == WsTyped => Primary \in Roots
<1> SUFFICES ASSUME WsTyped PROVE Primary \in Roots
  OBVIOUS
<1>1. sources \in Seq(Roots) /\ sources # << >>
  BY OnePrimary, WsAssumption DEF WsTyped
<1> QED
  BY <1>1, HeadTailProperties DEF Primary

\* What is below any root a scan may be of.
LEMMA EntriesAreTree ==
  ASSUME WsTyped, NEW root \in Roots \cup {External}
  PROVE  /\ Entries(root) \in Seq(TreeEntry)
         /\ OncePerPath(Entries(root)) /\ Mirrored(Entries(root))
<1>1. CASE root = External
  <2> DEFINE s == SetToSeq(OutsideFiles(<< >>))
  <2>1. Entries(root) = s
    <3>1. Primary \in Roots
      BY PrimaryIsRoot
    <3>2. root # Primary
      BY <1>1, <3>1, WsAssumption
    <3> QED
      BY <1>1, <3>2, Zenon DEF Entries
  <2>2. /\ s \in Seq(TreeEntry) /\ OncePerPath(s)
        /\ \A i \in 1 .. Len(s) : \E name \in DOMAIN outside : s[i] = OutsideFile(<< >>, name)
    BY OutsideListed
  <2> HIDE DEF s
  <2>5. \A name : ~OutsideFile(<< >>, name).dir
    BY DEF OutsideFile
  <2>3. \A i \in 1 .. Len(s) : ~s[i].dir
    BY <2>2, <2>5
  <2>4. Mirrored(s)
    <3>1. DOMAIN s = 1 .. Len(s)
      BY <2>2, LenProperties
    <3> QED
      BY <2>3, <3>1 DEF Mirrored, Revisited
  <2> QED
    BY <2>1, <2>2, <2>4
<1>2. CASE root # External /\ root = Primary /\ outside # << >>
  BY <1>2, PrimaryIsTree
<1>3. CASE root # External /\ ~(root = Primary /\ outside # << >>)
  <2>1. Entries(root) = below[root] /\ root \in Roots
    BY <1>3 DEF Entries
  <2> QED
    BY <2>1, TreesAreEntries
<1> QED
  BY <1>1, <1>2, <1>3

-----------------------------------------------------------------------------
(* Workspace: what becomes of every file *)

\* The walk has said of an entry why it goes no further.
ToldOf(walk, d) ==
  \/ Passed(walk, d)
  \/ Unfit(d) /\ [real |-> d.real, category |-> Misfit(d)] \in walk.skipped

\* A file reached at l is accepted, or the report says why it or a directory above it is not.
Dealt(walk, tree, l) ==
  \/ tree[l] \in walk.accepted
  \/ \E d \in 1 .. Len(tree) : IsPrefix(tree[d].path, tree[l].path) /\ ToldOf(walk, tree[d])

\* Every file is dealt with by one of the ways it is reached.
LEMMA FilesAreDealtWith ==
  ASSUME WsTyped, NEW root \in Roots \cup {External}, NEW k \in 1 .. Len(Entries(root)), ~Entries(root)[k].dir
  PROVE  LET t == Entries(root) IN
         \E l \in 1 .. Len(t) : /\ ~t[l].dir /\ t[l].real = t[k].real /\ t[l].bytes = t[k].bytes
                                /\ Dealt(Walk(root, {}), t, l)
<1> DEFINE t == Entries(root)
           w == Walk(root, {})
           n == Len(t)
           Reached(x) == \E l \in 1 .. n : /\ ~t[l].dir /\ t[l].real = t[x].real /\ t[l].bytes = t[x].bytes
                                           /\ Dealt(w, t, l)
           T == {m \in Nat : \A x \in 1 .. m : x <= n /\ ~t[x].dir => Reached(x)}
<1>1. t \in Seq(TreeEntry) /\ Mirrored(t)
  BY EntriesAreTree
<1>2. WalkedSoFar(w, t, {}, n)
  BY <1>1, WalkIsWalked
<1>3. n \in Nat /\ DOMAIN t = 1 .. n /\ \A x \in 1 .. n : t[x] \in TreeEntry
  BY <1>1, LenProperties, ElementOfSeq
<1> HIDE DEF t, w
<1>4. 0 \in T
  OBVIOUS
<1>5. ASSUME NEW m \in Nat, m \in T PROVE m + 1 \in T
  <2> SUFFICES ASSUME m + 1 <= n, ~t[m + 1].dir PROVE Reached(m + 1)
    <3>1. \A x \in 1 .. m + 1 : x = m + 1 \/ x \in 1 .. m
      OBVIOUS
    <3> QED
      BY <1>5, <3>1
  <2> DEFINE x == m + 1
  <2>1. x \in 1 .. n
    BY <1>3
  <2>2. Settled(w, t, {}, x)
    BY <1>2, <2>1 DEF WalkedSoFar
  <2>3. CASE \E j \in 1 .. x : IsStrictPrefix(t[j].path, t[x].path) /\ Passed(w, t[j])
    <3>1. PICK j \in 1 .. x : IsStrictPrefix(t[j].path, t[x].path) /\ Passed(w, t[j])
      BY <2>3
    <3>2. j \in 1 .. n /\ IsPrefix(t[j].path, t[x].path)
      BY <1>3, <2>1, <3>1 DEF IsStrictPrefix
    <3>3. Dealt(w, t, x)
      BY <3>1, <3>2 DEF Dealt, ToldOf
    <3> QED
      BY <2>1, <3>3
  <2>4. CASE \E j \in 1 .. x : IsStrictPrefix(t[j].path, t[x].path) /\ Revisited(t, j)
    <3>1. PICK j \in 1 .. x : IsStrictPrefix(t[j].path, t[x].path) /\ Revisited(t, j)
      BY <2>4
    <3>2. PICK l \in 1 .. x - 1 : ~t[l].dir /\ t[l].real = t[x].real /\ t[l].bytes = t[x].bytes
      <4>1. j \in DOMAIN t /\ x \in DOMAIN t
        BY <1>3, <2>1, <3>1
      <4> QED
        BY <1>1, <3>1, <4>1 DEF Mirrored
    <3>3. l \in 1 .. m /\ l <= n
      BY <1>3, <2>1
    <3>4. Reached(l)
      BY <1>5, <3>2, <3>3
    <3> QED
      BY <3>2, <3>4
  <2>5. CASE Passed(w, t[x]) \/ (Unfit(t[x]) /\ [real |-> t[x].real, category |-> Misfit(t[x])] \in w.skipped)
    <3>1. ToldOf(w, t[x])
      BY <2>5 DEF ToldOf
    <3>2. IsPrefix(t[x].path, t[x].path)
      BY <1>3, <2>1, PrefixOfItself DEF TreeEntry
    <3>3. Dealt(w, t, x)
      BY <2>1, <3>1, <3>2 DEF Dealt
    <3> QED
      BY <2>1, <3>3
  <2>6. CASE t[x] \in w.accepted
    <3>1. Dealt(w, t, x)
      BY <2>6 DEF Dealt
    <3> QED
      BY <2>1, <3>1
  <2> QED
    <3>1. \/ \E j \in 1 .. x : IsStrictPrefix(t[j].path, t[x].path) /\ (Passed(w, t[j]) \/ Revisited(t, j))
          \/ Passed(w, t[x])
          \/ Unfit(t[x]) /\ [real |-> t[x].real, category |-> Misfit(t[x])] \in w.skipped
          \/ t[x] \in w.accepted
      BY <2>2 DEF Settled
    <3> HIDE DEF x, Reached
    <3> QED
      BY <2>3, <2>4, <2>5, <2>6, <3>1
<1>6. n \in T
  <2> HIDE DEF T
  <2> QED
    BY <1>3, <1>4, <1>5, NatSets
<1>7. k \in 1 .. n /\ k <= n /\ ~t[k].dir
  BY <1>3 DEF t
<1>8. Reached(k)
  BY <1>6, <1>7
<1> QED
  BY <1>8 DEF t, w

\* What was scanned is an entry that was accepted, and a path is scanned once.
LEMMA ScannedOnce ==
  ASSUME WsTyped, NEW root \in Roots \cup {External}, NEW names
  PROVE  /\ \A a \in Scanned(root, names) : \E k \in 1 .. Len(Entries(root)) :
              /\ ~Entries(root)[k].dir
              /\ a.path = Entries(root)[k].path /\ a.bytes = Entries(root)[k].bytes /\ a.from = root
         /\ \A a, b \in Scanned(root, names) : a.path = b.path => a = b
<1> DEFINE t == Entries(root)
           w == Walk(root, names)
<1>1. t \in Seq(TreeEntry) /\ OncePerPath(t)
  BY EntriesAreTree
<1>2. WalkedSoFar(w, t, names, Len(t))
  BY <1>1, WalkIsWalked
<1>3. DOMAIN t = 1 .. Len(t)
  BY <1>1, LenProperties
<1>4. \A e \in w.accepted : \E k \in 1 .. Len(t) : e = t[k] /\ ~e.dir
  BY <1>2 DEF WalkedSoFar
<1>5. \A a \in Scanned(root, names) : \E e \in w.accepted : a = [path |-> e.path, bytes |-> e.bytes, from |-> root]
  BY DEF Scanned
<1> HIDE DEF t, w
<1>6. ASSUME NEW a \in Scanned(root, names)
      PROVE  \E k \in 1 .. Len(t) : ~t[k].dir /\ a = [path |-> t[k].path, bytes |-> t[k].bytes, from |-> root]
  BY <1>4, <1>5
<1>7. \A a, b \in Scanned(root, names) : a.path = b.path => a = b
  <2> SUFFICES ASSUME NEW a \in Scanned(root, names), NEW b \in Scanned(root, names), a.path = b.path
               PROVE  a = b
    OBVIOUS
  <2>1. PICK k \in 1 .. Len(t) : a = [path |-> t[k].path, bytes |-> t[k].bytes, from |-> root]
    BY <1>6
  <2>2. PICK l \in 1 .. Len(t) : b = [path |-> t[l].path, bytes |-> t[l].bytes, from |-> root]
    BY <1>6
  <2>3. k = l
    BY <1>1, <1>3, <2>1, <2>2 DEF OncePerPath
  <2> QED
    BY <2>1, <2>2, <2>3
<1> QED
  BY <1>6, <1>7 DEF t

\* An accepted entry is scanned, if its path is one.
LEMMA AcceptedAreScanned ==
  ASSUME NEW root, NEW names, NEW e \in Walk(root, names).accepted, "unnameable" \notin e.marks
  PROVE  [path |-> e.path, bytes |-> e.bytes, from |-> root] \in Scanned(root, names)
BY DEF Scanned

\* The copy an ingest-file is about is scanned, unless a setting leaves it out.
LEMMA CopyIsScanned ==
  ASSUME WsTyped, NEW b \in DOMAIN outside, <<b>> \notin excludes
  PROVE  [path |-> <<b>>, bytes |-> outside[b], from |-> External] \in Scanned(External, {<<b>>})
<1> DEFINE t == Entries(External)
           w == Walk(External, {<<b>>})
           s == SetToSeq(OutsideFiles(<< >>))
<1>1. t = s
  <2>1. External # Primary
    BY PrimaryIsRoot, WsAssumption
  <2> QED
    BY <2>1, Zenon DEF Entries
<1>2. /\ s \in Seq(TreeEntry) /\ OncePerPath(s)
      /\ \A i \in 1 .. Len(s) : \E name \in DOMAIN outside : s[i] = OutsideFile(<< >>, name)
      /\ \A name \in DOMAIN outside : \E i \in 1 .. Len(s) : s[i] = OutsideFile(<< >>, name)
  BY OutsideListed
<1>3. WalkedSoFar(w, t, {<<b>>}, Len(t))
  BY <1>1, <1>2, WalkIsWalked
<1> HIDE DEF t, w, s
<1>4. \A name \in DOMAIN outside :
        OutsideFile(<< >>, name) = [path |-> <<name>>, real |-> <<External, name>>, dir |-> FALSE,
                                    bytes |-> outside[name], marks |-> {}]
  <2>1. \A name : Append(<< >>, name) = <<name>>
    OBVIOUS
  <2> QED
    BY <2>1 DEF OutsideFile
<1>5. PICK k \in 1 .. Len(t) : t[k] = OutsideFile(<< >>, b)
  BY <1>1, <1>2
<1>6. t[k].path = <<b>> /\ t[k].bytes = outside[b] /\ ~t[k].dir /\ t[k].marks = {}
  BY <1>4, <1>5
<1>7. Settled(w, t, {<<b>>}, k)
  BY <1>3 DEF WalkedSoFar
<1>8. \A j \in 1 .. k : ~IsStrictPrefix(t[j].path, t[k].path)
  <2> SUFFICES ASSUME NEW j \in 1 .. k, IsStrictPrefix(t[j].path, t[k].path) PROVE FALSE
    OBVIOUS
  <2>1. Len(t) \in Nat
    BY <1>1, <1>2, LenProperties
  <2>2. j \in 1 .. Len(t)
    BY <2>1
  <2>3. PICK name \in DOMAIN outside : t[j] = OutsideFile(<< >>, name)
    BY <1>1, <1>2, <2>2
  <2>4. t[j].path = <<name>>
    BY <1>4, <2>3
  <2>5. name \in PathWords /\ b \in PathWords
    BY WordsOfItsOwn DEF WsTyped
  <2>6. <<name>> \in Ways /\ <<b>> \in Ways /\ Len(<<name>>) = 1 /\ Len(<<b>>) = 1
    BY <2>5 DEF Ways
  <2>7. Len(<<name>>) < Len(<<b>>)
    BY <1>6, <2>4, <2>6, SamePrefix
  <2> QED
    BY <2>6, <2>7
<1>9. ~Unfit(t[k]) /\ ~Passed(w, t[k])
  BY <1>6 DEF Unfit, Passed, Excluded
<1>10. t[k] \in w.accepted
  BY <1>6, <1>7, <1>8, <1>9 DEF Settled
<1>11. "unnameable" \notin t[k].marks
  BY <1>6
<1> QED
  BY <1>6, <1>10, <1>11, AcceptedAreScanned DEF w

-----------------------------------------------------------------------------
(* Workspace: the invariant *)

CopyAsked == [at : {"prepare", "copy"}, bytes : STRING, stdin : BOOLEAN]

\* What a run may be over: the sources or one root, or the copy of a file given.
RunOver(roots, names) ==
  /\ roots \in Seq(Roots \cup {External})
  /\ names = {} \/ \E b \in DOMAIN outside : names = {<<b>>} /\ roots = <<External>>

SkippedIn(roots, names) == UNION {Walk(r, names).skipped : r \in Range(roots)}

\* An asset of some root has the path.
ScannedAt(roots, names, p) == \E i \in DOMAIN roots : \E a \in Scanned(roots[i], names) : a.path = p

\* The assets of the roots that are not to come are stored, each unless one after it was.
StoredFrom(roots, names, todo) ==
  \A i \in DOMAIN roots : \A a \in Scanned(roots[i], names) \ todo[i] :
    /\ a.path \in DOMAIN stored
    /\ \/ stored[a.path].bytes = a.bytes
       \/ \E j \in DOMAIN roots : j > i /\ \E b \in Scanned(roots[j], names) \ todo[j] : b.path = a.path

\* The run takes the roots in their order; what it has not failed at is done.
SweepFits ==
  /\ DOMAIN command.todo = DOMAIN command.roots
  /\ \A i \in DOMAIN command.roots : command.todo[i] \subseteq Scanned(command.roots[i], command.names)
  /\ \A i, j \in DOMAIN command.roots : i < j =>
       command.todo[i] = {} \/ command.todo[j] = Scanned(command.roots[j], command.names)
  /\ command.skipped = SkippedIn(command.roots, command.names)
  /\ \A p \in command.stale : ~ScannedAt(command.roots, command.names, p)
  /\ ~command.failed =>
       /\ \A p \in DOMAIN stored :
            p \in command.stale \/ OnDisk(Primary, p) \/ ScannedAt(command.roots, command.names, p)
       /\ StoredFrom(command.roots, command.names, command.todo)

CommandFits ==
  \/ command = Idle
  \/ command \in CopyAsked
  \/ command = ScanOf(command.roots, command.names) /\ RunOver(command.roots, command.names)
  \/ /\ command = [at |-> "sweep", roots |-> command.roots, names |-> command.names, todo |-> command.todo,
                   stale |-> command.stale, failed |-> command.failed, skipped |-> command.skipped]
     /\ RunOver(command.roots, command.names) /\ SweepFits

NothingToCome(roots) == [i \in DOMAIN roots |-> {}]

ReportFits ==
  RunFinished =>
    /\ RunOver(reported.roots, reported.names)
    /\ reported.skipped = SkippedIn(reported.roots, reported.names)
    /\ \A p \in DOMAIN stored : OnDisk(Primary, p) \/ ScannedAt(reported.roots, reported.names, p)
    /\ StoredFrom(reported.roots, reported.names, NothingToCome(reported.roots))

WsInv ==
  /\ WsTyped /\ CommandFits /\ ReportFits /\ PrimaryIsKept
  /\ command # Idle => reported = NoReport

\* What is below the roots and how it is walked, while neither changes.
LEMMA ViewStands ==
  UNCHANGED <<below, outside, ignoring, sources, excludes>> =>
    /\ \A root : Entries(root)' = Entries(root)
    /\ \A root, names : Walk(root, names)' = Walk(root, names)
    /\ \A root, names : Scanned(root, names)' = Scanned(root, names)
    /\ Primary' = Primary
    /\ \A root, p : OnDisk(root, p)' = OnDisk(root, p)
    /\ \A roots, names : SkippedIn(roots, names)' = SkippedIn(roots, names)
    /\ \A roots, names, p : ScannedAt(roots, names, p)' = ScannedAt(roots, names, p)
    /\ \A roots, names : RunOver(roots, names)' = RunOver(roots, names)
    /\ WsTyped' = WsTyped
<1> SUFFICES ASSUME UNCHANGED <<below, outside, ignoring, sources, excludes>>
             PROVE  /\ \A root : Entries(root)' = Entries(root)
                    /\ \A root, names : Walk(root, names)' = Walk(root, names)
                    /\ \A root, names : Scanned(root, names)' = Scanned(root, names)
                    /\ Primary' = Primary
                    /\ \A root, p : OnDisk(root, p)' = OnDisk(root, p)
                    /\ \A roots, names : SkippedIn(roots, names)' = SkippedIn(roots, names)
                    /\ \A roots, names, p : ScannedAt(roots, names, p)' = ScannedAt(roots, names, p)
                    /\ \A roots, names : RunOver(roots, names)' = RunOver(roots, names)
                    /\ WsTyped' = WsTyped
  OBVIOUS
<1>1. \A root : Entries(root)' = Entries(root)
  BY DEF Entries, OutsideFiles, OutsideFile, Primary
<1>2. \A root, names : Walk(root, names)' = Walk(root, names)
  BY <1>1 DEF Walk
<1>3. \A root, names : Scanned(root, names)' = Scanned(root, names)
  BY <1>2 DEF Scanned
<1>4. Primary' = Primary
  BY DEF Primary
<1>5. \A root, p : OnDisk(root, p)' = OnDisk(root, p)
  BY <1>1 DEF OnDisk
<1>6. \A roots, names : SkippedIn(roots, names)' = SkippedIn(roots, names)
  BY <1>2 DEF SkippedIn
<1>7. \A roots, names, p : ScannedAt(roots, names, p)' = ScannedAt(roots, names, p)
  BY <1>3 DEF ScannedAt
<1>8. \A roots, names : RunOver(roots, names)' = RunOver(roots, names)
  BY DEF RunOver
<1>9. WsTyped' = WsTyped
  BY DEF WsTyped
<1> QED
  BY <1>1, <1>2, <1>3, <1>4, <1>5, <1>6, <1>7, <1>8, <1>9

\* What is stored of a scan, while neither the files nor the store change.
LEMMA StoredStands ==
  UNCHANGED <<below, outside, ignoring, sources, excludes, stored>> =>
    \A roots, names, todo : StoredFrom(roots, names, todo)' = StoredFrom(roots, names, todo)
<1> SUFFICES ASSUME UNCHANGED <<below, outside, ignoring, sources, excludes, stored>>,
                    NEW roots, NEW names, NEW todo
             PROVE  StoredFrom(roots, names, todo)' = StoredFrom(roots, names, todo)
  OBVIOUS
<1>1. \A root, more : Scanned(root, more)' = Scanned(root, more)
  BY ViewStands
<1> QED
  BY <1>1 DEF StoredFrom

-----------------------------------------------------------------------------
(* Workspace: what the invariant says of a run that is over *)

\* What the walk said of an entry, the report counts or a default or a setting hides.
LEMMA ToldAreCounted ==
  ASSUME NEW roots, NEW i \in DOMAIN roots, NEW d, ToldOf(Walk(roots[i], {}), d),
         reported.skipped = SkippedIn(roots, {})
  PROVE  Counted(d) \/ Hidden(d)
<1> DEFINE w == Walk(roots[i], {})
<1>1. w.skipped \subseteq reported.skipped
  <2>1. roots[i] \in Range(roots)
    BY DEF Range
  <2> QED
    BY <2>1 DEF SkippedIn
<1> HIDE DEF w
<1>2. CASE Passed(w, d)
  <2>1. Excluded(d, excludes) /\ [real |-> d.real, category |-> Category(d)] \in reported.skipped
    BY <1>1, <1>2 DEF Passed
  <2>2. CASE Category(d) = "other"
    <3>1. "builtin" \notin d.marks /\ "gitignore" \notin d.marks /\ "kebabignore" \notin d.marks
      BY <2>2 DEF Category
    <3> QED
      BY <2>1, <3>1 DEF Hidden, Excluded
  <2>3. CASE Category(d) # "other"
    BY <2>1, <2>3 DEF Counted
  <2> QED
    BY <2>2, <2>3
<1>3. CASE Unfit(d) /\ [real |-> d.real, category |-> Misfit(d)] \in w.skipped
  <2>1. Misfit(d) # "other"
    BY DEF Misfit
  <2>2. [real |-> d.real, category |-> Misfit(d)] \in reported.skipped
    BY <1>1, <1>3
  <2> QED
    BY <2>1, <2>2 DEF Counted
<1> QED
  BY <1>2, <1>3 DEF ToldOf, w

\* Where the last root with a path is the same as this one, it is stored from there.
LEMMA LastIsStored ==
  ASSUME WsInv, RunFinished, NEW i \in DOMAIN reported.roots,
         NEW a \in Scanned(reported.roots[i], reported.names)
  PROVE  /\ a.path \in DOMAIN stored
         /\ stored[a.path].bytes = a.bytes \/ LastAt(a.path) # reported.roots[i]
<1> DEFINE roots == reported.roots
           names == reported.names
           root == roots[i]
           p == a.path
           n == Len(roots)
           has == {j \in 1 .. n : \E b \in Scanned(roots[j], names) : b.path = p}
<1>1. roots \in Seq(Roots \cup {External}) /\ n \in Nat /\ DOMAIN roots = 1 .. n
  BY LenProperties DEF WsInv, ReportFits, RunOver
<1>2. StoredFrom(roots, names, NothingToCome(roots))
  BY DEF WsInv, ReportFits
<1> HIDE DEF roots, names
<1>3. \A j \in DOMAIN roots : Scanned(roots[j], names) \ NothingToCome(roots)[j] = Scanned(roots[j], names)
  BY DEF NothingToCome
<1>4. \A j \in DOMAIN roots : \A b \in Scanned(roots[j], names) :
        /\ b.path \in DOMAIN stored
        /\ \/ stored[b.path].bytes = b.bytes
           \/ \E k \in DOMAIN roots : k > j /\ \E c \in Scanned(roots[k], names) : c.path = b.path
  BY <1>2, <1>3 DEF StoredFrom
<1>5. i \in DOMAIN roots /\ a \in Scanned(roots[i], names)
  BY DEF roots, names
<1>6. has \in SUBSET (1 .. n) /\ i \in has
  BY <1>1, <1>5
<1>7. \E j \in has : \A k \in has : k <= j
  <2> HIDE DEF has
  <2> QED
    BY <1>1, <1>6, LastOfSome
<1> DEFINE m == CHOOSE j \in has : \A k \in has : k <= j
<1>8. m \in has /\ \A k \in has : k <= m
  BY <1>7
<1>9. LastAt(p) = roots[m]
  BY DEF LastAt, roots, names
<1> HIDE DEF m
<1> SUFFICES ASSUME roots[m] = roots[i] PROVE stored[p].bytes = a.bytes
  BY <1>4, <1>5, <1>9 DEF roots
<1>10. m \in DOMAIN roots /\ a \in Scanned(roots[m], names)
  BY <1>1, <1>5, <1>8
<1>11. ~\E k \in DOMAIN roots : k > m /\ \E c \in Scanned(roots[k], names) : c.path = p
  BY <1>1, <1>8
<1> QED
  BY <1>4, <1>10, <1>11

\* A run that finished accounts for every file, by one of the ways it is reached.
LEMMA FilesAreFound == WsInv => FilesAreAccountedFor
<1> SUFFICES ASSUME WsInv, RunFinished, reported.names = {}, NEW i \in DOMAIN reported.roots,
                    NEW e \in Range(Entries(reported.roots[i])), ~e.dir
             PROVE  \E f \in Range(Entries(reported.roots[i])) :
                      /\ f.real = e.real
                      /\ \/ "unnameable" \in f.marks
                         \/ \E d \in Range(Entries(reported.roots[i])) :
                              IsPrefix(d.path, f.path) /\ (Counted(d) \/ Hidden(d))
                         \/ /\ f.path \in DOMAIN stored
                            /\ stored[f.path].bytes = e.bytes \/ LastAt(f.path) # reported.roots[i]
  BY DEF FilesAreAccountedFor
<1> DEFINE roots == reported.roots
           root == roots[i]
           t == Entries(root)
           w == Walk(root, {})
<1>1. roots \in Seq(Roots \cup {External}) /\ reported.skipped = SkippedIn(roots, {}) /\ WsTyped
  BY DEF WsInv, ReportFits, RunOver
<1>2. root \in Roots \cup {External}
  <2>1. DOMAIN roots = 1 .. Len(roots)
    BY <1>1, LenProperties
  <2> QED
    BY <1>1, <2>1, ElementOfSeq
<1> HIDE DEF root
<1>3. t \in Seq(TreeEntry) /\ DOMAIN t = 1 .. Len(t)
  BY <1>1, <1>2, EntriesAreTree, LenProperties
<1>4. PICK k \in 1 .. Len(t) : t[k] = e
  BY <1>3 DEF Range, root
<1>5. PICK l \in 1 .. Len(t) : ~t[l].dir /\ t[l].real = e.real /\ t[l].bytes = e.bytes /\ Dealt(w, t, l)
  <2>1. ~Entries(root)[k].dir
    BY <1>4
  <2> QED
    BY <1>1, <1>2, <1>4, <2>1, FilesAreDealtWith
<1> DEFINE f == t[l]
<1>6. \A x \in 1 .. Len(t) : t[x] \in Range(t)
  BY <1>3 DEF Range
<1>7. CASE \E d \in 1 .. Len(t) : IsPrefix(t[d].path, f.path) /\ ToldOf(w, t[d])
  <2>1. PICK d \in 1 .. Len(t) : IsPrefix(t[d].path, f.path) /\ ToldOf(w, t[d])
    BY <1>7
  <2>2. Counted(t[d]) \/ Hidden(t[d])
    BY <1>1, <2>1, ToldAreCounted DEF root
  <2> QED
    BY <1>5, <1>6, <2>1, <2>2 DEF root
<1>8. CASE f \in w.accepted /\ "unnameable" \notin f.marks
  <2>1. [path |-> f.path, bytes |-> f.bytes, from |-> root] \in Scanned(root, {})
    BY <1>8, AcceptedAreScanned
  <2>2. f.path \in DOMAIN stored /\ (stored[f.path].bytes = f.bytes \/ LastAt(f.path) # root)
    BY <2>1, LastIsStored DEF root
  <2> QED
    BY <1>5, <1>6, <2>2 DEF root
<1>9. CASE "unnameable" \in f.marks
  BY <1>5, <1>6, <1>9 DEF root
<1> QED
  BY <1>5, <1>7, <1>8, <1>9 DEF Dealt

\* It leaves no document of a file that is gone.
LEMMA RestIsGone == WsInv => NothingIsLeftOver
BY DEF WsInv, ReportFits, NothingIsLeftOver, ScannedAt

\* A file given to ingest-file is stored as it was given.
LEMMA GivenAreFound == WsInv => GivenFilesAreStored
<1> SUFFICES ASSUME WsInv, RunFinished, NEW name \in reported.names, name \notin excludes
             PROVE  name \in DOMAIN stored /\ stored[name].bytes = outside[name[1]]
  BY DEF GivenFilesAreStored
<1>1. RunOver(reported.roots, reported.names)
  BY DEF WsInv, ReportFits
<1>2. PICK b \in DOMAIN outside : reported.names = {<<b>>} /\ reported.roots = <<External>>
  BY <1>1 DEF RunOver
<1>3. name = <<b>> /\ name[1] = b
  BY <1>2
<1> DEFINE a == [path |-> <<b>>, bytes |-> outside[b], from |-> External]
<1>4. a \in Scanned(External, {<<b>>})
  BY <1>3, CopyIsScanned DEF WsInv
<1>5. DOMAIN <<External>> = {1} /\ <<External>>[1] = External
  OBVIOUS
<1>6. 1 \in DOMAIN reported.roots /\ reported.roots[1] = External /\ a \in Scanned(reported.roots[1], reported.names)
  BY <1>2, <1>4, <1>5
<1>7. StoredFrom(reported.roots, reported.names, NothingToCome(reported.roots))
  BY DEF WsInv, ReportFits
<1>8. NothingToCome(reported.roots)[1] = {}
  BY <1>6 DEF NothingToCome
<1>9. /\ a.path \in DOMAIN stored
      /\ \/ stored[a.path].bytes = a.bytes
         \/ \E j \in DOMAIN reported.roots : j > 1
  BY <1>6, <1>7, <1>8 DEF StoredFrom
<1>10. ~\E j \in DOMAIN reported.roots : j > 1
  BY <1>2, <1>5
<1> QED
  BY <1>3, <1>9, <1>10

\* The four parts of the property.
LEMMA IndexFollows == WsInv => IndexFollowsTheTree
BY FilesAreFound, RestIsGone, GivenAreFound DEF WsInv, IndexFollowsTheTree

-----------------------------------------------------------------------------
(* Workspace: the invariant is kept *)

\* With no report there is nothing to fit.
LEMMA NothingReported == reported' = NoReport => ReportFits'
BY DEF ReportFits, RunFinished, NoReport

\* At first nothing is stored, under way or reported.
LEMMA WsBegins == WsInit => WsInv
<1> SUFFICES ASSUME WsInit PROVE WsInv
  OBVIOUS
<1>1. DOMAIN outside = {}
  BY DEF WsInit
<1>2. WsTyped
  BY <1>1, FS_EmptySet DEF WsInit, WsTyped
<1>3. CommandFits /\ PrimaryIsKept
  BY DEF WsInit, CommandFits, PrimaryIsKept
<1>4. ReportFits
  BY DEF WsInit, ReportFits, RunFinished, NoReport
<1> QED
  BY <1>2, <1>3, <1>4 DEF WsInv, WsInit

\* Which command it is, by where it is.
LEMMA ByWhereItIs ==
  ASSUME WsInv
  PROVE  /\ command.at = "idle" => command = Idle
         /\ command.at \in {"prepare", "copy"} => command \in CopyAsked
         /\ command.at = "scan" => /\ command = ScanOf(command.roots, command.names)
                                   /\ RunOver(command.roots, command.names)
         /\ command.at = "sweep" =>
              /\ command = [at |-> "sweep", roots |-> command.roots, names |-> command.names,
                            todo |-> command.todo, stale |-> command.stale, failed |-> command.failed,
                            skipped |-> command.skipped]
              /\ RunOver(command.roots, command.names) /\ SweepFits
         /\ command.at # "idle" => command # Idle /\ reported = NoReport
<1>1. command = Idle => command.at = "idle"
  BY DEF Idle
<1>2. command \in CopyAsked => command.at \in {"prepare", "copy"}
  BY DEF CopyAsked
<1>3. command = ScanOf(command.roots, command.names) => command.at = "scan"
  BY DEF ScanOf
<1>4. command = [at |-> "sweep", roots |-> command.roots, names |-> command.names,
                 todo |-> command.todo, stale |-> command.stale, failed |-> command.failed,
                 skipped |-> command.skipped] => command.at = "sweep"
  OBVIOUS
<1> QED
  BY <1>1, <1>2, <1>3, <1>4, Zenon DEF WsInv, CommandFits

\* A command that starts takes back the report of the one before.
LEMMA Started ==
  ASSUME WsInv, NEW next, Start(next),
         next \in CopyAsked \/ (next = ScanOf(next.roots, next.names) /\ RunOver(next.roots, next.names))
  PROVE  WsInv'
<1>1. /\ command' = next /\ reported' = NoReport /\ lost' = lost
      /\ UNCHANGED <<below, outside, ignoring, sources, excludes>>
  BY DEF Start
<1>2. WsTyped' /\ PrimaryIsKept'
  BY <1>1, ViewStands DEF WsInv, PrimaryIsKept
<1>3. RunOver(next.roots, next.names)' = RunOver(next.roots, next.names)
  BY <1>1, ViewStands DEF RunOver
<1>4. CommandFits'
  BY <1>1, <1>3 DEF CommandFits
<1> QED
  BY <1>1, <1>2, <1>4, NothingReported DEF WsInv

\* The four commands of the user.
LEMMA CommandsStart ==
  ASSUME WsInv,
         \/ IngestAll
         \/ \E root \in Roots : IngestRoot(root)
         \/ \E argument \in Arguments : IngestFile(argument)
         \/ \E body \in StdinBodies : IngestStdin(body)
  PROVE  WsInv'
<1> DEFINE Whole(roots) == ScanOf(roots, {})
<1>1. \A roots : Whole(roots).roots = roots /\ Whole(roots).names = {}
  BY DEF ScanOf
<1>2. ASSUME NEW roots \in Seq(Roots), Start(Whole(roots)) PROVE WsInv'
  <2>1. roots \in Seq(Roots \cup {External})
    OBVIOUS
  <2>2. RunOver(roots, {})
    BY <2>1 DEF RunOver
  <2> HIDE DEF Whole
  <2>3. RunOver(Whole(roots).roots, Whole(roots).names)
    BY <1>1, <2>2
  <2>4. Whole(roots) = ScanOf(Whole(roots).roots, Whole(roots).names)
    BY <1>1, Zenon DEF Whole
  <2> QED
    BY <1>2, <2>3, <2>4, Started
<1>3. ASSUME NEW next \in CopyAsked, Start(next) PROVE WsInv'
  BY <1>3, Started
<1>4. CASE IngestAll
  <2>1. sources \in Seq(Roots)
    BY WsAssumption DEF WsInv, WsTyped
  <2> QED
    BY <1>2, <1>4, <2>1 DEF IngestAll
<1>5. CASE \E root \in Roots : IngestRoot(root)
  <2>1. PICK root \in Roots : IngestRoot(root)
    BY <1>5
  <2>2. <<root>> \in Seq(Roots)
    OBVIOUS
  <2> QED
    BY <1>2, <2>1, <2>2 DEF IngestRoot
<1>6. CASE \E argument \in Arguments : IngestFile(argument)
  <2>1. PICK argument \in Arguments : IngestFile(argument)
    BY <1>6
  <2>2. argument.bytes \in STRING
    BY WsAssumption
  <2>3. [at |-> "prepare", bytes |-> argument.bytes, stdin |-> FALSE] \in CopyAsked
    BY <2>2 DEF CopyAsked
  <2> QED
    BY <1>3, <2>1, <2>3 DEF IngestFile
<1>7. CASE \E body \in StdinBodies : IngestStdin(body)
  <2>1. PICK body \in StdinBodies : IngestStdin(body)
    BY <1>7
  <2>2. body.wrapped \in STRING
    BY WsAssumption
  <2>3. [at |-> "prepare", bytes |-> body.wrapped, stdin |-> TRUE] \in CopyAsked
    BY <2>2 DEF CopyAsked
  <2> QED
    BY <1>3, <2>1, <2>3 DEF IngestStdin
<1> QED
  BY <1>4, <1>5, <1>6, <1>7

\* The ignore file gets its line.
LEMMA ExternalIsPrepared == WsInv /\ PrepareExternal => WsInv'
<1> SUFFICES ASSUME WsInv, PrepareExternal PROVE WsInv'
  OBVIOUS
<1>1. command \in CopyAsked /\ reported = NoReport
  BY ByWhereItIs DEF PrepareExternal
<1>2. command' \in CopyAsked
  BY <1>1 DEF PrepareExternal, CopyAsked
<1>3. UNCHANGED <<below, outside, sources, lost, reported>>
  BY DEF PrepareExternal
<1>4. WsTyped'
  BY <1>3 DEF WsInv, WsTyped
<1>5. PrimaryIsKept'
  BY <1>3 DEF WsInv, PrimaryIsKept, Primary
<1>6. CommandFits'
  BY <1>2 DEF CommandFits
<1> QED
  BY <1>1, <1>3, <1>4, <1>5, <1>6, NothingReported DEF WsInv

\* One more file in _external.
LEMMA OneMoreOutside ==
  ASSUME WsTyped, NEW name \in STRING, NEW bytes \in STRING,
         outside' = Overlaid(outside, Single(name, bytes)), UNCHANGED <<below, sources>>
  PROVE  WsTyped' /\ name \in DOMAIN outside' /\ outside'[name] \in STRING
<1>1. /\ DOMAIN outside' = DOMAIN outside \cup {name}
      /\ \A x \in DOMAIN outside' : outside'[x] = IF x \in DOMAIN outside THEN outside[x] ELSE bytes
      /\ outside' = [x \in DOMAIN outside' |-> outside'[x]]
  BY DEF Overlaid, Single
<1>2. IsFiniteSet(DOMAIN outside') /\ DOMAIN outside' \subseteq STRING
  BY <1>1, FS_AddElement DEF WsTyped
<1>3. \A x \in DOMAIN outside' : outside'[x] \in STRING
  BY <1>1 DEF WsTyped
<1>4. outside' \in [DOMAIN outside' -> STRING]
  BY <1>1, <1>3
<1> QED
  BY <1>1, <1>2, <1>3, <1>4 DEF WsTyped

\* The copy is there before it is scanned.
LEMMA ExternalIsCopied == WsInv /\ CopyToExternal => WsInv'
<1> SUFFICES ASSUME WsInv, CopyToExternal PROVE WsInv'
  OBVIOUS
<1> DEFINE b == command.bytes
<1>1. command \in CopyAsked /\ reported = NoReport
  BY ByWhereItIs DEF CopyToExternal
<1>2. b \in STRING
  BY <1>1 DEF CopyAsked
<1>3. /\ outside' = Overlaid(outside, Single(b, b)) /\ UNCHANGED <<below, sources, lost, reported>>
      /\ command' = IF command.stdin THEN [at |-> "prepare", bytes |-> outside'[b], stdin |-> FALSE]
                    ELSE ScanOf(<<External>>, {<<b>>})
  BY DEF CopyToExternal
<1>4. WsTyped' /\ b \in DOMAIN outside' /\ outside'[b] \in STRING
  BY <1>2, <1>3, OneMoreOutside DEF WsInv
<1> HIDE DEF b
<1>5. PrimaryIsKept'
  BY <1>3 DEF WsInv, PrimaryIsKept, Primary
<1>6. CommandFits'
  <2>1. CASE command.stdin
    <3>1. command' \in CopyAsked
      BY <1>3, <1>4, <2>1 DEF CopyAsked
    <3> QED
      BY <3>1 DEF CommandFits
  <2>2. CASE ~command.stdin
    <3>1. command' = ScanOf(<<External>>, {<<b>>})
      BY <1>3, <2>2
    <3>2. command'.roots = <<External>> /\ command'.names = {<<b>>}
      BY <3>1 DEF ScanOf
    <3>3. <<External>> \in Seq(Roots \cup {External})
      OBVIOUS
    <3>4. RunOver(command.roots, command.names)'
      BY <1>4, <3>2, <3>3 DEF RunOver
    <3> QED
      BY <3>1, <3>2, <3>4 DEF CommandFits
  <2> QED
    BY <2>1, <2>2
<1> QED
  BY <1>1, <1>3, <1>4, <1>5, <1>6, NothingReported DEF WsInv

-----------------------------------------------------------------------------
\* A run that is so far is one the invariant is about.
LEMMA SweepGoesOn ==
  ASSUME UNCHANGED <<below, outside, ignoring, sources, excludes>>, WsTyped,
         NEW roots, NEW names, NEW todo, NEW stale, NEW failed, NEW skipped,
         command' = [at |-> "sweep", roots |-> roots, names |-> names, todo |-> todo, stale |-> stale,
                     failed |-> failed, skipped |-> skipped],
         reported' = NoReport, Primary \notin lost', RunOver(roots, names),
         DOMAIN todo = DOMAIN roots,
         \A i \in DOMAIN roots : todo[i] \subseteq Scanned(roots[i], names),
         \A i, j \in DOMAIN roots : i < j => todo[i] = {} \/ todo[j] = Scanned(roots[j], names),
         skipped = SkippedIn(roots, names),
         \A p \in stale : ~ScannedAt(roots, names, p),
         ~failed => /\ \A p \in DOMAIN stored' : p \in stale \/ OnDisk(Primary, p) \/ ScannedAt(roots, names, p)
                    /\ StoredFrom(roots, names, todo)'
  PROVE  WsInv'
<1>1. /\ command'.roots = roots /\ command'.names = names /\ command'.todo = todo
      /\ command'.stale = stale /\ command'.failed = failed /\ command'.skipped = skipped
      /\ command' = [at |-> "sweep", roots |-> command'.roots, names |-> command'.names, todo |-> command'.todo,
                     stale |-> command'.stale, failed |-> command'.failed, skipped |-> command'.skipped]
  OBVIOUS
<1>2. WsTyped' /\ Primary' = Primary
  BY ViewStands
<1>3. RunOver(command.roots, command.names)'
  BY <1>1, ViewStands
<1>4. SweepFits'
  <2>1. \A root : Scanned(root, names)' = Scanned(root, names)
    BY ViewStands
  <2>2. \A p : OnDisk(Primary, p)' = OnDisk(Primary, p) /\ ScannedAt(roots, names, p)' = ScannedAt(roots, names, p)
    BY <1>2, ViewStands
  <2>3. SkippedIn(roots, names)' = SkippedIn(roots, names)
    BY ViewStands
  <2> QED
    BY <1>1, <2>1, <2>2, <2>3 DEF SweepFits
<1>5. CommandFits'
  BY <1>1, <1>3, <1>4 DEF CommandFits
<1>6. PrimaryIsKept'
  BY <1>2 DEF PrimaryIsKept
<1> QED
  BY <1>2, <1>5, <1>6, NothingReported DEF WsInv

\* A candidate of the sweep was not scanned; nothing that was scanned is done.
LEMMA RootsAreScanned == WsInv /\ Scan => WsInv'
<1> SUFFICES ASSUME WsInv, Scan PROVE WsInv'
  OBVIOUS
<1>1. PICK roots, names : roots = command.roots /\ names = command.names
  OBVIOUS
<1>2. PICK todo : todo = [i \in DOMAIN roots |-> Scanned(roots[i], names)]
  OBVIOUS
<1>3. PICK stale, skipped : /\ stale = DOMAIN stored \ {a.path : a \in UNION Range(todo)}
                            /\ skipped = SkippedIn(roots, names)
  OBVIOUS
<1>4. RunOver(roots, names) /\ reported = NoReport
  BY <1>1, ByWhereItIs DEF Scan
<1>5. /\ command' = [at |-> "sweep", roots |-> roots, names |-> names, todo |-> todo,
                     stale |-> stale, failed |-> FALSE, skipped |-> skipped]
      /\ UNCHANGED <<below, outside, ignoring, sources, excludes, stored, lost, reported>>
  BY <1>1, <1>2, <1>3 DEF Scan, SkippedIn
<1>6. DOMAIN todo = DOMAIN roots /\ \A i \in DOMAIN roots : todo[i] = Scanned(roots[i], names)
  BY <1>2
<1>7. \A p : ScannedAt(roots, names, p) <=> p \in {a.path : a \in UNION Range(todo)}
  <2>1. \A a : a \in UNION Range(todo) <=> \E i \in DOMAIN roots : a \in Scanned(roots[i], names)
    BY <1>6 DEF Range
  <2> QED
    BY <2>1 DEF ScannedAt
<1>8. \A p \in stale : ~ScannedAt(roots, names, p)
  BY <1>3, <1>7
<1>9. \A p \in DOMAIN stored' : p \in stale \/ ScannedAt(roots, names, p)
  BY <1>3, <1>5, <1>7
<1>10. StoredFrom(roots, names, todo)'
  <2>1. \A root : Scanned(root, names)' = Scanned(root, names)
    BY <1>5, ViewStands
  <2>2. \A i \in DOMAIN roots : Scanned(roots[i], names) \ todo[i] = {}
    BY <1>6
  <2> QED
    BY <2>1, <2>2 DEF StoredFrom
<1>11. WsTyped /\ Primary \notin lost'
  BY <1>5 DEF WsInv, PrimaryIsKept
<1> QED
  BY <1>3, <1>4, <1>5, <1>6, <1>8, <1>9, <1>10, <1>11, SweepGoesOn

\* What is not at a path that is purged stays.
LEMMA PathIsSwept == WsInv /\ (\E path \in command.stale : SweepPath(path)) => WsInv'
<1> SUFFICES ASSUME WsInv, NEW path \in command.stale, SweepPath(path) PROVE WsInv'
  OBVIOUS
<1>0. PICK roots, names, todo, stale :
        roots = command.roots /\ names = command.names /\ todo = command.todo /\ stale = command.stale \ {path}
  OBVIOUS
<1>1. /\ command = [at |-> "sweep", roots |-> roots, names |-> names, todo |-> todo,
                    stale |-> command.stale, failed |-> command.failed, skipped |-> command.skipped]
      /\ RunOver(roots, names) /\ SweepFits /\ reported = NoReport /\ WsTyped /\ Primary \notin lost
  BY <1>0, ByWhereItIs DEF SweepPath, WsInv, PrimaryIsKept
<1>2. UNCHANGED <<below, outside, ignoring, sources, excludes, reported>>
  BY DEF SweepPath
<1>3. command' = [at |-> "sweep", roots |-> roots, names |-> names, todo |-> todo,
                  stale |-> stale, failed |-> command.failed, skipped |-> command.skipped]
  <2>1. command' = [command EXCEPT !.stale = @ \ {path}]
    BY DEF SweepPath
  <2> QED
    BY <1>0, <1>1, <2>1
<1>4. \/ OnDisk(Primary, path) /\ UNCHANGED <<stored, lost>>
      \/ /\ ~OnDisk(Primary, path)
         /\ DOMAIN stored' = DOMAIN stored \ {path}
         /\ \A p \in DOMAIN stored' : stored'[p] = stored[p]
         /\ lost' = lost \/ (OnDisk(stored[path].from, path) /\ lost' = lost \cup {stored[path].from})
  BY DEF SweepPath, StillThere, Restrict
<1>5. Primary \notin lost'
  BY <1>1, <1>4
<1>6. ~ScannedAt(roots, names, path)
  BY <1>0, <1>1 DEF SweepFits
<1>7. ASSUME ~command.failed
      PROVE  /\ \A p \in DOMAIN stored' : p \in stale \/ OnDisk(Primary, p) \/ ScannedAt(roots, names, p)
             /\ StoredFrom(roots, names, todo)'
  <2>1. \A p \in DOMAIN stored : p \in command.stale \/ OnDisk(Primary, p) \/ ScannedAt(roots, names, p)
    BY <1>0, <1>1, <1>7 DEF SweepFits
  <2>2. StoredFrom(roots, names, todo)
    BY <1>0, <1>1, <1>7 DEF SweepFits
  <2>3. \A p \in DOMAIN stored : p # path => p \in DOMAIN stored' /\ stored'[p] = stored[p]
    BY <1>4
  <2>4. \A p \in DOMAIN stored' : p \in stale \/ OnDisk(Primary, p) \/ ScannedAt(roots, names, p)
    BY <1>0, <1>4, <2>1
  <2>5. \A root : Scanned(root, names)' = Scanned(root, names)
    BY <1>2, ViewStands
  <2>6. \A i \in DOMAIN roots : \A a \in Scanned(roots[i], names) : a.path # path
    BY <1>6 DEF ScannedAt
  <2>7. StoredFrom(roots, names, todo)'
    BY <2>2, <2>3, <2>5, <2>6 DEF StoredFrom
  <2> QED
    BY <2>4, <2>7
<1>8. /\ DOMAIN todo = DOMAIN roots
      /\ \A i \in DOMAIN roots : todo[i] \subseteq Scanned(roots[i], names)
      /\ \A i, j \in DOMAIN roots : i < j => todo[i] = {} \/ todo[j] = Scanned(roots[j], names)
      /\ command.skipped = SkippedIn(roots, names)
      /\ \A p \in stale : ~ScannedAt(roots, names, p)
  BY <1>0, <1>1 DEF SweepFits
<1> QED
  BY <1>1, <1>2, <1>3, <1>5, <1>7, <1>8, SweepGoesOn

\* One asset of a root is done.
LEMMA OneDone ==
  ASSUME WsInv, command.at = "sweep", NEW i \in DOMAIN command.todo, NEW asset, Due(i, asset)
  PROVE  /\ DOMAIN Done(i, asset) = DOMAIN command.roots
         /\ i \in DOMAIN command.roots /\ asset \in command.todo[i]
         /\ \A j \in DOMAIN command.roots :
              Done(i, asset)[j] = IF j = i THEN command.todo[i] \ {asset} ELSE command.todo[j]
         /\ \A j \in DOMAIN command.roots : Done(i, asset)[j] \subseteq Scanned(command.roots[j], command.names)
         /\ \A k, j \in DOMAIN command.roots :
              k < j => Done(i, asset)[k] = {} \/ Done(i, asset)[j] = Scanned(command.roots[j], command.names)
<1> DEFINE roots == command.roots
           names == command.names
           todo == command.todo
           done == Done(i, asset)
<1>1. SweepFits /\ RunOver(roots, names)
  BY ByWhereItIs
<1>2. /\ DOMAIN todo = DOMAIN roots
      /\ \A j \in DOMAIN roots : todo[j] \subseteq Scanned(roots[j], names)
      /\ \A k, j \in DOMAIN roots : k < j => todo[k] = {} \/ todo[j] = Scanned(roots[j], names)
  BY <1>1 DEF SweepFits
<1>3. asset \in todo[i] /\ \A j \in 1 .. i - 1 : todo[j] = {}
  BY DEF Due
<1>4. DOMAIN roots = 1 .. Len(roots) /\ Len(roots) \in Nat
  BY <1>1, LenProperties DEF RunOver
<1> HIDE DEF roots, names, todo
<1>5. /\ DOMAIN done = DOMAIN todo
      /\ \A j \in DOMAIN todo : done[j] = IF j = i THEN todo[i] \ {asset} ELSE todo[j]
  BY DEF Done, todo
<1> HIDE DEF done
<1>6. i \in DOMAIN roots
  BY <1>2 DEF todo
<1>7. \A j \in DOMAIN roots : done[j] \subseteq Scanned(roots[j], names)
  BY <1>2, <1>5
<1>8. ASSUME NEW k \in DOMAIN roots, NEW j \in DOMAIN roots, k < j
      PROVE  done[k] = {} \/ done[j] = Scanned(roots[j], names)
  <2>1. CASE j = i
    <3>1. k \in 1 .. i - 1 /\ k # i
      BY <1>4, <1>8, <2>1
    <3> QED
      BY <1>2, <1>3, <1>5, <3>1
  <2>2. CASE j # i
    <3>1. todo[k] = {} \/ todo[j] = Scanned(roots[j], names)
      BY <1>2, <1>8
    <3> QED
      BY <1>2, <1>5, <2>2, <3>1
  <2> QED
    BY <2>1, <2>2
<1> QED
  BY <1>2, <1>3, <1>5, <1>6, <1>7, <1>8 DEF roots, names, todo, done

-----------------------------------------------------------------------------
\* What a later root has at a path is stored over what an earlier one has.
LEMMA AssetIsIndexed ==
  WsInv /\ (\E i \in DOMAIN command.todo : \E asset \in command.todo[i] : IndexAsset(i, asset)) => WsInv'
<1> SUFFICES ASSUME WsInv, NEW i \in DOMAIN command.todo, NEW asset \in command.todo[i],
                    IndexAsset(i, asset)
             PROVE  WsInv'
  OBVIOUS
<1>1. PICK roots, names, todo, done, p :
        /\ roots = command.roots /\ names = command.names /\ todo = command.todo
        /\ done = Done(i, asset) /\ p = asset.path
  OBVIOUS
<1>2. /\ command = [at |-> "sweep", roots |-> roots, names |-> names, todo |-> todo,
                    stale |-> command.stale, failed |-> command.failed, skipped |-> command.skipped]
      /\ RunOver(roots, names) /\ SweepFits /\ reported = NoReport /\ WsTyped /\ Primary \notin lost
  BY <1>1, ByWhereItIs DEF IndexAsset, Due, WsInv, PrimaryIsKept
<1>3. UNCHANGED <<below, outside, ignoring, sources, excludes, reported, lost>>
  BY DEF IndexAsset
<1>4. command' = [at |-> "sweep", roots |-> roots, names |-> names, todo |-> done,
                  stale |-> command.stale, failed |-> command.failed, skipped |-> command.skipped]
  <2>1. command' = [command EXCEPT !.todo = Done(i, asset)]
    BY DEF IndexAsset
  <2> QED
    BY <1>1, <1>2, <2>1
<1>5. /\ DOMAIN stored' = DOMAIN stored \cup {p} /\ stored'[p].bytes = asset.bytes
      /\ \A q \in DOMAIN stored : q # p => stored'[q] = stored[q]
  BY <1>1 DEF IndexAsset, Overlaid, Single
<1>6. /\ DOMAIN done = DOMAIN roots /\ i \in DOMAIN roots /\ asset \in todo[i]
      /\ \A j \in DOMAIN roots : done[j] = IF j = i THEN todo[i] \ {asset} ELSE todo[j]
      /\ \A j \in DOMAIN roots : done[j] \subseteq Scanned(roots[j], names)
      /\ \A k, j \in DOMAIN roots : k < j => done[k] = {} \/ done[j] = Scanned(roots[j], names)
  <2>1. command.at = "sweep" /\ Due(i, asset)
    BY DEF IndexAsset, Due
  <2>2. /\ DOMAIN Done(i, asset) = DOMAIN command.roots
        /\ i \in DOMAIN command.roots /\ asset \in command.todo[i]
        /\ \A j \in DOMAIN command.roots :
             Done(i, asset)[j] = IF j = i THEN command.todo[i] \ {asset} ELSE command.todo[j]
        /\ \A j \in DOMAIN command.roots : Done(i, asset)[j] \subseteq Scanned(command.roots[j], command.names)
        /\ \A k, j \in DOMAIN command.roots :
             k < j => Done(i, asset)[k] = {} \/ Done(i, asset)[j] = Scanned(command.roots[j], command.names)
    BY <2>1, OneDone
  <2> QED
    BY <1>1, <2>2
<1>7. /\ \A j \in DOMAIN roots : todo[j] \subseteq Scanned(roots[j], names)
      /\ \A k, j \in DOMAIN roots : k < j => todo[k] = {} \/ todo[j] = Scanned(roots[j], names)
      /\ command.skipped = SkippedIn(roots, names)
      /\ \A q \in command.stale : ~ScannedAt(roots, names, q)
  BY <1>1, <1>2 DEF SweepFits
<1>8. asset \in Scanned(roots[i], names)
  BY <1>6, <1>7
<1>9. \A j \in DOMAIN roots : roots[j] \in Roots \cup {External}
  <2>1. roots \in Seq(Roots \cup {External}) /\ DOMAIN roots = 1 .. Len(roots)
    BY <1>2, LenProperties DEF RunOver
  <2> QED
    BY <2>1, ElementOfSeq
<1>10. ASSUME ~command.failed
       PROVE  /\ \A q \in DOMAIN stored' : q \in command.stale \/ OnDisk(Primary, q) \/ ScannedAt(roots, names, q)
              /\ StoredFrom(roots, names, done)'
  <2>1. \A q \in DOMAIN stored : q \in command.stale \/ OnDisk(Primary, q) \/ ScannedAt(roots, names, q)
    BY <1>1, <1>2, <1>10 DEF SweepFits
  <2>2. ScannedAt(roots, names, p)
    BY <1>1, <1>6, <1>8 DEF ScannedAt
  <2>3. StoredFrom(roots, names, todo)
    BY <1>1, <1>2, <1>10 DEF SweepFits
  <2>4. \A root : Scanned(root, names)' = Scanned(root, names)
    BY <1>3, ViewStands
  <2>5. ASSUME NEW k \in DOMAIN roots, NEW a \in Scanned(roots[k], names), a \notin done[k]
        PROVE  /\ a.path \in DOMAIN stored'
               /\ \/ stored'[a.path].bytes = a.bytes
                  \/ \E j \in DOMAIN roots : j > k /\ \E b \in Scanned(roots[j], names) \ done[j] : b.path = a.path
    <3>1. CASE a.path # p
      <4>1. a \notin todo[k]
        BY <1>1, <1>6, <2>5, <3>1
      <4>2. /\ a.path \in DOMAIN stored
            /\ \/ stored[a.path].bytes = a.bytes
               \/ \E j \in DOMAIN roots : j > k /\ \E b \in Scanned(roots[j], names) \ todo[j] : b.path = a.path
        BY <2>3, <2>5, <4>1 DEF StoredFrom
      <4>3. \A j \in DOMAIN roots : done[j] \subseteq todo[j]
        BY <1>6
      <4>4. a.path \in DOMAIN stored' /\ stored'[a.path] = stored[a.path]
        BY <1>5, <3>1, <4>2
      <4> QED
        BY <4>2, <4>3, <4>4
    <3>2. CASE a.path = p /\ k = i
      <4>1. a = asset
        BY <1>1, <1>2, <1>8, <1>9, <2>5, <3>2, ScannedOnce
      <4> QED
        BY <1>5, <3>2, <4>1
    <3>3. CASE a.path = p /\ k < i
      <4>1. asset \in Scanned(roots[i], names) \ done[i] /\ asset.path = a.path
        BY <1>1, <1>6, <1>8, <3>3
      <4>2. \E j \in DOMAIN roots : j > k /\ \E b \in Scanned(roots[j], names) \ done[j] : b.path = a.path
        <5>1. i > k
          BY <3>3
        <5> QED
          BY <1>6, <4>1, <5>1
      <4> QED
        BY <1>5, <3>3, <4>2
    <3>4. CASE a.path = p /\ k > i
      <4>1. i < k
        BY <3>4
      <4>2. todo[k] = Scanned(roots[k], names)
        BY <1>6, <1>7, <4>1
      <4>3. k # i
        <5>1. DOMAIN roots = 1 .. Len(roots)
          BY <1>2, LenProperties DEF RunOver
        <5>2. Len(roots) \in Nat
          BY <1>2, LenProperties DEF RunOver
        <5> QED
          BY <1>6, <3>4, <5>1, <5>2
      <4> QED
        BY <1>6, <2>5, <4>2, <4>3
    <3> QED
      <4>1. k \in Int /\ i \in Int
        <5>1. DOMAIN roots = 1 .. Len(roots) /\ Len(roots) \in Nat
          BY <1>2, LenProperties DEF RunOver
        <5> QED
          BY <1>6, <5>1
      <4> QED
        BY <3>1, <3>2, <3>3, <3>4, <4>1
  <2>6. StoredFrom(roots, names, done)'
    BY <2>4, <2>5 DEF StoredFrom
  <2>7. \A q \in DOMAIN stored' : q \in command.stale \/ OnDisk(Primary, q) \/ ScannedAt(roots, names, q)
    BY <1>5, <2>1, <2>2
  <2> QED
    BY <2>6, <2>7
<1>11. PICK stale : stale = command.stale
  OBVIOUS
<1> QED
  BY <1>2, <1>3, <1>4, <1>6, <1>7, <1>10, <1>11, SweepGoesOn

\* A run with a failure promises nothing but its order.
LEMMA StepHasFailed == WsInv /\ command.at = "sweep" /\ StepFails => WsInv'
<1> SUFFICES ASSUME WsInv, command.at = "sweep", StepFails PROVE WsInv'
  OBVIOUS
<1>1. PICK roots, names, todo, stale :
        roots = command.roots /\ names = command.names /\ todo = command.todo /\ stale = command.stale
  OBVIOUS
<1>2. /\ command = [at |-> "sweep", roots |-> roots, names |-> names, todo |-> todo,
                    stale |-> stale, failed |-> command.failed, skipped |-> command.skipped]
      /\ RunOver(roots, names) /\ SweepFits /\ reported = NoReport /\ WsTyped /\ Primary \notin lost
  BY <1>1, ByWhereItIs DEF WsInv, PrimaryIsKept
<1>3. UNCHANGED <<below, outside, ignoring, sources, excludes, reported, lost>>
  BY DEF StepFails
<1>4. /\ DOMAIN todo = DOMAIN roots
      /\ \A j \in DOMAIN roots : todo[j] \subseteq Scanned(roots[j], names)
      /\ \A k, j \in DOMAIN roots : k < j => todo[k] = {} \/ todo[j] = Scanned(roots[j], names)
      /\ command.skipped = SkippedIn(roots, names)
      /\ \A q \in stale : ~ScannedAt(roots, names, q)
  BY <1>1, <1>2 DEF SweepFits
<1>5. CASE \E path \in command.stale : command' = [command EXCEPT !.stale = @ \ {path}, !.failed = TRUE]
  <2>1. PICK path \in command.stale : command' = [command EXCEPT !.stale = @ \ {path}, !.failed = TRUE]
    BY <1>5
  <2>2. command' = [at |-> "sweep", roots |-> roots, names |-> names, todo |-> todo,
                    stale |-> stale \ {path}, failed |-> TRUE, skipped |-> command.skipped]
    BY <1>1, <1>2, <2>1
  <2>3. \A q \in stale \ {path} : ~ScannedAt(roots, names, q)
    BY <1>4
  <2> QED
    BY <1>2, <1>3, <1>4, <2>2, <2>3, SweepGoesOn
<1>6. CASE \E i \in DOMAIN command.todo : \E asset \in command.todo[i] :
             Due(i, asset) /\ command' = [command EXCEPT !.todo = Done(i, asset), !.failed = TRUE]
  <2>0. PICK i \in DOMAIN command.todo :
          \E asset \in command.todo[i] :
             Due(i, asset) /\ command' = [command EXCEPT !.todo = Done(i, asset), !.failed = TRUE]
    BY <1>6
  <2>1. PICK asset \in command.todo[i] :
          Due(i, asset) /\ command' = [command EXCEPT !.todo = Done(i, asset), !.failed = TRUE]
    BY <2>0
  <2>2. PICK done : done = Done(i, asset)
    OBVIOUS
  <2>3. command' = [at |-> "sweep", roots |-> roots, names |-> names, todo |-> done,
                    stale |-> stale, failed |-> TRUE, skipped |-> command.skipped]
    BY <1>1, <1>2, <2>1, <2>2
  <2>4. /\ DOMAIN done = DOMAIN roots
        /\ \A j \in DOMAIN roots : done[j] \subseteq Scanned(roots[j], names)
        /\ \A k, j \in DOMAIN roots : k < j => done[k] = {} \/ done[j] = Scanned(roots[j], names)
    <3>1. /\ DOMAIN Done(i, asset) = DOMAIN command.roots
          /\ i \in DOMAIN command.roots /\ asset \in command.todo[i]
          /\ \A j \in DOMAIN command.roots :
               Done(i, asset)[j] = IF j = i THEN command.todo[i] \ {asset} ELSE command.todo[j]
          /\ \A j \in DOMAIN command.roots : Done(i, asset)[j] \subseteq Scanned(command.roots[j], command.names)
          /\ \A k, j \in DOMAIN command.roots :
               k < j => Done(i, asset)[k] = {} \/ Done(i, asset)[j] = Scanned(command.roots[j], command.names)
      BY <2>1, OneDone
    <3> QED
      BY <1>1, <2>2, <3>1
  <2> QED
    BY <1>2, <1>3, <1>4, <2>3, <2>4, SweepGoesOn
<1> QED
  BY <1>5, <1>6 DEF StepFails

\* Where nothing is to come, what was scanned is stored.
LEMMA RunHasEnded == WsInv /\ EndRun => WsInv'
<1> SUFFICES ASSUME WsInv, EndRun PROVE WsInv'
  OBVIOUS
<1>1. PICK roots, names, todo : roots = command.roots /\ names = command.names /\ todo = command.todo
  OBVIOUS
<1>2. RunOver(roots, names) /\ SweepFits /\ WsTyped
  BY <1>1, ByWhereItIs DEF EndRun, WsInv
<1>3. /\ command' = Idle /\ reported' = [is |-> "done", roots |-> roots, names |-> names,
                                        failed |-> command.failed, skipped |-> command.skipped]
      /\ UNCHANGED <<below, outside, ignoring, sources, excludes, stored, lost>>
      /\ command.stale = {} /\ \A i \in DOMAIN todo : todo[i] = {}
  BY <1>1 DEF EndRun
<1>4. WsTyped' /\ PrimaryIsKept' /\ CommandFits'
  BY <1>2, <1>3, ViewStands DEF WsInv, PrimaryIsKept, CommandFits
<1>5. ASSUME ~command.failed
      PROVE  /\ \A p \in DOMAIN stored : OnDisk(Primary, p) \/ ScannedAt(roots, names, p)
             /\ StoredFrom(roots, names, NothingToCome(roots))
  <2>1. /\ \A p \in DOMAIN stored : OnDisk(Primary, p) \/ ScannedAt(roots, names, p)
        /\ StoredFrom(roots, names, todo) /\ DOMAIN todo = DOMAIN roots
    BY <1>1, <1>2, <1>3, <1>5 DEF SweepFits
  <2>2. \A i \in DOMAIN roots : todo[i] = NothingToCome(roots)[i]
    BY <1>3, <2>1 DEF NothingToCome
  <2>3. StoredFrom(roots, names, NothingToCome(roots))
    BY <2>1, <2>2 DEF StoredFrom
  <2> QED
    BY <2>1, <2>3
<1>6. ReportFits'
  <2>1. reported'.roots = roots /\ reported'.names = names /\ reported'.skipped = command.skipped
    BY <1>3
  <2>2. RunFinished' => ~command.failed
    BY <1>3 DEF RunFinished
  <2>3. command.skipped = SkippedIn(roots, names)
    BY <1>1, <1>2 DEF SweepFits
  <2>4. /\ RunOver(roots, names)' = RunOver(roots, names)
        /\ SkippedIn(roots, names)' = SkippedIn(roots, names)
        /\ \A p : OnDisk(Primary, p)' = OnDisk(Primary, p) /\ ScannedAt(roots, names, p)' = ScannedAt(roots, names, p)
    BY <1>3, ViewStands
  <2>5. PICK rest : rest = NothingToCome(roots)
    OBVIOUS
  <2>6. NothingToCome(reported.roots)' = rest
    BY <2>1, <2>5 DEF NothingToCome
  <2>7. StoredFrom(roots, names, rest)' = StoredFrom(roots, names, rest)
    BY <1>3, StoredStands
  <2>8. RunFinished' => StoredFrom(reported.roots, reported.names, NothingToCome(reported.roots))'
    BY <1>5, <2>1, <2>2, <2>5, <2>6, <2>7
  <2> QED
    BY <1>2, <1>3, <1>5, <2>1, <2>2, <2>3, <2>4, <2>8 DEF ReportFits
<1> QED
  BY <1>3, <1>4, <1>6 DEF WsInv

\* An interrupted run reports nothing; it may leave a part of a copy.
LEMMA RunIsInterrupted == WsInv /\ Interrupt => WsInv'
<1> SUFFICES ASSUME WsInv, Interrupt PROVE WsInv'
  OBVIOUS
<1>1. reported' = NoReport /\ command' = Idle /\ UNCHANGED <<below, sources, lost>>
  BY DEF Interrupt, WsInv
<1>2. WsTyped'
  <2>1. CASE outside' = outside
    BY <1>1, <2>1 DEF WsInv, WsTyped
  <2>2. CASE outside' # outside
    <3>1. /\ command.at = "copy" /\ command.bytes \in DOMAIN Half
          /\ outside' = Overlaid(outside, Single(command.bytes, Half[command.bytes]))
      BY <2>2, Zenon DEF Interrupt
    <3>2. command.bytes \in STRING
      BY <3>1, ByWhereItIs DEF CopyAsked
    <3>3. Half[command.bytes] \in STRING
      BY <3>1, WsAssumption
    <3> QED
      BY <1>1, <3>1, <3>2, <3>3, OneMoreOutside DEF WsInv
  <2> QED
    BY <2>1, <2>2
<1>3. PrimaryIsKept' /\ CommandFits'
  BY <1>1 DEF WsInv, PrimaryIsKept, Primary, CommandFits
<1> QED
  BY <1>1, <1>2, <1>3, NothingReported DEF WsInv

\* The root with _external stays the first through every change.
LEMMA UserHasChanged ==
  ASSUME WsInv,
         \/ \E root \in Roots : \E tree \in Arrangements[root] : Rearrange(root, tree)
         \/ \E list \in SourceChoices, set \in ExcludeSets : Reconfigure(list, set)
         \/ Unignore
  PROVE  WsInv'
<1>1. command = Idle /\ command' = Idle /\ reported' = NoReport /\ UNCHANGED <<outside, lost>>
  BY DEF Rearrange, Reconfigure, Unignore, Change
<1>2. WsTyped'
  <2>1. CASE \E root \in Roots : \E tree \in Arrangements[root] : Rearrange(root, tree)
    <3>1. PICK root \in Roots : \E tree \in Arrangements[root] : Rearrange(root, tree)
      BY <2>1
    <3>2. PICK tree \in Arrangements[root] : Rearrange(root, tree)
      BY <3>1
    <3>3. below' = [below EXCEPT ![root] = tree] /\ sources' = sources
      BY <3>2 DEF Rearrange
    <3>4. tree \in UNION {Arrangements[r] : r \in Roots}
      OBVIOUS
    <3> QED
      BY <1>1, <3>3, <3>4 DEF WsInv, WsTyped
  <2>2. CASE \E list \in SourceChoices, set \in ExcludeSets : Reconfigure(list, set)
    BY <1>1, <2>2 DEF WsInv, WsTyped, Reconfigure
  <2>3. CASE Unignore
    BY <1>1, <2>3 DEF WsInv, WsTyped, Unignore
  <2> QED
    BY <2>1, <2>2, <2>3
<1>3. Primary' = Primary
  <2>1. sources \in SourceChoices /\ sources' \in SourceChoices
    BY <1>2 DEF WsInv, WsTyped
  <2> QED
    BY <2>1, OnePrimary DEF Primary
<1>4. PrimaryIsKept' /\ CommandFits'
  BY <1>1, <1>3 DEF WsInv, PrimaryIsKept, CommandFits
<1> QED
  BY <1>1, <1>2, <1>4, NothingReported DEF WsInv

\* A stutter.
LEMMA NothingHasChanged == WsInv /\ UNCHANGED wsVars => WsInv'
<1> SUFFICES ASSUME WsInv, UNCHANGED wsVars PROVE WsInv'
  OBVIOUS
<1>1. UNCHANGED <<below, outside, ignoring, sources, excludes, stored, command, reported, lost>>
  BY DEF wsVars
<1>2. WsTyped' /\ PrimaryIsKept'
  BY <1>1, ViewStands DEF WsInv, PrimaryIsKept
<1>3. /\ \A roots, names : /\ RunOver(roots, names)' = RunOver(roots, names)
                          /\ SkippedIn(roots, names)' = SkippedIn(roots, names)
      /\ \A roots, names, p : ScannedAt(roots, names, p)' = ScannedAt(roots, names, p)
      /\ \A root, p : OnDisk(root, p)' = OnDisk(root, p)
      /\ \A root, names : Scanned(root, names)' = Scanned(root, names)
      /\ Primary' = Primary
  BY <1>1, ViewStands
<1>4. \A roots, names, todo : StoredFrom(roots, names, todo)' = StoredFrom(roots, names, todo)
  BY <1>1, StoredStands
<1>5. SweepFits' = SweepFits
  BY <1>1, <1>3, <1>4 DEF SweepFits
<1>6. CommandFits'
  BY <1>1, <1>3, <1>5 DEF WsInv, CommandFits
<1>7. ReportFits'
  BY <1>1, <1>3, <1>4 DEF WsInv, ReportFits, RunFinished, NothingToCome
<1> QED
  BY <1>1, <1>2, <1>6, <1>7 DEF WsInv

-----------------------------------------------------------------------------
\* Every step keeps the invariant, action by action.
LEMMA WsSteps == WsInv /\ [WsNext]_wsVars => WsInv'
<1> SUFFICES ASSUME WsInv, [WsNext]_wsVars PROVE WsInv'
  OBVIOUS
<1>1. CASE \/ IngestAll
           \/ \E root \in Roots : IngestRoot(root)
           \/ \E argument \in Arguments : IngestFile(argument)
           \/ \E body \in StdinBodies : IngestStdin(body)
  BY <1>1, CommandsStart
<1>2. CASE PrepareExternal \/ CopyToExternal
  BY <1>2, ExternalIsPrepared, ExternalIsCopied
<1>3. CASE Scan
  BY <1>3, RootsAreScanned
<1>4. CASE command.at = "sweep" /\ \E path \in command.stale : SweepPath(path)
  BY <1>4, PathIsSwept
<1>5. CASE \E i \in DOMAIN command.todo : \E asset \in command.todo[i] : IndexAsset(i, asset)
  BY <1>5, AssetIsIndexed
<1>6. CASE command.at = "sweep" /\ StepFails
  BY <1>6, StepHasFailed
<1>7. CASE EndRun
  BY <1>7, RunHasEnded
<1>8. CASE Interrupt
  BY <1>8, RunIsInterrupted
<1>9. CASE \/ \E root \in Roots : \E tree \in Arrangements[root] : Rearrange(root, tree)
           \/ \E list \in SourceChoices, set \in ExcludeSets : Reconfigure(list, set)
           \/ Unignore
  BY <1>9, UserHasChanged
<1>10. CASE UNCHANGED wsVars
  BY <1>10, NothingHasChanged
<1> QED
  BY <1>1, <1>2, <1>3, <1>4, <1>5, <1>6, <1>7, <1>8, <1>9, <1>10 DEF WsNext

\* Whatever is asked of the program, in any order of commands, changes, failures and
\* interruptions, a run that finishes without a failure has left the index as the files are.
THEOREM IndexAlwaysFollows == WsSpec => []IndexFollowsTheTree
<1>1. WsInit => WsInv
  BY WsBegins
<1>2. WsInv /\ [WsNext]_wsVars => WsInv'
  BY WsSteps
<1>3. WsInv => IndexFollowsTheTree
  BY IndexFollows
<1> QED
  BY <1>1, <1>2, <1>3, PTL DEF WsSpec

=============================================================================
