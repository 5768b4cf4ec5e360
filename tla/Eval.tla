--------------------------------- MODULE Eval ---------------------------------
(***************************************************************************)
(* kebab eval: a run of the golden queries and its rows, the aggregates of *)
(* a run, the comparison of two runs with its gate (--max-drop), and the   *)
(* consistency of the paraphrases of a group.                              *)
(*                                                                         *)
(* A run stores what the search and the ask of every query gave; whatever  *)
(* is computed from it later is computed with the golden file of that      *)
(* moment, which the user edits in between.  A metric is a total in parts  *)
(* of Unit over a number of queries, rounded to so many parts of Scale.    *)
(***************************************************************************)
EXTENDS Integers, FiniteSets, Sequences, FiniteSetsExt, Functions, Lists

CONSTANTS
  Goldens,    \* the golden files: sequences of [id, chunks, docs, checks, group]
  ChunkDoc,   \* the document of a chunk
  Rankings,   \* what a search may answer: chunks, best first
  NarrowK,    \* NARROW_K
  PoolK,      \* POOL_K
  MrrTop,     \* MRR_TOP
  TopKs,      \* TOP_K_VARIANTS
  Unit,       \* every k, rank and number of expected documents divides it
  Scale,      \* 10 to the STORAGE_DECIMALS
  Replies,    \* the answers an ask may give, each by its Facets
  NoGroup

\* What the metrics look at in an answer: whether it is grounded, whether its text holds
\* what must_contain and forbidden ask, and whether it cites.
Facets == {"grounded", "right", "cited"}

ASSUME EvalAssumption ==
  /\ Replies \subseteq SUBSET Facets /\ Scale \in Nat \ {0}
  /\ Unit \in Nat /\ {NarrowK, PoolK, MrrTop} \cup TopKs \subseteq 1 .. Unit
  /\ MrrTop <= NarrowK /\ NarrowK < PoolK
  /\ \A rank \in 1 .. MrrTop : Unit % rank = 0
  /\ \A file \in Goldens : IsFiniteSet(DOMAIN file)
  /\ Rankings \subseteq Seq(DOMAIN ChunkDoc)

VARIABLES
  golden,     \* the golden file
  library,    \* the chunks in the database, each with its document
  chunkedBy,  \* config.ingest.chunking.chunker_version
  runs,       \* eval_runs with eval_query_results, oldest first
  verdict,    \* what the last command printed
  changes     \* edits of the golden file, of the settings and of the library

evalVars == <<golden, library, chunkedBy, runs, verdict, changes>>

Ids(file) == {file[i].id : i \in DOMAIN file}
Entry(file, id) == file[CHOOSE i \in DOMAIN file : file[i].id = id]

EvalInit ==
  /\ golden \in Goldens
  /\ library = DOMAIN ChunkDoc
  /\ chunkedBy = "v1"
  /\ runs = << >> /\ verdict = [is |-> "none"] /\ changes = 0

-----------------------------------------------------------------------------
(* Loading the golden file. *)

UniqueIds(file) == Cardinality(Ids(file)) = Len(file)

\* The paraphrases of a group share one set of expected documents.
GroupsAgree(file) ==
  \A i, j \in DOMAIN file :
    file[i].group = file[j].group /\ file[i].group # NoGroup => file[i].docs = file[j].docs

Loads(file) == UniqueIds(file) /\ GroupsAgree(file)

HasChunk(c) == c \in library
HasDocument(d) == \E c \in library : ChunkDoc[c] = d

\* Every expected id has its row; only a run asks.
Resolved(file) ==
  \A i \in DOMAIN file :
    (\A c \in file[i].chunks : HasChunk(c)) /\ (\A d \in file[i].docs : HasDocument(d))

-----------------------------------------------------------------------------
(* A run. *)

\* The first k of a ranking of what is still in the database.
Found(ranking, k) ==
  LET there == OnlyIn(ranking, library)
  IN SubSeq(there, 1, Min({k, Len(there)}))

\* execute_query: the ask is left out after a search that failed, and an ask that failed
\* keeps the hits.
QueryResults(k, withRag) ==
  {[hits |-> << >>, answer |-> {}, error |-> TRUE]}
  \cup {[hits |-> Found(r, k), answer |-> a, error |-> withRag /\ a = {}] :
          r \in Rankings, a \in {{}} \cup (IF withRag THEN {{f} : f \in Replies} ELSE {})}

\* The answer, if there is one, has the facet.
AnswerHas(result, facet) == \E a \in result.answer : facet \in a

\* An ask over no hit refuses.
Plausible(result) == result.hits = << >> => ~AnswerHas(result, "grounded")

\* What a comparison reads of config_snapshot_json.
Snapshot(k) == [k |-> k, chunker |-> chunkedBy]

Unmeasured == [is |-> "{}"]

\* eval_runs and eval_query_results, with aggregate_json "{}" until it is computed.
Record(snapshot, rows) == [snapshot |-> snapshot, rows |-> rows, aggregate |-> Unmeasured]

\* run_eval_with_config: the run and its rows in one transaction.  When the mirror under
\* runs_dir cannot be written the command fails and the run is stored all the same.
RunEval ==
  /\ verdict.is = "none" /\ Len(runs) < 2
  /\ Loads(golden) /\ Resolved(golden)
  /\ \E k \in {NarrowK, PoolK}, withRag \in BOOLEAN :
       /\ withRag => k = PoolK
       /\ \E rows \in [Ids(golden) -> {r \in QueryResults(k, withRag) : Plausible(r)}] :
            runs' = Append(runs, Record(Snapshot(k), rows))
  /\ UNCHANGED <<golden, library, chunkedBy, verdict, changes>>

\* A golden file that does not load, or names what the database has not got.
RefuseRun ==
  /\ verdict.is = "none"
  /\ ~Loads(golden) \/ ~Resolved(golden)
  /\ verdict' = [is |-> "refused"]
  /\ UNCHANGED <<golden, library, chunkedBy, runs, changes>>

-----------------------------------------------------------------------------
(* The aggregates of a run. *)

Asked(file, rows) == {id \in DOMAIN rows : id \in Ids(file)}
Metric(total, n) == [total |-> total, n |-> n]
\* Over no query at all a metric is NaN, or by ratio_or_zero nothing.
NaN == 0 - 1
OrZero(metric) == IF metric.n = 0 THEN Metric(0, 1) ELSE metric
OverAll(parts) == Metric(FoldFunction(+, 0, parts), Cardinality(DOMAIN parts))
Share(S, held) == Metric(Unit * Cardinality(S \cap held), Cardinality(S))

\* round_storage: the nearest multiple of 1 / Scale, the upper one of two, in parts of Scale.
Rounded(metric) ==
  IF metric.n = 0 THEN NaN
  ELSE (2 * Scale * metric.total + Unit * metric.n) \div (2 * Unit * metric.n)

\* Ranks of the hits that are among the chunks, or whose document is among the docs.
ChunkRanks(result, chunks) == {i \in DOMAIN result.hits : result.hits[i] \in chunks}
DocRanks(result, docs) == {i \in DOMAIN result.hits : ChunkDoc[result.hits[i]] \in docs}
DocsWithin(result, docs, k) == {ChunkDoc[result.hits[i]] : i \in {j \in DocRanks(result, docs) : j <= k}}

Aggregate(file, rows) ==
  LET G(id)  == Entry(file, id)
      byChunk == {id \in Asked(file, rows) : G(id).chunks # {}}
      byDoc   == {id \in Asked(file, rows) : G(id).docs # {}}
      answered == {id \in Asked(file, rows) : rows[id].answer # {}}
      unfailed == {id \in answered : ~rows[id].error}
      checked == {id \in unfailed : G(id).checks}
      grounded == {id \in unfailed : AnswerHas(rows[id], "grounded")}
      Within(id, k) == {r \in ChunkRanks(rows[id], G(id).chunks) : r <= k}
      hit == [k \in TopKs |-> Share(byChunk, {id \in byChunk : Within(id, k) # {}})]
      precision == [k \in TopKs |->
        OverAll([id \in byChunk |-> Cardinality(Within(id, k)) * (Unit \div k)])]
      recall == [k \in TopKs |->
        OverAll([id \in byDoc |-> Cardinality(DocsWithin(rows[id], G(id).docs, k))
                                    * (Unit \div Cardinality(G(id).docs))])]
      mrr == OverAll([id \in byChunk |->
               IF Within(id, MrrTop) = {} THEN 0 ELSE Unit \div Min(Within(id, MrrTop))])
  IN [hit |-> [k \in TopKs |-> Rounded(OrZero(hit[k]))],
      precision |-> [k \in TopKs |-> Rounded(OrZero(precision[k]))],
      recall |-> [k \in TopKs |-> Rounded(OrZero(recall[k]))],
      mrr |-> Rounded(OrZero(mrr)),
      groundedness |-> Rounded(OrZero(Share(checked, {id \in checked : AnswerHas(rows[id], "right")}))),
      citations |-> Rounded(Share(grounded, {id \in grounded : AnswerHas(rows[id], "cited")})),
      refusals |-> Rounded(Share(answered \ byDoc, {id \in answered : ~AnswerHas(rows[id], "grounded")})),
      empty |-> Rounded(OrZero(Share(DOMAIN rows, {id \in DOMAIN rows : rows[id].hits = << >>})))]

\* kebab eval aggregate: what it writes back stays as it is when the golden file changes.
StoreAggregate ==
  /\ verdict.is = "none" /\ Len(runs) = 1 /\ Loads(golden)
  /\ runs' = [runs EXCEPT ![Len(runs)].aggregate = Aggregate(golden, runs[Len(runs)].rows)]
  /\ verdict' = [is |-> "stored"]
  /\ UNCHANGED <<golden, library, chunkedBy, changes>>

-----------------------------------------------------------------------------
(* The comparison of two runs. *)

\* first_hit_rank: chunks where the query names some and the runs were chunked alike,
\* documents otherwise; 0 for none.
FirstHit(result, entry, byDocs) ==
  LET ranks == IF ~byDocs /\ entry.chunks # {} THEN ChunkRanks(result, entry.chunks)
               ELSE DocRanks(result, entry.docs)
  IN IF ranks = {} THEN 0 ELSE Min(ranks)

RankIn(file, rows, id, byDocs) ==
  IF id \in Asked(file, rows) THEN FirstHit(rows[id], Entry(file, id), byDocs) ELSE 0

\* A plausible slip: a smaller rank read as a smaller score.
ClassifyByScore(a, b) ==
  CASE a = b                       -> "draw"
    [] a = 0 /\ b # 0              -> "win"
    [] a # 0 /\ b = 0              -> "regression"
    [] a # 0 /\ b # 0 /\ b > a     -> "win"
    [] OTHER                       -> "loss"

Classify(a, b) ==
  CASE a = b                       -> "draw"
    [] a = 0 /\ b # 0              -> "win"
    [] a # 0 /\ b = 0              -> "regression"
    [] a # 0 /\ b # 0 /\ b < a     -> "win"
    [] OTHER                       -> "loss"

PerQuery(file, a, b, byDocs) ==
  [id \in DOMAIN a.rows \cup DOMAIN b.rows |->
     Classify(RankIn(file, a.rows, id, byDocs), RankIn(file, b.rows, id, byDocs))]

\* A rounded metric of the first run that the second does worse by, with no tolerance, or
\* has not got.  What the first run had not got is nothing to fall from.
FellFrom(a, b) == a # NaN /\ (b = NaN \/ b < a)
RoseFrom(a, b) == a # NaN /\ (b = NaN \/ a < b)

Regressions(a, b) ==
  {p \in {"hit", "precision", "recall"} \X TopKs : FellFrom(a[p[1]][p[2]], b[p[1]][p[2]])}
  \cup {<<m, 0>> : m \in {m \in {"mrr", "groundedness", "citations", "refusals"} : FellFrom(a[m], b[m])}}
  \cup (IF RoseFrom(a.empty, b.empty) THEN {<<"empty", 0>>} ELSE {})

\* compare_runs_with_config, both runs measured by the golden file of now.
Comparison(a, b) ==
  LET byDocs == a.snapshot.chunker # b.snapshot.chunker
  IN [is |-> "compared", byDocs |-> byDocs,
      kinds |-> PerQuery(golden, a, b, byDocs),
      bad |-> Regressions(Aggregate(golden, a.rows), Aggregate(golden, b.rows))]

\* kebab eval compare --max-drop 0.
Compare ==
  /\ verdict.is = "none" /\ Len(runs) = 2 /\ Loads(golden)
  /\ verdict' = Comparison(runs[1], runs[2])
  /\ UNCHANGED <<golden, library, chunkedBy, runs, changes>>

\* --strict-chunker-version, or a golden file that does not load any more.
RefuseCompare ==
  /\ verdict.is = "none" /\ Len(runs) = 2
  /\ ~Loads(golden) \/ runs[1].snapshot.chunker # runs[2].snapshot.chunker
  /\ verdict' = [is |-> "refused"]
  /\ UNCHANGED <<golden, library, chunkedBy, runs, changes>>

-----------------------------------------------------------------------------
(* The consistency of paraphrases. *)

Covered(result, entry, k) == Cardinality(DocsWithin(result, entry.docs, k))

VariantClass(result, entry) ==
  LET whole  == Covered(result, entry, NarrowK) = Cardinality(entry.docs)
      deeper == Covered(result, entry, PoolK) > Covered(result, entry, NarrowK)
  IN CASE entry.docs = {}                        -> "no_expected"
       [] entry.docs # {} /\ whole               -> "ok"
       [] entry.docs # {} /\ ~whole /\ deeper    -> "mis_ranked"
       [] OTHER                                  -> "missing"

Members(file, rows, group) == {id \in Asked(file, rows) : Entry(file, id).group = group}

Groups(file, rows) == {Entry(file, id).group : id \in Asked(file, rows)} \ {NoGroup}

GroupReport(file, rows, group) ==
  LET members == Members(file, rows, group)
      Class(id) == VariantClass(rows[id], Entry(file, id))
      recalls == {Covered(rows[id], Entry(file, id), NarrowK) :
                    id \in {id \in members : Entry(file, id).docs # {}}}
      all == Cardinality(Entry(file, CHOOSE id \in members : TRUE).docs)
      misRanked == Cardinality({id \in members : Class(id) = "mis_ranked"})
      missing == Cardinality({id \in members : Class(id) = "missing"})
  IN [measured |-> recalls # {},
      consistent |-> recalls # {} /\ Max(recalls) = Min(recalls) /\ Min(recalls) = all,
      aDominant |-> misRanked > 0 /\ misRanked >= missing,
      bDominant |-> missing > 0 /\ missing > misRanked]

\* compute_variant_consistency
Consistency(run) ==
  LET deepest == Max({Len(run.rows[id].hits) : id \in DOMAIN run.rows} \cup {0})
  IN [is |-> "variants", truncated |-> deepest \in 1 .. PoolK - 1,
      groups |-> [g \in Groups(golden, run.rows) |-> GroupReport(golden, run.rows, g)]]

\* kebab eval variants, of a run that asked for the whole pool.
Variants ==
  /\ verdict.is = "none" /\ runs # << >> /\ Loads(golden)
  /\ runs[Len(runs)].snapshot.k >= PoolK
  /\ verdict' = Consistency(runs[Len(runs)])
  /\ UNCHANGED <<golden, library, chunkedBy, runs, changes>>

RefuseVariants ==
  /\ verdict.is = "none" /\ runs # << >>
  /\ runs[Len(runs)].snapshot.k < PoolK \/ ~Loads(golden)
  /\ verdict' = [is |-> "refused"]
  /\ UNCHANGED <<golden, library, chunkedBy, runs, changes>>

-----------------------------------------------------------------------------
(* Between the first run and what follows: one change, as a bound. *)

EditGolden ==
  /\ verdict.is = "none" /\ changes = 0 /\ changes' = 1 /\ Len(runs) = 1
  /\ golden' \in Goldens \ {golden}
  /\ UNCHANGED <<library, chunkedBy, runs, verdict>>

\* A re-ingest under another chunker, or of a file that is gone.
Reingest ==
  /\ verdict.is = "none" /\ changes = 0 /\ changes' = 1 /\ Len(runs) = 1
  /\ \/ chunkedBy' = "v2" /\ UNCHANGED library
     \/ \E c \in library : library' = library \ {c} /\ UNCHANGED chunkedBy
  /\ UNCHANGED <<golden, runs, verdict>>

EvalNext ==
  \/ RunEval \/ RefuseRun \/ StoreAggregate \/ Compare \/ RefuseCompare \/ Variants \/ RefuseVariants
  \/ EditGolden \/ Reingest

EvalSpec == EvalInit /\ [][EvalNext]_evalVars

-----------------------------------------------------------------------------

\* A fall of one query's part that moves the mean of n queries by more than one step of
\* the rounding.
Survives(fall, n) == Scale * fall > Unit * n
RankPart(rank) == IF rank \in 1 .. MrrTop THEN Unit \div rank ELSE 0

\* The gate and the list of the queries say the same of two runs over the same queries
\* chunked alike: where no query is lost nothing is held back over hits and ranks, and
\* where none is won, a lost one is held back for every k it was found within if there
\* are fewer queries than steps of the rounding, and for its rank if the fall survives
\* the rounding.  A run without answers is held back by one with grounded answers
\* (compare.rs, `regressions` against `build_per_query`; metrics.rs, STORAGE_DECIMALS).
GateAgreesWithQueries ==
  verdict.is = "compared" =>
    LET a == runs[1].rows
        b == runs[2].rows
        kind == verdict.kinds
        byChunk == {id \in Asked(golden, a) : Entry(golden, id).chunks # {}}
        n == Cardinality(byChunk)
        Before(id) == RankIn(golden, a, id, FALSE)
        Now(id) == RankIn(golden, b, id, FALSE)
        lost == {id \in byChunk : kind[id] \in {"loss", "regression"}}
    IN /\ DOMAIN a = DOMAIN b /\ ~verdict.byDocs =>
            /\ lost = {} => \A bad \in verdict.bad : bad[1] \notin {"hit", "mrr"}
            /\ (\A id \in byChunk : kind[id] # "win") =>
                 /\ \A id \in lost, k \in TopKs :
                      n < Scale /\ Before(id) <= k /\ Now(id) \notin 1 .. k =>
                        <<"hit", k>> \in verdict.bad
                 /\ \A id \in lost :
                      Survives(RankPart(Before(id)) - RankPart(Now(id)), n) => <<"mrr", 0>> \in verdict.bad
       /\ (\E id \in Asked(golden, a) : AnswerHas(a[id], "grounded")) /\ (\A id \in DOMAIN b : b[id].answer = {}) =>
            <<"citations", 0>> \in verdict.bad

\* Every group of paraphrases that can be measured gets one verdict, a group that cannot
\* gets none (variant.rs, `rollup_group`).
GroupsGetOneVerdict ==
  verdict.is = "variants" =>
    \A g \in DOMAIN verdict.groups :
      LET r == verdict.groups[g]
      IN Cardinality({m \in {"consistent", "aDominant", "bDominant"} : r[m]})
           = IF r.measured THEN 1 ELSE 0

VerdictsHold == GateAgreesWithQueries /\ GroupsGetOneVerdict

=============================================================================
