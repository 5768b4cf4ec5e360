# TLA+ models of kebab

kebab is a local knowledge base. `kebab ingest` scans a workspace, parses and
chunks its files, writes assets, documents and chunks to SQLite and embeddings
to LanceDB; `kebab search`, `kebab ask` and the MCP server read both. The two
stores share no transaction, most purges are several SQL statements that each
commit by themselves, and searches run while another process ingests. These
modules model those commits and reads, one action each, and state what should
hold between them.

| module | what it is |
|---|---|
| `Ingest` | one ingest process over the SQLite tables and LanceDB, with its faults and the events between runs |
| `IngestInv` | the inductive strengthenings of the safety properties of `Ingest`, and what they assume |
| `MCIngest`, `Ingest_*.cfg` | constants and runs for TLC |
| `Ingest_proofs` | types, references, stamps and skips of `Ingest`, then what whole runs promise: rows, paths, cursors, vectors, reports; for every value of the constants |
| `Search` | one client paging with `search_with_opts` while another process ingests |
| `MCSearch`, `Search_*.cfg` | constants and runs for TLC |
| `Search_proofs` | paging in every mode, and the fusion, for every corpus and page size |
| `VectorIndex` | the abstract index: what the vector store promises its callers |
| `VectorStore` | `LanceVectorStore` under several processes; implements `VectorIndex` |
| `MCVectorStore`, `VectorStore_index.cfg` | constants and run for TLC |
| `VectorStore_proofs` | its type, its safety properties and the refinement, for every value of the constants |
| `Rag` | one question, from the first search to the stored answer |
| `AssetStore` | the bytes behind the `assets` rows, two processes |
| `DerivationCache`, `PdfOcr` | cached embeddings, OCR texts and captions; the page loop of a PDF over that cache |
| `Chunker` | the chunkers and the choice among them |
| `Settings` | the configuration file, its migration and its meaning |
| `CodeUnits`, `Markdown` | what the extractors make of source files and Markdown |
| `Media` | one file of each medium through the skip check, run after run |
| `Eval` | golden queries, their runs, comparison, gate and variants |
| `Workspace` | sources, walk, sweep, `ingest-file` and `ingest-stdin` |
| `Progress`, `Progress_proofs` | what a run tells of itself: events, log, jobs rows, report; that all of it is true |
| `Parts_proofs` | theorems about `AssetStore`, `Media`, `Settings`, `Rag`, `Eval`, `Chunker` and `Workspace` |
| `Fetch`, `Fetch_proofs` | what is read back: chunks, documents, line ranges, lists, counts, bulk searches; that it is what is stored |
| `Calls`, `MCCalls`, `Calls.cfg` | the thirteen components above in one behaviour, and their bounds |
| `Calls_proofs` | `DerivationCache`, `PdfOcr`, and the components side by side |
| `Lists`, `Maps`, `Lists_proofs` | beginnings and kept parts of a list, one more entry of a function; facts about lists, finite sets, sorting, quotients and sums |
| `MCWorkspace`, `Workspace_external.cfg` | the roots of `Workspace` and its run of its own |

To check one run: `tlc -workers 2 -config Ingest_faults.cfg MCIngest`. To check
the proofs of a module: `tlapm Ingest_proofs.tla`. `PROJECT.json` maps every definition to
the source lines it models and lists runs, mutants, findings and hazards.
Definitions under a comment "Mutant" are not part of the model: each is a
plausible bug that replaces the definition below it to show that a property
would notice.

## 1. The system

Paths below are relative to `src/crates/`.

| component | state | operations | interacts with | what makes it correct |
|---|---|---|---|---|
| ingest run (`kebab-app/src/ingest.rs`) | the scan, the item in hand, the sweep's vector-delete buffer, counts, cancel flag | scan, sweep of deleted files, skip check, parser-bump purge, per-medium ingest (markdown, image, PDF, code), embed, revision bump | connector, parsers, chunkers, both stores, derivation cache, jobs | a skip is sound; a reported file is indexed; no vector outlives its chunk; runs converge |
| relational store (`kebab-store-sqlite`) | `assets`, `documents`, `blocks`, `chunks`, `embedding_records`, FTS tables, `kv`, `jobs`, `derivation_cache` | `put_asset_with_bytes`, `put_document`, `put_blocks`, `put_chunks`, purges by path, asset or doc id, `filter_chunks`, `bump_corpus_revision` | called by ingest, search, reset, eval | records never outlive chunks, documents never their asset, one row per path |
| vector store (`kebab-store-vector`) | one Lance table per model and dimension, a counter of commits per process | three-phase `upsert`, `delete_by_chunk_ids`, `search`, compaction | `embedding_records` in SQLite | a committed record has its Lance row; deletion reaches every table |
| search and cursors (`kebab-app/src/app.rs`, `cursor.rs`) | none; a cursor carries offset and revision | `search`, `search_with_opts` | retrievers, `kv.corpus_revision` | pages tile, `null` means the end, stale cursors are refused |
| retrieval and fusion (`kebab-search`) | none | lexical, vector, hybrid `search`, trace | FTS5, vector store, `filter_chunks`, hydration | filters hold for every hit; fusion keeps orders both lists agree on |
| reset (`kebab-app/src/reset.rs`) | none | `--all`, `--vector-only`, `--orphans-only`, ... | both stores | the next ingest rebuilds what was removed |
| derivation cache (`derivation_cache.rs`) | rows keyed by input hash, kind and version | get, put, eviction | embedding, OCR, captions | a hit is what the producer would produce now |
| file connector (`kebab-source-fs`) | none | walk, links, ignore rules, blacklist, hash, sort | ingest | no file twice, none lost in silence, no loop |
| external ingest and fetch (`external.rs`, `fetch.rs`) | files copied into `_external` | `ingest-file`, `ingest-stdin`; fetch of a chunk, a document, a line range; bulk search | ingest, sweep, store | what was given is stored; a reader gets what is stored, once and in order |
| jobs and ingest log | `jobs`, `ingest_runs`, log files, the event channel | create, update, finish, append, clean up | ingest, display | every surface tells the same and true story of a run |
| RAG pipeline (`kebab-rag`) | none between calls | retrieve, gate, pack, generate, check citations, multi-hop, NLI | search, language model | citations name packed chunks; refusal is explicit; hops are bounded |
| chunkers (`kebab-chunk`), parsers (`kebab-parse-*`) | none | pure functions on text and images | ingest | spans cover the input, versions change when output does |
| configuration (`kebab-config`) | the config file | load, defaults, migrate, env overrides | everything | migration is idempotent and keeps user values |
| embedders, language models, NLI | external models behind traits | embed, generate, entail | ingest, search, RAG | identifier and version name the output |
| MCP server, CLI (`kebab-mcp`, `kebab-cli`) | session, call log, cancel flag | tools, commands | app facade | one answer per request |
| evaluation (`kebab-eval`) | stored runs | run, metrics, compare | search | deterministic metrics |

What is hard here: two stores without a common transaction; purges made of
several commits, in an order that differs between media; a skip check that
trusts version stamps committed before the work they vouch for; files with equal content, which
share one asset row; cursors whose validity is a counter bumped from a report
rather than from commits; pages cut out of searches made anew, whose candidate
pools depend on the page; several processes on one directory; answers streamed
before they are verified; long loops that are left in many ways and must leave
their books in order; splitting arithmetic in which a line or a character is
easily lost.

## 2. `Ingest`

### State

| variable | in the code |
|---|---|
| `disk`, `cfg` | the workspace; the build and config file the next process reads |
| `docs` | `documents`, UNIQUE on `workspace_path`: content, parser version (base and settings signature), chunker and embedding version stamps |
| `assets` | `assets`, keyed by content hash, each with its one `workspace_path` |
| `chunks`, `pending`, `committed` | `chunks`; `embedding_records` by status |
| `lance` | rows of all `chunk_embeddings_*` tables |
| `rev` | `kv.corpus_revision` |
| `pc`, `scan`, `todo`, `cur`, `bytes`, `doomed`, `force`, `changed`, `failed`, `cancelled` | locals of `ingest_with_config`, `sweep_deleted_files` and the per-medium helpers |
| `torn` | ghost: paths whose row may say more than the stores hold |
| `cursor` | a cursor some client holds, with what it paged over |
| `budget` | bound on edits, config changes, faults and forced runs |

Data is cut down to identities: content stands for its blake3 hash, a document
has one chunk, and a chunk is named by everything `id_for_doc` and
`id_for_chunk` hash.

### Actions

`StartRun` is the scan. `SweepKeeps`, `SweepRecords`, `SweepDocument`,
`FlushDoomed`, `SweepEnds` are `sweep_deleted_files` with
`purge_deleted_workspace_path` and `flush_vector_deletes`. `NextAsset` and
`LastAsset` are the item loop. `SkipUnchanged`, `Reprocess` and `BumpVectors`
are the outcomes of `try_skip_unchanged`, with `BumpRecords` and
`BumpDocument` the rest of the parser-bump purge. `ReadBytes`, `ReadFails`,
`PurgeVectors`, `ChecksumConflict`, `OrphanRecords`, `OrphanDocuments`,
`PutAsset`, `PutDocument`, `DocumentConflict`, `PutChunks` are the per-medium
helper and the SQL it calls: a path in `StoreFirst` follows the markdown
helper (rows first, vectors of the stale asset afterwards), any other path the
image, PDF and code helpers (vectors first). `StagePending`, `MergeVectors`,
`MarkCommitted` are the three phases of `upsert`. `ReportIndexed` and `Finish`
end the item and the run.

Faults and events: `ItemFails` (any `?` of a helper), `SweepFails`,
`FlushFails`, `BumpRevisionFails`, `Crash` between any two commits, `Cancel`,
`EditFile` (during a run only where "race" is in `Events`), `ChangeConfig`,
`ResetVectors`, and a client's `IssueCursor` and `RejectCursor`.

### Properties

- `StampSound`: a document row whose write was not interrupted is backed by
  its chunk, a committed record and a Lance row of the stamped version.
- `SkipIsSound`: what the skip check skips is searchable under this run's embedder.
- `ReportedAreIndexed`: at the end of a run every scanned file that is neither
  an Error item nor behind a cancel has its current content, under the current
  settings, in both stores.
- `PathIsFree`: no upsert meets the UNIQUE index on `workspace_path`.
- `RowStable`: processing one path never removes the row of another.
- `RecordsHaveChunks`, `DocumentsHaveAssets`, `AssetPathsUnique`: the
  relations the schema no longer enforces, or enforces only at commit.
- `NoOrphanVectors`: every Lance row between runs has its chunk.
- `CursorHonest`: an accepted cursor between runs pages over what it was issued for.
- `RunTerminates`, `Converges`: every run ends; from some point on the index is the workspace's.

### Runs

Every run has two paths, each with two contents of its own or one in common,
and buffers of two chunk ids (`FlushAt`, 5000 in the code). Two paths are what
twin files, the purge of another path's row and the order of the item loop
need; the properties speak of at most two paths at a time. `MaxEvents` counts
edits, config changes, faults and forced runs; the number of plain runs is not
bounded.

| run | what happens in it | bound | result |
|---|---|---|---|
| `settings` | parser, chunker and embedder changes, embeddings off and on, narrowed scopes, edits, cancels; markdown and other media | 3 events, 5.7M states | `SkipIsSound`, `ReportedAreIndexed`, `PathIsFree`, `RowStable` hold |
| `faults` | crash, failing item, race, cancel, reset, forced run, over twin files | 3 events, 1.4M states | `TypeOK`, `StampSound`, `RecordsHaveChunks`, `DocumentsHaveAssets`, `AssetPathsUnique` hold |
| `live` | edits, upgrades, cancels and a paging client, no markdown | 2 events, 464k states | `NoOrphanVectors`, `CursorHonest`, `RunTerminates`, `Converges` hold |
| `orphans` | a markdown file is edited | 1 event | `NoOrphanVectors` fails |
| `retry` | an item fails after its row is written | 1 event | `SkipIsSound` fails |
| `twin_edit` | one of two equal files is edited | 1 event | `RowStable` fails |
| `forced_upgrade` | parser upgrade, then `--force-reingest` | 2 events | `PathIsFree` fails |

Three events are enough to upgrade, fall over and upgrade back, or to edit,
crash and edit again; each failing run shows its defect with one or two.

### Fairness

`RunFairness` is weak fairness of the steps of a run: a process that is not
killed executes its next statement, and no step waits for another process.
`UserFairness` is weak fairness of starting a plain run over the whole
workspace: somebody keeps calling `kebab ingest`. `Converges` needs the second,
`RunTerminates` only the first. Nothing is assumed of edits, cancels or faults
beyond the bound on their number, without which nothing could converge.

## 3. `Search`

A page of `search_with_opts` is not read from a snapshot. The revision is read
first (`Begin`), then FTS (`ReadFts`), Lance (`QueryLance`), the record and
filter join (`FilterChunks`) and the metadata (`Hydrate`); each is its own
action, and the ingesting process commits (`PurgeRows`, `PurgeVector`,
`StoreRows`, `StoreVector`) and bumps (`BumpRevision`) between any two. `Fuse`
is the rest of `App::search` and the cut of the page; `Respond` the budget loop
and `next_cursor`; `StaleCursor` the refusal and the client's new search.

`fts` and `lance` hold the chunks the query matches in the order the store
would return them, so a score is the order it induces; bm25 depends on the
whole corpus, so any commit to the rows may permute what is left. RRF scores
are compared as exact fractions. `served` is a ghost: what the pages have held.

- `TypeOK` includes that a cursor never points back at the start of its page.
- `PagesTile`: in lexical and vector mode, while the cursor is accepted and no
  run is under way, the pages so far are the beginning of one unlimited search.
- `NullMeansNoMore`: when no cursor came back the client has all of it,
  provided no more rows are dropped after the fetch than a page of one
  over-fetches.
- `FusionAgrees`: of two hits on a hybrid page, the one neither list puts below
  the other comes first.
- `PagingEnds`: a client that follows cursors comes to the end.
- `NoRepeat`: no chunk is served twice in a session over one corpus state.

| run | bound | result |
|---|---|---|
| `pages` | 3 chunks, every order, every subset stored or embedded, pages of two; lexical and vector mode with a filter that drops one chunk or none, as a glob or not, hybrid mode without filters; one commit and its bump, 436k states | the first five hold |
| `hybrid_pages` | 3 chunks, pages of one or two, no commit | `NoRepeat` fails |

Three chunks and pages of two give a full, a short and an empty page, a popped
hit, and a fusion with hits in one list, the other or both. The over-fetch
constants are scaled down with the lists (1, 2, 1 and 2 for 128, 2, 3 and 2 in the code):
with the real ones no list of three could outgrow a fetch. One commit suffices
to fall between any two reads of one page. `FairSpec` is weak fairness of
`Call`: the client asks again and the process answers; commits are bounded
because an ingest that never rests can keep invalidating cursors. Both Search
configurations switch deadlock checking off, because the client stops at "done".

## 4. `VectorStore` and `VectorIndex`

`VectorIndex` is what callers are promised: a set of indexed chunks, from
which a batch is withdrawn when it is offered again and to which it is added
in one step. One loss is part of the promise: a batch offered while another
process reclaims files may be published with holes (`risk`).

`VectorStore` is how `LanceVectorStore` keeps it. An upsert opens or creates
its table (`OpenTable`, `CreateTable`, `CreateRaced`), stages records
(`StagePending`), merges (`BeginMerge`, `CommitMerge`, `Conflict`) and marks
them (`MarkCommitted`); a purge takes its records first or last, as its three
callers do, and visits every table in batches (`VisitTable`, `DeleteRows`,
`VisitedAll`); either may compact and prune (`Compact`, `Prune`) by the
versions it read itself. `Crash` is a process killed or any error returned in
between. `pruned`, `bereft` and `disturbed` are ghosts that record which
process was hit by a foreign prune, which vectors went from under their
records, and whether a call was cut short.

- `CommittedAreIndexed`: a committed record has its row, of its version, in its
  table, unless a purge in progress or a foreign prune accounts for it.
- `FragmentsBounded`: while no call was cut short, no table is left with
  `COMPACT_EVERY_N_UPSERTS` commits uncompacted.
- `IndexedAreFound`: what is indexed is found by a search under its embedder,
  unless a table of another model and the same dimension comes first.
- `ImplementsIndex`: every behaviour is one of `VectorIndex`, the index being
  the committed records that have their row.

Run `index`: two processes, three chunks, two tables, three embedders (two
versions share a table), three calls, one fault, compaction after two commits
(512 in the code), deletes of one id (200): 1.86M states. Two processes are what a race needs,
three calls fill, overwrite and purge a table. Processes write different
documents, as the comment of `compact_table` assumes
(`kebab-store-vector/src/store.rs:237`). Conflict detection, snapshots and pruning
are Lance's and modelled from how the code uses them. A caller reads the version
of a table as it is, never an older one.

## 5. `Calls`: components that serve one call at a time

Thirteen components keep no state that a run and a search race for. Their modules are
independent but for `PdfOcr`, which extends `DerivationCache`; `Calls` puts
them into one specification whose variable `part` says whose calls a
behaviour is about, and run `calls` checks all of them (1.51M states). Each module has one
property, or a few, that its callers rely on; deadlock checking is off, because
a call ends.

| module | what moves | failures on the way | bounds |
|---|---|---|---|
| `Rag` | `SingleSearch`, or probe, `Decompose`, `RetrieveSub`, `Decide`; `PackChunk`; `Token`; NLI; `BuildAnswer`, `Persist` | client drops the stream, a found chunk is deleted, search, store, model, verifier fail | 3 passages, lists and pool of 2, depth 2, budget of 3 |
| `AssetStore` | `put_asset_with_bytes` statement by statement, the purge of stale assets and of documents | crash, failing unlink, rename or insert, between two processes | 2 processes, 3 assets (one too large to copy), 2 paths, 3 puts, 1 mishap |
| `DerivationCache` | look-up of a batch, computing the misses, writing them | lost, damaged and foreign entries, failing producer and cache | 3 inputs of 3 texts (2 equal after NFC), 2 images, batches of 2 |
| `PdfOcr` | the page loop with every early way out | cancel, no renderer, failing or empty OCR, cache upsets | 2 pages |
| `Chunker` | a document into its chunks, in one step | none: pure | short texts over characters of 1, 3 and 4 bytes, files of few lines; windows of 4 and 5 lines for 80 and 200 |
| `Settings` | read, back up, write, rename; `Config::load` | killed between any two steps, unreadable file | files of every version, shared and own tables that give or leave out each kind of key |
| `CodeUnits` | a syntax tree into units, in one step | none: pure | trees of a few nodes, nodes that share a line, in nine languages |
| `Markdown` | the events of the parser, one by one | none: pure | 2 heading levels, 4 tags open or done, 2 words |
| `Media` | skip check, extraction, OCR, caption, chunks, row, vectors | reads, cache, OCR, captioner, embedder fail; killed | 7 media, every shape a file of it can have, 2 changes between runs |
| `Eval` | runs, stored rows, aggregates, comparison, variants | a golden file that does not load or resolve, runs chunked differently, an edited golden file, another ingest | 2 runs of 1 or 2 queries, 3 chunks, 2 rankings, 2 kinds of answer, 1 change between them |
| `Workspace` | scan of the sources, sweep, `ingest-file`, `ingest-stdin` | step fails, interrupt or crash, torn copy | 2 roots, 2 commands, 1 edit, 1 setback |
| `Progress` | run thread and display thread over one channel, log, jobs | Ctrl-C once or twice at any time, a failing asset, closed stdout, every early `?` | 6 kinds of run, 1 failure |
| `Fetch` | the statements of fetch, list, counts, bulk | a document chunked anew or purged between two statements | pairs of 11 kinds of block, budgets of none, 0 and 1 token, 1 foreign write, bulk of 3 |

What each promises:

- `GroundedIsEarned`: a grounded answer cites, cites only what was shown, is
  over a hit that reached the gate, and was verified where NLI is on.
- `CitationsResolve`: `[#n]` in the text, the citation n and the passage shown
  under `[#n]` are the same chunk, whatever vanished in between.
- `HopsExplainPool`: the hops of a multi-hop answer add up to its pool.
- `FinalIsTheAnswer`: the last event, the returned and the stored answer agree.
- `BytesFollowRows`: an asset row has its bytes and bytes have their row, but
  where a failure left one.
- `ValuesAreTheirInputs`: every slot holds the value derived from its own input
  by the engine in use.
- `PagesAreSettled`: each page of a PDF is announced and finished once, and has
  its OCR text or its extracted text.
- `ChunkIdsDistinct`, `ChunkedToFit`: no two chunks of a document share an id;
  nothing of it is lost; no chunk exceeds its budget.
- `MigrationKeepsSettings`: migrated, killed and loaded in any order, the OCR
  settings mean what the user wrote, and the original is kept.
- `UnitsAreTheFile`: every line of a definition, import or value is in a unit.
- `BlocksAreTheText`: the words of a file stay in order and under the headings
  they stand under.
- `SkipsAreExact`: the skip check neither keeps what changed nor processes
  again what did not.
- `IndexFollowsTheTree`: after a run without failures each document has its
  file, and each file, by one of the ways it is reached, its document, a count in
  the report, or a setting or warning that leaves it out; the sweep leaves what lies
  below the primary root.
- `VerdictsHold`: a comparison that lists no query as lost fails over no
  hits and no reciprocal rank; one that lists only losses fails over them as soon as a
  fall is more than a step of the rounding; answers that are gone are noticed; a group
  of paraphrases gets one verdict.
- `RunIsToldTruly`: events come in order, the bar belongs to its phase, the
  totals of events, log, jobs and report agree, and the end told is the end that was.
- `AnswersAreTheStore`: a line range is its lines within the budget, readings
  meet without gap or repetition, neighbours are of one chunking, a bad item of
  a bulk costs no other.
- `CallsTypeOK`: the types of all of them.

The golden files of `Eval` have one or two queries with a group in common, an id given
twice, or nothing expected. `Scale` is the number of steps between 0 and 1 that a stored
metric can take, 10000 in the code (`STORAGE_DECIMALS`) and 3 in the run: at 3 a fall
can vanish by rounding with two queries, as it does with some 112 queries in the code,
and `VerdictsHold` says at what size it cannot. Sums are exact fractions where the code
adds `f64` values, whose error is far below a step; differences of rounded values are
whole steps where the code subtracts `f32` values, and the tolerance is 0.

Run `external` checks `Workspace` alone for `FilesOnDiskStay`, the comment
before the sweep, which the code breaks (section 7). In `IndexFollowsTheTree`
the sweep is held only to the files below the primary root.

The bounds are the smallest at which every exit of a loop, every order of two
steps and every boundary (empty, full, one over) occurs; each action fires in
the run. `p2` and `p3` are symmetric passages; no other set is.


## 6. What is proved

The theorems of the eight `*_proofs` modules hold for every value of the
constants that the assumptions of the modules admit: any number of paths,
contents, versions, settings, events, queries, chunks, processes, tables,
passages, pages, files and page sizes. The assumptions on constants
(`ConstantsAssumption`, `SearchAssumption`, `VectorAssumption`, ...) say what kind
of value each has, and TLC evaluates them in the runs. What a theorem assumes
beyond them is in the third column.

| theorem | says | assumes |
|---|---|---|
| `TypeCorrect` | `Spec => []TypeOK` of `Ingest` | |
| `RecordsFollowChunks` | `[]RecordsHaveChunks` | |
| `AssetRowsConsistent`, `DocumentsKeepAssets` | `[]AssetPathsUnique`, `[]DocumentsHaveAssets` | |
| `StampsAreSound` | `[]StampSound`, through all faults | |
| `SkipsAreSound` | `[]SkipIsSound` | `FaultFree`, `VersionNamesModel` |
| `RowsAreStable` | `RowStable`, through all faults | `NoTwins` |
| `PathsAreFree` | `[]PathIsFree`, through all faults | `NoTwins`, `NoForcing` |
| `CursorsAreHonest` | `[]CursorHonest` | `FaultFree`, `NoTwins`, `NoForcing` |
| `NoVectorIsOrphaned` | `[]NoOrphanVectors`, through races and resets | `OneChunker`, `NoForcing`, `Unfailing`, no path in `StoreFirst` or `LexicalOnly` |
| `ReportsAreTrue` | `[]ReportedAreIndexed` | `FaultFree`, `VersionNamesModel`, `NoTwins` |
| `PagingTypeOK` | `Spec => []TypeOK` of `Search` | |
| `PagesAlwaysTile` | `[]PagesTile`, lexical and vector, with and without a glob | |
| `NullIsTheEnd` | `[]NullMeansNoMore` | |
| `OneRetrieverNeverRepeats` | `[](mode # "hybrid" => NoRepeat)` | |
| `FusionAlwaysAgrees` | `[]FusionAgrees` | |
| `VectorTypeCorrect` | `Spec => []TypeOK` of `VectorStore` | |
| `CommittedStayIndexed` | `[]CommittedAreIndexed` | |
| `StoreImplementsIndex` | `Spec => ImplementsIndex` | |
| `IndexedStayFound` | `[]IndexedAreFound` | |
| `FragmentsStayBounded` | `[]FragmentsBounded` | |
| `BytesAlwaysFollowRows` | `AssetSpec => []BytesFollowRows` | |
| `SkipsAreRight` | `MediaSpec => []SkipsAreExact` | |
| `MigrationAlwaysKeepsSettings` | `ConfigSpec => []MigrationKeepsSettings` | |
| `GroundedAreEarned` | `AskSpec => []GroundedIsEarned` | |
| `FinalsAreTheAnswer` | `AskSpec => []FinalIsTheAnswer` | |
| `CitationsAlwaysResolve` | `AskSpec => []CitationsResolve` | |
| `HopsAlwaysExplain` | `AskSpec => []HopsExplainPool` | |
| `VerdictsAlwaysHold` | `EvalSpec => []VerdictsHold` | |
| `ValuesAlwaysAreTheirInputs` | `DeriveSpec => []ValuesAreTheirInputs` | |
| `PagesAlwaysSettle` | `PdfSpec => []PagesAreSettled` | |
| `AnswersAreAlwaysTheStore` | `FetchSpec => []AnswersAreTheStore` | |
| `RunIsAlwaysToldTruly` | `ProgressSpec => []RunIsToldTruly` | |
| `ChunkIdsNeverClash` | `ChunkSpec => []ChunkIdsDistinct` | |
| `IndexAlwaysFollows` | `WsSpec => []IndexFollowsTheTree` | |
| `CallsKeepPromises` | `CallsSpec` keeps the fourteen properties above this row, all at once | |

The assumptions of the third column are about what happens, and none can be
dropped. `FaultFree`: no race, crash, failure or reset (run `retry`, observations
1 and 3). `Unfailing`: no crash or failure. `NoTwins`: no two paths ever hold equal
content (run `twin_edit`, observation 4). `NoForcing`: nobody passes
`--force-reingest` (run `forced_upgrade`). `VersionNamesModel`: two embedders never
share a version string (observation 2). `OneChunker`: a new chunker
version replaces the chunks of an unchanged file, whose vectors no helper looks for.
`StoreFirst = {}`: no markdown (run `orphans`). `LexicalOnly = {}`: with the embedder
off there is no vector store to delete from. Run `settings` and run `live` check most of these
properties over instances that meet the assumptions.

### Ingest

None of the safety properties of `Ingest` is inductive: each relies on what an
earlier step of the same item left. `IInv` is their conjunction with `TypeOK`,
where the hand is (`Located`), which deletions have already happened
(`Ordered`), what has been written of the document in hand (`Written`) and
what the sweep still owes LanceDB (`Buffered`). For instance
`RecordsHaveChunks` survives `OrphanDocuments` only because `Ordered` says the
victims' records are gone. The induction step has one case per action and one
lemma per conjunct.

`SkipsAreSound`: without faults the scan is what is on disk, the bytes read are
those hashed, and only the item in hand or the victims of its purge are torn
(`FaultFreeInv`), so nothing is torn at the skip check.

The second part of `Ingest_proofs` adds what holds over a whole run. `RecordedContents` says that
a path is recorded, on disk, in the scan, in `assets` and in `documents`, only with
contents it once held; with `NoTwins` the asset row of a content then names the
path in hand, and the purge reaches no other's row (`RowsAreStable`). `RowFits` says
that a row with the scanned content is, from the read on, of this run's parser,
because the skip check purged any other. So what still has the path at the upsert
is the very document being stored (`PathFreeInv`). `CursorInv` says that a cursor of the
present revision shows the corpus as it is unless the run has counted a change or
stands at a label where it may have written something uncounted (`Uncounted`);
every way from such a label leads over `changed`. For `NoVectorIsOrphaned` a chunk is
what its row describes (`ChunksAreRows`), so storing an unchanged file again gives
the chunks it had, and `VectorsFollow` says that vectors go before
their chunks and that what the sweep leaves is in its buffer. `ReportInv` follows
the item loop: every scanned path that is neither to come, in hand nor in error is
indexed, which the steps of the other items leave alone because of
`RowsAreStable`'s argument.

### Search

`PagingInv` has four parts. `Typed`: types, no chunk twice in a list, the labels a
mode can be at. `Sane`: no session is ahead of the corpus. `Held`: between two
pages, the client holds exactly the beginning of the answer that its cursor says,
and all of it when it is done. `UnderWay`: what a call under way has read is a
beginning of the answer long enough for its page. A commit makes every clause
about the present corpus vacuous, and the bump keeps it so because the session's
revision is then behind.

How long is long enough is arithmetic of the over-fetches. A list cut to `w` and
then filtered is a beginning of the filtered list, and as many as asked for unless
more rows were lost than the `Spare` ones of the fetch (`CutsTo`, `Follows`); the
vector store cuts, drops and cuts again, so the lemma is used twice
(`FilteredCut`). The budget loop that pops hits and the cursor that counts what is left
keep `Follows`. From `Held` follow `PagesTile`, `NullMeansNoMore` and, since a
beginning of a list without repetitions has none, `NoRepeat` with one retriever.

`FusionAgrees` rests on the sort being one. RRF scores are compared as products of
numerators and denominators (`Num`, `Den`); `Above` is a strict order and `Level` an
equivalence, and with the tie-breaks by lexical rank and id the comparison orders any
two chunks (`Sorting`), so a sorted list exists (`SortedExists`, each element at the
place that counts those before it) and the one chosen is `InOrder`.

### VectorStore

`CommittedAreIndexed` is not inductive either: marking is sound only because
the merge came before. `VectorStore!IInv` adds that a process handles its own
chunks (`Working`), what an upsert has written by each step (`Progressing`)
and that a purge in progress accounts for what it takes (`Withdrawing`). The
refinement maps `MarkCommitted` to `Publish`, staging and the purges to `Offer` and
`Withdraw`, a prune to `Reclaim`, an error before the mark to `Abandon`, and
every other step to a stutter; that a foreign step leaves the index alone is
where disjoint documents are used.

`FragmentsBounded` relates what each process has read of a version to what all
have committed since. `BasesRead` says that what was read is never newer than
the table and is kept by every call that has committed; `FragmentsTracked`
that the uncompacted commits of a table are within the remainder of its
version by `CompactEvery`, or some process that saw the quotient grow is still
to compact. A commit either adds one to the remainder or makes its own process
such a one (`OneMore`), and no commit of another takes the duty away, because
quotients only grow (`StillCompacts`). Division is reduced to the uniqueness of
quotient and remainder. `IndexedAreFound` needs only `RowsInTables`.

### Files and settings

`BytesFollowRows` is proved with `AssetInv`: which locals a put or purge holds at
each statement, that only small assets have files, that a temporary file belongs
to the put that will rename it, and that a file without a row is between the
`DELETE` and the `unlink` of some call.

`MediaInv`: the row's version stamps tell by which settings its chunks, OCR text
and caption were made of the recorded content, differently for each medium
(`RowTells`), the document in hand is one this run could make (`InHand`), and a row
left by a run that ended well is what the next skip check looks for (`SettledRow`).
A skip compares stamps with present settings, so what it keeps is what this run
would make; the converse, that a second run skips, is `SettledRow`.

`ConfigInv`: a migration under way works on the user's own file and has it in the
backup before it replaces it (`MigrationUnderWay`, `OriginalIsKept`), and the settings
last loaded are what the user wrote (`SettingsSurvive`). The content of the proof is
about documents, not steps: each step of the migration leaves the OCR tables alone
(`SameOcr`) or keeps what they mean (`Faithful`); moving equal keys into the shared block keeps it because
a table reads the shared block for what it leaves out (`HoistingKeepsMeaning`); a
migrated file migrates to itself (`MigratingTwice`). `ConfigAssumption` admits a shared block
in files of version 5 only, which introduced it; the case of item 26 in section 8 is
excluded by `SettingsSurvive` itself.

### Questions and evaluation

`AskInv` of `Parts_proofs` has one conjunct per promise still open at a step: labels
of the context are the markers of the citations (`PackedAlike`), gate, stream and
verifier have been passed where the next step relies on it (`PassedSoFar`), and what
the client was sent by then (`SentSoFar`, `FinalSoFar`). `CitationsResolve` follows where the answer is
built: the entries carry the markers 1, 2, 3 in their order, so no two share one.
`HopsExplainPool` needs an invariant of the loop (`HopsSoFar`): the trace has one hop for
every iteration gone (`Traced`), no decide hop but the last has stopped, and the hops add
up to the pool as it was before the retrieval in hand, whose finds are counted at its end.

`EvalInv`: the hits of stored runs are chunks, and the verdict is the one of the golden
file and the runs that are there. The rest is about one comparison. If no query was lost, each
query's hit and reciprocal rank is at least what it was; ranks are compared as parts
of one common unit, `Unit`, which every rank up to the cutoff divides; sums of a
function that is nowhere smaller are not smaller (`SumsCompare`, by induction on the
number of queries), and neither are they rounded
(`QuotientGrows`). If queries were only lost, the sum falls by at least the fall of any one of them (`SumsFall`), and a mean that
falls by more than a step is rounded to less (`RoundedFalls`): a fall of one query
survives rounding if it is more than `n / Scale` of a unit over `n` queries (`Survives`),
and a lost hit if there are fewer than `Scale` queries. A group of paraphrases is passed
if all are ok and counted as
mis-ranked or missing otherwise, so it has one verdict. Proving this showed that two
`CASE` definitions of `Eval` had overlapping arms, which in TLA+ leaves the choice
open where the code takes the first; the arms are now disjoint.

### Cached derivations and PDF pages

`CacheTrue` says that every intact entry of the cache is what some engine of its
key's version derives from its key's input, `CallTrue` what a call holds at each step,
`SlotsTrue` and `FreshTrue` that filled slots and values not yet written are derived
from the inputs of their places. Hits are filled by place and misses by order, so the
heart of the induction is that the misses computed so far are the first blank slots
(`MissesAreBlank`, `BatchExtends`). Deletion, damage and entries of another process keep
`CacheTrue`, which says nothing of an absent entry.

`PdfInv`: the image, text and cache entry in hand are of the page in hand
(`PageInHand`), the events so far are a start and an end for each chosen page before
it (`EventsSoFar`), and the texts and counts are those of the pages finished
(`TextsSoFar`). The theorem is about loops that reach the end; one aborted by a renderer
or a cancel is outside `PagesAreSettled`.

### What is read back

`FetchInv` says what a handler holds after each statement (`HeldFits`: `ChunkHeld`,
`DocHeld`, `ListHeld`, `StatsHeld`, `BulkHeld`), exactly as the store has it while
nobody else has written, and with whatever may be missing otherwise; and that every
answer given is true of its request (`AnswersTrue`), where a reader that goes on asks
for the line behind the one named last. A write of another process can only make
what is said of an undisturbed store vacuous, and leaves the blocks of a document
that stays (`WriteKeeps`).

The work is in the text. The segments of a text lie between newlines that are counted
(`BreaksCounted`), so the line of a position is the segment it is in (`SegmentHolds`,
`LinesHold`). A budget that cuts a range keeps full lines and the beginning of the
last (`CutTiles`), a range within its budget is all of its lines (`WholeTiles`), and
nothing is behind a range that ends early (`NothingBehind`). None of this depends on
what the text is, only on its being one, which for every kind of block is
`RenderedIsText`. Neighbours are those of one reading of the ids (`ChunkAnswered`),
also where some were gone when their turn came; the counts by medium add up to the
documents, each of which has one (`KindsAddUp`).

`FetchAssumption` is what the tables can hold and callers can ask: finitely many
documents, blocks of the kinds of `Block`, numbers where the code has unsigned ones.

### What a run tells

`RunIsToldTruly` speaks of a run that is over, of a display that lags behind it and of
tables and a log that may fail on their own, so none of its parts is inductive.
`ProgressInv` ties all of them to the list of events:

- `AllFollow`: what may stand before each event. It is about the list only, so it
  survives everything but an event more, which must be one that may come next. An
  asset is in flight (`Flying`) from its start to its own finish.
- `ToldSoFar`, `ToldOfAssets`, `ToldOfSweep`, `ToldOfEnd`: what has been told by each
  stage, which is what decides that the next event may come next. With `Located`,
  where the loop stands and how far it is, these are the heart of the induction.
- `ToldOfItems`, `CountsFit`: the items told and the counters are the same items.
- `BoardFits`: the display is what the first `shown` events make of it (`BarIs`,
  `TimesAre`), however many more have been sent. An event more leaves that alone, and
  drawing one leaves the events alone, so the two cases do not meet.
- `LogFits`, `LedgerFits`, `PrintedFits`: the log, the rows and the report that were
  written say what the counters said then, and the counters no longer move.

Most of the lemmas are about one event more: what was sent of some kinds
(`SentOneMore`, `SentUpToMore`), which asset is in flight (`OneMoreFlies`), how many
purges (`PurgesOneMore`), and the chunks told, a sum over the events
(`ItemsAdded`). The two sorts of the code, of OCR times for their percentiles and of
assets for the slowest, are stated by rank (`Arranged`): a strict order gives every
position a rank of its own (`Standing`), so every rank is taken and the list is in
order (`ArrangedInOrder`), which gives `OcrTimesInOrder` and `SlowestIs`. That the
times of the display are of different assets makes the slowest ones well-defined.

`ProgressAssumption` says what a run can begin with: assets of the media, old logs
in the order in which `cleanup_old_logs` sorts them, newest first, and numbers where the
code has unsigned ones. TLC checked the conjuncts of `ProgressInv`
on the instance of run `calls` before they were proved, all but the types, whose sets
of mixed values it cannot enumerate.

### Chunks

The id of a chunk is a hash of the block ids, the number of the piece and, for pages,
the segment's start; `id` is the tuple that is hashed, and the theorem says that no two
chunks of a document have the same. Each chunker keeps them apart in a way of its
own, and each way is a lemma:

- Markdown: every group that is closed has a block later than all blocks of the groups
  before it (`Rises`, `GroupsRise`). That is not obvious, because a group begins with
  blocks repeated from the previous one (`SeedOfOpen`); the block that did not fit
  is never among them. Two groups therefore differ as sets of blocks (`RisingDiffer`).
- Pages: the segments of a page unfold in order, each from a bound behind the last
  (`PageBoundsRise`, `SegmentsInOrder`), while their beginnings with the overlap may
  coincide: hashing those instead is the mutant.
- Syntax trees and line files: parts, windows, documents and paragraphs begin behind one
  another (`PartsInOrder`, `WindowsDistinct`, `RunsInOrder`), also where windows overlap,
  which uses that the overlap is shorter than the window.

Pieces of one oversize chunk are numbered. `FlattenedDistinct` puts lists of different
keys one behind the other. The folds and recursions over a document are shown to
exist as tables, built entry by entry up to the length of the document (`WalkExists`,
`UnfoldExists`); their values follow by least counterexamples. `ChunkAssumption` gives
the types of documents and policies, and that an overlap of lines is shorter than
a window.

### Files below the roots

A root of `Workspace` is what its walk yields before any filter, and the assumptions on
it, `WsAssumption`, say what any directory tree gives: each path occurs once
(`OncePerPath`); `_external` is a directory of its own, with no link into it
(`ExternalApart`); and below a directory reached again lie only files the walk came to
before (`Mirrored`). The last holds because `walkdir` goes depth first and leaves out a
link to a directory it is inside of: all below the first visit has been yielded before the
second, and where the first left out a link to a directory around it, all of that
directory has been too, as the second visit cannot lie inside it.

The walk is a fold over the entries. `WalkIsWalked` shows that it exists as a table
(`WalkExists`) and that after each entry `WalkedSoFar` holds: a path is pruned only if
it was excluded and counted, or is a directory reached again, and each file so far is
accepted, passed over with a count, not asked for, or below something pruned
(`Settled`). A file below a directory reached again has a twin earlier in the walk, with
the same bytes, which may have one in turn; the least of them is accepted or passed over
for a reason (`FilesAreDealtWith`). That is why the property promises a file by one
of the ways it is reached, and not by each.

`WsInv` is the inductive invariant. During a run `SweepFits` ties what is stored to what
was scanned: candidates of the sweep were not scanned; where the run has not failed,
each document is a candidate, has its file below the primary root, or was scanned; and
what was scanned and is no longer to come is stored, unless a later source had the same
path and was stored over it (`StoredFrom`). The sources are taken in order, so of two
with the same path the later one wins, also where a source is listed twice, which the code
calls a config smell and does not prevent (`ingest.rs:190`). After the run `ReportFits` says
the same of the report until anything changes. TLC checked `WsInv` on the roots of
`MCWorkspace`, with two edits and a source listed twice, before it was proved.

### The components side by side

`CallsKeepPromises` is about the specification run `calls` checks, with its
thirteen components in one behaviour. A step of it is a step or a stutter of each
component (`EachTakesItsSteps`), so the theorems above carry over; the cache is used by
two, and belongs in a behaviour either to the page loop or to the calls of its own
(`CacheShared`).

### How, and what is left to TLC

Lists are where provers are weak, so operators a proof must look into are defined
without recursion: `OnlyIn` is the kept part of a list, each element at its rank
among the kept ones, `Arranged` a sorted list, each element at its rank among all, and `Maps` has the one-entry update of a function by its
definition. Induction over numbers is available in the form of a least
counterexample in a set of numbers (`NatSets`), and the sums of `FoldFunction` follow
from it by the cardinality of the domain. The induction theorems of the library
take an operator as a parameter, which these provers cannot instantiate. For one joining
of texts (`JoinsExist`, `JoinedIsList`) and for the folds and recursions of the
chunkers the proofs therefore build the function by hand, as a table; for functions
that recur over trees, what they compute for every input is out of reach.

Only model-checked:

- the liveness properties `RunTerminates`, `Converges` and `PagingEnds`, since
  fairness and `ENABLED` are not what the prover handles;
- `ChunkedToFit`, which is about the contents and sizes of chunks where
  `ChunkIdsDistinct` is about their places; `UnitsAreTheFile`, about recursive functions
  over a syntax tree, and `BlocksAreTheText`, about concatenations over nested frames;
- `CallsTypeOK`; the types of `AssetStore` are proved as a part of `AssetInv`.

Six runs refute a property. For five of the properties a theorem says when it does hold
(`NoVectorIsOrphaned`, `SkipsAreSound`, `RowsAreStable`, `PathsAreFree`,
`OneRetrieverNeverRepeats`); the sixth is `FilesOnDiskStay`.

## 7. Disagreements with what the code says of itself

Each has a run whose counterexample shows it; quotes are in `PROJECT.json`.

1. `orphans`: the markdown helper looks up stale chunk ids after the store has
   deleted them, so the old vectors of every edited markdown file stay in LanceDB.
2. `retry`: a failed embed is not retried by the next run, because the stamps
   were committed first.
3. `external`: the sweep looks for every document below the primary root. The
   next command purges what `ingest-file` stored, and an `ingest-file` purges
   the documents of every source but the first, while their files are there.
4. `twin_edit`: editing a file purges the document of another with equal
   content, if the shared asset row names the edited path.
5. `forced_upgrade`: `--force-reingest` after a parser upgrade fails on every
   file, since it returns before the purge that frees the path.
6. `hybrid_pages`: the candidate pool of a fusion grows with `offset + k`, so
   page 2 may repeat a hit of page 1 and pass over another.

## 8. Further observations

Seen while modelling, outside the runs above. Paths as in section 1; where a
property is named, it excludes the case and its comment says so.

Ingest and stores:

1. A changed file is edited again between the scan's hash and the helper's
   read: the vectors of its stored version are purged (`ingest.rs:1865`) before
   the checksum refuses the bytes. If that edit put the stored version back, the
   next skip check finds its stamps and skips (`SkipIsSound` with Events `edit`, `race`).
2. Two models with equal version strings: a switch is not noticed by the skip
   check (`ingest.rs:1006`), so nothing is embedded in the new model's table.
3. `CursorHonest` with Events `fail`, `search`: an item that fails after its
   commits does not count as a change (`ingest.rs:662-667`), so an old cursor is
   accepted over a different corpus.
4. The shared asset row of two equal files names the path stored last. When the
   other one is edited, no stale asset is found at its path (`store.rs:694`) and
   its old row stays in the way of its own upsert (`PathIsFree` over `TwinFiles`).
   A crash or failed flush loses the sweep's buffer (`ingest.rs:2268`) and with it the
   only way to those vectors; a purge that fails between its statements (`ingest.rs:2346`)
   leaves a document without records until the next run.
5. `NullMeansNoMore` fails without its proviso: a filter, glob or orphaned rows
   that drop more than the over-fetch make a page short, and a short page ends
   the session (`app.rs:496`).
6. `find_matching_table` (`kebab-store-vector/src/store.rs:721`) opens the first
   table of the right dimension, whatever its model.
7. `reset --vector-only` leaves `last_embedding_version` in the rows, so the next
   ingest skips everything and nothing is embedded again (`reset.rs:384`).
8. A lower copy threshold turns a copied asset row into a reference and leaves
   its file for ever; temporary files of killed processes are never removed.
9. The key of a caption holds neither the model nor the language; a failed
   caption or OCR is stored as the current state and not tried again.
10. The configuration signature leaves out `min_char_count`,
    `valid_ratio_threshold` and `render_dpi` of PDFs, the OCR thresholds and
    the caption model, so changing them changes nothing stored (`ingest.rs:3642`); for the
    Paddle engine of PDFs the program loads the image block's assets while the
    signature hashes the PDF block's.

Workspace and external files:

11. Paths are relative to each scan's own root, so equal relative paths of two
    sources take turns at one row; the order of a directory walk decides under
    which of two links a document is stored, and re-linking leaves the old one.
12. `workspace.exclude`, unlike `.kebabignore`, also applies to `ingest-file`, which
    then scans nothing and succeeds; a name with `#` is dropped with a warning
    and counted nowhere; `!` patterns cannot override the built-in blacklist,
    though the walker's comment says so. A directory reached first through a link whose
    name has a `#` loses its files under every other name too, since it is walked once.
13. The copy to `_external` is not atomic, and an existing file of that name is
    taken for good without a look at its content (`external.rs:64`).

What a run tells:

14. A cancelled run's jobs row says `succeeded`; Ctrl-C after the last asset
    started ends as Completed; an early error leaves no last event, no row and
    no summary, though `ingest_log.rs` says a summary always ends the log.
15. Ctrl-C during a scanned PDF makes that asset an Error
    (`pdf_ocr_apply.rs:285`), though `ingest.rs:85` says the asset in flight
    is finished; a second Ctrl-C loses the log's buffer and the buffered deletes.
16. `unchanged` is counted in the report only; OCR events have an empty run id
    when the log is off.

Asking and reading:

17. `fetch` reports `indexed_at` and `stale` from the date in the document's
    metadata, front matter or file (`kebab-app/src/fetch.rs:354`), while search and counts use
    `documents.updated_at`, which `docs/wire-schema/v1/fetch_result.schema.json:13` names for fetch too:
    an old file indexed today is stale in one and fresh in the other.
18. A budget that cuts inside a line counts the line as read, so a reader that goes on
    loses its tail; `max_tokens = 0` never gets anywhere. A range is of the
    serialized blocks, not of the file. Neighbours are in hash order
    (`documents.rs:505` says so, `fetch.rs:336` says otherwise).
19. Chunked anew between its statements, a fetch ends in an untyped error,
    and a document purged between row and blocks is returned empty.
20. A bulk item's field of a wrong JSON type counts as absent; every search
    error becomes `retrieval_error`; more than 100 items give `generic`, not
    the `invalid_input` of `kebab-mcp/src/tools/bulk_search.rs:16`.
21. The multi-hop gate looks at `pool[0]`, which is the first found, not the
    best; a decide reply that cannot be parsed leaves `forced_stop` false,
    though the doc says true; a stream that ends without Done counts as
    finished; a cancelled ask with NLI is stored as a failed verification.

Pure parts:

22. Chunks: a piece may be empty; a budget of one token is exceeded by a
    character of four bytes; the overlap takes a whole block of any size though
    `md_heading_v1.rs:233` says half the target; a YAML file with one Kubernetes
    resource loses its other documents.
23. Units: a Rust `use` or `const` line with a trailing comment just before an
    `impl` is in no unit; Go's grouped declarations lose their header and comments.
24. Markdown: formatted words in a link that also has plain text are lost from
    list items; line spans count from 0 though `blocks.rs:7` says from 1; a
    heading in a list or quote opens a section for the whole document.
25. PDF: a short page whose OCR comes back empty loses its text; engine failures
    are not counted as skipped pages; without a renderer a malformed page ends the document.
26. Settings: migrating a file whose shared block sets what a table leaves out
    changes what the table means; a newer schema version is stamped down;
    environment overrides are not validated.
27. Evaluation: a golden file that loses all it expected between two runs is compared as
    no regression, though `compare.rs:502` says that lost ground truth "counts as a
    violation rather than a skip" and the test at line 692 builds that case by hand: both
    runs are measured by the golden file of the moment, and hit, recall, precision and
    MRR over no query are 0, not the NaN the gate looks for (`metrics.rs:361`).
28. Metrics are rounded to 4 decimals before they are subtracted (`metrics.rs:379`), so
    with tolerance 0 a query that falls from rank 9 to 10 may go unnoticed among some 112
    or more; failed queries are not gated; the stored aggregate is not what a comparison
    uses.

## 9. Plan

Order of what is left, most important first:

1. Proofs: `CallsTypeOK`; in `Rag`, the bounds of a multi-hop question.
2. The HTTP stream of the local language model and the session of the MCP server.
3. A second concurrent `kebab ingest` in `Ingest` itself; `VectorStore` and
   `AssetStore` have it for their stores.
4. `reset --orphans-only`, schema migrations, the backfill of tokenized text.

`Ingest` and `Search` compose through `PurgeRows`, `PurgeVector`, `StoreRows`,
`StoreVector` and `BumpRevision`, the projections of ingest's commits on what
one query sees; `Ingest` and `VectorStore` through the three phases of
`upsert`, which in `Ingest` are one process's.

## 10. Not modelled

In `Ingest`:

- one process at a time;
- blocks and FTS rows, which go and come with the chunks in the same transaction;
- documents of several chunks, since every statement names all chunks of a document;
- what `Media`, `DerivationCache`, `AssetStore`, `Workspace` and `Progress` are
  about: here a file is in a medium that is indexed, its asset row and bytes are one
  (`PutAsset`), as are a swept document and its unreferenced asset;
- the staleness of a cursor in the middle of a run: `CursorHonest` is stated
  between runs, and `Search` covers the interleaving.

In `Search`:

- snippet texts, scores as numbers on the wire, query parsing, the trace path,
  which returns no cursor, and `k = 0`, which means a default;
- dense aliases, which no part of the code writes any more;
- a chunk's row and its committed record, deleted by separate statements, come
  and go together in `rows`;
- ties between Lance distances, which the store breaks in an order of its own.

In the modules of `Calls`:

- texts are characters by width or words by number; prompts, messages and
  layout are left out; scores of hits are above or below the gate;
- front matter beyond its presence, timestamps, language detection, spans, HTML and
  the fallback for malformed tables in `Markdown`; the syntax trees themselves in `CodeUnits`;
- keys of the configuration no step or rule tells apart; floating point in `Eval`, whose
  sums are exact;
- equal files and changes during a run in `Workspace`, which are `Ingest`'s.

Not at all: image decoding, the OCR engines, embedders, tokenizers and models
(external code behind traits, whose answers and failures are inputs here), the
HTTP client, argument parsing and output formats, the call log of the MCP
server, `doctor`, `schema` beyond its counts, `reset` beyond `--vector-only`.
