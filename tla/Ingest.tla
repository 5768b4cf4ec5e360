------------------------------- MODULE Ingest -------------------------------
(***************************************************************************)
(* One `kebab ingest` process over the two stores it keeps in step: SQLite *)
(* (assets, documents, chunks, embedding_records) and LanceDB (vectors).   *)
(* The two stores share no transaction, and within SQLite every statement  *)
(* of a purge is its own commit, so each of those commits is an action and *)
(* a crash may fall between any two of them.                               *)
(*                                                                         *)
(* Data is cut down to identities.  A file's content is its blake3 hash,   *)
(* so equal contents at two paths are one asset; a document has one chunk, *)
(* named by everything id_for_doc and id_for_chunk hash.                   *)
(***************************************************************************)
EXTENDS Naturals, FiniteSets

CONSTANTS
  Paths,        \* workspace paths, as their rank in the scan order
  StoreFirst,   \* the markdown paths: stored before their vectors are purged
  Contents,     \* file contents, i.e. asset ids
  Files,        \* which content a path may hold: a subset of Paths \X Contents
  Bases,        \* parser versions compiled into the program
  Sigs,         \* signatures of the ingest settings
  Chunkers,     \* chunker versions
  Embedders,    \* the [model, version] pairs a config may name
  LexicalOnly,  \* those that stand for provider = "none": no vector store either
  Scopes,       \* sets of paths a run may scan
  ForceModes,   \* values of IngestOpts.force_reingest in use
  Events,       \* which of EventKinds may happen
  MaxEvents,    \* bound: how many of them happen in a behaviour
  FlushAt,      \* VECTOR_DELETE_FLUSH
  Absent, NoPath, NoDoc, NoCursor

EventKinds == {"edit", "race", "config", "crash", "fail", "cancel", "reset", "search"}

\* Events that leave a document row behind without its vectors.
Faults == {"race", "crash", "fail", "reset"}

Versions == {e.version : e \in Embedders}
Config   == [base: Bases, sig: Sigs, chunker: Chunkers, emb: Embedders]
DocRow   == [content: Contents, base: Bases, sig: Sigs, chunker: Chunkers,
             version: Versions]
Chunk    == [path: Paths, content: Contents, base: Bases, chunker: Chunkers, sig: Sigs]
Record   == [chunk: Chunk, emb: Embedders]
Models   == {e.model : e \in Embedders}
Vector   == [model: Models, chunk: Chunk]
View     == [lexical: SUBSET Chunk, vector: SUBSET Vector]

ASSUME ConstantsAssumption ==
  /\ Paths \subseteq Nat
  /\ StoreFirst \subseteq Paths
  /\ Files \subseteq Paths \X Contents
  /\ \A e \in Embedders : e = [model |-> e.model, version |-> e.version]
  /\ LexicalOnly \subseteq Embedders
  /\ Scopes \subseteq SUBSET Paths
  /\ ForceModes \subseteq BOOLEAN
  /\ Events \subseteq EventKinds
  /\ MaxEvents \in Nat
  /\ FlushAt \in Nat \ {0}
  /\ Absent \notin Contents
  /\ NoPath \notin Paths
  /\ NoDoc \notin DocRow
  /\ NoCursor \notin [rev: Nat, view: View]

VARIABLES
  disk,       \* the workspace: path -> content or Absent
  cfg,        \* program build and config file of the next run
  docs,       \* documents, UNIQUE on workspace_path: path -> row or NoDoc
  assets,     \* assets, keyed by content: -> workspace_path or NoPath
  chunks,     \* chunks rows
  pending,    \* embedding_records with status 'pending'
  committed,  \* embedding_records with status 'committed'
  lance,      \* rows of the chunk_embeddings_* tables
  rev,        \* kv.corpus_revision
  pc,         \* the next commit of the running process, "idle" between runs
  scan,       \* content hash of each scanned file
  todo,       \* sweep candidates, then scanned paths not yet reached
  cur,        \* the path in hand
  bytes,      \* what std::fs::read returned for it
  doomed,     \* chunk ids the sweep has buffered for a Lance delete
  force,      \* force_reingest of this run
  changed,    \* new + updated + purged > 0
  failed,     \* paths reported as Error items
  cancelled,  \* the cancel flag
  torn,       \* ghost: paths whose row may say more than the stores hold
  cursor,     \* a pagination cursor a client holds, with what it paged over
  budget      \* events left

store == <<docs, assets, chunks, pending, committed, lance>>
run   == <<scan, todo, cur, bytes, doomed, force, changed, failed, cancelled>>
env   == <<disk, cfg, cursor, budget>>
vars  == <<store, rev, pc, run, torn, env>>

-----------------------------------------------------------------------------
(* Identities and rows *)

\* id_for_doc: path, asset and base parser version, not the settings.
SameDocId(d, e) == d.content = e.content /\ d.base = e.base

\* Mutant: the model id stamped where the version belongs.
NewRowStampsModel(p) == [content |-> scan[p], base |-> cfg.base, sig |-> cfg.sig,
                         chunker |-> cfg.chunker, version |-> cfg.emb.model]

\* The row this run writes for p: version stamps included.
NewRow(p) == [content |-> scan[p], base |-> cfg.base, sig |-> cfg.sig,
              chunker |-> cfg.chunker, version |-> cfg.emb.version]

\* id_for_chunk over the document a row describes.
ChunkOf(p, d) == [path |-> p, content |-> d.content, base |-> d.base,
                  chunker |-> d.chunker, sig |-> d.sig]
NewChunk(p) == ChunkOf(p, NewRow(p))

Stored == {p \in Paths : docs[p] # NoDoc}
ChunksAt(ps) == {ch \in chunks : ch.path \in ps}

\* Mutants: no stale asset is looked for; it is looked for at every path.
NoStaleAssets(p) == {}
StaleAssetsAnywhere(p) == {a \in Contents : assets[a] # NoPath /\ a # scan[p]}

\* The asset row another content of the same path left behind.
StaleAssets(p) == {a \in Contents : assets[a] = p /\ a # scan[p]}

\* Every document of such an asset, whatever path the document is at.
Victims(p) == {q \in Stored : docs[q].content \in StaleAssets(p)}

\* Mutant: records matched by content, not by chunk.
DropByContent(cs) ==
  /\ pending'   = {r \in pending : \A ch \in cs : r.chunk.content # ch.content}
  /\ committed' = {r \in committed : \A ch \in cs : r.chunk.content # ch.content}

\* Deleting embedding_records by the chunk ids the chunks table still names.
DropRecords(cs) ==
  /\ pending'   = {r \in pending : r.chunk \notin cs}
  /\ committed' = {r \in committed : r.chunk \notin cs}

\* Deleting documents; blocks and chunks go by ON DELETE CASCADE, records do not.
DropDocuments(ps) ==
  /\ docs'   = [p \in Paths |-> IF p \in ps THEN NoDoc ELSE docs[p]]
  /\ chunks' = chunks \ ChunksAt(ps)

\* App::embedder and App::vector are both None then.
VectorsOff == cfg.emb \in LexicalOnly

\* delete_by_chunk_ids visits every chunk_embeddings_* table.
LanceWithout(cs) ==
  IF VectorsOff THEN lance ELSE {v \in lance : v.chunk \notin cs}

Goto(label) == pc' = label

Spend(kind) ==
  /\ kind \in Events
  /\ budget > 0
  /\ budget' = budget - 1

-----------------------------------------------------------------------------
(* A run: scan, sweep of deleted files, then one asset after another *)

StartRun(f, scope) ==
  /\ pc = "idle"
  /\ f => budget > 0
  /\ budget' = IF f THEN budget - 1 ELSE budget
  /\ scan' = [p \in Paths |-> IF p \in scope THEN disk[p] ELSE Absent]
  /\ todo' = {p \in Stored : scan'[p] = Absent}
  /\ force' = f
  /\ Goto("sweep")
  /\ UNCHANGED <<store, rev, cur, bytes, doomed, changed, failed, cancelled, torn,
                 disk, cfg, cursor>>

\* The run's own state is gone, by return or by crash.
EndRun ==
  /\ Goto("idle")
  /\ scan' = [p \in Paths |-> Absent]
  /\ todo' = {} /\ doomed' = {} /\ failed' = {}
  /\ cur' = NoPath /\ bytes' = Absent
  /\ force' = FALSE /\ changed' = FALSE /\ cancelled' = FALSE

\* A stored path outside the scan whose file exists is out of scope, not deleted.
SweepKeeps(p) ==
  /\ pc = "sweep" /\ ~cancelled /\ p \in todo
  /\ disk[p] # Absent
  /\ todo' = todo \ {p}
  /\ UNCHANGED <<store, rev, pc, scan, cur, bytes, doomed, force, changed, failed,
                 cancelled, torn, env>>

SweepRecords(p) ==
  /\ pc = "sweep" /\ ~cancelled /\ p \in todo
  /\ disk[p] = Absent
  /\ DropRecords(ChunksAt({p}))
  /\ todo' = todo \ {p}
  /\ cur' = p
  /\ torn' = torn \cup {p}
  /\ Goto("sweep_document")
  /\ UNCHANGED <<docs, assets, chunks, lance, rev, scan, bytes, doomed, force, changed,
                 failed, cancelled, env>>

\* Mutant: the asset row goes with the first of its documents.
SweepDocumentAndAsset ==
  /\ pc = "sweep_document"
  /\ DropDocuments({cur})
  /\ assets' = [a \in Contents |-> IF docs[cur].content = a THEN NoPath ELSE assets[a]]
  /\ doomed' = IF VectorsOff THEN doomed ELSE doomed \cup ChunksAt({cur})
  /\ changed' = TRUE
  /\ torn' = torn \ {cur}
  /\ cur' = NoPath
  /\ Goto(IF Cardinality(doomed') >= FlushAt THEN "flush" ELSE "sweep")
  /\ UNCHANGED <<pending, committed, lance, rev, scan, todo, bytes, force, failed,
                 cancelled, env>>

\* The asset row goes only when no twin refers to it.
SweepDocument ==
  /\ pc = "sweep_document"
  /\ DropDocuments({cur})
  /\ assets' = [a \in Contents |->
       IF docs[cur].content = a /\ \A q \in Stored \ {cur} : docs[q].content # a
       THEN NoPath ELSE assets[a]]
  /\ doomed' = IF VectorsOff THEN doomed ELSE doomed \cup ChunksAt({cur})
  /\ changed' = TRUE
  /\ torn' = torn \ {cur}
  /\ cur' = NoPath
  /\ Goto(IF Cardinality(doomed') >= FlushAt THEN "flush" ELSE "sweep")
  /\ UNCHANGED <<pending, committed, lance, rev, scan, todo, bytes, force, failed,
                 cancelled, env>>

\* Mutant: the buffer is not cleared.
FlushKeepsBuffer ==
  /\ pc = "flush"
  /\ lance' = LanceWithout(doomed)
  /\ Goto("sweep")
  /\ UNCHANGED <<docs, assets, chunks, pending, committed, rev, run, torn, env>>

FlushDoomed ==
  /\ pc = "flush"
  /\ lance' = LanceWithout(doomed)
  /\ doomed' = {}
  /\ Goto("sweep")
  /\ UNCHANGED <<docs, assets, chunks, pending, committed, rev, scan, todo, cur, bytes,
                 force, changed, failed, cancelled, torn, env>>

SweepEnds ==
  /\ pc = "sweep"
  /\ todo = {} \/ cancelled
  /\ IF doomed # {}
     THEN Goto("flush") /\ UNCHANGED todo
     ELSE Goto("next") /\ todo' = {p \in Paths : scan[p] # Absent}
  /\ UNCHANGED <<store, rev, scan, cur, bytes, doomed, force, changed, failed,
                 cancelled, torn, env>>

\* build_assets sorts by workspace_path, so the loop takes the least.
NextAsset(p) ==
  /\ pc = "next" /\ ~cancelled /\ p \in todo
  /\ \A q \in todo : p <= q
  /\ todo' = todo \ {p}
  /\ cur' = p
  /\ Goto("check")
  /\ UNCHANGED <<store, rev, scan, bytes, doomed, force, changed, failed, cancelled,
                 torn, env>>

LastAsset ==
  /\ pc = "next"
  /\ todo = {} \/ cancelled
  /\ Goto("finish")
  /\ UNCHANGED <<store, rev, run, torn, env>>

\* corpus_revision moves only when the counts say that something was committed.
Finish ==
  /\ pc = "finish"
  /\ rev' = IF changed THEN rev + 1 ELSE rev
  /\ EndRun
  /\ UNCHANGED <<store, torn, env>>

-----------------------------------------------------------------------------
(* One asset: try_skip_unchanged and the parser-bump purge it starts *)

SameParser(d) == d.base = cfg.base /\ d.sig = cfg.sig

\* Mutants: one comparison of the skip check is missing.
UnchangedButVersion(p) ==
  /\ ~force
  /\ docs[p] # NoDoc
  /\ docs[p].content = scan[p]
  /\ SameParser(docs[p])
  /\ docs[p].chunker = cfg.chunker
UnchangedButChunker(p) ==
  /\ ~force
  /\ docs[p] # NoDoc
  /\ docs[p].content = scan[p]
  /\ SameParser(docs[p])
  /\ docs[p].version = cfg.emb.version
UnchangedButContent(p) ==
  /\ ~force
  /\ docs[p] # NoDoc
  /\ SameParser(docs[p])
  /\ docs[p].chunker = cfg.chunker
  /\ docs[p].version = cfg.emb.version

Unchanged(p) ==
  /\ ~force
  /\ docs[p] # NoDoc
  /\ docs[p].content = scan[p]
  /\ SameParser(docs[p])
  /\ docs[p].chunker = cfg.chunker
  /\ docs[p].version = cfg.emb.version

\* Mutant: without the parser-bump cascade.
NeverBumped(p) == FALSE

ParserBumped(p) ==
  /\ ~force
  /\ docs[p] # NoDoc
  /\ docs[p].content = scan[p]
  /\ ~SameParser(docs[p])

SkipUnchanged ==
  /\ pc = "check"
  /\ Unchanged(cur)
  /\ cur' = NoPath
  /\ Goto("next")
  /\ UNCHANGED <<store, rev, scan, todo, bytes, doomed, force, changed, failed,
                 cancelled, torn, env>>

Reprocess ==
  /\ pc = "check"
  /\ ~Unchanged(cur) /\ ~ParserBumped(cur)
  /\ Goto("read")
  /\ UNCHANGED <<store, rev, run, torn, env>>

BumpVectors ==
  /\ pc = "check"
  /\ ParserBumped(cur)
  /\ lance' = LanceWithout(ChunksAt({cur}))
  /\ torn' = torn \cup {cur}
  /\ Goto("bump_records")
  /\ UNCHANGED <<docs, assets, chunks, pending, committed, rev, run, env>>

BumpRecords ==
  /\ pc = "bump_records"
  /\ DropRecords(ChunksAt({cur}))
  /\ Goto("bump_document")
  /\ UNCHANGED <<docs, assets, chunks, lance, rev, run, torn, env>>

BumpDocument ==
  /\ pc = "bump_document"
  /\ DropDocuments({cur})
  /\ torn' = torn \ {cur}
  /\ Goto("read")
  /\ UNCHANGED <<assets, pending, committed, lance, rev, run, env>>

-----------------------------------------------------------------------------
(* One asset: read, purge, store, embed.  The markdown helper stores first  *)
(* and purges vectors afterwards; image, pdf and code purge vectors first.  *)

ItemError ==
  /\ failed' = failed \cup {cur}
  /\ cur' = NoPath /\ bytes' = Absent
  /\ Goto("next")
  /\ UNCHANGED <<scan, todo, doomed, force, changed, cancelled>>

\* Mutant: every medium stores before it purges, as markdown does.
ReadBytesStores ==
  /\ pc = "read"
  /\ disk[cur] # Absent
  /\ bytes' = disk[cur]
  /\ Goto("orphan_records")
  /\ UNCHANGED <<store, rev, scan, todo, cur, doomed, force, changed, failed,
                 cancelled, torn, env>>

ReadBytes ==
  /\ pc = "read"
  /\ disk[cur] # Absent
  /\ bytes' = disk[cur]
  /\ Goto(IF cur \in StoreFirst THEN "orphan_records" ELSE "purge_vectors")
  /\ UNCHANGED <<store, rev, scan, todo, cur, doomed, force, changed, failed,
                 cancelled, torn, env>>

ReadFails ==
  /\ pc = "read"
  /\ disk[cur] = Absent
  /\ ItemError
  /\ UNCHANGED <<store, rev, torn, env>>

AfterStore == IF VectorsOff THEN "report" ELSE "stage"

PurgeVectors ==
  /\ pc = "purge_vectors"
  /\ lance' = LanceWithout(ChunksAt(Victims(cur)))
  /\ torn' = torn \cup Victims(cur)
  /\ Goto(IF cur \in StoreFirst THEN AfterStore ELSE "orphan_records")
  /\ UNCHANGED <<docs, assets, chunks, pending, committed, rev, run, env>>

\* put_asset_with_bytes hashes the bytes again before it touches a row.
ChecksumConflict ==
  /\ pc = "orphan_records"
  /\ bytes # scan[cur]
  /\ ItemError
  /\ UNCHANGED <<store, rev, torn, env>>

\* Mutant: relies on the cascade V011 removed.
OrphanRecordsByCascade ==
  /\ pc = "orphan_records"
  /\ bytes = scan[cur]
  /\ torn' = torn \cup Victims(cur)
  /\ Goto("orphan_documents")
  /\ UNCHANGED <<docs, assets, chunks, pending, committed, lance, rev, run, env>>

OrphanRecords ==
  /\ pc = "orphan_records"
  /\ bytes = scan[cur]
  /\ DropRecords(ChunksAt(Victims(cur)))
  /\ torn' = torn \cup Victims(cur)
  /\ Goto("orphan_documents")
  /\ UNCHANGED <<docs, assets, chunks, lance, rev, run, env>>

OrphanDocuments ==
  /\ pc = "orphan_documents"
  /\ DropDocuments(Victims(cur))
  /\ torn' = torn \ Victims(cur)
  /\ Goto("put_asset")
  /\ UNCHANGED <<assets, pending, committed, lance, rev, run, env>>

\* The stale row is deleted and the new one upserted ON CONFLICT(asset_id).
PutAsset ==
  /\ pc = "put_asset"
  /\ assets' = [a \in Contents |-> IF a = scan[cur] THEN cur
                                   ELSE IF a \in StaleAssets(cur) THEN NoPath
                                   ELSE assets[a]]
  /\ Goto("put_document")
  /\ UNCHANGED <<docs, chunks, pending, committed, lance, rev, run, torn, env>>

\* The upsert handles a conflict on doc_id only, and workspace_path is UNIQUE.
PathTaken(p) == docs[p] # NoDoc /\ ~SameDocId(docs[p], NewRow(p))

PutDocument ==
  /\ pc = "put_document"
  /\ ~PathTaken(cur)
  /\ docs' = [docs EXCEPT ![cur] = NewRow(cur)]
  /\ torn' = torn \cup {cur}
  /\ Goto("put_chunks")
  /\ UNCHANGED <<assets, chunks, pending, committed, lance, rev, run, env>>

DocumentConflict ==
  /\ pc = "put_document"
  /\ PathTaken(cur)
  /\ ItemError
  /\ UNCHANGED <<store, rev, torn, env>>

PutChunks ==
  /\ pc = "put_chunks"
  /\ DropRecords(ChunksAt({cur}))
  /\ chunks' = (chunks \ ChunksAt({cur})) \cup {NewChunk(cur)}
  /\ torn' = IF VectorsOff THEN torn \ {cur} ELSE torn
  /\ Goto(IF cur \in StoreFirst THEN "purge_vectors" ELSE AfterStore)
  /\ UNCHANGED <<docs, assets, lance, rev, run, env>>

\* The three phases of VectorStore::upsert.
NewRecord(p) == [chunk |-> NewChunk(p), emb |-> cfg.emb]
NewVector(p) == [model |-> cfg.emb.model, chunk |-> NewChunk(p)]

StagePending ==
  /\ pc = "stage"
  /\ pending' = pending \cup {NewRecord(cur)}
  /\ committed' = committed \ {NewRecord(cur)}
  /\ Goto("merge")
  /\ UNCHANGED <<docs, assets, chunks, lance, rev, run, torn, env>>

MergeVectors ==
  /\ pc = "merge"
  /\ lance' = lance \cup {NewVector(cur)}
  /\ Goto("commit")
  /\ UNCHANGED <<docs, assets, chunks, pending, committed, rev, run, torn, env>>

MarkCommitted ==
  /\ pc = "commit"
  /\ committed' = committed \cup (pending \cap {NewRecord(cur)})
  /\ pending' = pending \ {NewRecord(cur)}
  /\ torn' = torn \ {cur}
  /\ Goto("report")
  /\ UNCHANGED <<docs, assets, chunks, lance, rev, run, env>>

\* Mutant: an indexed item does not count as a change.
ReportUncounted ==
  /\ pc = "report"
  /\ cur' = NoPath /\ bytes' = Absent
  /\ Goto("next")
  /\ UNCHANGED <<store, rev, scan, todo, doomed, force, changed, failed, cancelled, torn, env>>

\* The helper returns New or Updated, after touching the derivation cache.
ReportIndexed ==
  /\ pc = "report"
  /\ changed' = TRUE
  /\ cur' = NoPath /\ bytes' = Absent
  /\ Goto("next")
  /\ UNCHANGED <<store, rev, scan, todo, doomed, force, failed, cancelled, torn, env>>

-----------------------------------------------------------------------------
(* What may happen to a run *)

AssetSteps == {"check", "bump_records", "bump_document", "read", "purge_vectors",
               "orphan_records", "orphan_documents", "put_asset", "put_document",
               "put_chunks", "stage", "merge", "commit", "report"}
RunSteps == {"sweep", "sweep_document", "flush", "next", "finish"} \cup AssetSteps

\* Any `?` of the per-asset helper: the loop records an Error item and goes on.
ItemFails ==
  /\ pc \in AssetSteps
  /\ Spend("fail")
  /\ ItemError
  /\ UNCHANGED <<store, rev, torn, disk, cfg, cursor>>

\* purge_deleted_workspace_path fails half way: logged, not counted, chunk ids lost.
SweepFails ==
  /\ pc = "sweep_document"
  /\ Spend("fail")
  /\ cur' = NoPath
  /\ Goto("sweep")
  /\ UNCHANGED <<store, rev, scan, todo, bytes, doomed, force, changed, failed,
                 cancelled, torn, disk, cfg, cursor>>

\* flush_vector_deletes is best effort: the buffer is cleared either way.
FlushFails ==
  /\ pc = "flush"
  /\ Spend("fail")
  /\ doomed' = {}
  /\ Goto("sweep")
  /\ UNCHANGED <<store, rev, scan, todo, cur, bytes, force, changed, failed,
                 cancelled, torn, disk, cfg, cursor>>

\* A failed bump_corpus_revision is only warned about.
BumpRevisionFails ==
  /\ pc = "finish"
  /\ changed
  /\ Spend("fail")
  /\ EndRun
  /\ UNCHANGED <<store, rev, torn, disk, cfg, cursor>>

Crash ==
  /\ pc # "idle"
  /\ Spend("crash")
  /\ EndRun
  /\ UNCHANGED <<store, rev, torn, disk, cfg, cursor>>

\* Ctrl-C; the asset in hand still finishes.
Cancel ==
  /\ pc # "idle" /\ ~cancelled
  /\ Spend("cancel")
  /\ cancelled' = TRUE
  /\ UNCHANGED <<store, rev, pc, scan, todo, cur, bytes, doomed, force, changed, failed,
                 torn, disk, cfg, cursor>>

\* The user saves, creates or deletes a file; during a run only with "race".
EditFile(p, c) ==
  /\ c # disk[p]
  /\ c = Absent \/ <<p, c>> \in Files
  /\ pc = "idle" \/ "race" \in Events
  /\ Spend("edit")
  /\ disk' = [disk EXCEPT ![p] = c]
  /\ UNCHANGED <<store, rev, pc, run, torn, cfg, cursor>>

\* Another build or another config file.  A process reads both once, at start.
ChangeConfig(c) ==
  /\ pc = "idle"
  /\ c # cfg
  /\ Spend("config")
  /\ cfg' = c
  /\ UNCHANGED <<store, rev, pc, run, torn, disk, cursor>>

\* `kebab reset --vector-only`: Lance directory and embedding_records.
ResetVectors ==
  /\ pc = "idle"
  /\ Spend("reset")
  /\ lance' = {} /\ pending' = {} /\ committed' = {}
  /\ torn' = torn \cup Stored
  /\ UNCHANGED <<docs, assets, chunks, rev, pc, run, disk, cfg, cursor>>

-----------------------------------------------------------------------------
(* A client paging through search results *)

\* filter_chunks: any committed record of a chunk that still exists will do.
Visible(v) == v.chunk \in chunks /\ \E r \in committed : r.chunk = v.chunk
CurrentView == [lexical |-> chunks, vector |-> {v \in lance : Visible(v)}]

\* search_with_opts returns a cursor that carries corpus_revision.
IssueCursor ==
  /\ "search" \in Events
  /\ cursor = NoCursor
  /\ cursor' = [rev |-> rev, view |-> CurrentView]
  /\ UNCHANGED <<store, rev, pc, run, torn, disk, cfg, budget>>

\* cursor::decode on the next page: stale_cursor.
RejectCursor ==
  /\ cursor # NoCursor
  /\ cursor.rev # rev
  /\ cursor' = NoCursor
  /\ UNCHANGED <<store, rev, pc, run, torn, disk, cfg, budget>>

-----------------------------------------------------------------------------
Init ==
  /\ disk \in [Paths -> Contents \cup {Absent}]
  /\ \A p \in Paths : disk[p] = Absent \/ <<p, disk[p]>> \in Files
  /\ cfg \in Config
  /\ docs = [p \in Paths |-> NoDoc]
  /\ assets = [a \in Contents |-> NoPath]
  /\ chunks = {} /\ pending = {} /\ committed = {} /\ lance = {}
  /\ rev = 0
  /\ pc = "idle"
  /\ scan = [p \in Paths |-> Absent]
  /\ todo = {} /\ doomed = {} /\ failed = {}
  /\ cur = NoPath /\ bytes = Absent
  /\ force = FALSE /\ changed = FALSE /\ cancelled = FALSE
  /\ torn = {}
  /\ cursor = NoCursor
  /\ budget = MaxEvents

Sweep ==
  \/ \E p \in Paths : SweepKeeps(p) \/ SweepRecords(p)
  \/ SweepDocument \/ FlushDoomed \/ SweepEnds

Asset ==
  \/ SkipUnchanged \/ Reprocess
  \/ BumpVectors \/ BumpRecords \/ BumpDocument
  \/ ReadBytes \/ ReadFails \/ PurgeVectors
  \/ ChecksumConflict \/ OrphanRecords \/ OrphanDocuments \/ PutAsset
  \/ PutDocument \/ DocumentConflict \/ PutChunks
  \/ StagePending \/ MergeVectors \/ MarkCommitted \/ ReportIndexed

RunStep == Sweep \/ (\E p \in Paths : NextAsset(p)) \/ Asset \/ LastAsset \/ Finish

Mishap == ItemFails \/ SweepFails \/ FlushFails \/ BumpRevisionFails \/ Crash \/ Cancel

User ==
  \/ \E f \in ForceModes, scope \in Scopes : StartRun(f, scope)
  \/ \E p \in Paths, c \in Contents \cup {Absent} : EditFile(p, c)
  \/ \E c \in Config : ChangeConfig(c)
  \/ ResetVectors \/ IssueCursor \/ RejectCursor

Next == RunStep \/ Mishap \/ User

Spec == Init /\ [][Next]_vars

\* A run that is not killed keeps executing; someone keeps calling `kebab ingest`.
RunFairness == WF_vars(RunStep)
UserFairness == WF_vars(StartRun(FALSE, Paths))
FairSpec == Spec /\ RunFairness /\ UserFairness

-----------------------------------------------------------------------------
(* Properties *)

\* Every variable holds what the schema or the process may put there.
TypeOK ==
  /\ disk \in [Paths -> Contents \cup {Absent}]
  /\ cfg \in Config
  /\ docs \in [Paths -> DocRow \cup {NoDoc}]
  /\ assets \in [Contents -> Paths \cup {NoPath}]
  /\ chunks \in SUBSET Chunk
  /\ pending \in SUBSET Record
  /\ committed \in SUBSET Record
  /\ lance \in SUBSET Vector
  /\ rev \in Nat
  /\ pc \in RunSteps \cup {"idle"}
  /\ scan \in [Paths -> Contents \cup {Absent}]
  /\ todo \in SUBSET Paths
  /\ cur \in Paths \cup {NoPath}
  /\ bytes \in Contents \cup {Absent}
  /\ doomed \in SUBSET Chunk
  /\ force \in BOOLEAN
  /\ changed \in BOOLEAN
  /\ failed \in SUBSET Paths
  /\ cancelled \in BOOLEAN
  /\ torn \in SUBSET Paths
  /\ cursor \in [rev: Nat, view: View] \cup {NoCursor}
  /\ budget \in Nat

\* The vectors a row promises: its chunk, and for an embedder of the stamped
\* version a committed record and the Lance row behind it.
Backed(p, e) ==
  /\ ChunkOf(p, docs[p]) \in chunks
  /\ e \in LexicalOnly \/ /\ [chunk |-> ChunkOf(p, docs[p]), emb |-> e] \in committed
                          /\ [model |-> e.model, chunk |-> ChunkOf(p, docs[p])] \in lance

\* A document row whose write was not interrupted is backed by both stores in
\* the version it is stamped with: every purge and upsert keeps them in step,
\* at every commit of a run and through crashes and failures elsewhere.
StampSound ==
  \A p \in Stored \ torn :
    \E e \in Embedders : e.version = docs[p].version /\ Backed(p, e)

\* try_skip_unchanged: "a wrong skip would corrupt the index".  When it skips a
\* file, the file is searchable with the embedder of this run.
SkipIsSound ==
  pc = "check" /\ Unchanged(cur) => Backed(cur, cfg.emb)

\* At the end of a run every scanned file not reported as an Error item nor
\* left behind by a cancel has its current content under the current settings
\* and is searchable: the counts New, Updated and Unchanged mean what they say.
ReportedAreIndexed ==
  pc = "finish" =>
    \A p \in Paths \ (todo \cup failed) :
      scan[p] # Absent => docs[p] = NewRow(p) /\ Backed(p, cfg.emb)

\* V011 dropped the foreign key from embedding_records to chunks: each deletion
\* must name the records itself.  No record outlives its chunk at any commit.
RecordsHaveChunks ==
  \A r \in pending \cup committed : r.chunk \in chunks

\* documents.asset_id REFERENCES assets: no purge of an asset row, of one twin
\* or of a stale content, takes away the row another document refers to.
DocumentsHaveAssets ==
  \A p \in Stored : assets[docs[p].content] # NoPath

\* idx_assets_workspace_path is UNIQUE and the upsert handles a conflict on
\* asset_id only: two contents never claim one path.
AssetPathsUnique ==
  \A a, b \in Contents : assets[a] = assets[b] /\ assets[a] # NoPath => a = b

\* idx_docs_workspace_path is UNIQUE and put_document handles a conflict on
\* doc_id only: the purges before it always leave the path free.
PathIsFree ==
  pc = "put_document" => ~PathTaken(cur)

\* try_skip_unchanged: "each twin has its own stable row".  A step removes the
\* row of the path in hand and no other path's.
RowStable ==
  [][\A p \in Paths : docs[p] # NoDoc /\ docs'[p] = NoDoc => p = cur]_vars

\* Between runs every Lance row belongs to a chunk that still exists, so no
\* vector is out of reach of every later delete_by_chunk_ids.
NoOrphanVectors ==
  pc = "idle" => \A v \in lance : v.chunk \in chunks

\* A cursor still accepted between runs was issued over the corpus as it is
\* now: what commits also moves corpus_revision.
CursorHonest ==
  pc = "idle" /\ cursor # NoCursor /\ cursor.rev = rev
    => cursor.view = CurrentView

\* Every run ends.
RunTerminates == pc # "idle" ~> pc = "idle"

\* Deleted files are gone and present ones searchable once nobody edits.
InStep(p) ==
  IF disk[p] = Absent THEN docs[p] = NoDoc
  ELSE docs[p] # NoDoc /\ docs[p].content = disk[p] /\ Backed(p, cfg.emb)
Converges == <>[](\A p \in Paths : InStep(p))

=============================================================================
