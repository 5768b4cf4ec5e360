----------------------------- MODULE IngestInv -----------------------------
(***************************************************************************)
(* The inductive strengthening behind the safety properties of Ingest.     *)
(* Each conjunct says what a run may rely on at a label because an earlier *)
(* step of the same asset put it there.                                    *)
(***************************************************************************)
EXTENDS Ingest

\* The path in hand is a scanned file in the asset steps, a stored path in the
\* sweep; the paths still to come were scanned.
Located ==
  /\ pc \in AssetSteps => cur \in Paths /\ scan[cur] \in Contents
  /\ pc = "sweep_document" => cur \in Paths
  /\ pc \in AssetSteps \cup {"next"} => \A p \in todo : scan[p] \in Contents

\* Records go before the rows they hang from, documents before their asset.
Ordered ==
  /\ pc = "orphan_documents" =>
       \A r \in pending \cup committed : r.chunk.path \notin Victims(cur)
  /\ pc \in {"sweep_document", "bump_document"} =>
       \A r \in pending \cup committed : r.chunk.path # cur
  /\ pc = "put_asset" => Victims(cur) = {}
  /\ pc \in {"put_document", "put_chunks"} \/ (pc = "purge_vectors" /\ cur \in StoreFirst)
       => assets[scan[cur]] = cur

References ==
  /\ AssetPathsUnique
  /\ DocumentsHaveAssets
  /\ RecordsHaveChunks

\* What has been written of the document in hand, and that it counts as torn
\* until the last phase of the upsert.
Written ==
  /\ pc \in {"put_chunks", "stage", "merge", "commit"} =>
       docs[cur] = NewRow(cur) /\ cur \in torn
  /\ pc = "purge_vectors" /\ cur \in StoreFirst =>
       docs[cur] = NewRow(cur) /\ (VectorsOff \/ cur \in torn)
  /\ pc \in {"stage", "merge", "commit"} \/ (pc = "purge_vectors" /\ cur \in StoreFirst) =>
       NewChunk(cur) \in chunks
  /\ pc \in {"merge", "commit"} => NewRecord(cur) \in pending
  /\ pc = "commit" => NewVector(cur) \in lance
  /\ pc = "bump_records" => cur \in torn

\* The sweep buffers only chunks that are gone, and flushes before it ends.
Buffered ==
  /\ doomed \cap chunks = {}
  /\ pc \notin {"sweep", "sweep_document", "flush"} => doomed = {}

IInv ==
  /\ TypeOK
  /\ Located
  /\ Ordered
  /\ References
  /\ Written
  /\ Buffered
  /\ StampSound

-----------------------------------------------------------------------------
(* Without faults nothing stays torn. *)

FaultFree == Events \cap Faults = {}

\* An embedding version is bumped whenever the model is changed.
VersionNamesModel == \A e, f \in Embedders : e.version = f.version => e = f

\* Nobody edits during a run, so the scan is what is on disk.
ScanIsDisk ==
  pc # "idle" => \A p \in Paths : scan[p] # Absent => scan[p] = disk[p]

\* What may be torn at a label: the document in hand, or the victims of its purge.
InFlight ==
  IF pc \in {"sweep_document", "bump_records", "bump_document",
             "put_chunks", "stage", "merge", "commit"}
     \/ (pc = "purge_vectors" /\ cur \in StoreFirst /\ ~VectorsOff)
  THEN {cur}
  ELSE IF pc \in {"orphan_records", "orphan_documents"} THEN Victims(cur)
  ELSE {}

ReadIsScan ==
  pc = "orphan_records" \/ (pc = "purge_vectors" /\ cur \notin StoreFirst)
    => bytes = scan[cur]

FaultFreeInv ==
  /\ IInv
  /\ ScanIsDisk
  /\ ReadIsScan
  /\ torn \subseteq InFlight

-----------------------------------------------------------------------------
(* What a history must be free of for the other properties to hold. *)

\* No two paths ever hold the same content.
NoTwins == \A f, g \in Files : f[2] = g[2] => f[1] = g[1]

\* Nobody passes --force-reingest.
NoForcing == TRUE \notin ForceModes

\* The chunker version never changes.
OneChunker == \A c, d \in Chunkers : c = d

\* Nothing crashes or fails; races and vector resets may happen.
Unfailing == Events \cap {"crash", "fail"} = {}

\* What a path is recorded with, anywhere, is a content the path once held.
RecordedContents ==
  /\ \A p \in Paths : disk[p] # Absent => <<p, disk[p]>> \in Files
  /\ \A p \in Paths : scan[p] # Absent => <<p, scan[p]>> \in Files
  /\ \A a \in Contents : assets[a] # NoPath => <<assets[a], a>> \in Files
  /\ \A p \in Stored : <<p, docs[p].content>> \in Files

\* From the read to the upsert, a row with the scanned content is in the
\* parser version of this run: an older one was purged by the skip check.
RowFits ==
  pc \in {"read", "purge_vectors", "orphan_records", "orphan_documents",
          "put_asset", "put_document"} /\ docs[cur] # NoDoc /\ docs[cur].content = scan[cur]
    => SameParser(docs[cur])

UnforcedInv ==
  /\ IInv
  /\ ~force
  /\ RowFits

\* Past the orphan purge the upsert finds no other document at its path.
PathFreeInv ==
  /\ UnforcedInv
  /\ RecordedContents
  /\ pc \in {"put_asset", "put_document"} => ~PathTaken(cur)

\* Labels at which a run may have written what it has not yet counted.
Uncounted == (AssetSteps \ {"check"}) \cup {"sweep_document"}

\* A cursor of this revision shows the corpus as it is, unless the run in
\* progress is about to move the revision.
CursorInv ==
  /\ pc = "idle" => ~changed
  /\ cursor # NoCursor =>
       /\ cursor.rev <= rev
       /\ cursor.rev = rev => changed \/ pc \in Uncounted \/ cursor.view = CurrentView

\* A chunk is the one its document row describes.
ChunksAreRows ==
  \A ch \in chunks : docs[ch.path] # NoDoc /\ ch = ChunkOf(ch.path, docs[ch.path])

\* A Lance row's chunk exists or is buffered for a delete; the vectors of a
\* purge are gone before its chunks.
VectorsFollow ==
  /\ \A v \in lance : v.chunk \in chunks \cup doomed
  /\ pc \in {"orphan_records", "orphan_documents"} =>
       \A v \in lance : v.chunk.path \notin Victims(cur)
  /\ pc \in {"bump_records", "bump_document"} => \A v \in lance : v.chunk.path # cur

NoOrphanInv ==
  /\ UnforcedInv
  /\ ChunksAreRows
  /\ VectorsFollow

\* What an item reported as New, Updated or Unchanged promises.
Indexed(p) == docs[p] = NewRow(p) /\ Backed(p, cfg.emb)

\* The paths behind the loop are reported, in error, or indexed.
ReportInv ==
  /\ pc \notin AssetSteps \cup {"sweep_document"} => cur = NoPath
  /\ pc = "report" => Indexed(cur)
  /\ pc \in AssetSteps \cup {"next", "finish"} =>
       \A p \in Paths \ (todo \cup failed \cup {cur}) : scan[p] # Absent => Indexed(p)

=============================================================================
