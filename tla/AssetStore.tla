----------------------------- MODULE AssetStore -----------------------------
(***************************************************************************)
(* The bytes behind the `assets` rows: put_asset_with_bytes (temporary     *)
(* file, row, rename), the purge of the asset an edited file leaves        *)
(* behind, and purge_deleted_workspace_path.  The connection mutex is held *)
(* over the SQL of one call, but every statement commits by itself and     *)
(* processes share no lock, so statements, file operations and crashes of  *)
(* two processes interleave.                                               *)
(***************************************************************************)
EXTENDS Naturals, FiniteSets

CONSTANTS
  Writers,     \* processes that ingest
  Assets,      \* asset ids (contents)
  Large,       \* contents above copy_threshold_bytes: stored by reference
  Places,      \* workspace paths
  Unset,
  MaxPuts,     \* bound: puts and purges
  MaxMishaps   \* bound: crashes and failing steps

ASSUME AssetAssumption ==
  /\ Large \subseteq Assets
  /\ Unset \notin Assets /\ Unset \notin Places
  /\ MaxPuts \in Nat /\ MaxMishaps \in Nat

VARIABLES
  assetAt,    \* assets: asset -> workspace_path, Unset without a row
  docOf,      \* documents: workspace_path -> asset_id, Unset without a row
  files,      \* assets whose file is in place under data_dir/assets
  temps,      \* temporary files: [writer, asset]
  putPc,      \* the next statement of each writer, "idle" between calls
  putAsset,   \* the asset of the call
  putPath,    \* its workspace path
  staleAsset, \* the row of another asset found at that path
  exposed,    \* ghost: assets whose row may stand without its file
  leaked,     \* ghost: assets whose file may stand without a row
  puts,       \* calls left
  mishaps     \* mishaps left

putLocals == <<putAsset, putPath, staleAsset>>
putBound  == <<puts, mishaps>>
assetVars == <<assetAt, docOf, files, temps, putPc, putLocals, exposed, leaked, putBound>>

AssetInit ==
  /\ assetAt = [a \in Assets |-> Unset]
  /\ docOf = [q \in Places |-> Unset]
  /\ files = {} /\ temps = {}
  /\ putPc = [w \in Writers |-> "idle"]
  /\ putAsset = [w \in Writers |-> Unset]
  /\ putPath = [w \in Writers |-> Unset]
  /\ staleAsset = [w \in Writers |-> Unset]
  /\ exposed = {} /\ leaked = {}
  /\ puts = MaxPuts
  /\ mishaps = MaxMishaps

PutGoto(w, label) == putPc' = [putPc EXCEPT ![w] = label]

Copied(a) == a \notin Large
HasAssetRow(a) == assetAt[a] # Unset

PutReturn(w) ==
  /\ PutGoto(w, "idle")
  /\ putAsset' = [putAsset EXCEPT ![w] = Unset]
  /\ putPath' = [putPath EXCEPT ![w] = Unset]
  /\ staleAsset' = [staleAsset EXCEPT ![w] = Unset]

-----------------------------------------------------------------------------
(* put_asset_with_bytes and the document row that follows it *)

BeginPut(w) ==
  /\ putPc[w] = "idle" /\ puts > 0
  /\ puts' = puts - 1
  /\ \E a \in Assets, q \in Places :
       /\ putAsset' = [putAsset EXCEPT ![w] = a]
       /\ putPath' = [putPath EXCEPT ![w] = q]
       /\ PutGoto(w, IF Copied(a) THEN "write" ELSE "find")
  /\ UNCHANGED <<assetAt, docOf, files, temps, staleAsset, exposed, leaked, mishaps>>

\* Created next to its destination, written and fsynced.
WriteTemp(w) ==
  /\ putPc[w] = "write"
  /\ temps' = temps \cup {[writer |-> w, asset |-> putAsset[w]]}
  /\ PutGoto(w, "find")
  /\ UNCHANGED <<assetAt, docOf, files, putLocals, exposed, leaked, putBound>>

StaleAt(q, a) == {b \in Assets : assetAt[b] = q /\ b # a}

FindStale(w) ==
  /\ putPc[w] = "find"
  /\ LET found == StaleAt(putPath[w], putAsset[w]) IN
       IF found = {}
       THEN PutGoto(w, "upsert") /\ UNCHANGED staleAsset
       ELSE /\ \E b \in found : staleAsset' = [staleAsset EXCEPT ![w] = b]
            /\ PutGoto(w, "drop_docs")
  /\ UNCHANGED <<assetAt, docOf, files, temps, putAsset, putPath, exposed, leaked, putBound>>

\* Its documents at every path, with all that cascades.
DropStaleDocs(w) ==
  /\ putPc[w] = "drop_docs"
  /\ docOf' = [q \in Places |-> IF docOf[q] = staleAsset[w] THEN Unset ELSE docOf[q]]
  /\ PutGoto(w, "drop_row")
  /\ UNCHANGED <<assetAt, files, temps, putLocals, exposed, leaked, putBound>>

Referenced(a) == \E q \in Places : docOf[q] = a

\* DELETE FROM assets, unless a document has come to refer to it (ON DELETE RESTRICT).
DropStaleRow(w) ==
  /\ putPc[w] = "drop_row"
  /\ ~Referenced(staleAsset[w])
  /\ assetAt' = [assetAt EXCEPT ![staleAsset[w]] = Unset]
  /\ PutGoto(w, IF Copied(staleAsset[w]) THEN "unlink" ELSE "upsert")
  /\ UNCHANGED <<docOf, files, temps, putLocals, exposed, leaked, putBound>>

\* A process that stored the same content again in the meantime loses its file.
Unlink(a) ==
  /\ files' = files \ {a}
  /\ exposed' = IF HasAssetRow(a) THEN exposed \cup {a} ELSE exposed
  /\ leaked' = leaked \ {a}

\* Mutant: the file is left where it is.
UnlinkSkipped(w) ==
  /\ putPc[w] = "unlink"
  /\ PutGoto(w, "upsert")
  /\ UNCHANGED <<assetAt, docOf, files, temps, putLocals, exposed, leaked, putBound>>

UnlinkStale(w) ==
  /\ putPc[w] = "unlink"
  /\ Unlink(staleAsset[w])
  /\ PutGoto(w, "upsert")
  /\ UNCHANGED <<assetAt, docOf, temps, putLocals, putBound>>

\* `let _ = remove_file(..)`: the error is dropped.
UnlinkFails(w) ==
  /\ putPc[w] \in {"unlink", "purge_unlink"}
  /\ mishaps > 0 /\ mishaps' = mishaps - 1
  /\ leaked' = leaked \cup {staleAsset[w]}
  /\ IF putPc[w] = "unlink"
     THEN PutGoto(w, "upsert") /\ UNCHANGED putLocals
     ELSE PutReturn(w)
  /\ UNCHANGED <<assetAt, docOf, files, temps, exposed, puts>>

PathTaken(w) == \E b \in Assets \ {putAsset[w]} : assetAt[b] = putPath[w]

UpsertRow(w) ==
  /\ putPc[w] = "upsert"
  /\ ~PathTaken(w)
  /\ assetAt' = [assetAt EXCEPT ![putAsset[w]] = putPath[w]]
  /\ PutGoto(w, IF Copied(putAsset[w]) THEN "rename" ELSE "document")
  /\ UNCHANGED <<docOf, files, temps, putLocals, exposed, leaked, putBound>>

\* Without a row the file just put in place is one nobody will look for.
Rename(w) ==
  /\ putPc[w] = "rename"
  /\ files' = files \cup {putAsset[w]}
  /\ temps' = temps \ {[writer |-> w, asset |-> putAsset[w]]}
  /\ exposed' = exposed \ {putAsset[w]}
  /\ leaked' = IF HasAssetRow(putAsset[w]) THEN leaked ELSE leaked \cup {putAsset[w]}
  /\ PutGoto(w, "document")
  /\ UNCHANGED <<assetAt, docOf, putLocals, putBound>>

\* Mutant: the cleanup of a failed put removes the destination as well.
RemoveBoth(w) ==
  /\ temps' = {t \in temps : t.writer # w}
  /\ files' = files \ {putAsset[w]}

RemoveTemp(w) ==
  /\ temps' = {t \in temps : t.writer # w}
  /\ UNCHANGED files

\* A constraint of the schema refuses the statement.
Refuses(w) ==
  \/ putPc[w] = "drop_row" /\ Referenced(staleAsset[w])
  \/ putPc[w] = "upsert" /\ PathTaken(w)

\* Some step of the put returns an error: the temporary file is removed, the row stays.
PutFails(w) ==
  /\ putPc[w] \in {"write", "find", "drop_docs", "drop_row", "upsert", "rename"}
  /\ IF Refuses(w)
     THEN UNCHANGED mishaps
     ELSE mishaps > 0 /\ mishaps' = mishaps - 1
  /\ RemoveTemp(w)
  /\ exposed' = IF putPc[w] = "rename" /\ HasAssetRow(putAsset[w]) /\ putAsset[w] \notin files
                THEN exposed \cup {putAsset[w]} ELSE exposed
  /\ PutReturn(w)
  /\ UNCHANGED <<assetAt, docOf, leaked, puts>>

\* put_document; documents.asset_id REFERENCES assets.
StoreDocument(w) ==
  /\ putPc[w] = "document"
  /\ docOf' = IF HasAssetRow(putAsset[w]) THEN [docOf EXCEPT ![putPath[w]] = putAsset[w]] ELSE docOf
  /\ PutReturn(w)
  /\ UNCHANGED <<assetAt, files, temps, exposed, leaked, putBound>>

-----------------------------------------------------------------------------
(* purge_deleted_workspace_path *)

BeginPurge(w) ==
  /\ putPc[w] = "idle" /\ puts > 0
  /\ puts' = puts - 1
  /\ \E q \in Places :
       /\ docOf[q] # Unset
       /\ putPath' = [putPath EXCEPT ![w] = q]
       /\ staleAsset' = [staleAsset EXCEPT ![w] = docOf[q]]
  /\ PutGoto(w, "purge_doc")
  /\ UNCHANGED <<assetAt, docOf, files, temps, putAsset, exposed, leaked, mishaps>>

PurgeDocument(w) ==
  /\ putPc[w] = "purge_doc"
  /\ docOf' = IF docOf[putPath[w]] = staleAsset[w] THEN [docOf EXCEPT ![putPath[w]] = Unset] ELSE docOf
  /\ PutGoto(w, "purge_row")
  /\ UNCHANGED <<assetAt, files, temps, putLocals, exposed, leaked, putBound>>

\* A twin keeps the asset.
PurgeShared(w) ==
  /\ putPc[w] = "purge_row"
  /\ Referenced(staleAsset[w])
  /\ PutReturn(w)
  /\ UNCHANGED <<assetAt, docOf, files, temps, exposed, leaked, putBound>>

PurgeRow(w) ==
  /\ putPc[w] = "purge_row"
  /\ ~Referenced(staleAsset[w])
  /\ assetAt' = [assetAt EXCEPT ![staleAsset[w]] = Unset]
  /\ IF HasAssetRow(staleAsset[w]) /\ Copied(staleAsset[w])
     THEN PutGoto(w, "purge_unlink") /\ UNCHANGED putLocals
     ELSE PutReturn(w)
  /\ UNCHANGED <<docOf, files, temps, exposed, leaked, putBound>>

PurgeUnlink(w) ==
  /\ putPc[w] = "purge_unlink"
  /\ Unlink(staleAsset[w])
  /\ PutReturn(w)
  /\ UNCHANGED <<assetAt, docOf, temps, putBound>>

\* The process is killed; nothing cleans its temporary file up.
WriterCrash(w) ==
  /\ putPc[w] # "idle"
  /\ mishaps > 0 /\ mishaps' = mishaps - 1
  /\ exposed' = IF putPc[w] = "rename" /\ HasAssetRow(putAsset[w]) /\ putAsset[w] \notin files
                THEN exposed \cup {putAsset[w]} ELSE exposed
  /\ leaked' = IF putPc[w] \in {"unlink", "purge_unlink"} THEN leaked \cup {staleAsset[w]} ELSE leaked
  /\ PutReturn(w)
  /\ UNCHANGED <<assetAt, docOf, files, temps, puts>>

AssetNext == \E w \in Writers :
  \/ BeginPut(w) \/ WriteTemp(w) \/ FindStale(w) \/ DropStaleDocs(w) \/ DropStaleRow(w)
  \/ UnlinkStale(w) \/ UnlinkFails(w) \/ UpsertRow(w) \/ Rename(w) \/ PutFails(w)
  \/ StoreDocument(w) \/ BeginPurge(w) \/ PurgeDocument(w) \/ PurgeShared(w) \/ PurgeRow(w)
  \/ PurgeUnlink(w) \/ WriterCrash(w)

AssetSpec == AssetInit /\ [][AssetNext]_assetVars

-----------------------------------------------------------------------------
(* Properties *)

PutSteps == {"idle", "write", "find", "drop_docs", "drop_row", "unlink", "upsert", "rename",
             "document", "purge_doc", "purge_row", "purge_unlink"}

AssetTypeOK ==
  /\ assetAt \in [Assets -> Places \cup {Unset}]
  /\ docOf \in [Places -> Assets \cup {Unset}]
  /\ files \subseteq Assets
  /\ temps \subseteq [writer: Writers, asset: Assets]
  /\ putPc \in [Writers -> PutSteps]
  /\ putAsset \in [Writers -> Assets \cup {Unset}]
  /\ putPath \in [Writers -> Places \cup {Unset}]
  /\ staleAsset \in [Writers -> Assets \cup {Unset}]
  /\ exposed \subseteq Assets /\ leaked \subseteq Assets
  /\ puts \in Nat /\ mishaps \in Nat

Renaming(a) == \E w \in Writers : putPc[w] = "rename" /\ putAsset[w] = a
Unlinking(a) == \E w \in Writers : putPc[w] \in {"unlink", "purge_unlink"} /\ staleAsset[w] = a

\* A row stored in copy mode has its bytes, or its writer is about to rename them into
\* place, unless that writer failed or crashed at that very point or another process
\* unlinked what this one had just stored again; a later put heals both.
RowsHaveBytes ==
  \A a \in Assets \ exposed : HasAssetRow(a) /\ Copied(a) => a \in files \/ Renaming(a)

\* No copied file outlives its row, unless the unlink failed or its process crashed,
\* or the row was purged by another process before the rename; a temporary file
\* belongs to a put under way or to one that crashed.
NoBytesLeak ==
  /\ \A a \in files \ leaked : HasAssetRow(a) \/ Unlinking(a)
  /\ mishaps = MaxMishaps =>
       \A t \in temps : putAsset[t.writer] = t.asset /\ putPc[t.writer] \notin {"idle", "write"}

\* The directory of copies follows the rows of the assets table: neither a row without
\* its bytes nor bytes without a row, but where a failure leaves one.
BytesFollowRows == RowsHaveBytes /\ NoBytesLeak

=============================================================================
