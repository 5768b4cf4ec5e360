----------------------------- MODULE VectorStore -----------------------------
(***************************************************************************)
(* LanceVectorStore under several processes (`kebab ingest`, `kebab mcp`)  *)
(* that share one Lance directory and one SQLite file and hold no lock.    *)
(*                                                                         *)
(* An upsert is three commits: records staged as pending, Lance            *)
(* MergeInsert, records marked committed.  A delete visits every table in  *)
(* batches of ids.  Either may then compact a table, by its own version    *)
(* arithmetic, and prune files no manifest names yet, which is where one   *)
(* process meets another.  Processes write different documents.            *)
(***************************************************************************)
EXTENDS Naturals, FiniteSets

CONSTANTS
  Procs,         \* processes
  Chunks,        \* chunk ids
  Own,           \* Procs -> the chunk ids of the documents each writes
  Tables,        \* lance_table_name of the models in use, as rank in table_names()
  DimOf,         \* Tables -> dimension of the embedding column
  Embedders,     \* [table, version]: two model versions share a table
  None,
  CompactEvery,  \* COMPACT_EVERY_N_UPSERTS
  DeleteBatch,   \* ids of one Lance delete
  MaxCalls,      \* bound: upserts and purges begun
  MaxFaults      \* bound: crashes, conflicts and failed compactions

Versions == {e.version : e \in Embedders}
Pair     == [chunk: Chunks, emb: Embedders]

ASSUME VectorAssumption ==
  /\ Own \in [Procs -> SUBSET Chunks]
  /\ \A p, q \in Procs : p # q => Own[p] \cap Own[q] = {}
  /\ Tables \subseteq Nat
  /\ DimOf \in [Tables -> Nat]
  /\ \A e \in Embedders : e = [table |-> e.table, version |-> e.version] /\ e.table \in Tables
  /\ None \notin Versions /\ None \notin Embedders /\ None \notin Tables
  /\ None \notin [batch: SUBSET Chunks, emb: Embedders]
  /\ CompactEvery \in Nat \ {0}
  /\ DeleteBatch \in Nat \ {0}
  /\ MaxCalls \in Nat
  /\ MaxFaults \in Nat

VARIABLES
  pending,    \* embedding_records with status 'pending'
  committed,  \* embedding_records with status 'committed'
  version,    \* Lance version of each table, 0 while it does not exist
  vec,        \* table -> chunk -> the model version its row was embedded with
  frags,      \* commits of a table since it was last compacted
  pc,         \* the next step of each process, "idle" between calls
  batch,      \* the chunk ids of the call
  emb,        \* the embedder of an upsert
  base,       \* version_before of each table the call touches, 0 elsewhere
  todo,       \* tables a delete has not visited yet
  at,         \* the table it is visiting
  left,       \* ids it has not deleted from that table
  after,      \* where the call goes once its tables are compacted
  pruned,     \* ghost: processes whose staged files another one reclaimed
  bereft,     \* ghost: chunks whose vectors went from under their records
  disturbed,  \* ghost: a call did not reach the end of its compaction
  calls,      \* calls left
  faults      \* faults left

records == <<pending, committed>>
lance   == <<version, vec, frags>>
call    == <<batch, emb, base, todo, at, left, after>>
ghost   == <<pruned, bereft, disturbed>>
bound   == <<calls, faults>>
vars    == <<records, lance, pc, call, ghost, bound>>

PairsOf(cs)  == {r \in Pair : r.chunk \in cs}
BatchOf(p)   == {r \in Pair : r.chunk \in batch[p] /\ r.emb = emb[p]}
Exists(t)    == version[t] > 0
NoBase       == [t \in Tables |-> 0]

Init ==
  /\ pending = {} /\ committed = {}
  /\ version = [t \in Tables |-> 0]
  /\ vec = [t \in Tables |-> [c \in Chunks |-> None]]
  /\ frags = [t \in Tables |-> 0]
  /\ pc = [p \in Procs |-> "idle"]
  /\ batch = [p \in Procs |-> {}]
  /\ emb = [p \in Procs |-> None]
  /\ base = [p \in Procs |-> NoBase]
  /\ todo = [p \in Procs |-> {}]
  /\ at = [p \in Procs |-> None]
  /\ left = [p \in Procs |-> {}]
  /\ after = [p \in Procs |-> "idle"]
  /\ pruned = {} /\ bereft = {} /\ disturbed = FALSE
  /\ calls = MaxCalls
  /\ faults = MaxFaults

-----------------------------------------------------------------------------
(* Steps every call has *)

Goto(p, label) == pc' = [pc EXCEPT ![p] = label]

\* The call returns, with or without an error; its locals are gone.
Return(p) ==
  /\ Goto(p, "idle")
  /\ batch' = [batch EXCEPT ![p] = {}]
  /\ emb' = [emb EXCEPT ![p] = None]
  /\ base' = [base EXCEPT ![p] = NoBase]
  /\ todo' = [todo EXCEPT ![p] = {}]
  /\ at' = [at EXCEPT ![p] = None]
  /\ left' = [left EXCEPT ![p] = {}]
  /\ after' = [after EXCEPT ![p] = "idle"]
  /\ pruned' = pruned \ {p}

Fault == faults > 0 /\ faults' = faults - 1 /\ UNCHANGED calls

\* A process begins a call.
Begin(p) ==
  /\ pc[p] = "idle"
  /\ calls > 0
  /\ calls' = calls - 1
  /\ UNCHANGED faults

\* Deleting embedding_records of some chunks, as put_chunks and every purge do.
DropRecords(cs) ==
  /\ pending' = pending \ PairsOf(cs)
  /\ committed' = committed \ PairsOf(cs)
  /\ bereft' = bereft \ cs

\* A Lance commit that writes rows.
Written(t) ==
  /\ version' = [version EXCEPT ![t] = @ + 1]
  /\ frags' = [frags EXCEPT ![t] = @ + 1]

-----------------------------------------------------------------------------
(* upsert, after put_chunks has replaced the chunks of a document *)

\* No records, or no ids: the call returns at once.
EmptyCall(p) ==
  /\ pc[p] = "idle"
  /\ UNCHANGED vars

Upsert(p) ==
  /\ Begin(p)
  /\ \E cs \in SUBSET Own[p] \ {{}}, e \in Embedders :
       /\ DropRecords(cs)
       /\ batch' = [batch EXCEPT ![p] = cs]
       /\ emb' = [emb EXCEPT ![p] = e]
  /\ Goto(p, "open")
  /\ UNCHANGED <<lance, base, todo, at, left, after, pruned, disturbed>>

OpenTable(p) ==
  /\ pc[p] = "open"
  /\ Goto(p, IF Exists(emb[p].table) THEN "stage" ELSE "create")
  /\ UNCHANGED <<records, lance, call, ghost, bound>>

CreateTable(p) ==
  /\ pc[p] = "create"
  /\ ~Exists(emb[p].table)
  /\ version' = [version EXCEPT ![emb[p].table] = 1]
  /\ Goto(p, "stage")
  /\ UNCHANGED <<records, vec, frags, call, ghost, bound>>

\* Another process created it between open_table and create_empty_table.
CreateRaced(p) ==
  /\ pc[p] = "create"
  /\ Exists(emb[p].table)
  /\ Return(p)
  /\ UNCHANGED <<records, lance, bereft, disturbed, bound>>

StagePending(p) ==
  /\ pc[p] = "stage"
  /\ pending' = pending \cup BatchOf(p)
  /\ committed' = committed \ BatchOf(p)
  /\ Goto(p, "begin")
  /\ UNCHANGED <<lance, call, ghost, bound>>

\* version_before is read, then Lance writes the fragments of the batch.
BeginMerge(p) ==
  /\ pc[p] = "begin"
  /\ base' = [base EXCEPT ![p][emb[p].table] = version[emb[p].table]]
  /\ Goto(p, "merge")
  /\ UNCHANGED <<records, lance, batch, emb, todo, at, left, after, ghost, bound>>

\* Mutant: only when_not_matched_insert_all.
InsertedRows(old, cs, v) ==
  [c \in Chunks |-> IF c \in cs /\ old[c] = None THEN v ELSE old[c]]

\* Mutant: the batch replaces the table.
BatchRows(old, cs, v) == [c \in cs |-> v]

MergedRows(old, cs, v) == [c \in Chunks |-> IF c \in cs THEN v ELSE old[c]]

\* Rows whose fragments were reclaimed meanwhile may be missing from the commit.
CommitMerge(p) ==
  /\ pc[p] = "merge"
  /\ \E holes \in SUBSET (IF p \in pruned THEN batch[p] ELSE {}) :
       /\ vec' = [vec EXCEPT ![emb[p].table] =
                    MergedRows(MergedRows(@, batch[p] \ holes, emb[p].version), holes, None)]
       /\ bereft' = bereft \cup holes
  /\ Written(emb[p].table)
  /\ Goto(p, "mark")
  /\ UNCHANGED <<records, call, pruned, disturbed, bound>>

\* Lance gave up on a commit that conflicts with another process's.  After a
\* merge the records stay pending; after a delete nothing is compacted.
Conflict(p) ==
  /\ \/ pc[p] = "merge" /\ version[emb[p].table] > base[p][emb[p].table]
     \/ pc[p] = "delete" /\ version[at[p]] > base[p][at[p]]
  /\ Fault
  /\ Return(p)
  /\ disturbed' = (disturbed \/ pc[p] = "delete")
  /\ UNCHANGED <<records, lance, bereft>>

\* Mutant: one UPDATE per row, outside a transaction.
MarkSomeCommitted(p) ==
  /\ pc[p] = "mark"
  /\ \E some \in SUBSET (pending \cap BatchOf(p)) :
       /\ committed' = committed \cup some
       /\ pending' = pending \ some
       /\ Goto(p, IF some = pending \cap BatchOf(p) THEN "compact" ELSE "mark")
  /\ UNCHANGED <<lance, call, ghost, bound>>

MarkCommitted(p) ==
  /\ pc[p] = "mark"
  /\ committed' = committed \cup (pending \cap BatchOf(p))
  /\ pending' = pending \ BatchOf(p)
  /\ pruned' = pruned \ {p}
  /\ Goto(p, "compact")
  /\ UNCHANGED <<lance, call, bereft, disturbed, bound>>

-----------------------------------------------------------------------------
(* delete_by_chunk_ids and the record deletion of its caller.  The sweep    *)
(* deletes records first, the purge of an image, PDF or code file vectors   *)
(* first.                                                                   *)

PurgeRecordsFirst(p) ==
  /\ Begin(p)
  /\ \E cs \in SUBSET Own[p] \ {{}} :
       /\ DropRecords(cs)
       /\ batch' = [batch EXCEPT ![p] = cs]
  /\ todo' = [todo EXCEPT ![p] = {t \in Tables : Exists(t)}]
  /\ Goto(p, "visit")
  /\ UNCHANGED <<lance, emb, base, at, left, after, pruned, disturbed>>

PurgeVectorsFirst(p) ==
  /\ Begin(p)
  /\ \E cs \in SUBSET Own[p] \ {{}} :
       /\ batch' = [batch EXCEPT ![p] = cs]
       /\ bereft' = bereft \cup cs
  /\ todo' = [todo EXCEPT ![p] = {t \in Tables : Exists(t)}]
  /\ after' = [after EXCEPT ![p] = "drop"]
  /\ Goto(p, "visit")
  /\ UNCHANGED <<records, lance, emb, base, at, left, pruned, disturbed>>

VisitTable(p) ==
  /\ pc[p] = "visit"
  /\ \E t \in todo[p] :
       /\ \A u \in todo[p] : t <= u
       /\ base' = [base EXCEPT ![p][t] = version[t]]
       /\ at' = [at EXCEPT ![p] = t]
       /\ todo' = [todo EXCEPT ![p] = @ \ {t}]
  /\ left' = [left EXCEPT ![p] = batch[p]]
  /\ Goto(p, "delete")
  /\ UNCHANGED <<records, lance, batch, emb, after, ghost, bound>>

DeleteRows(p) ==
  /\ pc[p] = "delete"
  /\ \E cs \in SUBSET left[p] :
       /\ Cardinality(cs) = IF Cardinality(left[p]) < DeleteBatch
                            THEN Cardinality(left[p]) ELSE DeleteBatch
       /\ vec' = [vec EXCEPT ![at[p]] = MergedRows(@, cs, None)]
       /\ left' = [left EXCEPT ![p] = @ \ cs]
       /\ Goto(p, IF left[p] = cs THEN "visit" ELSE "delete")
  /\ Written(at[p])
  /\ UNCHANGED <<records, batch, emb, base, todo, at, after, ghost, bound>>

VisitedAll(p) ==
  /\ pc[p] = "visit"
  /\ todo[p] = {}
  /\ Goto(p, "compact")
  /\ UNCHANGED <<records, lance, call, ghost, bound>>

PurgeRecordsLast(p) ==
  /\ pc[p] = "drop"
  /\ DropRecords(batch[p])
  /\ Return(p)
  /\ UNCHANGED <<lance, disturbed, bound>>

-----------------------------------------------------------------------------
(* maybe_compact, once per table the call wrote to *)

\* Mutant: the modulo form, which a write of several commits steps over.
LandedOnMultiple(v1, v2) == v2 % CompactEvery = 0

\* The quotients on either side of the write.
CrossedMultiple(v1, v2) == v2 \div CompactEvery > v1 \div CompactEvery

Pending(p, t) == pc[p] = "compact" /\ base[p][t] > 0

NotDue(p) ==
  /\ \E t \in Tables :
       /\ Pending(p, t)
       /\ ~CrossedMultiple(base[p][t], version[t])
       /\ base' = [base EXCEPT ![p][t] = 0]
  /\ UNCHANGED <<records, lance, pc, batch, emb, todo, at, left, after, ghost, bound>>

\* OptimizeAction::Compact rewrites the fragments as one more version.
Compact(p) ==
  /\ \E t \in Tables :
       /\ Pending(p, t)
       /\ CrossedMultiple(base[p][t], version[t])
       /\ version' = [version EXCEPT ![t] = @ + 1]
       /\ frags' = [frags EXCEPT ![t] = 0]
       /\ base' = [base EXCEPT ![p][t] = 0]
       /\ at' = [at EXCEPT ![p] = t]
  /\ Goto(p, "prune")
  /\ UNCHANGED <<records, vec, batch, emb, todo, left, after, ghost, bound>>

\* delete_unverified takes the staged files of a merge in flight for garbage.
Prune(p) ==
  /\ pc[p] = "prune"
  /\ pruned' = pruned \cup {q \in Procs \ {p} : pc[q] = "merge" /\ emb[q].table = at[p]}
  /\ Goto(p, "compact")
  /\ UNCHANGED <<records, lance, call, bereft, disturbed, bound>>

\* Compact fails, or a version read reports 0: a warning, and the call goes on.
CompactFails(p) ==
  /\ Fault
  /\ \E t \in Tables : Pending(p, t) /\ base' = [base EXCEPT ![p][t] = 0]
  /\ disturbed' = TRUE
  /\ UNCHANGED <<records, lance, pc, batch, emb, todo, at, left, after, pruned, bereft>>

PruneFails(p) ==
  /\ pc[p] = "prune"
  /\ Fault
  /\ Goto(p, "compact")
  /\ UNCHANGED <<records, lance, call, ghost>>

Finish(p) ==
  /\ pc[p] = "compact"
  /\ base[p] = NoBase
  /\ after[p] = "idle"
  /\ Return(p)
  /\ UNCHANGED <<records, lance, bereft, disturbed, bound>>

\* The caller of a vectors-first purge goes on to delete the records.
PurgeGoesOn(p) ==
  /\ pc[p] = "compact"
  /\ base[p] = NoBase
  /\ after[p] = "drop"
  /\ Goto(p, "drop")
  /\ UNCHANGED <<records, lance, call, ghost, bound>>

Crash(p) ==
  /\ pc[p] # "idle"
  /\ Fault
  /\ Return(p)
  /\ disturbed' = TRUE
  /\ UNCHANGED <<records, lance, bereft>>

Next == \E p \in Procs :
  \/ EmptyCall(p) \/ Upsert(p) \/ OpenTable(p) \/ CreateTable(p) \/ CreateRaced(p) \/ StagePending(p)
  \/ BeginMerge(p) \/ CommitMerge(p) \/ Conflict(p) \/ MarkCommitted(p)
  \/ PurgeRecordsFirst(p) \/ PurgeVectorsFirst(p) \/ VisitTable(p) \/ DeleteRows(p)
  \/ VisitedAll(p) \/ PurgeRecordsLast(p)
  \/ NotDue(p) \/ Compact(p) \/ Prune(p) \/ CompactFails(p) \/ PruneFails(p)
  \/ Finish(p) \/ PurgeGoesOn(p) \/ Crash(p)

Spec == Init /\ [][Next]_vars

-----------------------------------------------------------------------------
(* Properties *)

Steps == {"idle", "open", "create", "stage", "begin", "merge", "mark", "visit",
          "delete", "compact", "prune", "drop"}

\* Every variable holds a value of its kind.
TypeOK ==
  /\ pending \subseteq Pair /\ committed \subseteq Pair
  /\ version \in [Tables -> Nat]
  /\ vec \in [Tables -> [Chunks -> Versions \cup {None}]]
  /\ frags \in [Tables -> Nat]
  /\ pc \in [Procs -> Steps]
  /\ batch \in [Procs -> SUBSET Chunks]
  /\ emb \in [Procs -> Embedders \cup {None}]
  /\ base \in [Procs -> [Tables -> Nat]]
  /\ todo \in [Procs -> SUBSET Tables]
  /\ at \in [Procs -> Tables \cup {None}]
  /\ left \in [Procs -> SUBSET Chunks]
  /\ after \in [Procs -> {"idle", "drop"}]
  /\ pruned \subseteq Procs /\ bereft \subseteq Chunks /\ disturbed \in BOOLEAN
  /\ calls \in Nat /\ faults \in Nat

HasRow(r) == vec[r.emb.table][r.chunk] = r.emb.version

\* A committed record has its vector, of its own model version, in its own table,
\* unless a purge in progress or another process's prune has taken it: phase 3 of
\* upsert, interleaved with everything the other processes do and with crashes.
CommittedAreIndexed == \A r \in committed : HasRow(r) \/ r.chunk \in bereft

\* As long as no call was cut short, a table has never been left with
\* COMPACT_EVERY_N_UPSERTS commits uncompacted, although each process compacts by the
\* versions it happens to read and one call may commit many times.
FragmentsBounded ==
  (\A p \in Procs : pc[p] = "idle") /\ ~disturbed
    => \A t \in Tables : frags[t] < CompactEvery

\* Mutant: the first table, of whatever dimension.
FirstTable(d) == {t \in Tables : Exists(t) /\ \A u \in Tables : Exists(u) => t <= u}

\* find_matching_table: the first name in table_names() with that dimension.
FindMatchingTable(d) ==
  {t \in Tables : Exists(t) /\ DimOf[t] = d
                    /\ \A u \in Tables : Exists(u) /\ DimOf[u] = d => t <= u}

\* The chunks a search embedded by e can return: rows of the table it opens that pass
\* filter_chunks, which asks for a committed record and not for which table.
SearchHits(e) ==
  {c \in Chunks : /\ \E t \in FindMatchingTable(DimOf[e.table]) : vec[t][c] # None
                  /\ \E r \in committed : r.chunk = c}

\* What is indexed under an embedder is found by a search under it, unless a table of
\* another model and the same dimension comes first in table_names().
IndexedAreFound ==
  \A r \in committed :
    HasRow(r) /\ (\A t \in Tables : Exists(t) /\ DimOf[t] = DimOf[r.emb.table]
                                      => t >= r.emb.table)
      => r.chunk \in SearchHits(r.emb)

\* The three phases, the batched deletes and the compactions of all processes are,
\* seen from outside, the atomic operations of VectorIndex.
Offering == {"open", "create", "stage", "begin", "merge", "mark"}
Indexed  == {r \in committed : HasRow(r)}
OnOffer  == [p \in Procs |-> IF pc[p] \in Offering
                             THEN [batch |-> batch[p], emb |-> emb[p]] ELSE None]
Index == INSTANCE VectorIndex WITH index <- Indexed, offer <- OnOffer, risk <- pruned

ImplementsIndex == Index!Spec

-----------------------------------------------------------------------------
(* The inductive invariant *)

\* A process handles its own chunks only; an upsert has an embedder, a delete a table.
Working ==
  \A p \in Procs :
    /\ batch[p] \subseteq Own[p]
    /\ pc[p] = "delete" => left[p] \subseteq batch[p]
    /\ pc[p] \in Offering => emb[p] \in Embedders
    /\ pc[p] \in {"delete", "prune"} => at[p] \in Tables
    /\ p \in pruned => pc[p] \in {"merge", "mark"}

\* What an upsert has written by each of its steps: no record is committed yet, the
\* staged records are pending, and after the merge the rows are there.
Progressing ==
  \A p \in Procs :
    /\ pc[p] \in Offering => \A r \in committed : r.chunk \notin batch[p]
    /\ pc[p] \in {"begin", "merge", "mark"} => BatchOf(p) \subseteq pending
    /\ pc[p] = "mark" => \A c \in batch[p] :
         vec[emb[p].table][c] = emb[p].version \/ (c \in bereft /\ p \in pruned)

\* A delete in progress takes no vector from under a record it does not account for.
Withdrawing ==
  \A p \in Procs : pc[p] \in {"visit", "delete"} =>
    \A r \in committed : r.chunk \in batch[p] => r.chunk \in bereft

IInv == TypeOK /\ Working /\ Progressing /\ Withdrawing /\ CommittedAreIndexed

=============================================================================
