------------------------------- MODULE Search -------------------------------
(***************************************************************************)
(* One client that pages through the answers to one query with             *)
(* App::search_with_opts, while another process ingests.                    *)
(*                                                                         *)
(* A page is not a snapshot: the revision is read first, then SQLite's FTS *)
(* index, then LanceDB, then SQLite again for the filter and the metadata, *)
(* and each page is cut out of a search made anew for offset + k hits.     *)
(* Scores are cut down to the orders they induce; the token budget to how  *)
(* many hits of the page survive it.                                       *)
(***************************************************************************)
EXTENDS Lists

CONSTANTS
  Chunks,         \* chunk ids, compared as numbers where the code compares strings
  Queries,        \* mode, chunks that satisfy the filters, and is path_glob one of them
  PageSizes,      \* k_effective of a request
  GlobOverfetch,  \* PATH_GLOB_OVERFETCH
  Fanout,         \* HYBRID_FANOUT_MULTIPLIER
  Overfetch,      \* VECTOR_OVERFETCH_MULTIPLIER
  StoreOverfetch, \* OVERFETCH_MULTIPLIER of the vector store
  RrfK,           \* search.rrf_k
  MaxCommits,     \* bound: commits of the ingesting process
  NoCursor

ASSUME SearchAssumption ==
  /\ Chunks \subseteq Nat /\ IsFiniteSet(Chunks)
  /\ Queries \subseteq [mode: {"lexical", "vector", "hybrid"},
                         matching: SUBSET Chunks, globbed: BOOLEAN]
  /\ PageSizes \subseteq Nat \ {0}
  /\ GlobOverfetch \in Nat
  /\ Fanout \in Nat \ {0} /\ Overfetch \in Nat \ {0} /\ StoreOverfetch \in Nat \ {0}
  /\ RrfK \in Nat \ {0}
  /\ MaxCommits \in Nat
  /\ NoCursor \notin [offset: Nat, rev: Nat]

VARIABLES
  fts,      \* chunks the query matches in chunks_fts, by bm25 and chunk_id
  lance,    \* chunks with a Lance row, nearest first
  rows,     \* chunks with a row in SQLite and a committed embedding record
  rev,      \* kv.corpus_revision
  dirty,    \* the ingesting process has commits it has not counted yet
  commits,  \* commits it has made
  mode, matching, globbed,   \* the query
  client,   \* "start", "paging" or "done"
  cursor,   \* next_cursor of the last page
  served,   \* ghost: what the pages held so far, in order
  pc,       \* the next read of the search under way
  at,       \* the revision it read first
  offset, k,
  lex, vec, \* what the retrievers returned so far
  page      \* the hits of this page, before the budget

corpus  == <<fts, lance, rows, rev, dirty, commits>>
query   == <<mode, matching, globbed>>
session == <<client, cursor, served>>
call    == <<pc, at, offset, k, lex, vec, page>>
vars    == <<corpus, query, session, call>>

Smaller(m, n) == IF m < n THEN m ELSE n
Take(s, n) == SubSeq(s, 1, Smaller(n, Len(s)))
Elements(s) == {s[i] : i \in DOMAIN s}
Orders(S) == {s \in [1..Cardinality(S) -> S] : Elements(s) = S}

-----------------------------------------------------------------------------
(* The retrievers *)

\* Selection keeps the order of the list.  filter_chunks is one query: rows that pass.
Passing(s)  == OnlyIn(s, matching)
Filtered(s) == OnlyIn(s, rows \cap matching)
Existing(s) == OnlyIn(s, rows)

\* LexicalRetriever::search; every filter but path_glob is part of the SQL.
LexicalHits(n) ==
  IF globbed THEN Take(Passing(Take(fts, n + GlobOverfetch)), n)
  ELSE Take(fts, n)

\* Mutant: the store asks for as many rows as it is to return.
LanceLimitOnce(n) == n * Overfetch

\* How many rows LanceVectorStore::search asks LanceDB for.
LanceLimit(n) == n * Overfetch * StoreOverfetch

\* What the retrievers are asked for when the caller wants n hits.
FanoutFor(n) == IF mode = "hybrid" THEN n * Fanout ELSE n

\* fuse_with_inputs: 1-based ranks, 0 for a chunk the list does not hold.
RankIn(s, c) ==
  IF \E i \in DOMAIN s : s[i] = c THEN CHOOSE i \in DOMAIN s : s[i] = c ELSE 0

\* Mutant: an absent chunk contributes as if it had rank 0.
ScoreOfAbsent(l, v) == <<2 * RrfK + l + v, (RrfK + l) * (RrfK + v)>>

\* The sum of 1 / (k_rrf + rank) over the lists, as numerator and denominator.
Score(l, v) ==
  IF v = 0 THEN <<1, RrfK + l>>
  ELSE IF l = 0 THEN <<1, RrfK + v>>
  ELSE <<2 * RrfK + l + v, (RrfK + l) * (RrfK + v)>>

\* Sort key: score descending, lexical rank ascending with None last, chunk_id.
Ahead(c, d) ==
  LET lc == RankIn(lex, c)  ld == RankIn(lex, d)
      sc == Score(lc, RankIn(vec, c))  sd == Score(ld, RankIn(vec, d))
      left == sc[1] * sd[2]  right == sd[1] * sc[2]
  IN \/ left > right
     \/ left = right /\ lc # 0 /\ (ld = 0 \/ lc < ld)
     \/ left = right /\ lc = ld /\ c < d

Fused(n) ==
  Take(CHOOSE s \in Orders(Elements(lex) \cup Elements(vec)) :
         \A i, j \in DOMAIN s : i < j => Ahead(s[i], s[j]), n)

\* What App::search returns for offset + k hits.
Hits ==
  CASE mode = "lexical" -> lex
    [] mode = "vector"  -> vec
    [] mode = "hybrid"  -> Fused(offset + k)

-----------------------------------------------------------------------------
(* One call of search_with_opts *)

Begin(n) ==
  /\ pc = "idle" /\ client # "done"
  /\ cursor # NoCursor => cursor.rev = rev
  /\ at' = rev
  /\ offset' = IF cursor = NoCursor THEN 0 ELSE cursor.offset
  /\ k' = n
  /\ pc' = IF mode = "vector" THEN "lance" ELSE "fts"
  /\ UNCHANGED <<corpus, query, session, lex, vec, page>>

\* cursor::decode refuses; the client issues the search again.
StaleCursor ==
  /\ pc = "idle"
  /\ cursor # NoCursor /\ cursor.rev # rev
  /\ client' = "start" /\ cursor' = NoCursor /\ served' = <<>>
  /\ UNCHANGED <<corpus, query, call>>

ReadFts ==
  /\ pc = "fts"
  /\ lex' = LexicalHits(FanoutFor(offset + k))
  /\ pc' = IF mode = "hybrid" THEN "lance" ELSE "fuse"
  /\ UNCHANGED <<corpus, query, session, at, offset, k, vec, page>>

QueryLance ==
  /\ pc = "lance"
  /\ vec' = Take(lance, LanceLimit(FanoutFor(offset + k)))
  /\ pc' = "filter"
  /\ UNCHANGED <<corpus, query, session, at, offset, k, lex, page>>

\* filter_chunks, then take(k) of the k the store was asked for.
FilterChunks ==
  /\ pc = "filter"
  /\ vec' = Take(Filtered(vec), Overfetch * FanoutFor(offset + k))
  /\ pc' = "hydrate"
  /\ UNCHANGED <<corpus, query, session, at, offset, k, lex, page>>

\* hydrate_chunks skips what is gone by now.
Hydrate ==
  /\ pc = "hydrate"
  /\ vec' = Take(Existing(vec), FanoutFor(offset + k))
  /\ pc' = "fuse"
  /\ UNCHANGED <<corpus, query, session, at, offset, k, lex, page>>

\* App::search returns; the offset is dropped and a page is left.
Fuse ==
  /\ pc = "fuse"
  /\ pc' = "respond"
  /\ \E hits \in {Hits} : page' = SubSeq(hits, offset + 1, Smaller(offset + k, Len(hits)))
  /\ UNCHANGED <<corpus, query, session, at, offset, k, lex, vec>>

\* Mutant: an empty page counts as a full one, wherever it begins.
MoreEvenIfEmpty(kept, truncated) == kept \in {0, k} \/ truncated

\* A page that is full, or was cut by the budget, gets a next_cursor.
More(kept, truncated) == (kept = k \/ truncated) /\ offset + kept > 0

\* Mutant: the revision is read when the page is ready.
CursorRevLate == rev
CursorRev == at

\* The budget loop shortens snippets, then pops hits but always keeps one.
Respond ==
  /\ pc = "respond"
  /\ \E kept \in 0..Len(page), truncated \in BOOLEAN :
       /\ page # <<>> => kept > 0
       /\ kept < Len(page) => truncated
       /\ truncated => page # <<>>
       /\ served' = served \o SubSeq(page, 1, kept)
       /\ IF More(kept, truncated)
          THEN /\ client' = "paging"
               /\ cursor' = [offset |-> offset + kept, rev |-> CursorRev]
          ELSE /\ client' = "done"
               /\ cursor' = NoCursor
  /\ pc' = "idle"
  /\ offset' = 0 /\ k' = 0 /\ lex' = <<>> /\ vec' = <<>> /\ page' = <<>>
  /\ UNCHANGED <<corpus, query, at>>

-----------------------------------------------------------------------------
(* The ingesting process *)

Commit ==
  /\ commits < MaxCommits
  /\ commits' = commits + 1
  /\ dirty' = TRUE
  /\ UNCHANGED <<rev, query, session, call>>

\* The chunks the FTS query can return: only path_glob is left out of the SQL.
Findable == IF globbed THEN Chunks ELSE matching

\* Documents and chunks deleted in SQLite, their FTS rows by trigger.  bm25 is
\* relative to the whole corpus, so what is left may change places.
PurgeRows(c) ==
  /\ c \in rows
  /\ Commit
  /\ rows' = rows \ {c}
  /\ fts' \in Orders(Elements(fts) \ {c})
  /\ UNCHANGED lance

PurgeVector(c) ==
  /\ c \in Elements(lance)
  /\ Commit
  /\ lance' = OnlyIn(lance, Elements(lance) \ {c})
  /\ UNCHANGED <<fts, rows>>

\* A new chunk is stored; the query may find it.
StoreRows(c, found) ==
  /\ c \notin rows
  /\ Commit
  /\ rows' = rows \cup {c}
  /\ fts' \in Orders(Elements(fts) \cup (found \cap Findable))
  /\ UNCHANGED lance

\* Its vector lands between the i-th and the next one.
StoreVector(c, i) ==
  /\ c \notin Elements(lance) /\ i <= Len(lance)
  /\ Commit
  /\ lance' = SubSeq(lance, 1, i) \o <<c>> \o SubSeq(lance, i + 1, Len(lance))
  /\ UNCHANGED <<fts, rows>>

\* bump_corpus_revision at the end of a run that changed something.
BumpRevision ==
  /\ dirty
  /\ rev' = rev + 1
  /\ dirty' = FALSE
  /\ UNCHANGED <<fts, lance, rows, commits, query, session, call>>

-----------------------------------------------------------------------------
Init ==
  /\ \E q \in Queries : mode = q.mode /\ matching = q.matching /\ globbed = q.globbed
  /\ rows \in SUBSET Chunks
  /\ \E found \in SUBSET (rows \cap Findable) : fts \in Orders(found)
  /\ \E embedded \in SUBSET Chunks : lance \in Orders(embedded)
  /\ mode = "vector" => fts = <<>>      \* nobody asks that retriever
  /\ mode = "lexical" => lance = <<>>
  /\ rev = 0 /\ dirty = FALSE /\ commits = 0
  /\ client = "start" /\ cursor = NoCursor /\ served = <<>>
  /\ pc = "idle" /\ at = 0 /\ offset = 0 /\ k = 0
  /\ lex = <<>> /\ vec = <<>> /\ page = <<>>

Call ==
  \/ \E n \in PageSizes : Begin(n)
  \/ StaleCursor
  \/ ReadFts \/ QueryLance \/ FilterChunks \/ Hydrate \/ Fuse \/ Respond

Ingest ==
  \/ \E c \in Chunks : PurgeRows(c) \/ PurgeVector(c)
  \/ \E c \in Chunks : \E found \in SUBSET {c} : StoreRows(c, found)
  \/ \E c \in Chunks, i \in 0..Cardinality(Chunks) : StoreVector(c, i)
  \/ BumpRevision

Next == Call \/ Ingest

Spec == Init /\ [][Next]_vars

\* The client asks for the next page and the process answers it.
FairSpec == Spec /\ WF_vars(Call)

-----------------------------------------------------------------------------
(* Properties *)

\* A next_cursor never points back at the page it came with.
TypeOK ==
  /\ rows \in SUBSET Chunks
  /\ fts \in Seq(Chunks) /\ lance \in Seq(Chunks)
  /\ rev \in Nat /\ dirty \in BOOLEAN /\ commits \in 0..MaxCommits
  /\ [mode |-> mode, matching |-> matching, globbed |-> globbed] \in Queries
  /\ client \in {"start", "paging", "done"}
  /\ cursor \in [offset: Nat \ {0}, rev: Nat] \cup {NoCursor}
  /\ served \in Seq(Chunks)
  /\ pc \in {"idle", "fts", "lance", "filter", "hydrate", "fuse", "respond"}
  /\ at \in Nat /\ offset \in Nat /\ k \in Nat
  /\ lex \in Seq(Chunks) /\ vec \in Seq(Chunks) /\ page \in Seq(Chunks)

\* Nothing was committed since the session's revision was read.
Current(r) == r = rev /\ ~dirty

\* The answer of one search without a limit.
Answer ==
  CASE mode = "lexical" -> IF globbed THEN Passing(fts) ELSE fts
    [] mode = "vector"  -> Filtered(lance)

\* "advance through more hits": as long as the cursor is accepted and no run is
\* under way, the pages so far are the beginning of one unlimited search: no
\* hit repeated and none passed over, whatever the budget popped.
PagesTile ==
  mode # "hybrid" /\ cursor # NoCursor /\ Current(cursor.rev)
    => served = Take(Answer, cursor.offset)

\* Rows that are fetched and then dropped by the filter or as orphans.
Dropped ==
  IF mode = "lexical" THEN Elements(fts) \ matching
  ELSE Elements(lance) \ (rows \cap matching)

\* "null means no more hits": when no next_cursor came back, the client holds
\* as many hits as one unlimited search has, provided the rows dropped after
\* the fetch are no more than the over-fetch of a page of one hit.
NullMeansNoMore ==
  /\ mode # "hybrid"
  /\ client = "done" /\ Current(at)
  /\ Cardinality(Dropped) <= IF mode = "lexical" THEN GlobOverfetch
                             ELSE Overfetch * StoreOverfetch - 1
  => Len(served) = Len(Answer)

\* "RRF's rank-ordering invariants": of two hits on a page, the one no
\* retriever puts below the other comes first.
NeverBelow(s, c, d) ==
  d \in Elements(s) => c \in Elements(s) /\ RankIn(s, c) < RankIn(s, d)
FusionAgrees ==
  mode = "hybrid" /\ pc = "fuse" =>
    LET hits == Hits IN
    \A i, j \in DOMAIN hits :
      j < i => ~(NeverBelow(lex, hits[i], hits[j]) /\ NeverBelow(vec, hits[i], hits[j]))

\* "page 2 must not repeat page 1 hits": no chunk is served twice in a session
\* over one state of the corpus.
NoRepeat ==
  cursor # NoCursor /\ Current(cursor.rev)
    => \A i, j \in DOMAIN served : served[i] = served[j] => i = j

\* A client that follows next_cursor comes to the end.
PagingEnds == <>(client = "done")

=============================================================================
