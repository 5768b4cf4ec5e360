-------------------------------- MODULE Fetch ---------------------------------
(***************************************************************************)
(* What is read back from the relational store: a chunk with its           *)
(* neighbours, a document, a range of its lines, the list of documents,    *)
(* the counts of `kebab schema`, and a bulk of searches.                   *)
(*                                                                         *)
(* None of them is one transaction: every statement sees the store as it   *)
(* is then, and an ingest of another process may store a document's chunks *)
(* anew or purge it in between.  A document's id is the hash of its path,  *)
(* its bytes and its parser, so its blocks stay as long as it does.        *)
(*                                                                         *)
(* A character is a newline or not; a text answered is the interval of the *)
(* positions it has in the document's Markdown.  A chunk is <<document,    *)
(* chunking, place>>, the place being that of its hash among the hashes:   *)
(* the order of the store, which is not that of the document.  A search is *)
(* Search's: here it has hits or fails.                                    *)
(***************************************************************************)
EXTENDS Integers, Sequences, FiniteSets, FiniteSetsExt, Functions, SequencesExt, Lists

CONSTANTS
  Shelves,        \* the stores a reader may find: a document -> what is stored of it
  FetchRequests,
  ChunkingSizes,  \* how many chunks a chunking of a document may have
  StaleAfter,     \* search.stale_threshold_days, 0 for never
  BulkMax,        \* BULK_QUERIES_MAX
  MaxRewrites,    \* chunkings and purges during a reading
  NoCap           \* no max_tokens

Chars == {"x", "nl"}

\* The kinds of block of a document.
BlockKinds ==
  [is : {"heading"}, level : Nat, text : Seq(Chars)]
  \cup [is : {"paragraph", "quote"}, text : Seq(Chars)]
  \cup [is : {"list"}, ordered : BOOLEAN, items : Seq(Seq(Chars))]
  \cup [is : {"code"}, lang : Nat, text : Seq(Chars)]
  \cup [is : {"table"}, headers : Seq(Seq(Chars)), rows : Seq(Seq(Seq(Chars)))]
  \cup [is : {"image"}, alt : Seq(Chars), src : Seq(Chars)]
  \cup [is : {"audio"}]

SpanRequest(r) ==
  /\ r = [kind |-> "span", id |-> r.id, from |-> r.from, to |-> r.to, tokens |-> r.tokens]
  /\ r.from \in Nat /\ r.to \in Nat /\ r.tokens \in Nat \cup {NoCap}

ASSUME FetchAssumption ==
  /\ NoCap \notin Nat
  /\ \A s \in Shelves :
       /\ IsFiniteSet(DOMAIN s)
       /\ \A d \in DOMAIN s : s[d].blocks \in Seq(BlockKinds) /\ s[d].chunking \in Nat /\ s[d].size \in Nat
       /\ \A d \in DOMAIN s : s[d] = [media |-> s[d].media, blocks |-> s[d].blocks, chunking |-> s[d].chunking,
                                      size |-> s[d].size, trust |-> s[d].trust, tags |-> s[d].tags,
                                      age |-> s[d].age, dated |-> s[d].dated]
  /\ ChunkingSizes \subseteq Nat
  /\ \A r \in FetchRequests :
       /\ r.kind \in {"chunk", "doc", "span", "list", "stats", "bulk", "incomplete"}
       /\ r.kind = "chunk" => r.context \in Nat
       /\ r.kind = "span" => SpanRequest(r)

VARIABLES
  shelf,     \* the documents stored
  asked,     \* the request being served
  held,      \* the local variables of its handler
  answered,  \* the answers to a request and to those that go on from it
  rewrites   \* how often another process has written

fetchVars == <<shelf, asked, held, answered, rewrites>>

Unasked == [kind |-> "none"]
NothingHeld == [step |-> "begin", age |-> 0, blocks |-> << >>, ids |-> << >>, got |-> << >>]

FetchInit ==
  /\ shelf \in Shelves
  /\ asked = Unasked /\ held = NothingHeld /\ answered = << >>
  /\ rewrites = 0

Stored(d) == d \in DOMAIN shelf
ChunksOf(d) == IF Stored(d) THEN [i \in 1 .. shelf[d].size |-> <<d, shelf[d].chunking, i>>] ELSE << >>
StoredChunk(c) == c \in Range(ChunksOf(c[1]))

\* compute_stale: strictly older, and never when the threshold is 0.
Stale(age) == StaleAfter # 0 /\ age > StaleAfter

-----------------------------------------------------------------------------
(* The Markdown of a document. *)

Filled(n) == [i \in 1 .. n |-> "x"]
Newline == <<"nl">>

JoinedBy(parts, sep) ==
  LET upTo[i \in 0 .. Len(parts)] ==
        CASE i = 0 -> << >>
          [] i = 1 -> parts[1]
          [] OTHER -> upTo[i - 1] \o sep \o parts[i]
  IN upTo[Len(parts)]

\* The places of the segments between the newlines of chars.
Segments(chars) ==
  LET breaks == OnlyIn([i \in DOMAIN chars |-> i], {i \in DOMAIN chars : chars[i] = "nl"})
  IN [k \in 1 .. Len(breaks) + 1 |->
        <<IF k = 1 THEN 1 ELSE breaks[k - 1] + 1,
          IF k <= Len(breaks) THEN breaks[k] - 1 ELSE Len(chars)>>]

\* str::lines: an empty last segment is no line.
LinesOf(chars) ==
  LET all == Segments(chars)
      end == all[Len(all)]
  IN IF end[2] < end[1] THEN SubSeq(all, 1, Len(all) - 1) ELSE all

Clamped(level) == Max({1, Min({level, 6})})

\* The decimal digits of a number of a list.
Digits(n) == Cardinality({k \in 0..n : 10 ^ k <= n})

RenderedBlock(b) ==
  CASE b.is = "heading" -> Filled(Clamped(b.level) + 1) \o b.text
    [] b.is = "paragraph" -> b.text
    [] b.is = "quote" ->
         LET rows == Segments(b.text)
         IN JoinedBy([i \in DOMAIN rows |-> Filled(2) \o SubSeq(b.text, rows[i][1], rows[i][2])], Newline)
    [] b.is = "list" ->
         JoinedBy([i \in DOMAIN b.items |-> Filled(IF b.ordered THEN Digits(i) + 2 ELSE 2) \o b.items[i]], Newline)
    [] b.is = "code" ->
         Filled(3 + b.lang) \o Newline \o b.text
           \o (IF b.text # << >> /\ Last(b.text) = "nl" THEN << >> ELSE Newline) \o Filled(3)
    [] b.is = "table" ->
         JoinedBy(<<JoinedBy(b.headers, Filled(3)), Filled(4 * Len(b.headers))>>
                  \o [i \in DOMAIN b.rows |-> JoinedBy(b.rows[i], Filled(3))], Newline)
    [] b.is = "image" -> Filled(2) \o b.alt \o Filled(2) \o b.src \o Filled(1)
    [] OTHER -> Filled(17)  \* (audio reference)

Rendered(blocks) == JoinedBy([i \in DOMAIN blocks |-> RenderedBlock(blocks[i])], Newline \o Newline)

-----------------------------------------------------------------------------
(* A request and its answer. *)

Doing(kinds, from, to) ==
  /\ asked.kind \in kinds /\ held.step = from /\ held' = [held EXCEPT !.step = to]
  /\ UNCHANGED <<shelf, asked, answered, rewrites>>

Answer(what) ==
  /\ answered' = Append(answered, what)
  /\ asked' = Unasked /\ held' = NothingHeld
  /\ UNCHANGED <<shelf, rewrites>>

Decline(error) == Answer([request |-> asked, code |-> error])

Ask ==
  /\ asked = Unasked /\ answered = << >>
  /\ asked' \in FetchRequests
  /\ UNCHANGED <<shelf, held, answered, rewrites>>

\* A reader whose range was cut goes on behind what it got.
GoOn ==
  /\ asked = Unasked /\ answered # << >>
  /\ LET a == Last(answered)
     IN /\ a.request.kind = "span" /\ a.code = "ok" /\ a.truncated
        /\ a.request.from <= a.end /\ a.end < a.request.to
        /\ asked' = [a.request EXCEPT !.from = a.end + 1]
  /\ UNCHANGED <<shelf, held, answered, rewrites>>

\* The MCP tool refuses a kind it does not know or one without its fields.
Incomplete == asked.kind = "incomplete" /\ Decline("invalid_input")

-----------------------------------------------------------------------------
(* fetch: the statements of its three modes in their order. *)

Target == IF asked.kind = "chunk" THEN asked.id[1] ELSE asked.id

GetChunk ==
  \/ Doing({"chunk"}, "begin", "row") /\ StoredChunk(asked.id)
  \/ asked.kind = "chunk" /\ held.step = "begin" /\ ~StoredChunk(asked.id) /\ Decline("chunk_not_found")

FirstStep == IF asked.kind = "chunk" THEN "row" ELSE "begin"

\* get_document reads the row, and the blocks in a statement of their own.  What it takes for the
\* time of indexing is the date in the document's metadata (dated), not that of its row (age).
GetRow ==
  /\ asked.kind \in {"chunk", "doc", "span"} /\ held.step = FirstStep
  /\ IF Stored(Target)
     THEN /\ held' = [held EXCEPT !.step = "blocks", !.age = shelf[Target].dated]
          /\ UNCHANGED <<shelf, asked, answered, rewrites>>
     ELSE Decline("doc_not_found")

GetBlocks ==
  /\ held.step = "blocks"
  /\ held' = [held EXCEPT !.step = "have", !.blocks = IF Stored(Target) THEN shelf[Target].blocks ELSE << >>]
  /\ UNCHANGED <<shelf, asked, answered, rewrites>>

Budget == asked.tokens * 4
Cut(interval) ==
  LET whole == interval[2] - interval[1] + 1
  IN IF asked.tokens # NoCap /\ whole > Budget THEN <<interval[1], interval[1] + Budget - 1>> ELSE interval

AnswerDoc ==
  /\ asked.kind = "doc" /\ held.step = "have"
  /\ LET all == <<1, Len(Rendered(held.blocks))>>
     IN Answer([request |-> asked, code |-> "ok", text |-> Cut(all), truncated |-> Cut(all) # all, stale |-> Stale(held.age)])

\* No asset row, no medium to refuse.
GetAsset ==
  /\ asked.kind = "span" /\ held.step = "have"
  /\ LET media == IF Stored(Target) THEN shelf[Target].media ELSE "gone"
     IN IF media \in {"pdf", "audio"} THEN Decline("span_not_supported")
        ELSE IF asked.from = 0 \/ asked.to = 0 \/ asked.to < asked.from THEN Decline("invalid_input")
        ELSE /\ held' = [held EXCEPT !.step = "slice"]
             /\ UNCHANGED <<shelf, asked, answered, rewrites>>

\* A mutant of LastKept: one line further than the text.
LastKeptAndOne(chars, text) == asked.from + Len(LinesOf(SubSeq(chars, text[1], text[2])))

\* The last line of which the cut left something.
LastKept(chars, text) == asked.from - 1 + Len(LinesOf(SubSeq(chars, text[1], text[2])))

AnswerSpan ==
  /\ asked.kind = "span" /\ held.step = "slice"
  /\ LET chars == Rendered(held.blocks)
         lines == LinesOf(chars)
         last  == Min({asked.to, Len(lines)})
         all   == <<lines[asked.from][1], lines[last][2]>>
     IN IF asked.from > Len(lines)
        THEN Answer([request |-> asked, code |-> "ok", text |-> <<1, 0>>, end |-> asked.from - 1, truncated |-> FALSE,
                     stale |-> Stale(held.age)])
        ELSE Answer([request |-> asked, code |-> "ok", text |-> Cut(all), truncated |-> Cut(all) # all, stale |-> Stale(held.age),
                     end |-> IF Cut(all) = all THEN last ELSE LastKept(chars, Cut(all))])

\* surrounding_chunks: the ids in one statement, then every chunk in its own.
ListChunkIds ==
  /\ asked.kind = "chunk" /\ held.step = "have" /\ asked.context > 0
  /\ held' = [held EXCEPT !.step = "each", !.ids = ChunksOf(Target)]
  /\ UNCHANGED <<shelf, asked, answered, rewrites>>

GetNextChunk ==
  /\ held.step = "each" /\ held.ids # << >>
  /\ held' = [held EXCEPT !.ids = Tail(@),
                          !.got = IF StoredChunk(Head(held.ids)) THEN Append(@, Head(held.ids)) ELSE @]
  /\ UNCHANGED <<shelf, asked, answered, rewrites>>

AnswerChunk ==
  /\ asked.kind = "chunk"
  /\ \/ /\ held.step = "have" /\ asked.context = 0
        /\ Answer([request |-> asked, code |-> "ok", before |-> << >>, after |-> << >>, stale |-> Stale(held.age)])
     \/ /\ held.step = "each" /\ held.ids = << >>
        /\ IF asked.id \notin Range(held.got) THEN Decline("generic")
           ELSE LET at == CHOOSE i \in DOMAIN held.got : held.got[i] = asked.id
                IN Answer([request |-> asked, code |-> "ok", stale |-> Stale(held.age),
                           before |-> SubSeq(held.got, Max({1, at - asked.context}), at - 1),
                           after |-> SubSeq(held.got, at + 1, Min({Len(held.got), at + asked.context}))])

-----------------------------------------------------------------------------
(* list_documents: the rows in one statement, the tags of each in its own. *)

Accepted(d) == shelf[d].trust >= asked.trust /\ (asked.tags = {} \/ asked.tags \cap shelf[d].tags # {})

ListRows ==
  /\ asked.kind = "list" /\ held.step = "begin"
  /\ held' = [held EXCEPT !.step = "tags", !.ids = SetToSeq({d \in DOMAIN shelf : Accepted(d)})]
  /\ UNCHANGED <<shelf, asked, answered, rewrites>>

ListTags ==
  /\ held.step = "tags" /\ held.ids # << >>
  /\ LET d == Head(held.ids)
     IN held' = [held EXCEPT !.ids = Tail(@),
                             !.got = Append(@, <<d, IF Stored(d) THEN shelf[d].tags ELSE {}>>)]
  /\ UNCHANGED <<shelf, asked, answered, rewrites>>

AnswerList ==
  /\ held.step = "tags" /\ held.ids = << >> /\ Answer([request |-> asked, code |-> "ok", rows |-> held.got])

\* count_summary: four counts, each of the store of its moment.
Total(f) == FoldFunction(+, 0, f)
Count(set) == Cardinality({d \in DOMAIN shelf : d \in set})
StatsStep(from, to, n) ==
  /\ asked.kind = "stats" /\ held.step = from
  /\ held' = [held EXCEPT !.step = to, !.got = Append(@, n)]
  /\ UNCHANGED <<shelf, asked, answered, rewrites>>

MediaKinds == {"markdown", "pdf", "image", "audio", "other"}

\* Every kind of MEDIA_KINDS, counted or not, and what else there is.
MediaBreakdown ==
  [m \in MediaKinds \cup {shelf[d].media : d \in DOMAIN shelf} |-> Count({d \in DOMAIN shelf : shelf[d].media = m})]

CountDocs   == StatsStep("begin", "chunks", Cardinality(DOMAIN shelf))
CountChunks == StatsStep("chunks", "media", Total([d \in DOMAIN shelf |-> shelf[d].size]))
CountMedia  == StatsStep("media", "old", MediaBreakdown)
CountStale  == StatsStep("old", "counted", Count({d \in DOMAIN shelf : Stale(shelf[d].age)}))

AnswerStats ==
  /\ held.step = "counted"
  /\ Answer([request |-> asked, code |-> "ok", docs |-> held.got[1], chunks |-> held.got[2], media |-> held.got[3],
             old |-> held.got[4]])

-----------------------------------------------------------------------------
(* bulk_search: one item after the other, a bad one in place of its answer. *)

\* parse_one: a field of another JSON type is taken for absent, but the query must be a string.
WellFormed(item) ==
  /\ item.object /\ item.query = "text"
  /\ \A field \in {"mode", "trust_min", "ingested_after"} : item[field] \in {"absent", "mistyped", "known"}

OverBulk == asked.kind = "bulk" /\ Len(asked.items) > BulkMax /\ Decline("generic")

RunItem ==
  /\ asked.kind = "bulk" /\ Len(asked.items) <= BulkMax /\ Len(held.got) < Len(asked.items)
  /\ LET item == asked.items[Len(held.got) + 1]
     IN \E outcome \in IF WellFormed(item) THEN {"hits", "retrieval_error"} ELSE {"invalid_input"} :
          held' = [held EXCEPT !.got = Append(@, <<item, outcome>>)]
  /\ UNCHANGED <<shelf, asked, answered, rewrites>>

Succeeded(results) == {i \in DOMAIN results : results[i][2] = "hits"}

AnswerBulk ==
  /\ asked.kind = "bulk" /\ Len(held.got) = Len(asked.items) /\ Len(asked.items) <= BulkMax
  /\ LET good == Cardinality(Succeeded(held.got))
     IN Answer([request |-> asked, code |-> "ok", results |-> held.got, succeeded |-> good, failed |-> Len(held.got) - good])

-----------------------------------------------------------------------------
(* The other process. *)

Write ==
  /\ asked # Unasked /\ rewrites < MaxRewrites /\ rewrites' = rewrites + 1
  /\ UNCHANGED <<asked, held, answered>>

\* put_chunks: the old ones go and the new ones come in one transaction.
Rechunk ==
  /\ Write
  /\ \E d \in DOMAIN shelf, n \in ChunkingSizes :
       shelf' = [shelf EXCEPT ![d].chunking = @ + 1, ![d].size = n]

PurgeDoc ==
  /\ Write
  /\ \E d \in DOMAIN shelf : shelf' = Restrict(shelf, DOMAIN shelf \ {d})

FetchNext ==
  \/ Ask \/ GoOn \/ Incomplete
  \/ GetChunk \/ GetRow \/ GetBlocks \/ AnswerDoc \/ GetAsset \/ AnswerSpan
  \/ ListChunkIds \/ GetNextChunk \/ AnswerChunk
  \/ ListRows \/ ListTags \/ AnswerList
  \/ CountDocs \/ CountChunks \/ CountMedia \/ CountStale \/ AnswerStats
  \/ OverBulk \/ RunItem \/ AnswerBulk
  \/ Rechunk \/ PurgeDoc

FetchSpec == FetchInit /\ [][FetchNext]_fetchVars

-----------------------------------------------------------------------------
(* What is promised. *)

Undisturbed == rewrites = 0
Answers(kind) == {i \in DOMAIN answered : answered[i].request.kind = kind /\ answered[i].code = "ok"}
InText(a) == a.text[1] .. a.text[2]

\* The line of a position, counted from the newlines before it.
Row(chars, i) == 1 + Cardinality({j \in 1 .. i - 1 : chars[j] = "nl"})

\* A range is its lines within the budget and nothing else: every character of a line up to the
\* end it names is there, but for the tail of that line where the budget cut it; no other line is;
\* and where the budget leaves room for a character, the reader that goes on gets further.
SpanTiles(a, chars) ==
  LET visible == {p \in DOMAIN chars : chars[p] # "nl"}
  IN /\ \A p \in visible \cap InText(a) : Row(chars, p) \in a.request.from .. a.end
     /\ \A p \in visible \ InText(a) :
          Row(chars, p) \in a.request.from .. a.end =>
            /\ a.truncated /\ Row(chars, p) = a.end
            /\ \E q \in visible \cap InText(a) : Row(chars, q) = a.end
     /\ (~a.truncated /\ a.end < a.request.to) => \A p \in visible : Row(chars, p) <= a.end
                                                  \/ a.request.from > a.end + 1
     /\ a.request.tokens # NoCap => Cardinality(InText(a)) <= a.request.tokens * 4
     /\ (a.truncated /\ a.request.tokens > 0) => a.end >= a.request.from

SpansTile ==
  \A i \in Answers("span") :
    LET a == answered[i]
    IN Stored(a.request.id) => SpanTiles(a, Rendered(shelf[a.request.id].blocks))

\* A reading gets every line once and in order: none between two ranges, none twice.
ReadingsMeet ==
  \A i \in DOMAIN answered \ {1} : answered[i].request.from = answered[i - 1].end + 1

\* A chunk comes with its neighbours of one chunking of its document, at most as many as asked on
\* either side; if nothing was written meanwhile they are the next ones and none is missing.
WithNeighbours(a) ==
  LET n    == a.request.context
      near == a.before \o <<a.request.id>> \o a.after
  IN /\ Len(a.before) <= n /\ Len(a.after) <= n
     /\ \A j \in DOMAIN near : near[j][1] = a.request.id[1] /\ near[j][2] = a.request.id[2]
     /\ \A j, k \in DOMAIN near : j < k => near[j][3] < near[k][3]
     /\ Undisturbed => Len(near) = Cardinality({c \in Range(ChunksOf(a.request.id[1])) :
                                                 c[3] - a.request.id[3] \in -n .. n})

NeighboursAreTheNext == \A i \in Answers("chunk") : WithNeighbours(answered[i])

\* What nobody disturbed is not refused, and a line range is never one of a PDF or a recording.
RightlyRefused(a) ==
  LET r == a.request
  IN Undisturbed =>
       /\ (r.kind = "chunk" /\ a.code # "ok") => a.code = "chunk_not_found" /\ ~StoredChunk(r.id)
       /\ (r.kind = "doc" /\ a.code # "ok") => ~Stored(r.id)
       /\ (r.kind = "span" /\ a.code = "ok") => shelf[r.id].media \notin {"pdf", "audio"}

NoneIsRefused == \A i \in DOMAIN answered : RightlyRefused(answered[i])

\* The list and the counts agree with the documents.
ListAgrees(a) ==
  Undisturbed => /\ \A j \in DOMAIN a.rows : a.rows[j][2] = shelf[a.rows[j][1]].tags
                 /\ {a.rows[j][1] : j \in DOMAIN a.rows} =
                      {d \in DOMAIN shelf : shelf[d].trust >= a.request.trust
                         /\ (a.request.tags = {} \/ \E t \in a.request.tags : t \in shelf[d].tags)}

StatsAgree(a) ==
  Undisturbed => /\ a.docs = Total(a.media)
                 /\ a.chunks = Total([d \in DOMAIN shelf |-> Len(ChunksOf(d))])

CountsAgree ==
  /\ \A i \in Answers("list") : ListAgrees(answered[i])
  /\ \A i \in Answers("stats") : StatsAgree(answered[i])

\* Every item of a bulk has its own answer, and a bad one costs no other.
EachAnswered(a) ==
  /\ Len(a.results) = Len(a.request.items) /\ a.succeeded + a.failed = Len(a.results)
  /\ \A j \in DOMAIN a.results : a.results[j][1] = a.request.items[j]
  /\ Cardinality({j \in DOMAIN a.results : a.results[j][2] # "hits"}) = a.failed

BulkAnswersEach == \A i \in Answers("bulk") : EachAnswered(answered[i])

\* What a reader gets is what is stored, once and in order.
AnswersAreTheStore ==
  answered # << >> =>
    /\ SpansTile /\ ReadingsMeet /\ NeighboursAreTheNext
    /\ NoneIsRefused /\ CountsAgree /\ BulkAnswersEach

=============================================================================
