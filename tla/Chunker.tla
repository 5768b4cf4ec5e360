------------------------------- MODULE Chunker -------------------------------
(***************************************************************************)
(* The chunkers: md-heading-v2 (markdown and images), pdf-page-v1.2, the   *)
(* AST, YAML, whole-file and paragraph chunkers of code, and chunk_asset's *)
(* choice among them with the fallback to paragraphs.  One step turns one  *)
(* document into its chunks.  A text is a sequence of characters of one,   *)
(* three or four UTF-8 bytes; a code file is a sequence of lines.          *)
(***************************************************************************)
EXTENDS Naturals, Sequences, FiniteSets, SequencesExt, FiniteSetsExt, Lists

CONSTANTS
  ChunkPolicies,  \* [target, overlap, max]: the token budgets
  MdDocs,         \* sequences of [kind, text]
  PdfDocs,        \* sequences of page texts
  AstDocs,        \* sequences of [from, lines]: the units of the extractor
  LineFiles,      \* sequences of lines: whole files
  AstMaxLines,    \* AST_CHUNK_MAX_LINES
  ParaLines,      \* FALLBACK_LINES_PER_CHUNK
  ParaOverlap     \* FALLBACK_LINES_OVERLAP

\* White space, the end of a sentence, and the others by their bytes.
Characters == {"spc", "nl", "dot", "a", "han", "emoji"}

ASSUME ChunkAssumption ==
  /\ ChunkPolicies \subseteq [target : Nat, overlap : Nat, max : Nat]
  /\ \A p \in ChunkPolicies : p.max >= p.target /\ p.target > 0 \* Config::validate
  /\ MdDocs \subseteq Seq([kind : {"heading", "prose", "atom", "image"}, text : Seq(Characters)])
  /\ PdfDocs \subseteq Seq(Seq(Characters)) /\ LineFiles \subseteq Seq(STRING)
  /\ AstDocs \subseteq Seq([from : Nat, lines : Seq(STRING)])
  /\ AstMaxLines \in Nat \ {0}
  /\ ParaLines \in Nat /\ ParaOverlap \in Nat /\ ParaOverlap < ParaLines

VARIABLES
  chunkerUsed, \* "none" before the call
  chunkDoc, chunkPolicy,
  chunks       \* [id, text, from, to]: id is what the chunk_id hash is taken over

chunkVars == <<chunkerUsed, chunkDoc, chunkPolicy, chunks>>

ChunkInit ==
  /\ chunkerUsed = "none" /\ chunkDoc = << >> /\ chunks = << >>
  /\ chunkPolicy \in ChunkPolicies

-----------------------------------------------------------------------------
(* Sizes and the shared splitting of an oversize text *)

\* A left fold that TLC evaluates in one pass, and the runs of 1 .. n between some positions.
Over(Op(_, _), base, seq) ==
  LET upTo[i \in 0 .. Len(seq)] == IF i = 0 THEN base ELSE Op(upTo[i - 1], seq[i])
  IN upTo[Len(seq)]

Runs(n, cuts) ==
  LET at == Picked([i \in 1 .. n |-> i], cuts)
  IN [k \in 1 .. Len(at) + 1 |-> [a |-> IF k = 1 THEN 1 ELSE at[k - 1] + 1,
                                 b |-> IF k <= Len(at) THEN at[k] - 1 ELSE n]]

BytesPerToken == 3
CharBytes(c) == CASE c = "han" -> 3 [] c = "emoji" -> 4 [] OTHER -> 1
ByteLen(text) == Over(LAMBDA n, c : n + CharBytes(c), 0, text)
DivCeil(n, d) == (n + d - 1) \div d
TokensOf(text) == DivCeil(ByteLen(text), BytesPerToken)

JoinWith(sep, parts) ==
  IF parts = << >> THEN << >> ELSE Over(LAMBDA s, part : s \o sep \o part, Head(parts), Tail(parts))

TextLines(text) ==
  LET runs == Runs(Len(text), {i \in DOMAIN text : text[i] = "nl"})
  IN [i \in DOMAIN runs |-> SubSeq(text, runs[i].a, runs[i].b)]

CharPieces(s, budget) ==
  LET Add(st, c) ==
        IF st.open # << >> /\ ByteLen(st.open) + CharBytes(c) > budget * BytesPerToken
        THEN [open |-> <<c>>, out |-> Append(st.out, st.open)]
        ELSE [st EXCEPT !.open = Append(@, c)]
      end == Over(Add, [open |-> << >>, out |-> << >>], s)
  IN Append(end.out, end.open)

\* Whole lines up to the budget; a line over the budget is cut at characters.
TextPieces(text, wanted) ==
  LET budget == Max({wanted, 1})
      Flush(st) == IF st.open = << >> THEN st.out ELSE Append(st.out, JoinWith(<<"nl">>, st.open))
      Add(st, line) ==
        IF TokensOf(line) > budget
        THEN [open |-> << >>, out |-> Flush(st) \o CharPieces(line, budget)]
        ELSE IF st.open # << >> /\ TokensOf(JoinWith(<<"nl">>, Append(st.open, line))) > budget
        THEN [open |-> <<line>>, out |-> Flush(st)]
        ELSE [st EXCEPT !.open = Append(@, line)]
  IN Flush(Over(Add, [open |-> << >>, out |-> << >>], TextLines(text)))

-----------------------------------------------------------------------------
(* md-heading-v2 *)

IsHeading(doc, i) == doc[i].kind = "heading"

\* Images count nothing towards the target.
BlockTokens(doc, i) == IF doc[i].kind = "image" THEN 0 ELSE TokensOf(doc[i].text)

OpenTokens(doc, open) == Over(LAMBDA n, i : n + BlockTokens(doc, i), 0, open)

\* The last blocks of the flushed chunk, headings excluded, the very last one whatever its size.
OverlapSeed(doc, open, policy) ==
  LET seedBudget == Min({policy.overlap, policy.target \div 2})
      Take(st, i) ==
        IF st.left = 0 \/ st.done THEN st
        ELSE IF BlockTokens(doc, i) > st.left /\ st.taken # << >> THEN [st EXCEPT !.done = TRUE]
        ELSE [taken |-> <<i>> \o st.taken, done |-> FALSE,
              left |-> IF BlockTokens(doc, i) >= st.left THEN 0 ELSE st.left - BlockTokens(doc, i)]
  IN Over(Take, [taken |-> << >>, left |-> seedBudget, done |-> FALSE],
          Reverse(Picked(open, {k \in DOMAIN open : ~IsHeading(doc, open[k])}))).taken

\* chunk_v1_equivalent: sequences of block numbers.
GroupBlocks(doc, policy) ==
  LET Flush(st) == IF st.open = << >> THEN st.out ELSE Append(st.out, st.open)
      Full(st, i) == /\ OpenTokens(doc, st.open) + BlockTokens(doc, i) > policy.target
                     /\ \E k \in DOMAIN st.open : ~IsHeading(doc, st.open[k])
      Add(st, i) ==
        CASE doc[i].kind = "heading" -> [open |-> <<i>>, out |-> Flush(st)]
          [] doc[i].kind \in {"atom", "image"} -> [open |-> << >>, out |-> Append(Flush(st), <<i>>)]
          [] doc[i].kind = "prose" /\ Full(st, i) ->
               [open |-> Append(OverlapSeed(doc, st.open, policy), i), out |-> Flush(st)]
          [] OTHER -> [st EXCEPT !.open = Append(@, i)]
  IN Flush(Over(Add, [open |-> << >>, out |-> << >>], [i \in DOMAIN doc |-> i]))

GroupText(doc, group) == JoinWith(<<"nl", "nl">>, [k \in DOMAIN group |-> doc[group[k]].text])

MdChunk(group, suffix, text) ==
  [id |-> <<ToSet(group), suffix>>, text |-> text, from |-> Head(group), to |-> Last(group)]

\* Mutant: the size is the stored token_estimate, 0 for an image.
EstimatedTokens(doc, group) ==
  IF \A k \in DOMAIN group : doc[group[k]].kind = "image" THEN 0 ELSE TokensOf(GroupText(doc, group))

\* What the embedder will receive, not the stored token_estimate.
EmbedTokens(doc, group) == TokensOf(GroupText(doc, group))

\* split_oversize_chunk: the pieces share the block ids and differ in their `#seg`.
SplitGroup(doc, group, policy) ==
  LET pieces == TextPieces(GroupText(doc, group), policy.max)
  IN [i \in DOMAIN pieces |-> MdChunk(group, <<"seg", i - 1>>, pieces[i])]

HeadingV2(doc, policy) ==
  LET groups == GroupBlocks(doc, policy)
  IN FlattenSeq([g \in DOMAIN groups |->
       IF EmbedTokens(doc, groups[g]) <= policy.max
       THEN <<MdChunk(groups[g], << >>, GroupText(doc, groups[g]))>>
       ELSE SplitGroup(doc, groups[g], policy)])

-----------------------------------------------------------------------------
(* pdf-page-v1.2 *)

Whitespace == {"spc", "nl"}

\* Where a segment may begin (character offsets): after a blank line or a sentence.
PageBounds(text) ==
  LET n == Len(text)
      Ends(k) == \/ text[k] = "nl" /\ text[k + 1] = "nl"
                 \/ text[k] = "dot" /\ text[k + 1] \in Whitespace
  IN Picked([k \in 1 .. n + 1 |-> k - 1], {k \in 1 .. n + 1 : k \in {1, n + 1} \/ (k > 2 /\ Ends(k - 2))})

SpanBytes(text, a, b) == ByteLen(SubSeq(text, a + 1, b))

\* [start, from, to]: a segment, and where its overlap with the previous chunk begins.
PageSegments(text, policy) ==
  LET target == Max({policy.target * BytesPerToken, 1})
      overlap == Min({policy.overlap * BytesPerToken, target \div 2})
      bounds == PageBounds(text)
      Stop(b) == Max({b + 1} \cup {e \in b + 1 .. Len(bounds) : SpanBytes(text, bounds[b], bounds[e]) <= target})
      Overlapped(start, floor) ==
        Min({start} \cup {a \in floor .. start : SpanBytes(text, a, start) <= overlap})
      Grow[at \in (1 .. Len(bounds)) \X (0 .. Len(text))] ==
        LET b == at[1]
            from == IF b = 1 THEN bounds[b] ELSE Overlapped(bounds[b], at[2])
        IN IF b = Len(bounds) THEN << >>
           ELSE <<[start |-> bounds[b], from |-> from, to |-> bounds[Stop(b)]]>> \o Grow[<<Stop(b), from>>]
  IN IF ByteLen(text) <= target
     THEN <<[start |-> 0, from |-> 0, to |-> Len(text)]>>
     ELSE Grow[<<1, 0>>]

\* Mutant: the id takes the start with the overlap.
FromKey(s) == s.from

\* `#c{segment_start}`: strictly increasing, as the start with the overlap is not.
SegmentKey(s) == s.start

SegmentChunks(page, text, s, policy) ==
  LET slice == SubSeq(text, s.from + 1, s.to)
      pieces == IF TokensOf(slice) > policy.max THEN TextPieces(slice, policy.max) ELSE <<slice>>
      suffix(i) == IF Len(pieces) = 1 THEN <<"c", SegmentKey(s)>> ELSE <<"c", SegmentKey(s), "s", i - 1>>
  IN [i \in DOMAIN pieces |->
        [id |-> <<{page}, suffix(i)>>, text |-> pieces[i], from |-> s.from, to |-> s.to]]

BlankText(text) == ToSet(text) \subseteq Whitespace

PdfPage(page, text, policy) ==
  IF BlankText(text) THEN << >>
  ELSE LET segments == PageSegments(text, policy)
       IN FlattenSeq([k \in DOMAIN segments |-> SegmentChunks(page, text, segments[k], policy)])

PdfPageV1(doc, policy) == FlattenSeq([p \in DOMAIN doc |-> PdfPage(p, doc[p], policy)])

-----------------------------------------------------------------------------
(* Code *)

BlankLine(line) == line = "blank"

CodeChunk(blocks, suffix, lines, first, a, b) ==
  [id |-> <<blocks, suffix>>, text |-> SubSeq(lines, a, Min({b, Len(lines)})),
   from |-> first + a - 1, to |-> first + b - 1]

\* split_oversize: [a, b] line ranges, cut after the last blank line of the final fifth.
AstParts(lines) ==
  LET total == Len(lines)
      Parts[start \in 0 .. total] ==
        IF start = total THEN << >>
        ELSE LET end == Min({start + AstMaxLines, total})
                 floor == Min({start + (AstMaxLines * 4) \div 5, end})
                 blanks == {i \in floor .. end - 1 : BlankLine(lines[i + 1])}
                 cut == IF end < total /\ blanks # {} THEN Max(blanks) + 1 ELSE end
             IN <<[a |-> start + 1, b |-> cut]>> \o Parts[cut]
  IN Parts[0]

AstUnit(u, unit) ==
  IF Len(unit.lines) <= AstMaxLines
  THEN <<CodeChunk({u}, << >>, unit.lines, unit.from, 1, Len(unit.lines))>>
  ELSE LET parts == AstParts(unit.lines)
       IN [i \in DOMAIN parts |-> CodeChunk({u}, <<"L", unit.from + parts[i].a - 1>>, unit.lines,
                                            unit.from, parts[i].a, parts[i].b)]

CodeAstV1(doc) == FlattenSeq([u \in DOMAIN doc |-> AstUnit(u, doc[u])])

\* push_chunks_with_oversize: lines a .. b of the file, in windows when they are too many.
WithOversize(lines, a, b, key) ==
  IF b + 1 - a <= AstMaxLines
  THEN <<CodeChunk({}, key, lines, 1, a, b)>>
  ELSE [w \in 1 .. DivCeil(b + 1 - a, AstMaxLines) |->
          LET first == a + (w - 1) * AstMaxLines
          IN CodeChunk({}, <<"L", first>>, lines, 1, first, Min({first + AstMaxLines - 1, b}))]

\* split_yaml_documents: the runs between `---` lines that are not all blank.
YamlSlices(lines) ==
  LET runs == Runs(Len(lines), {k \in DOMAIN lines : lines[k] = "sep"})
  IN Picked(runs, {i \in DOMAIN runs : \E k \in runs[i].a .. runs[i].b : ~BlankLine(lines[k])})

\* One chunk per resource; other documents are passed over, an invalid one voids the file.
K8sManifest(lines) ==
  LET slices == YamlSlices(lines)
      Has(r, what) == \E k \in r.a .. r.b : lines[k] = what
      resources == Picked(slices, {i \in DOMAIN slices : Has(slices[i], "res")})
  IN IF \E i \in DOMAIN slices : Has(slices[i], "bad") THEN << >>
     ELSE FlattenSeq([i \in DOMAIN resources |->
            WithOversize(lines, resources[i].a, resources[i].b, <<"L", resources[i].a>>)])

\* The Dockerfile and manifest chunkers: lines 1 .. max(1, count).
WholeFile(lines) == WithOversize(lines, 1, Max({1, Len(lines)}), << >>)

\* Mutant: the last paragraph is emitted only when a blank line ends it.
EndedParagraphs(lines) ==
  LET runs == Runs(Len(lines), {k \in DOMAIN lines : BlankLine(lines[k])})
  IN Picked(runs, {i \in DOMAIN runs : runs[i].a <= runs[i].b /\ runs[i].b < Len(lines)})

\* split_paragraphs
Paragraphs(lines) ==
  LET runs == Runs(Len(lines), {k \in DOMAIN lines : BlankLine(lines[k])})
  IN Picked(runs, {i \in DOMAIN runs : runs[i].a <= runs[i].b})

\* push_paragraph: windows of ParaLines lines that overlap by ParaOverlap.
ParagraphWindows(lines, r) ==
  LET stride == ParaLines - ParaOverlap
      extra == IF r.b + 1 - r.a <= ParaLines THEN 0 ELSE DivCeil(r.b + 1 - r.a - ParaLines, stride)
  IN [w \in 1 .. extra + 1 |->
        LET first == r.a + (w - 1) * stride
        IN CodeChunk({}, <<"L", first>>, lines, 1, first, Min({first + ParaLines - 1, r.b}))]

TextParagraphV1(lines) ==
  LET paragraphs == Paragraphs(lines)
  IN FlattenSeq([i \in DOMAIN paragraphs |-> ParagraphWindows(lines, paragraphs[i])])

\* Tier 3 reads the first block only: all of a file without AST units, else its first unit.
FirstBlock(lang, doc) == IF lang # "ast" THEN doc ELSE IF doc = << >> THEN << >> ELSE Head(doc).lines

\* chunk_code_asset: no chunk from a tier 1 or 2 chunker means paragraphs.
ChunkCode(lang, doc) ==
  LET first == CASE lang = "ast"   -> CodeAstV1(doc)
                 [] lang = "yaml"  -> K8sManifest(doc)
                 [] lang = "file"  -> WholeFile(doc)
                 [] lang = "shell" -> TextParagraphV1(doc)
  IN IF first # << >> \/ lang = "shell" THEN first ELSE TextParagraphV1(FirstBlock(lang, doc))

-----------------------------------------------------------------------------

Chunked(used, doc, result) ==
  /\ chunkerUsed' = used /\ chunkDoc' = doc /\ chunks' = result
  /\ UNCHANGED chunkPolicy

ChunkMarkdown == \E doc \in MdDocs : Chunked("markdown", doc, HeadingV2(doc, chunkPolicy))
ChunkPdf      == \E doc \in PdfDocs : Chunked("pdf", doc, PdfPageV1(doc, chunkPolicy))
ChunkAst      == \E doc \in AstDocs : Chunked("ast", doc, ChunkCode("ast", doc))
ChunkFile     == \E doc \in LineFiles, lang \in {"yaml", "file", "shell"} :
                   Chunked(lang, doc, ChunkCode(lang, doc))
\* An extractor error: one block with the whole file, given to the paragraph chunker.
ChunkFallenBack == \E doc \in LineFiles : Chunked("shell", doc, TextParagraphV1(doc))

ChunkNext ==
  /\ chunkerUsed = "none"
  /\ ChunkMarkdown \/ ChunkPdf \/ ChunkAst \/ ChunkFile \/ ChunkFallenBack

ChunkSpec == ChunkInit /\ [][ChunkNext]_chunkVars

-----------------------------------------------------------------------------
(* Properties *)

\* chunk_id is the primary key under which chunks, records and vectors replace each other:
\* no two chunks of a document hash the same tuple, however oversize and overlapping they are.
ChunkIdsDistinct == \A i, j \in DOMAIN chunks : chunks[i].id = chunks[j].id => i = j

\* pieces in order, each gap closed by nothing or by a newline, give the text.
RejoinsTo(text, pieces) ==
  \E gaps \in [DOMAIN pieces -> {<< >>, <<"nl">>}] :
    /\ gaps[1] = << >>
    /\ text = FlattenSeq([i \in DOMAIN pieces |-> gaps[i] \o pieces[i]])

TextsOf(a, b) ==
  LET those == SelectSeq(chunks, LAMBDA c : c.from = a /\ c.to = b)
  IN [i \in DOMAIN those |-> those[i].text]

MarkdownKept ==
  LET n == Len(chunkDoc) IN
  /\ n > 0 => chunks # << >> /\ chunks[1].from = 1 /\ Last(chunks).to = n
  /\ \A i \in 1 .. Len(chunks) - 1 :
       \/ chunks[i].from = chunks[i + 1].from /\ chunks[i].to = chunks[i + 1].to
       \/ /\ chunks[i].to < chunks[i + 1].to
          /\ chunks[i + 1].from \in chunks[i].from .. chunks[i].to + 1
          /\ \A b \in chunks[i + 1].from .. chunks[i].to : ~IsHeading(chunkDoc, b)
  /\ \A c \in ToSet(chunks) :
       /\ \A b \in c.from + 1 .. c.to : ~IsHeading(chunkDoc, b)
       /\ RejoinsTo(GroupText(chunkDoc, [k \in 1 .. c.to + 1 - c.from |-> c.from + k - 1]),
                    TextsOf(c.from, c.to))

PdfKept ==
  \A p \in DOMAIN chunkDoc :
    LET mine == SelectSeq(chunks, LAMBDA c : c.id[1] = {p}) IN
    IF BlankText(chunkDoc[p]) THEN mine = << >>
    ELSE /\ mine # << >> /\ mine[1].from = 0 /\ Last(mine).to = Len(chunkDoc[p])
         /\ \A i \in 1 .. Len(mine) - 1 :
              /\ mine[i].to <= mine[i + 1].to
              /\ mine[i + 1].from \in mine[i].from .. mine[i].to
         /\ \A c \in ToSet(mine) :
              RejoinsTo(SubSeq(chunkDoc[p], c.from + 1, c.to),
                        LET those == SelectSeq(mine, LAMBDA d : d.id[2][2] = c.id[2][2])
                        IN [i \in DOMAIN those |-> those[i].text])

TimesCovered(line) == Cardinality({i \in DOMAIN chunks : line \in chunks[i].from .. chunks[i].to})

\* Units may nest (a class and its methods), the chunks of one do not overlap.
AstKept ==
  \A u \in DOMAIN chunkDoc : \A k \in DOMAIN chunkDoc[u].lines :
    LET line == chunkDoc[u].from + k - 1
    IN Cardinality({i \in DOMAIN chunks :
                      chunks[i].id[1] = {u} /\ line \in chunks[i].from .. chunks[i].to}) = 1

ParagraphsKept ==
  \A k \in DOMAIN chunkDoc :
    IF BlankLine(chunkDoc[k]) THEN TimesCovered(k) = 0
    ELSE TimesCovered(k) >= 1 /\ (2 * ParaOverlap <= ParaLines => TimesCovered(k) <= 2)

YamlKept ==
  LET slices == YamlSlices(chunkDoc)
      IsResource(r) == \E k \in r.a .. r.b : chunkDoc[k] = "res"
  IN IF K8sManifest(chunkDoc) = << >> THEN ParagraphsKept
     ELSE \A i \in DOMAIN slices : \A k \in slices[i].a .. slices[i].b :
            TimesCovered(k) = IF IsResource(slices[i]) THEN 1 ELSE 0

\* Chunking loses nothing.  Markdown chunks are runs of blocks in document order that
\* overlap only in prose, never cross into a heading or repeat one, and whose pieces give
\* back the text; the chunks of a PDF page reach from its first to its last character
\* without a gap; every line of an AST unit, of a Kubernetes resource and of a whole file
\* is in one chunk, and every non-blank line of a fallen-back file in one or two.
EveryPartIsChunked ==
  /\ chunkerUsed = "markdown" => MarkdownKept
  /\ chunkerUsed = "pdf"      => PdfKept
  /\ chunkerUsed = "ast"      => AstKept
  /\ chunkerUsed = "yaml"     => YamlKept
  /\ chunkerUsed = "file"     => \A k \in DOMAIN chunkDoc : TimesCovered(k) = 1
  /\ chunkerUsed = "shell"    => ParagraphsKept

\* No chunk of markdown, of an image or of a PDF exceeds max_chunk_tokens (a budget of at
\* least two, so that any character fits), and no chunk of code its number of lines.
ChunksFit ==
  \A i \in DOMAIN chunks :
    IF chunkerUsed \in {"markdown", "pdf"}
    THEN chunkPolicy.max >= 2 => TokensOf(chunks[i].text) <= chunkPolicy.max
    ELSE chunks[i].to + 1 - chunks[i].from <= Max({AstMaxLines, ParaLines})

\* Everything of a document is in its chunks, and each of them fits its reader.
ChunkedToFit == EveryPartIsChunked /\ ChunksFit

=============================================================================
