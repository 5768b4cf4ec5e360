------------------------------ MODULE Markdown ------------------------------
(***************************************************************************)
(* The Markdown extractor: the front matter, the walk over the events of   *)
(* pulldown-cmark that makes the blocks, and the document built of them.   *)
(* The parser is external: it emits the starts and ends of a well-formed   *)
(* tree of tags, and each Text or Code event carries one word, numbered in *)
(* the order of the file.  A word with nothing to see is not modelled, and *)
(* what the walk puts between words (bullets, fences, "> ") is left out.   *)
(***************************************************************************)
EXTENDS Naturals, Sequences, FiniteSets, FiniteSetsExt, SequencesExt

CONSTANTS
  Fronts,    \* the first lines of a file, each a sequence of line kinds
  Levels,    \* 1 .. the deepest heading
  MaxTags,   \* tags of a file, a bound of the model
  MaxWords   \* words of a file, a bound of the model

VARIABLES
  front,     \* the lines before the tree begins
  metadata,  \* [title, trust, warned], once the front matter is parsed
  open,      \* the parser's open tags
  tags, words,
  frames,    \* WalkState.frames
  headings,  \* WalkState.heading_stack: a level's text, or Unseen
  blocks,    \* WalkState.blocks: [kind, path, level, text]
  spoken,    \* ghost: each word so far, as the tags it stands in
  stray,     \* ghost: a heading stood in a quote or a list
  document   \* [title, ids], or Unbuilt

mdVars == <<front, metadata, open, tags, words, frames, headings, blocks, spoken, stray, document>>

Unseen == <<0>>
Unbuilt == [title |-> << >>, ids |-> << >>]

MdInit ==
  /\ front \in Fronts
  /\ metadata = [parsed |-> FALSE]
  /\ open = << >> /\ tags = 0 /\ words = 0
  /\ frames = << >>
  /\ headings = [l \in Levels |-> Unseen]
  /\ blocks = << >> /\ spoken = << >> /\ stray = FALSE
  /\ document = Unbuilt

-----------------------------------------------------------------------------
(* Front matter. *)

FrontMarkers == {"---", "+++"}

\* The lines between the markers and how many the front matter takes; a marker
\* that is never closed is text of the body.
DetectDelimiters(lines) ==
  LET closing == {k \in 2 .. Len(lines) : lines[k] = lines[1]}
  IN IF lines = << >> \/ lines[1] \notin FrontMarkers \/ closing = {}
     THEN [taken |-> 0, inner |-> << >>]
     ELSE [taken |-> Min(closing), inner |-> SubSeq(lines, 2, Min(closing) - 1)]

Says(inner, key) == \E k \in DOMAIN inner : inner[k] = key

\* "bad" is what does not parse as a map.  A trust level that is none of the
\* three falls back to the source's.
DeriveMetadata(inner) ==
  LET raw == IF Says(inner, "bad") THEN << >> ELSE inner
  IN [parsed |-> TRUE,
      title |-> Says(raw, "title"),
      trust |-> IF Says(raw, "trust") THEN "declared" ELSE "source",
      warned |-> Says(inner, "bad") \/ Says(raw, "trust?")]

ParseFrontmatter ==
  /\ metadata = [parsed |-> FALSE]
  /\ metadata' = DeriveMetadata(DetectDelimiters(front).inner)
  /\ UNCHANGED <<front, open, tags, words, frames, headings, blocks, spoken, stray, document>>

-----------------------------------------------------------------------------
(* InlineBuf: the words of its text, and a stack of lists of inlines, each *)
(* kept as the words it flattens to.                                       *)

InlineBuf == [text |-> << >>, stack |-> <<[wrap |-> "top", kids |-> << >>, plain |-> << >>]>>]

PushInline(buf, flat) == [buf EXCEPT !.stack[Len(buf.stack)].kids = @ \o flat]

PushText(buf, flat) == PushInline([buf EXCEPT !.text = @ \o flat], flat)

PushLinkText(buf, flat) ==
  IF Last(buf.stack).wrap = "link"
  THEN [buf EXCEPT !.stack[Len(buf.stack)].plain = @ \o flat] ELSE buf

OpenInline(buf, wrap) ==
  [buf EXCEPT !.stack = Append(@, [wrap |-> wrap, kids |-> << >>, plain |-> << >>])]

\* A link is its plain text when it has any, and else what its inlines flatten to.
CloseInline(buf) ==
  LET done == Last(buf.stack)
  IN PushInline([buf EXCEPT !.stack = Front(@)],
                IF done.plain = << >> THEN done.kids ELSE done.plain)

Flat(buf) == buf.stack[1].kids

-----------------------------------------------------------------------------
(* WalkState. *)

Holders == {"heading", "paragraph", "item"}

\* with_current_inlines: the innermost frame that takes inlines, or 0.
Holder ==
  LET stops == {k \in DOMAIN frames : frames[k].is \in Holders \cup {"code", "table"}}
  IN IF stops = {} \/ frames[Max(stops)].is \notin Holders THEN 0 ELSE Max(stops)

\* heading_path
PathBelow(stack, level) ==
  SelectSeq([l \in 1 .. level |-> stack[l]], LAMBDA t : t \notin {Unseen, << >>})

HeadingPath == PathBelow(headings, Cardinality(Levels))

\* flatten_block_into_item: a block's words join those of the item.
Flattened(buf, block) == PushText(buf, block.text)

EmittedFlat(stack, block) == <<stack, Append(blocks, block)>>  \* mutant: never into an item

\* emit_block: into the nearest quote or list item, where it is flattened to
\* its words, and only else into the document.
Emitted(stack, block) ==
  LET into == {k \in DOMAIN stack : stack[k].is \in {"quote", "item"}}
  IN IF into = {} THEN <<stack, Append(blocks, block)>>
     ELSE IF stack[Max(into)].is = "quote"
     THEN <<[stack EXCEPT ![Max(into)].children = Append(@, block)], blocks>>
     ELSE <<[stack EXCEPT ![Max(into)].buf = Flattened(@, block)], blocks>>

Emit(stack, block) ==
  /\ frames' = Emitted(stack, block)[1]
  /\ blocks' = Emitted(stack, block)[2]

Block(kind, path, level, text) == [kind |-> kind, path |-> path, level |-> level, text |-> text]

-----------------------------------------------------------------------------
(* The events. *)

Inside == IF open = << >> THEN "document" ELSE Last(open)
Reading == metadata # [parsed |-> FALSE] /\ document = Unbuilt
HoldsBlocks == Inside \in {"document", "quote", "item"}
HoldsInlines == Inside \in {"heading", "paragraph", "item", "strong", "link", "image", "table"}
Fixed == UNCHANGED <<front, metadata, document>>

Opening(tag) ==
  /\ Reading /\ tags < MaxTags
  /\ tags' = tags + 1
  /\ open' = Append(open, tag)
  /\ stray' = (stray \/ (tag = "heading" /\ open # << >>))
  /\ UNCHANGED <<words, headings, blocks, spoken>>
  /\ Fixed

Closing(tag) ==
  /\ Reading /\ Inside = tag
  /\ open' = Front(open)
  /\ UNCHANGED <<tags, words, spoken, stray>>
  /\ Fixed

Push(frame) == frames' = Append(frames, frame)

StartHeading(l) ==
  /\ HoldsBlocks /\ Opening("heading")
  /\ Push([is |-> "heading", level |-> l, buf |-> InlineBuf])

\* In a list item a paragraph is no frame: its inlines flow into the item.
StartParagraph ==
  /\ HoldsBlocks /\ Opening("paragraph")
  /\ IF frames # << >> /\ Last(frames).is = "item" THEN UNCHANGED frames
     ELSE Push([is |-> "paragraph", buf |-> InlineBuf, alt |-> << >>,
                depth |-> 0, images |-> 0, other |-> FALSE])

StartQuote == HoldsBlocks /\ Opening("quote") /\ Push([is |-> "quote", children |-> << >>])

StartList ==
  /\ HoldsBlocks /\ Opening("list")
  /\ Push([is |-> "list", items |-> << >>,
           nested |-> frames # << >> /\ Last(frames).is = "item"])

StartItem == Inside = "list" /\ Opening("item") /\ Push([is |-> "item", buf |-> InlineBuf])
StartCode == HoldsBlocks /\ Opening("code") /\ Push([is |-> "code", text |-> << >>])
StartTable == HoldsBlocks /\ Opening("table") /\ Push([is |-> "table", text |-> << >>])

\* flag_non_image_in_paragraph
Flagged(stack) ==
  IF stack # << >> /\ Last(stack).is = "paragraph" /\ Last(stack).depth = 0
  THEN [stack EXCEPT ![Len(stack)].other = TRUE] ELSE stack

InHolder(stack, Op(_)) ==
  IF Holder = 0 THEN stack ELSE [stack EXCEPT ![Holder].buf = Op(@)]

\* Strong and Emphasis are one: their kids are kept in place.
StartInline(tag) ==
  /\ HoldsInlines /\ Opening(tag)
  /\ tag = "link" => \A k \in DOMAIN open : open[k] # "link"
  /\ frames' = InHolder(Flagged(frames), LAMBDA buf : OpenInline(buf, tag))

\* Outside a paragraph an image is no frame: its alt text is text like any other.
StartImage ==
  /\ HoldsInlines /\ Opening("image")
  /\ IF Last(frames).is # "paragraph" THEN UNCHANGED frames
     ELSE frames' = [frames EXCEPT ![Len(frames)].depth = @ + 1,
                                   ![Len(frames)].images = @ + 1,
                                   ![Len(frames)].alt = IF Last(frames).images = 0 THEN << >> ELSE @]

Speaking ==
  /\ Reading /\ words < MaxWords
  /\ words' = words + 1
  /\ spoken' = Append(spoken, open)
  /\ UNCHANGED <<open, tags, headings, blocks, stray>>
  /\ Fixed

Text ==
  /\ HoldsInlines \/ Inside = "code"
  /\ Speaking
  /\ LET top == Last(frames)
         w == <<words + 1>>
     IN IF top.is \in {"code", "table"}
        THEN frames' = [frames EXCEPT ![Len(frames)].text = @ \o w]
        ELSE IF top.is = "paragraph" /\ top.depth > 0
        THEN frames' = [frames EXCEPT ![Len(frames)].alt = @ \o w]
        ELSE frames' = InHolder(Flagged(frames), LAMBDA buf : PushLinkText(PushText(buf, w), w))

\* Code in an image's alt text goes into the paragraph all the same.
CodeSpan ==
  /\ HoldsInlines /\ Speaking
  /\ LET w == <<words + 1>>
     IN IF Last(frames).is = "table"
        THEN frames' = [frames EXCEPT ![Len(frames)].text = @ \o w]
        ELSE frames' = InHolder(Flagged(frames), LAMBDA buf : PushLinkText(PushText(buf, w), w))

EndInline(tag) ==
  /\ Closing(tag)
  /\ frames' = InHolder(frames, CloseInline)
  /\ UNCHANGED <<headings, blocks>>

EndImage ==
  /\ Closing("image")
  /\ IF Last(frames).is # "paragraph" THEN UNCHANGED frames
     ELSE frames' = [frames EXCEPT ![Len(frames)].depth = IF @ > 0 THEN @ - 1 ELSE 0]
  /\ UNCHANGED <<headings, blocks>>

\* Mutant: a heading replaces only the heading of its own level.
SetHeadingAlone(stack, l, text) == [stack EXCEPT ![l] = text]

\* A heading ends the sections of deeper levels.
SetHeading(stack, l, text) ==
  [k \in DOMAIN stack |-> IF k = l THEN text ELSE IF k > l THEN Unseen ELSE stack[k]]

EndHeading ==
  /\ Closing("heading")
  /\ LET f == Last(frames)
     IN /\ headings' = SetHeading(headings, f.level, f.buf.text)
        /\ Emit(Front(frames),
                Block("heading", PathBelow(headings', f.level - 1), f.level, f.buf.text))

\* A paragraph of one image and nothing else to see becomes an ImageRef.
EndParagraph ==
  /\ Closing("paragraph")
  /\ LET f == Last(frames)
     IN IF f.is # "paragraph" THEN UNCHANGED <<frames, blocks>>
        ELSE IF f.images = 1 /\ ~f.other
        THEN Emit(Front(frames), Block("imageref", HeadingPath, 0, f.alt))
        ELSE Emit(Front(frames), Block("paragraph", HeadingPath, 0, f.buf.text))
  /\ UNCHANGED headings

\* Only the paragraphs, quotes and headings of a quote are kept.
EndQuote ==
  /\ Closing("quote")
  /\ LET kept == SelectSeq(Last(frames).children,
                           LAMBDA c : c.kind \in {"paragraph", "quote", "heading"})
     IN Emit(Front(frames),
             Block("quote", HeadingPath, 0, FlattenSeq([k \in DOMAIN kept |-> kept[k].text])))
  /\ UNCHANGED headings

\* A list directly in an item becomes text of the item.
EndList ==
  /\ Closing("list")
  /\ LET text == FlattenSeq(Last(frames).items)
         outer == Front(frames)
     IN IF Last(frames).nested
        THEN /\ frames' = [outer EXCEPT ![Len(outer)].buf = PushText(@, text)]
             /\ UNCHANGED blocks
        ELSE Emit(outer, Block("list", HeadingPath, 0, text))
  /\ UNCHANGED headings

\* An item is its inlines: the text of its buffer is dropped.
EndItem ==
  /\ Closing("item")
  /\ LET outer == Front(frames)
     IN frames' = [outer EXCEPT ![Len(outer)].items = Append(@, Flat(Last(frames).buf))]
  /\ UNCHANGED <<headings, blocks>>

EndVerbatim(tag) ==
  /\ Closing(tag)
  /\ Emit(Front(frames), Block(tag, HeadingPath, 0, Last(frames).text))
  /\ UNCHANGED headings

-----------------------------------------------------------------------------
(* build_canonical_document. *)

\* next_ordinal: how many blocks before have the same path and kind.
Ordinal(k) ==
  Cardinality({j \in 1 .. k - 1 : blocks[j].path = blocks[k].path /\ blocks[j].kind = blocks[k].kind})

LiftBlock(k) == <<blocks[k].kind, blocks[k].path, Ordinal(k)>>

FirstText(Is(_)) ==
  LET found == {k \in DOMAIN blocks : Is(blocks[k]) /\ blocks[k].text # << >>}
  IN IF found = {} THEN << >> ELSE blocks[Min(found)].text

DeriveTitle ==
  LET h1 == FirstText(LAMBDA b : b.kind = "heading" /\ b.level = 1)
      h2 == FirstText(LAMBDA b : b.kind = "heading" /\ b.level = 2)
      opening == FirstText(LAMBDA b : b.kind = "paragraph")
  IN IF metadata.title THEN <<"title">>
     ELSE IF h1 # << >> THEN h1 ELSE IF h2 # << >> THEN h2
     ELSE IF opening # << >> THEN opening ELSE <<"stem">>

BuildDocument ==
  /\ Reading /\ open = << >> /\ tags > 0
  /\ document' = [title |-> DeriveTitle, ids |-> [k \in DOMAIN blocks |-> LiftBlock(k)]]
  /\ UNCHANGED <<front, metadata, open, tags, words, frames, headings, blocks, spoken, stray>>

MdNext ==
  \/ ParseFrontmatter
  \/ \E l \in Levels : StartHeading(l)
  \/ StartParagraph \/ StartQuote \/ StartList \/ StartItem \/ StartCode \/ StartTable
  \/ StartImage \/ \E tag \in {"strong", "link"} : StartInline(tag) \/ EndInline(tag)
  \/ Text \/ CodeSpan
  \/ EndHeading \/ EndParagraph \/ EndQuote \/ EndList \/ EndItem \/ EndImage
  \/ \E tag \in {"code", "table"} : EndVerbatim(tag)
  \/ BuildDocument

MdSpec == MdInit /\ [][MdNext]_mdVars

-----------------------------------------------------------------------------
(* Properties. *)

MdTypeOK ==
  /\ open \in Seq({"heading", "paragraph", "quote", "list", "item", "code", "table",
                   "strong", "link", "image"})
  /\ Len(frames) <= Len(open)
  /\ headings \in [Levels -> Seq(0 .. MaxWords)]
  /\ \A k \in DOMAIN blocks : blocks[k].text \in Seq(1 .. MaxWords)
  /\ document # Unbuilt => open = << >> /\ frames = << >>

Within(w, tag) == tag \in ToSet(spoken[w])
Adjacent(w, outer, inner) ==
  \E k \in 2 .. Len(spoken[w]) : spoken[w][k - 1] = outer /\ spoken[w][k] \in inner

\* The words the walk may drop: what stands in a list, code block or table of a
\* quote; an image's alt text in a paragraph; formatted words of a link.
MayGo(w) ==
  \/ Adjacent(w, "quote", {"list", "code", "table"})
  \/ Within(w, "image")
  \/ Within(w, "link") /\ Within(w, "strong")

Kept == FlattenSeq([k \in DOMAIN blocks |-> blocks[k].text])

\* Whatever the nesting, the blocks of a document have its words in the order
\* of the file, each once, and nothing to see is lost but in a quote's lists,
\* code and tables, in an image and in the formatted part of a link.
WordsStayInOrder ==
  document # Unbuilt =>
    /\ \A i, j \in DOMAIN Kept : i < j => Kept[i] < Kept[j]
    /\ \A w \in 1 .. words : MayGo(w) \/ w \in ToSet(Kept)

\* The heading path of a block is the sections it stands in: the headings before
\* it that no later one of the same or a lower level has ended, without the
\* empty ones.  Files with a heading inside a list or a quote are left out: the
\* walk lets it begin a section of the whole document.
PathsAreSections ==
  document # Unbuilt /\ ~stray =>
    \A k \in DOMAIN blocks :
      LET Heads(j) == blocks[j].kind = "heading"
          Ends(i, j) == Heads(i) /\ blocks[i].level <= blocks[j].level
          around == SelectSeq([j \in 1 .. k - 1 |-> j],
                              LAMBDA j : Heads(j) /\ \A i \in j + 1 .. k - 1 : ~Ends(i, j))
          above == SelectSeq(around, LAMBDA j : ~Heads(k) \/ ~Ends(k, j))
      IN blocks[k].path =
           SelectSeq([n \in DOMAIN above |-> blocks[above[n]].text], LAMBDA t : t # << >>)

\* The blocks of a document are its text, each in the section it stands in.
BlocksAreTheText == WordsStayInOrder /\ PathsAreSections

=============================================================================
