-------------------------------- MODULE Media ---------------------------------
(***************************************************************************)
(* One file of each medium through ingest_one_asset, run after run: the    *)
(* skip check over the versions of its document, extraction, OCR and       *)
(* caption, the chunker of the medium with its tier-3 fallback, and the    *)
(* row the next run compares with.                                         *)
(*                                                                         *)
(* A file is its medium, what there is to see in it, and which of several  *)
(* contents of that shape it holds.  Between runs the user edits the file, *)
(* changes settings and upgrades the program; while one lasts a read, the  *)
(* cache, OCR, the captioner or the embedder may fail and the process may  *)
(* be killed.  An edit during a run and what the stores lose are Ingest's. *)
(***************************************************************************)
EXTENDS Naturals

CONSTANTS
  Copies,    \* the contents of one shape
  MaxTurns,  \* bound: edits, changed settings and upgrades
  NoDoc

VARIABLES
  medium,     \* asset.media_type
  mediaFile,  \* what the file at the path is: [shape, copy]
  knobs,      \* the settings the handlers read
  build,      \* PARSER_VERSION and chunker_version of the program installed
  docRow,     \* the document at the path, and how its chunks were made
  mediaPc,
  forced,     \* force_reingest
  known,      \* existing_doc_ids, as far as this path goes
  mediaDoc,   \* canonical, with its chunks
  report,     \* IngestItemKind
  settled,    \* the last run ended well and nothing has changed since
  turns

mediaVars == <<medium, mediaFile, knobs, build, docRow, mediaPc, forced, known, mediaDoc,
               report, settled, turns>>

-----------------------------------------------------------------------------
(* Files, settings and programs. *)

CodeMedia == {"ast", "manifest", "shell"}
Media == {"markdown", "image", "pdf", "audio"} \cup CodeMedia

\* "hollow" yields no chunk (or an error of its chunker), "novel" is syntax only the
\* newer parser knows, "binary" is not UTF-8.
Shapes(m) ==
  CASE m = "image"    -> {"picture", "corrupt"}
    [] m = "pdf"      -> {"typed", "scanned", "encrypted"}
    [] m = "ast"      -> {"code", "hollow", "novel", "binary"}
    [] m = "manifest" -> {"resource", "hollow", "binary"}
    [] m = "shell"    -> {"code", "binary"}
    [] OTHER          -> {"text"}

Files(m) == [shape : Shapes(m), copy : Copies]

\* `tuning` is what shapes the output without being in the signature: thresholds and
\* pixels of OCR, min_char_count and render_dpi of a PDF, the captioner's model.
Values ==
  [chunking |-> {1, 2}, ocr |-> BOOLEAN, alwaysOn |-> BOOLEAN, engine |-> {"e1", "e2"},
   caption |-> {"off", "v1", "v2"}, code |-> {1, 2}, tuning |-> {1, 2}, embedder |-> {"none", "m1"}]

\* The settings that have to do with a medium.
Concern(m) ==
  {"chunking", "embedder"}
  \cup (IF m = "image" THEN {"ocr", "engine", "caption", "tuning"}
        ELSE IF m = "pdf" THEN {"ocr", "alwaysOn", "engine", "tuning"}
        ELSE IF m \in CodeMedia THEN {"code"} ELSE {})

Installed ==
  [chunking |-> 1, ocr |-> FALSE, alwaysOn |-> FALSE, engine |-> "e1", caption |-> "off",
   code |-> 1, tuning |-> 1, embedder |-> "m1"]

MediaInit ==
  /\ medium \in Media
  /\ mediaFile \in Files(medium)
  /\ knobs = Installed
  /\ build = [parser |-> "p1", chunker |-> "c1"]
  /\ docRow = NoDoc /\ mediaDoc = NoDoc /\ known = NoDoc
  /\ mediaPc = "idle" /\ forced = FALSE
  /\ report = "none" /\ settled = FALSE
  /\ turns = 0

Turn ==
  /\ mediaPc = "idle" /\ turns < MaxTurns
  /\ turns' = turns + 1
  /\ settled' = FALSE
  /\ UNCHANGED <<medium, docRow, mediaPc, forced, known, mediaDoc, report>>

EditMedia ==
  /\ Turn
  /\ mediaFile' \in Files(medium) \ {mediaFile}
  /\ UNCHANGED <<knobs, build>>

ChangeKnob ==
  /\ Turn
  /\ \E k \in Concern(medium) : \E v \in Values[k] \ {knobs[k]} : knobs' = [knobs EXCEPT ![k] = v]
  /\ UNCHANGED <<mediaFile, build>>

Upgrade ==
  /\ Turn
  /\ \/ build.parser = "p1" /\ build' = [build EXCEPT !.parser = "p2"]
     \/ build.chunker = "c1" /\ build' = [build EXCEPT !.chunker = "c2"]
  /\ UNCHANGED <<mediaFile, knobs>>

None == "none-v1"
Tier3 == "code-text-paragraph-v1"

Parsers  == {"p1", "p2", None}
ChunkersUsed == {"c1", "c2", Tier3}
AllFiles == UNION {Files(m) : m \in Media}

\* What chunks are made from, and the composite versions a document is stored with.
Makings ==
  [content : AllFiles, parser : Parsers, chunker : ChunkersUsed, chunking : {0, 1, 2},
   ocr : {"off", "failed", "e1", "e2"}, caption : {"off", "failed", "v1", "v2"}, tuning : {1, 2}]

Signatures ==
  {<<c>> : c \in {1, 2}} \cup ({1, 2} \X {1, 2}) \cup ({1, 2} \X {"unused"})
  \cup ({1, 2} \X BOOLEAN \X BOOLEAN \X {"e1", "e2"})
  \cup ({1, 2} \X BOOLEAN \X {"e1", "e2", "unused"} \X {"off", "v1", "v2"})

MediaDocs ==
  [id : AllFiles \X Parsers, content : AllFiles, parser : {<<None>>} \cup (Parsers \X Signatures),
   chunker : ChunkersUsed, embedder : {"none", "m1"}, made : Makings,
   build : [parser : {"p1", "p2"}, chunker : {"c1", "c2"}]]

ASSUME MediaAssumption == MaxTurns \in Nat /\ NoDoc \notin MediaDocs

-----------------------------------------------------------------------------
(* Versions. *)

\* The base version, which is part of the doc_id: what is not parsed has none.
BaseVersion == IF medium \in {"manifest", "shell"} THEN None ELSE build.parser

\* Mutant: the caption is left out.
SignatureButCaption ==
  CASE medium = "image" -> <<knobs.chunking, knobs.ocr, IF knobs.ocr THEN knobs.engine ELSE "">>
    [] medium = "pdf" -> <<knobs.chunking, knobs.ocr \/ knobs.alwaysOn, knobs.alwaysOn, knobs.engine>>
    [] medium \in CodeMedia -> <<knobs.chunking, knobs.code>>
    [] OTHER -> <<knobs.chunking>>

OcrActive == knobs.ocr \/ (medium = "pdf" /\ knobs.alwaysOn)

\* The engine, its model and its files count only where OCR is on.
EngineVersion == IF OcrActive THEN knobs.engine ELSE "unused"

\* ingest_config_signature
Signature ==
  CASE medium = "image" -> <<knobs.chunking, knobs.ocr, EngineVersion, knobs.caption>>
    [] medium = "pdf" -> IF OcrActive THEN <<knobs.chunking, knobs.ocr, knobs.alwaysOn, EngineVersion>>
                         ELSE <<knobs.chunking, EngineVersion>>
    [] medium \in CodeMedia -> <<knobs.chunking, knobs.code>>
    [] OTHER -> <<knobs.chunking>>

\* effective_parser_version
Composite == <<BaseVersion, Signature>>

\* The chunker of the medium.  That of shell files is the one others fall back to.
ChunkerVersion == IF medium = "shell" THEN Tier3 ELSE build.chunker

NeverFallback == FALSE  \* mutant: no bypass for documents the fallback stored

StoredIsFallback ==
  /\ medium \in {"ast", "manifest"}
  /\ docRow.chunker = Tier3 /\ docRow.parser = <<None>>

-----------------------------------------------------------------------------
(* The skip check. *)

ReportAs(kind) ==
  /\ report' = kind
  /\ mediaPc' = "idle" /\ known' = NoDoc /\ mediaDoc' = NoDoc
  /\ settled' = (kind \in {"new", "updated", "unchanged", "skipped"})

\* The run lists the documents there are, then turns to the file.
BeginAsset(force) ==
  /\ mediaPc = "idle"
  /\ forced' = force
  /\ known' = IF docRow = NoDoc THEN NoDoc ELSE docRow.id
  /\ settled' = (settled /\ ~force)
  /\ mediaPc' = "dispatch"
  /\ UNCHANGED <<medium, mediaFile, knobs, build, docRow, mediaDoc, report, turns>>

\* Audio and what no extractor takes.
SkipUnsupported ==
  /\ mediaPc = "dispatch" /\ medium = "audio"
  /\ ReportAs("skipped")
  /\ UNCHANGED <<medium, mediaFile, knobs, build, docRow, forced, turns>>

SameFile == ~forced /\ docRow # NoDoc /\ docRow.content = mediaFile
SameVersions == docRow.parser = Composite /\ docRow.chunker = ChunkerVersion
SameEmbedder == docRow.embedder = knobs.embedder

UpToDate == SameFile /\ (StoredIsFallback \/ SameVersions) /\ SameEmbedder

SkipFresh ==
  /\ mediaPc = "dispatch" /\ medium # "audio"
  /\ UpToDate
  /\ ReportAs("unchanged")
  /\ UNCHANGED <<medium, mediaFile, knobs, build, docRow, forced, turns>>

\* A document of the same bytes under another parser version goes before the new one is made.
Bumped == SameFile /\ ~StoredIsFallback /\ docRow.parser # Composite

Process ==
  /\ mediaPc = "dispatch" /\ medium # "audio"
  /\ ~UpToDate
  /\ docRow' = IF Bumped THEN NoDoc ELSE docRow
  /\ mediaPc' = "extract"
  /\ UNCHANGED <<medium, mediaFile, knobs, build, forced, known, mediaDoc, report, settled, turns>>

-----------------------------------------------------------------------------
(* Extraction and chunks. *)

\* What the chunks of the file are made from, whatever fails on the way leniently.
MadeOf(parser, chunker, ocr, caption) ==
  [content |-> mediaFile, parser |-> parser, chunker |-> chunker,
   chunking |-> IF medium \in CodeMedia THEN 0 ELSE knobs.chunking,
   ocr |-> ocr, caption |-> caption, tuning |-> knobs.tuning]

MarkdownChunks == {MadeOf(build.parser, build.chunker, "off", "off")}

\* OCR and caption may each fail: the document goes on without.
OcrOutcomes == IF OcrActive THEN {knobs.engine, "failed"} ELSE {"off"}
CaptionOutcomes == IF knobs.caption # "off" THEN {knobs.caption, "failed"} ELSE {"off"}

ImageChunks ==
  IF mediaFile.shape = "corrupt" THEN {}
  ELSE {MadeOf(build.parser, build.chunker, o, c) : o \in OcrOutcomes, c \in CaptionOutcomes}

\* A page with text enough is read only if alwaysOn says so.
PdfChunks ==
  IF mediaFile.shape = "encrypted" THEN {}
  ELSE {MadeOf(build.parser, build.chunker, o, "off") :
          o \in IF mediaFile.shape = "typed" /\ ~knobs.alwaysOn THEN {"off"} ELSE OcrOutcomes}

\* The extractor of a language failed: the file is taken as one block of text.
ExtractFellBack == medium = "ast" /\ mediaFile.shape = "novel" /\ build.parser = "p1"

\* No chunk, or a chunker that failed.
ChunkFellBack == medium # "shell" /\ mediaFile.shape = "hollow"

\* synthesize_tier2_document: what has no extractor, or one that failed, is one block of
\* text without a parser.
Synthesized == medium \in {"manifest", "shell"} \/ ExtractFellBack

CodeChunks ==
  IF mediaFile.shape = "binary" THEN {}
  ELSE {MadeOf(IF Synthesized THEN None ELSE build.parser,
                IF ExtractFellBack \/ ChunkFellBack THEN Tier3 ELSE ChunkerVersion, "off", "off")}

ChunksOfFile ==
  CASE medium = "image" -> ImageChunks
    [] medium = "pdf" -> PdfChunks
    [] medium \in CodeMedia -> CodeChunks
    [] OTHER -> MarkdownChunks

\* The document's id keeps the base version it was made with; its parser_version is the
\* composite, or the bare sentinel after either fallback.
DocumentOf(made) ==
  LET fellBack == medium # "shell" /\ made.chunker = Tier3
  IN [id |-> <<mediaFile, made.parser>>, content |-> mediaFile,
      parser |-> IF fellBack THEN <<None>> ELSE Composite,
      chunker |-> made.chunker, embedder |-> knobs.embedder,
      made |-> made, build |-> build]

Extract ==
  /\ mediaPc = "extract"
  /\ \E made \in ChunksOfFile : mediaDoc' = DocumentOf(made)
  /\ mediaPc' = "store"
  /\ UNCHANGED <<medium, mediaFile, knobs, build, docRow, forced, known, report, settled, turns>>

\* The file cannot be read or extracted, or the derivation cache fails.
ExtractFails ==
  /\ mediaPc = "extract"
  /\ ReportAs("error")
  /\ UNCHANGED <<medium, mediaFile, knobs, build, docRow, forced, turns>>

-----------------------------------------------------------------------------
(* Store and embed. *)

\* A document of other bytes at the path has been purged with its asset; one of these
\* bytes under another id is in the way.
RowInTheWay == docRow # NoDoc /\ docRow.content = mediaFile /\ docRow.id # mediaDoc.id

StoreRow ==
  /\ mediaPc = "store"
  /\ ~RowInTheWay
  /\ docRow' = mediaDoc
  /\ mediaPc' = "embed"
  /\ UNCHANGED <<medium, mediaFile, knobs, build, forced, known, mediaDoc, report, settled, turns>>

StoreFails ==
  /\ mediaPc = "store"
  /\ RowInTheWay
  /\ ReportAs("error")
  /\ UNCHANGED <<medium, mediaFile, knobs, build, docRow, forced, turns>>

Finish ==
  /\ mediaPc = "embed"
  /\ ReportAs(IF known = mediaDoc.id THEN "updated" ELSE "new")
  /\ UNCHANGED <<medium, mediaFile, knobs, build, docRow, forced, turns>>

\* The row is stored and stamped already.
VectorsFail ==
  /\ mediaPc = "embed" /\ knobs.embedder # "none"
  /\ ReportAs("error")
  /\ UNCHANGED <<medium, mediaFile, knobs, build, docRow, forced, turns>>

Killed ==
  /\ mediaPc # "idle"
  /\ ReportAs("none")
  /\ UNCHANGED <<medium, mediaFile, knobs, build, docRow, forced, turns>>

MediaNext ==
  \/ EditMedia \/ ChangeKnob \/ Upgrade
  \/ \E force \in BOOLEAN : BeginAsset(force)
  \/ SkipUnsupported \/ SkipFresh \/ Process
  \/ Extract \/ ExtractFails
  \/ StoreRow \/ StoreFails
  \/ Finish \/ VectorsFail
  \/ Killed

MediaSpec == MediaInit /\ [][MediaNext]_mediaVars

-----------------------------------------------------------------------------

\* A file reported unchanged has the chunks a run would make of it now, with these
\* settings and this program.  What the signature leaves out may differ, OCR or a
\* caption that failed is not tried again, and what the fallback stored stays as the
\* program of the time made it.
UnchangedIsFresh ==
  report = "unchanged" /\ settled =>
    \/ [docRow.made EXCEPT !.tuning = knobs.tuning] \in ChunksOfFile
    \/ StoredIsFallback /\ docRow.build # build

\* A run over a file the last one took in well, nothing having changed, does not process
\* it again.
SecondRunSkips == settled => mediaPc \in {"idle", "dispatch"}

\* The skip check neither keeps what has changed nor processes what has not.
SkipsAreExact == UnchangedIsFresh /\ SecondRunSkips

=============================================================================
