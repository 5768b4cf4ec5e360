------------------------------- MODULE PdfOcr -------------------------------
(***************************************************************************)
(* apply_ocr_to_pdf_pages: the page loop that replaces or doubles the      *)
(* extracted text of a PDF with OCR, page by page, through the derivation  *)
(* cache, and that a page may leave early in four ways.                    *)
(***************************************************************************)
EXTENDS DerivationCache

CONSTANTS
  PdfPages,    \* number of pages
  PageImage,   \* [1 .. PdfPages -> Pictures]: what is drawn on each page
  Extracted    \* the text layer of a page, as the extractor left it

ASSUME PdfAssumption == PdfPages \in Nat /\ PageImage \in [1 .. PdfPages -> Pictures]

VARIABLES
  pdfOpts,     \* PdfOcrOpts, and whether pdfium opened the document
  textLayer,   \* page -> "enough" or "poor" (min_char_count, valid_ratio_threshold)
  pdfEngine,
  pdfPc,       \* "page", "raster", "ask", "recognize", "put", "apply", "done", "aborted"
  pdfPage,     \* page_num
  raster,      \* the image to recognize: the rendered page or its one embedded JPEG
  pdfText,     \* the OCR result in hand
  pdfWasHit,   \* was_cache_hit
  pageText,    \* page -> the text of its block
  dualBlocks,  \* ocr_blocks
  progress,    \* the events emitted
  newEvents,   \* provenance: warnings and OcrApplied
  pagesOcrd, pagesSkipped,
  cancelled    \* opts.cancel

pdfSetting == <<pdfOpts, textLayer, pdfEngine>>
pdfWork    == <<raster, pdfText, pdfWasHit>>
pdfDoc     == <<pageText, dualBlocks, newEvents>>
pdfCounts  == <<pagesOcrd, pagesSkipped>>
pdfVars    == <<pdfSetting, pdfPc, pdfPage, pdfWork, pdfDoc, progress, pdfCounts, cancelled>>

Pages == 1 .. PdfPages

\* An enabled call: the facade sets enabled when either switch is on.
PdfInit ==
  /\ pdfOpts \in [alwaysOn : BOOLEAN, cached : BOOLEAN, renderer : {"none", "opened", "unopenable"}]
  /\ textLayer \in [Pages -> {"enough", "poor"}]
  /\ pdfEngine \in Engines
  /\ pdfPc = "page" /\ pdfPage = 1
  /\ raster = NoValue /\ pdfText = NoValue /\ pdfWasHit = FALSE
  /\ pageText = [p \in Pages |-> Extracted]
  /\ dualBlocks = << >> /\ progress = << >> /\ newEvents = << >>
  /\ pagesOcrd = 0 /\ pagesSkipped = 0
  /\ cancelled = FALSE

Poor(p) == textLayer[p] = "poor"              \* needs_ocr
Chosen(p) == pdfOpts.alwaysOn \/ Poor(p)      \* do_ocr

Tell(kind, skipped) ==
  progress' = Append(progress, [kind |-> kind, page |-> pdfPage, skipped |-> skipped])

Note(kind) == newEvents' = Append(newEvents, [kind |-> kind, page |-> pdfPage])

NextPage == pdfPage' = pdfPage + 1 /\ pdfPc' = "page"

\* The end of the loop: blocks and events are appended to the document.
PdfDone ==
  /\ pdfPc = "page" /\ pdfPage > PdfPages
  /\ pdfPc' = "done"
  /\ UNCHANGED <<pdfSetting, pdfPage, pdfWork, pdfDoc, progress, pdfCounts, cancelled>>

PageCancelled ==
  /\ pdfPc = "page" /\ pdfPage \in Pages
  /\ cancelled
  /\ pdfPc' = "aborted"
  /\ UNCHANGED <<pdfSetting, pdfPage, pdfWork, pdfDoc, progress, pdfCounts, cancelled>>

PagePassed ==
  /\ pdfPc = "page" /\ pdfPage \in Pages
  /\ ~cancelled /\ ~Chosen(pdfPage)
  /\ NextPage
  /\ UNCHANGED <<pdfSetting, pdfWork, pdfDoc, progress, pdfCounts, cancelled>>

PageStarted ==
  /\ pdfPc = "page" /\ pdfPage \in Pages
  /\ ~cancelled /\ Chosen(pdfPage)
  /\ Tell("Started", FALSE)
  /\ pdfPc' = "raster"
  /\ UNCHANGED <<pdfSetting, pdfPage, pdfWork, pdfDoc, pdfCounts, cancelled>>

\* The rendering when pdfium opened the file, else (or failing that) the embedded JPEG.
Rastered ==
  /\ pdfPc = "raster"
  /\ raster' = PageImage[pdfPage]
  /\ pdfPc' = IF pdfOpts.cached THEN "ask" ELSE "recognize"
  /\ UNCHANGED <<pdfSetting, pdfPage, pdfText, pdfWasHit, pdfDoc, progress, pdfCounts, cancelled>>

\* NoRenderer, Render or Unopenable.
RasterFails ==
  /\ pdfPc = "raster"
  /\ Note("Warning")
  /\ pagesSkipped' = pagesSkipped + 1
  /\ Tell("Finished", TRUE)
  /\ NextPage
  /\ UNCHANGED <<pdfSetting, pdfWork, pageText, dualBlocks, pagesOcrd, cancelled>>

\* `dct(&pdf_doc)?`: without a renderer a malformed page ends the document.
RasterAborts ==
  /\ pdfPc = "raster" /\ pdfOpts.renderer = "none"
  /\ pdfPc' = "aborted"
  /\ UNCHANGED <<pdfSetting, pdfPage, pdfWork, pdfDoc, progress, pdfCounts, cancelled>>

PageKey == DerivationKey("ocr", raster, pdfEngine)

\* A hit is also touched.
PageHit ==
  /\ pdfPc = "ask" /\ CacheHit(PageKey)
  /\ pdfText' = derivations[PageKey] /\ pdfWasHit' = TRUE
  /\ pdfPc' = "apply"
  /\ UNCHANGED <<pdfSetting, pdfPage, raster, pdfDoc, progress, pdfCounts, cancelled>>

\* Absent or damaged; and a lookup that fails counts as a miss.
PageMiss ==
  /\ pdfPc = "ask"
  /\ pdfPc' = "recognize"
  /\ UNCHANGED <<pdfSetting, pdfPage, pdfWork, pdfDoc, progress, pdfCounts, cancelled>>

RecognizePage ==
  /\ pdfPc = "recognize"
  /\ pdfText' = Derive("ocr", raster, pdfEngine) /\ pdfWasHit' = FALSE
  /\ pdfPc' = IF pdfOpts.cached THEN "put" ELSE "apply"
  /\ UNCHANGED <<pdfSetting, pdfPage, raster, pdfDoc, progress, pdfCounts, cancelled>>

\* Mutant: the failed page is left without its Finished event.
RecognizePageQuietly ==
  /\ pdfPc = "recognize"
  /\ Note("Warning")
  /\ NextPage
  /\ UNCHANGED <<pdfSetting, pdfWork, pageText, dualBlocks, progress, pdfCounts, cancelled>>

\* "ocr_error": not counted in pages_skipped.
RecognizePageFails ==
  /\ pdfPc = "recognize"
  /\ Note("Warning")
  /\ Tell("Finished", TRUE)
  /\ NextPage
  /\ UNCHANGED <<pdfSetting, pdfWork, pageText, dualBlocks, pdfCounts, cancelled>>

\* Best effort: a put that fails is ignored.
PutPage ==
  /\ pdfPc = "put"
  /\ CachePut(Single(PageKey, pdfText)) \/ UNCHANGED derivations
  /\ pdfPc' = "apply"
  /\ UNCHANGED <<pdfSetting, pdfPage, pdfWork, pdfDoc, progress, pdfCounts, cancelled>>

\* Beside the text of a good page, instead of a poor one's.
PlaceText ==
  IF pdfOpts.alwaysOn /\ ~Poor(pdfPage)
  THEN /\ dualBlocks' = Append(dualBlocks, [page |-> pdfPage, text |-> pdfText,
                                            ordinal |-> pdfPage - 1 + PdfPages])
       /\ UNCHANGED pageText
  ELSE /\ pageText' = [pageText EXCEPT ![pdfPage] = pdfText]
       /\ UNCHANGED dualBlocks

ApplyPage ==
  /\ pdfPc = "apply"
  /\ pagesOcrd' = pagesOcrd + 1
  /\ PlaceText
  /\ IF pdfWasHit THEN UNCHANGED newEvents ELSE Note("OcrApplied")
  /\ Tell("Finished", FALSE)
  /\ NextPage
  /\ UNCHANGED <<pdfSetting, pdfWork, pagesSkipped, cancelled>>

\* SIGINT, or the client's cancel, at any time.
Cancel ==
  /\ ~cancelled /\ pdfPc \notin {"done", "aborted"}
  /\ cancelled' = TRUE
  /\ UNCHANGED <<pdfSetting, pdfPc, pdfPage, pdfWork, pdfDoc, progress, pdfCounts>>

PdfStep ==
  \/ PdfDone \/ PageCancelled \/ PagePassed \/ PageStarted \/ Rastered \/ RasterFails
  \/ RasterAborts \/ PageHit \/ PageMiss \/ RecognizePage \/ RecognizePageFails \/ ApplyPage
  \/ Cancel

\* Only the put, and other processes, change the cache.
PdfNext ==
  /\ \/ PdfStep /\ UNCHANGED <<derivations, upsetsLeft>>
     \/ PutPage /\ UNCHANGED upsetsLeft
     \/ CacheUpset /\ pdfPc = "ask" /\ UNCHANGED pdfVars
  /\ UNCHANGED <<derivePc, deriveCall, deriveWork, derivesLeft>>

PdfSpec == DeriveInit /\ PdfInit /\ [][PdfNext]_<<deriveVars, pdfVars>>

-----------------------------------------------------------------------------
(* Properties *)

PdfTypeOK ==
  /\ pdfPc \in {"page", "raster", "ask", "recognize", "put", "apply", "done", "aborted"}
  /\ pdfPage \in 1 .. PdfPages + 1
  /\ raster \in Pictures \cup {NoValue} /\ pdfText \in DerivedValue \cup {NoValue}
  /\ pageText \in [Pages -> DerivedValue \cup {Extracted}]
  /\ pagesOcrd \in Nat /\ pagesSkipped \in Nat
  /\ pdfWasHit \in BOOLEAN /\ cancelled \in BOOLEAN

Finished(p) == {k \in DOMAIN progress : progress[k].kind = "Finished" /\ progress[k].page = p}
Read(p) == \E k \in Finished(p) : ~progress[k].skipped
Dual(p) == {k \in DOMAIN dualBlocks : dualBlocks[k].page = p}

\* The text recognized on page p, by the engine of this run, fresh or cached.
ReadFrom(p, text) == text = Derive("ocr", PageImage[p], pdfEngine)

\* When the loop ends each chosen page has been announced once and finished once, right
\* after it, on every way out; the pages read are the ones counted.  A page that was not
\* read keeps its extracted text; one that was has its own OCR text, in a block of its
\* own beside a good text layer and in place of a poor one, whether from the cache or not.
PagesAreSettled ==
  pdfPc = "done" =>
    /\ Len(progress) = 2 * Cardinality({p \in Pages : Chosen(p)})
    /\ \A k \in 1 .. Len(progress) \div 2 :
         /\ progress[2*k - 1].kind = "Started" /\ progress[2*k].kind = "Finished"
         /\ progress[2*k - 1].page = progress[2*k].page
    /\ \A p \in Pages : Cardinality(Finished(p)) = IF Chosen(p) THEN 1 ELSE 0
    /\ pagesOcrd = Cardinality({p \in Pages : Read(p)})
    /\ \A p \in Pages :
         /\ ~Read(p) \/ ~Poor(p) => pageText[p] = Extracted
         /\ Read(p) /\ Poor(p) => ReadFrom(p, pageText[p]) /\ Dual(p) = {}
         /\ Read(p) /\ ~Poor(p) => \E k \in Dual(p) : Dual(p) = {k} /\ ReadFrom(p, dualBlocks[k].text)
         /\ ~Read(p) => Dual(p) = {}
=============================================================================
