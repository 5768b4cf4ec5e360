------------------------------- MODULE MCCalls --------------------------------
(* Instances of the components of Calls, small enough to run together. *)
EXTENDS Calls, MCWorkspace

CONSTANTS p1, p2, p3, i1, i2, t1, t1d, t2

-----------------------------------------------------------------------------
(* Rag: p1 is the short passage.  The other two are alike. *)

MCPassageSize == p1 :> 1 @@ p2 :> 2 @@ p3 :> 2
MCSymmetry == Permutations({p2, p3})

-----------------------------------------------------------------------------
(* DerivationCache and PdfOcr: t1 and t1d are one text in two encodings. *)

MCNfc == t1 :> t1 @@ t1d :> t1 @@ t2 :> t2
MCEngines == [provider : {"ollama"}, model : {"m1", "m2"}]
MCPageImage == <<i1, i2>>

-----------------------------------------------------------------------------
(* Chunker. *)

MCChunkPolicies == {[target |-> 2, overlap |-> 1, max |-> 3], [target |-> 4, overlap |-> 2, max |-> 4]}

MCMdDocs ==
  BoundedSeq([kind : {"prose", "heading"}, text : {<<"han">>, <<"han", "han">>}]
             \cup [kind : {"prose", "atom", "image"},
                   text : {<<"han", "han", "nl", "emoji", "han", "han">>}], 3)

MCPdfDocs ==
  {<<page>> : page \in BoundedSeq({"han", "dot", "spc", "nl"}, 5)}
  \cup {<< <<"nl">>, <<"han", "dot", "spc">> \o page >> :
          page \in {<<"a", "dot", "nl">>, <<"dot", "spc", "dot", "spc">>,
                    <<"han", "han", "emoji", "nl", "nl">>}}

MCUnitOf(first, kinds, n) == [from : {first}, lines : BoundedSeq(kinds, n) \ {<< >>}]
MCAstDocs ==
  {<< >>} \cup {<<unit>> : unit \in MCUnitOf(1, {"txt", "blank"}, 8)}
  \cup {<<unit, next>> : unit \in MCUnitOf(1, {"txt", "blank"}, 2),
                         next \in MCUnitOf(2, {"txt"}, 7) \cup MCUnitOf(3, {"txt"}, 7)}

MCLineFiles ==
  BoundedSeq({"txt", "blank", "sep", "res", "bad"}, 3) \cup BoundedSeq({"txt", "blank"}, 9)

-----------------------------------------------------------------------------
(* Settings: the files of every version a user may still have. *)

OrNot(key, values) == {<< >>} \cup {key :> v : v \in values}
Optional(t, tables) == {<< >>} \cup {t :> table : table \in tables}

OcrTable(own, engines, keys) ==
  {e @@ m @@ d @@ s : e \in OrNot("engine", engines), m \in OrNot("model", {own} \cap keys),
                      d \in OrNot("det_model", {own}), s \in OrNot("score_thresh", {own} \cap keys)}

MCWorkspace == "workspace" :> ("root" :> "/kb")

OcrFiles(v, image, pdf, shared, engines, keys) ==
  {[version |-> v, tables |-> MCWorkspace @@ a @@ b @@ c] :
     a \in Optional(image, OcrTable("i", {"paddle-onnx"}, keys)),
     b \in Optional(pdf, OcrTable("p", engines, keys)),
     c \in Optional(Shared, shared)}

SourceLists ==
  {<<[id |-> "a", root |-> "/a"]>>, <<[id |-> "a", root |-> "/a"], [id |-> "a", root |-> "/b"]>>,
   <<[id |-> "", root |-> "/a"]>>, <<[id |-> "a", root |-> ""]>>}
Workspaces ==
  {r @@ s @@ n : r \in OrNot("root", {"/kb"}), n \in OrNot("include", {"md"}),
                 s \in OrNot("sources", SourceLists)}
Chunkings ==
  {[target |-> 20, overlap |-> 19], [target |-> 8, overlap |-> 4], [overlap |-> 4],
   [target |-> 20, overlap |-> 30], [target |-> 20, overlap |-> 4, max |-> 19]}

OtherFiles(v, chunking) ==
  {[version |-> v, tables |-> w @@ ("indexing" :> ("parallel" :> 4)) @@ ("ingest" :> ("parallel" :> 1))] :
     w \in Optional("workspace", Workspaces)}
  \cup {[version |-> v, tables |-> MCWorkspace @@ (chunking :> c)] : c \in Chunkings}

MCConfigFiles ==
  OcrFiles(0, "image.ocr", "pdf.ocr", {}, {"ollama-vision", "paddle-onnx"}, {"p", "i"})
  \cup OcrFiles(2, "image.ocr", Pdf, {}, {"paddle-onnx"}, {"p"})
  \cup OcrFiles(4, Image, Pdf, {}, {"paddle-onnx"}, {"i"})
  \cup OcrFiles(5, Image, Pdf, OcrTable("s", {"paddle-onnx"}, {}) \cup {"enabled" :> "true"},
                {"paddle-onnx"}, {})
  \cup OtherFiles(0, "chunking") \cup OtherFiles(4, "ingest.chunking")
  \cup OtherFiles(5, "ingest.chunking")

MCEnvironments ==
  {<< >>, ("KEBAB_OCR_ENGINE" :> "paddle-onnx") @@ ("KEBAB_CHUNKING_TARGET_TOKENS" :> 1)
          @@ ("KEBAB_PDF_OCR_ENABLED" :> "true")}

-----------------------------------------------------------------------------
(* CodeUnits: every file of at most three nodes of one or two lines, the   *)
(* holders among them with a body.                                         *)

MCLanguages == {"rust", "python", "go", "java", "kotlin", "javascript", "typescript", "c", "cpp"}

Leaves(lang) ==
  {"def", "import", "value", "comment", "other"}
  \cup (IF lang \in {"rust", "typescript"} THEN {"attr"} ELSE {})

HoldersOf(lang) ==
  CASE lang = "rust" -> {"impl", "scope"} [] lang = "go" -> {"group"} [] lang = "c" -> {}
    [] lang = "cpp" -> {"class", "scope", "wrap"} [] OTHER -> {"class"}

Bodies(holder) ==
  IF holder = "group" THEN {<<"def">>, <<"def", "def">>}
  ELSE {<<"value", "def">>, <<"comment", "def">>, <<"import", "value">>}

NodesOf(lang) ==
  {[is |-> k, body |-> << >>, lines |-> n, gap |-> g] : k \in Leaves(lang), n \in 1 .. 2, g \in 0 .. 1}
  \cup UNION {{[is |-> k, body |-> b, lines |-> Len(b) + 2, gap |-> 1] : b \in Bodies(k)} :
                k \in HoldersOf(lang)}

Placed(shapes) ==
  LET from[i \in 1 .. Len(shapes)] ==
        IF i = 1 THEN 1 ELSE from[i - 1] + shapes[i - 1].lines - 1 + shapes[i].gap
  IN [i \in DOMAIN shapes |->
        [is |-> shapes[i].is, from |-> from[i], to |-> from[i] + shapes[i].lines - 1,
         body |-> [j \in DOMAIN shapes[i].body |->
                     [is |-> shapes[i].body[j], from |-> from[i] + j, to |-> from[i] + j, body |-> << >>]]]]

MCSyntaxTrees(lang) ==
  {Placed(s) : s \in {<< >>} \cup UNION {[1 .. n -> NodesOf(lang)] : n \in 1 .. 3}}

-----------------------------------------------------------------------------
(* Markdown. *)

MCFronts == {<<"---", "title", "trust?", "---">>}

-----------------------------------------------------------------------------
(* Eval: golden files whose queries share a group, expect several documents *)
(* or none, disagree within a group, or repeat an id.                       *)

CONSTANTS c1, c2, c3, d1, d2

MCChunkDoc == (c1 :> d1) @@ (c2 :> d2) @@ (c3 :> d2)
MCRankings == {<<c1, c2>>, <<c2, c3, c1>>}

\* A grounded answer cites, but need not hold what is asked; a refusal may.
MCReplies == {{"right"}, {"grounded", "cited"}}

Golden(i, answers, where, checked, g) ==
  [id |-> i, chunks |-> answers, docs |-> where, checks |-> checked, group |-> g]

MCGoldens ==
  LET first  == Golden(1, {c1}, {d1, d2}, TRUE, "g")
      second == {Golden(2, {c2, c3}, {d1, d2}, FALSE, "g"), Golden(2, {}, {}, TRUE, "h"),
                 Golden(2, {}, {d2}, FALSE, "g")}
  IN {<<first>>, <<first, first>>} \cup {<<first, s>> : s \in second}

-----------------------------------------------------------------------------
(* Progress: runs that meet documents, code, pages, images, stored paths    *)
(* and old logs, one kind at a time.                                        *)

Meets(found, paths, read, ages, embed, wire) ==
  [assets |-> found, stored |-> paths, pages |-> read, logs |-> ages, embeds |-> embed, json |-> wire]

MCBegins ==
  {Meets(<<"text", "text">>, 0, 0, << >>, TRUE, FALSE), Meets(<<"code">>, 1, 0, << >>, FALSE, FALSE),
   Meets(<<"pdf">>, 0, 1, << >>, FALSE, FALSE), Meets(<<"image">>, 0, 0, << >>, FALSE, FALSE),
   Meets(<< >>, 2, 0, <<0, 0, 2>>, FALSE, FALSE), Meets(<< >>, 0, 0, <<0, 1, 2>>, FALSE, TRUE)}

-----------------------------------------------------------------------------
(* Fetch: every two blocks in one document, or a text and a PDF of several  *)
(* chunks; ranges that begin before the first line, end behind the last, or *)
(* do not fit their budget.                                                *)

MCBlocks ==
  {[is |-> "heading", level |-> 9, text |-> Filled(2)],
   [is |-> "paragraph", text |-> <<"x", "x", "nl", "x">>], [is |-> "paragraph", text |-> <<"x", "nl">>],
   [is |-> "quote", text |-> <<"x", "nl", "nl", "x">>],
   [is |-> "list", ordered |-> TRUE, items |-> <<Filled(1), Filled(2)>>],
   [is |-> "list", ordered |-> FALSE, items |-> <<Filled(2)>>],
   [is |-> "code", lang |-> 2, text |-> <<"x", "nl">>], [is |-> "code", lang |-> 0, text |-> <<"nl", "x">>],
   [is |-> "table", headers |-> <<Filled(1), Filled(1)>>, rows |-> <<<<Filled(2), Filled(1)>>>>],
   [is |-> "image", alt |-> Filled(1), src |-> Filled(2)], [is |-> "audio"]}

Shelved(medium_, blocks_, n, trusted, tagged, days) ==
  [media |-> medium_, blocks |-> blocks_, chunking |-> 1, size |-> n, trust |-> trusted, tags |-> tagged,
   age |-> days, dated |-> days + 1]

MCShelves ==
  {1 :> Shelved("markdown", b, 1, 2, {"g"}, 0) :
     b \in {<<b1>> : b1 \in MCBlocks} \cup {<<b1, b2>> : b1 \in {b \in MCBlocks : b.is \in {"list", "code"}},
                                                        b2 \in MCBlocks}}
  \cup {<< >>, (1 :> Shelved("markdown", << >>, 3, 3, {"g"}, 2)) @@ (2 :> Shelved("pdf", << >>, 0, 1, {"h"}, 1))}

BulkItem(isObject, q, m) ==
  [object |-> isObject, query |-> q, mode |-> m, trust_min |-> "absent", ingested_after |-> "known"]

MCBulks ==
  {<<BulkItem(TRUE, "text", "mistyped"), BulkItem(TRUE, "mistyped", "known"), BulkItem(TRUE, "text", "unknown")>>,
   <<BulkItem(FALSE, "text", "absent"), BulkItem(TRUE, "text", "absent")>>,
   [i \in 1 .. 4 |-> BulkItem(TRUE, "text", "absent")]}

MCFetchRequests ==
  [kind : {"chunk"}, id : {<<1, 1, 1>>, <<1, 1, 2>>, <<1, 2, 1>>}, context : 0 .. 2]
  \cup [kind : {"doc"}, id : {1, 2, 3}, tokens : {NoCap, 1}]
  \cup [kind : {"span"}, id : {1}, from : 0 .. 3, to : {1, 3, 9}, tokens : {NoCap, 0, 1}]
  \cup [kind : {"span"}, id : {2}, from : {1}, to : {1}, tokens : {NoCap}]
  \cup [kind : {"list"}, trust : {1, 2}, tags : {{}, {"g", "k"}}]
  \cup [kind : {"bulk"}, items : MCBulks] \cup [kind : {"stats", "incomplete"}]

=============================================================================
