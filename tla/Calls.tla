--------------------------------- MODULE Calls --------------------------------
(***************************************************************************)
(* The components that serve one call each: a question (Rag), a file's     *)
(* bytes (AssetStore), a derivation (DerivationCache) and a PDF's pages    *)
(* over it (PdfOcr), the chunks of a document (Chunker), the settings      *)
(* (Settings), the units of a source file (CodeUnits), the blocks of a     *)
(* Markdown file (Markdown), one file run after run (Media), the golden    *)
(* queries (Eval), the files below the roots (Workspace), what a run tells *)
(* of itself (Progress) and what is read back (Fetch).  Of these only      *)
(* PdfOcr and DerivationCache share state, so one behaviour takes one of   *)
(* them through its calls and leaves the others where they begin.          *)
(***************************************************************************)
EXTENDS Rag, AssetStore, PdfOcr, Chunker, Settings, CodeUnits, Markdown, Media, Eval,
        Workspace, Progress, Fetch

VARIABLE part  \* the component whose calls this behaviour is about

Parts == {"rag", "assets", "derivations", "pdf", "chunks", "settings", "units", "markdown", "media",
          "eval", "workspace", "progress", "fetch"}

\* A component the behaviour is not about begins in one way only.
Aside(p, only) == part # p => only

CallsInit ==
  /\ part \in Parts
  /\ AskInit /\ Aside("rag", ~opts.multi /\ ~opts.verify /\ sink = "none")
  /\ AssetInit
  /\ DeriveInit
  /\ PdfInit
  /\ Aside("pdf", /\ pdfOpts = [alwaysOn |-> FALSE, cached |-> FALSE, renderer |-> "none"]
                  /\ textLayer = [p \in Pages |-> "enough"] /\ pdfEngine = engine)
  /\ ChunkInit /\ Aside("chunks", chunkPolicy = CHOOSE policy \in ChunkPolicies : TRUE)
  /\ ConfigInit /\ Aside("settings", configFile = Unparsable)
  /\ UnitInit
  /\ MdInit /\ Aside("markdown", front = CHOOSE lines \in Fronts : TRUE)
  /\ MediaInit /\ Aside("media", medium = "markdown" /\ mediaFile = CHOOSE f \in Files("markdown") : TRUE)
  /\ EvalInit /\ Aside("eval", golden = CHOOSE file \in Goldens : TRUE)
  /\ WsInit
  /\ Aside("workspace", /\ below = [r \in Roots |-> CHOOSE tree \in Arrangements[r] : TRUE]
                        /\ sources = CHOOSE list \in SourceChoices : TRUE
                        /\ excludes = CHOOSE set \in ExcludeSets : TRUE)
  /\ ProgressInit /\ Aside("progress", begun = CHOOSE b \in Begins : TRUE)
  /\ FetchInit /\ Aside("fetch", DOMAIN shelf = {})

\* Every component stays where it is but p, and what p works on.
Others(p) ==
  /\ IF p = "rag" THEN TRUE ELSE UNCHANGED askVars
  /\ IF p = "assets" THEN TRUE ELSE UNCHANGED assetVars
  /\ IF p \in {"derivations", "pdf"} THEN TRUE ELSE UNCHANGED deriveVars
  /\ IF p = "pdf" THEN TRUE ELSE UNCHANGED pdfVars
  /\ IF p = "chunks" THEN TRUE ELSE UNCHANGED chunkVars
  /\ IF p = "settings" THEN TRUE ELSE UNCHANGED configVars
  /\ IF p = "units" THEN TRUE ELSE UNCHANGED unitVars
  /\ IF p = "markdown" THEN TRUE ELSE UNCHANGED mdVars
  /\ IF p = "media" THEN TRUE ELSE UNCHANGED mediaVars
  /\ IF p = "eval" THEN TRUE ELSE UNCHANGED evalVars
  /\ IF p = "workspace" THEN TRUE ELSE UNCHANGED wsVars
  /\ IF p = "progress" THEN TRUE ELSE UNCHANGED progressVars
  /\ IF p = "fetch" THEN TRUE ELSE UNCHANGED fetchVars

CallsNext ==
  /\ UNCHANGED part
  /\ \/ part = "rag" /\ AskNext
     \/ part = "assets" /\ AssetNext
     \/ part = "derivations" /\ DeriveNext
     \/ part = "pdf" /\ PdfNext
     \/ part = "chunks" /\ ChunkNext
     \/ part = "settings" /\ ConfigNext
     \/ part = "units" /\ UnitNext
     \/ part = "markdown" /\ MdNext
     \/ part = "media" /\ MediaNext
     \/ part = "eval" /\ EvalNext
     \/ part = "workspace" /\ WsNext
     \/ part = "progress" /\ ProgressNext
     \/ part = "fetch" /\ FetchNext
  /\ Others(part)

callsVars == <<part, askVars, assetVars, deriveVars, pdfVars, chunkVars, configVars, unitVars, mdVars,
              mediaVars, evalVars, wsVars, progressVars, fetchVars>>

CallsSpec == CallsInit /\ [][CallsNext]_callsVars

-----------------------------------------------------------------------------

\* Every variable keeps its type, whichever component the calls are of.
CallsTypeOK ==
  /\ part \in Parts
  /\ AskTypeOK /\ AssetTypeOK /\ DeriveTypeOK /\ PdfTypeOK /\ ConfigTypeOK /\ MdTypeOK

=============================================================================
