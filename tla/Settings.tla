------------------------------- MODULE Settings -------------------------------
(***************************************************************************)
(* The configuration file: the schema migrations, `kebab config migrate`,  *)
(* and Config::load with the shared OCR block and the environment.  A file *)
(* is a schema version and its tables; a table is a function from the keys *)
(* the user wrote to their values.  Of the keys one of each kind is kept:  *)
(* `model` has another default for images than for PDFs, `endpoint` and    *)
(* `det_model` have none, `det_model` and `score_thresh` belong to paddle. *)
(***************************************************************************)
EXTENDS Naturals, Sequences, FiniteSets, Functions, Maps

CONSTANTS
  ConfigFiles,   \* what a user may have written: [version, tables]; version 0 is none,
                 \* and the shared OCR block exists from version 5
  Environments,  \* functions from KEBAB_* names to values
  Unparsable,    \* a text that is not TOML
  NoFile

CurrentSchema == 5
MinChunkTokens == 16

Image == "ingest.image.ocr"
Pdf == "ingest.pdf.ocr"
Shared == "ingest.ocr"

ASSUME ConfigAssumption ==
  \A file \in ConfigFiles :
    /\ file.version \in 0 .. CurrentSchema
    /\ Shared \in DOMAIN file.tables => file.version = CurrentSchema

OcrTables == {Image, Pdf}

OptionKeys == {"endpoint", "det_model"}
PaddleKeys == {"det_model", "score_thresh"}
EngineKeys == {"engine", "model", "score_thresh"} \cup OptionKeys
OcrKeys == EngineKeys \cup {"enabled"}

VARIABLES
  configFile,  \* the file on disk
  original,    \* what the user last wrote
  backup,      \* config.toml.bak
  tmpFile,     \* config.toml.tmp
  outcome,     \* what migrate_document gave the running migration
  migration,   \* its next step
  settings,    \* what the last load gave
  environment  \* and the environment it was given

configVars == <<configFile, original, backup, tmpFile, outcome, migration, settings, environment>>

-----------------------------------------------------------------------------
(* Tables *)

Keys(doc, t) == IF t \in DOMAIN doc THEN DOMAIN doc[t] ELSE {}
Table(doc, t) == [k \in Keys(doc, t) |-> doc[t][k]]
SetTable(doc, t, table) == Overlaid(Single(t, table), doc)
Drop(doc, t) == Restrict(doc, DOMAIN doc \ {t})

\* The default of a key, another model for each medium; "none" is None.
DefaultOcr(t, k) ==
  CASE k = "engine" -> "ollama-vision" [] k = "model" -> t
    [] k = "enabled" -> "false" [] k = "score_thresh" -> "0.3" [] OTHER -> "none"

DefaultChunking == [target |-> 500, overlap |-> 80, max |-> 4000]
DefaultRoot == "~/KnowledgeBase"

-----------------------------------------------------------------------------
(* The steps of migrate.rs *)

Step1To2(doc) ==
  IF "workspace" \in DOMAIN doc
  THEN SetTable(doc, "workspace", Restrict(doc["workspace"], DOMAIN doc["workspace"] \ {"include"}))
  ELSE doc

\* A table that is already there stays; the one to move is gone either way.
MoveTable(doc, from, to) ==
  IF from \notin DOMAIN doc THEN doc
  ELSE IF to \in DOMAIN doc THEN Drop(doc, from)
  ELSE SetTable(Drop(doc, from), to, doc[from])

MoveIndexingKeys(doc) ==
  IF "indexing" \notin DOMAIN doc THEN doc
  ELSE SetTable(Drop(doc, "indexing"), "ingest", Overlaid(Table(doc, "ingest"), doc["indexing"]))

\* Before version 3 a PDF read by paddle took its models from the image table.
CopyImagePaddleToPdf(doc) ==
  IF /\ OcrTables \subseteq DOMAIN doc
     /\ "engine" \in Keys(doc, Pdf)
     /\ doc[Pdf]["engine"] = "paddle-onnx"
  THEN SetTable(doc, Pdf, Overlaid(doc[Pdf], Restrict(doc[Image], PaddleKeys \cap Keys(doc, Image))))
  ELSE doc

Step2To3(doc) ==
  LET chunked == MoveTable(MoveIndexingKeys(doc), "chunking", "ingest.chunking")
      images == MoveTable(MoveTable(chunked, "image.ocr", Image), "image.caption", "ingest.image.caption")
  IN CopyImagePaddleToPdf(MoveTable(images, "pdf.ocr", Pdf))

Step3To4(doc) ==
  IF "root" \in Keys(doc, "workspace") /\ "sources" \notin Keys(doc, "workspace")
  THEN LET only == [id |-> "default", root |-> doc["workspace"]["root"]]
       IN SetTable(doc, "workspace", Overlaid(doc["workspace"], Single("sources", <<only>>)))
  ELSE doc

\* Mutant: an image's option key is shared whether or not the PDF table has its own.
HoistedAll(doc) == EngineKeys \cap Keys(doc, Image)

\* An option key without a default would reach PDFs that do not write their own.
Hoisted(doc) == {k \in EngineKeys \cap Keys(doc, Image) : k \in OptionKeys => k \in Keys(doc, Pdf)}

Step4To5(doc) ==
  IF Hoisted(doc) = {} THEN doc
  ELSE LET rest == SetTable(doc, Image, Restrict(doc[Image], DOMAIN doc[Image] \ Hoisted(doc)))
       IN SetTable(rest, Shared, Overlaid(Table(doc, Shared), Restrict(doc[Image], Hoisted(doc))))

SchemaOf(file) == IF file.version = 0 THEN 1 ELSE file.version

RunSteps(file) ==
  LET v == SchemaOf(file)
      doc2 == IF v < 2 THEN Step1To2(file.tables) ELSE file.tables
      doc3 == IF v < 3 THEN Step2To3(doc2) ELSE doc2
      doc4 == IF v < 4 THEN Step3To4(doc3) ELSE doc3
  IN IF v < 5 THEN Step4To5(doc4) ELSE doc4

DefaultTable(t) ==
  CASE t = "workspace" -> [root |-> DefaultRoot]
    [] t = "ingest" -> [parallel |-> 2]
    [] t = "ingest.chunking" -> DefaultChunking
    [] t = "ingest.image.caption" -> [enabled |-> "false"]
    [] t \in OcrTables -> [k \in OcrKeys \ OptionKeys |-> DefaultOcr(t, k)]

DefaultTables == {"workspace", "ingest", "ingest.chunking", "ingest.image.caption"} \cup OcrTables

\* annotated_default_document: the defaults, their OCR keys hoisted as in a migrated file.
DefaultDocument == Step4To5([t \in DefaultTables |-> DefaultTable(t)])

\* What is missing is added, what is there is never touched.
Reconcile(reference, doc) ==
  [t \in DOMAIN reference \cup DOMAIN doc |-> Overlaid(Table(doc, t), Table(reference, t))]

\* The changes migrate_document records.  The copied paddle keys and the stamp are not.
Recorded(file, after) ==
  LET v == SchemaOf(file)
      copied(t) == IF v < 3 /\ t = Pdf THEN OptionKeys \cap PaddleKeys ELSE {}
  IN \/ v < 2 /\ "include" \in Keys(file.tables, "workspace")
     \/ v < 3 /\ "indexing" \in DOMAIN file.tables
     \/ \E t \in DOMAIN after :
          \/ t \notin DOMAIN file.tables
          \/ (DOMAIN after[t] \ copied(t)) \ Keys(file.tables, t) # {}

MigrateDocument(file) ==
  IF file = Unparsable THEN [changed |-> FALSE, file |-> file]
  ELSE LET after == Reconcile(DefaultDocument, RunSteps(file))
       IN [changed |-> Recorded(file, after), file |-> [version |-> CurrentSchema, tables |-> after]]

-----------------------------------------------------------------------------
(* Loading *)

Invalid == [valid |-> FALSE]

\* Only what the user wrote in the medium's own table wins over the shared block.
ResolveOcr(doc) ==
  [t \in OcrTables |-> [k \in OcrKeys |->
     IF k \in Keys(doc, t) THEN doc[t][k]
     ELSE IF k \in Keys(doc, Shared) THEN doc[Shared][k] ELSE DefaultOcr(t, k)]]

ResolvedSources(doc) ==
  IF "sources" \in Keys(doc, "workspace") /\ doc["workspace"]["sources"] # << >>
  THEN doc["workspace"]["sources"]
  ELSE <<[id |-> "default",
          root |-> IF "root" \in Keys(doc, "workspace") THEN doc["workspace"]["root"] ELSE DefaultRoot]>>

ValidSources(sources) ==
  /\ \A i \in DOMAIN sources : sources[i].id \notin {"", "[#1]"} /\ sources[i].root # ""
  /\ \A i, j \in DOMAIN sources : sources[i].id = sources[j].id => i = j

ValidChunking(c) == c.target >= MinChunkTokens /\ c.overlap < c.target /\ c.max >= c.target

\* A chunking table without its required keys does not deserialize.
Parses(doc) ==
  "ingest.chunking" \in DOMAIN doc => {"target", "overlap"} \subseteq DOMAIN doc["ingest.chunking"]

FromFile(file) ==
  IF file = Unparsable THEN Invalid
  ELSE LET doc == IF SchemaOf(file) < CurrentSchema THEN MigrateDocument(file).file.tables ELSE file.tables
           chunking == Overlaid(Table(doc, "ingest.chunking"), DefaultChunking)
           sources == ResolvedSources(doc)
       IN IF Parses(doc) /\ ValidSources(sources) /\ ValidChunking(chunking)
          THEN [valid |-> TRUE, ocr |-> ResolveOcr(doc), sources |-> sources, chunking |-> chunking]
          ELSE Invalid

\* An override of the shared engine is one of both media; nothing is validated again.
ApplyEnv(loaded, env) ==
  LET Given(name, value) == IF name \in DOMAIN env THEN env[name] ELSE value
      engine(t) == [loaded.ocr[t] EXCEPT !["engine"] = Given("KEBAB_OCR_ENGINE", @)]
      medium(t) == IF t = Image THEN "KEBAB_IMAGE_OCR_ENABLED" ELSE "KEBAB_PDF_OCR_ENABLED"
  IN IF ~loaded.valid THEN loaded
     ELSE [loaded EXCEPT
             !.ocr = [t \in OcrTables |-> [engine(t) EXCEPT !["enabled"] = Given(medium(t), @)]],
             !.chunking.target = Given("KEBAB_CHUNKING_TARGET_TOKENS", @)]

-----------------------------------------------------------------------------
(* Actions *)

NotLoaded == [valid |-> FALSE, loaded |-> FALSE]

ConfigInit ==
  /\ configFile \in ConfigFiles \cup {Unparsable} /\ original = configFile
  /\ backup = NoFile /\ tmpFile = NoFile /\ outcome = NoFile
  /\ migration = "none" /\ settings = NotLoaded /\ environment = << >>

\* config_migrate_with_config_path reads, and stops when there is nothing to record.
MigrateRead ==
  /\ migration = "none" /\ MigrateDocument(configFile).changed
  /\ outcome' = MigrateDocument(configFile).file /\ migration' = "backup"
  /\ UNCHANGED <<configFile, original, backup, tmpFile, settings, environment>>

\* Mutant: an earlier backup is kept, a torn one too.
BackupOnce ==
  /\ migration = "backup"
  /\ backup' = (IF backup = NoFile THEN configFile ELSE backup) /\ migration' = "write"
  /\ UNCHANGED <<configFile, original, tmpFile, outcome, settings, environment>>

MigrateBackup ==
  /\ migration = "backup"
  /\ backup' = configFile /\ migration' = "write"
  /\ UNCHANGED <<configFile, original, tmpFile, outcome, settings, environment>>

\* The temporary file is checked by loading it; an invalid one is removed and the call fails.
MigrateWrite ==
  /\ migration = "write"
  /\ IF FromFile(outcome).valid
     THEN tmpFile' = outcome /\ migration' = "rename" /\ UNCHANGED outcome
     ELSE tmpFile' = NoFile /\ migration' = "none" /\ outcome' = NoFile
  /\ UNCHANGED <<configFile, original, backup, settings, environment>>

MigrateRename ==
  /\ migration = "rename"
  /\ configFile' = tmpFile /\ tmpFile' = NoFile
  /\ outcome' = NoFile /\ migration' = "none"
  /\ UNCHANGED <<original, backup, settings, environment>>

\* A kill, in the middle of a write of the temporary or of the backup file too.
MigrateKilled ==
  /\ migration # "none"
  /\ tmpFile' \in IF migration = "write" THEN {tmpFile, outcome, Unparsable} ELSE {tmpFile}
  /\ backup' \in IF migration = "backup" THEN {backup, Unparsable} ELSE {backup}
  /\ outcome' = NoFile /\ migration' = "none"
  /\ UNCHANGED <<configFile, original, settings, environment>>

\* Any command, at any moment.
LoadConfig ==
  \E env \in Environments :
    /\ settings' = ApplyEnv(FromFile(configFile), env) /\ environment' = env
    /\ UNCHANGED <<configFile, original, backup, tmpFile, outcome, migration>>

ConfigNext ==
  MigrateRead \/ MigrateBackup \/ MigrateWrite \/ MigrateRename \/ MigrateKilled \/ LoadConfig

ConfigSpec == ConfigInit /\ [][ConfigNext]_configVars

-----------------------------------------------------------------------------
(* Properties *)

ConfigTypeOK ==
  /\ \A file \in {configFile, original} \ {Unparsable} : file.version \in 0 .. CurrentSchema
  /\ migration \in {"none", "backup", "write", "rename"}
  /\ (migration = "none") = (outcome = NoFile)
  /\ environment \in Environments \cup {<< >>}

\* What the user's file means, by its own schema: a medium's table as written, in the place
\* of the version; below version 3 a PDF read by paddle borrows the image's paddle keys.
Written(file, t) ==
  LET old == IF t = Image THEN "image.ocr" ELSE "pdf.ocr"
      doc == file.tables
  IN IF t \notin DOMAIN doc /\ SchemaOf(file) < 3 THEN Table(doc, old) ELSE Table(doc, t)

Meaning(file, t, k) ==
  LET own == Written(file, t)
      borrows == /\ t = Pdf /\ SchemaOf(file) < 3 /\ k \in PaddleKeys
                 /\ "engine" \in DOMAIN own /\ own["engine"] = "paddle-onnx"
                 /\ k \in DOMAIN Written(file, Image)
  IN IF k \in DOMAIN own THEN own[k]
     ELSE IF borrows THEN Written(file, Image)[k]
     ELSE IF k \in Keys(file.tables, Shared) THEN file.tables[Shared][k]
     ELSE DefaultOcr(t, k)

\* A shared key that a medium's table leaves out and the defaults fill in.
SharedReachesDefaults(file) ==
  \E k \in Keys(file.tables, Shared) :
    \/ k \notin OptionKeys /\ k \notin Keys(file.tables, Pdf)
    \/ k = "enabled" /\ k \notin Keys(file.tables, Image)

\* The OCR settings of images and PDFs are those the user wrote, whatever the version of the
\* file and however often it was migrated, killed and loaded on the way.  (Migrating a file
\* whose shared block sets what a medium leaves out is the exception: the defaults are
\* written into that medium's table and win from then on.)
SettingsSurvive ==
  settings.valid /\ (configFile = original \/ ~SharedReachesDefaults(original)) =>
    \A t \in OcrTables, k \in OcrKeys :
      \/ settings.ocr[t][k] = Meaning(original, t, k)
      \/ k \in {"engine", "enabled"} /\ DOMAIN environment # {}

\* The file is what the user wrote, or its migration; then the backup is what the user wrote.
\* Migrating again must find nothing to do: it would put the migrated file in the backup.
OriginalIsKept ==
  \/ configFile = original
  \/ configFile = MigrateDocument(original).file /\ backup = original

\* A migration changes no setting that a file gives, and the file as it was is beside the new one.
MigrationKeepsSettings == SettingsSurvive /\ OriginalIsKept

=============================================================================
