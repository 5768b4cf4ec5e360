------------------------------- MODULE Progress -------------------------------
(***************************************************************************)
(* What one `kebab ingest` tells of itself: the events it sends to the     *)
(* thread that draws them, the record it appends to its log, the rows it   *)
(* leaves in jobs and ingest_runs, and the report.                         *)
(*                                                                         *)
(* The run and the display are two threads over one unbounded channel; the *)
(* user presses Ctrl-C at any time, once to cancel and twice to quit.      *)
(* What a run does to documents is Ingest's and what its walk skips is     *)
(* Workspace's; here an asset only succeeds, is skipped or fails.  A path  *)
(* is the number of its asset, a wall-clock time a member of Durations.    *)
(***************************************************************************)
EXTENDS Integers, FiniteSetsExt, Functions, Lists

CONSTANTS
  Begins,         \* what a run meets: [assets, stored, pages, logs, embeds, json]
  ChunkCounts,    \* how many chunks a document may have
  Durations,
  SlowestTop,     \* SLOWEST_TOP_N
  KeepRecent,     \* logging.keep_recent_runs
  RetentionDays,  \* logging.retention_days
  MaxFailures     \* failed steps in a run

\* cleanup_old_logs meets the files newest first.
ASSUME ProgressAssumption ==
  /\ Begins \subseteq [assets : Seq({"text", "image", "pdf", "code", "other"}), stored : Nat, pages : Nat,
                      logs : Seq(Nat), embeds : BOOLEAN, json : BOOLEAN]
  /\ \A b \in Begins : \A i, j \in DOMAIN b.logs : i < j => b.logs[i] <= b.logs[j]
  /\ ChunkCounts \subseteq Nat /\ Durations \subseteq Nat
  /\ SlowestTop \in Nat /\ KeepRecent \in Nat /\ RetentionDays \in Nat /\ MaxFailures \in Nat

VARIABLES
  begun,    \* what this run meets
  stage,    \* where ingest_with_config is
  presses,  \* Ctrl-C so far
  failures, \* failed steps so far
  course,   \* the local variables of the sweep and of the asset at hand
  totals,   \* the items and the counters of the run
  told,     \* the events sent
  shown,    \* how many of them the display has handled
  board,    \* what the display holds
  ledger,   \* the rows this run wrote to jobs, ingest_runs and pdf_ocr_events
  runLog,   \* the log file of this run, and the ages of the older ones
  printed    \* IngestReport, once printed

progressVars == <<begun, stage, presses, failures, course, totals, told, shown, board, ledger, runLog,
                  printed>>

Untold == [is |-> "none"]
ItemKinds == {"new", "updated", "skipped", "unchanged", "error"}
Pressed == presses > 0  \* the cancel flag

\* What is in the memory of the process as it begins.
FreshCourse == [at |-> 0, purged |-> 0, stopped |-> FALSE, chunks |-> 0, page |-> 0, blank |-> 0,
                item |-> "none"]
FreshTotals == [items |-> << >>, count |-> [k \in ItemKinds |-> 0], chunks |-> 0, embedded |-> 0, pages |-> 0,
                unread |-> 0, samples |-> << >>, blank |-> 0]
FreshBoard == [live |-> FALSE, label |-> "", len |-> 0, pos |-> 0, clock |-> FALSE, path |-> 0, scan |-> 0,
               named |-> {}, timed |-> << >>, slowest |-> << >>]

ProgressInit ==
  /\ begun \in Begins
  /\ stage = "start" /\ presses = 0 /\ failures = 0
  /\ course = FreshCourse /\ totals = FreshTotals /\ board = FreshBoard
  /\ told = << >> /\ shown = 0
  /\ ledger = [job |-> Untold, run |-> Untold, ocr |-> 0]
  /\ runLog = Untold /\ printed = Untold

-----------------------------------------------------------------------------
(* The events and the log. *)

Event(k, i, detail) == [kind |-> k, idx |-> i, detail |-> detail]

\* emit: best effort, so the run does not depend on who listens.
Announce(events) == told' = told \o events

Logged(records) ==
  runLog' = IF runLog = Untold THEN Untold ELSE [runLog EXCEPT !.records = @ \o records]

\* The log of a run begins empty; cleanup_old_logs: of files, newest first, those to keep.
CleanedUp(ages) ==
  LET fresh == {i \in DOMAIN ages : i <= KeepRecent /\ ages[i] < RetentionDays}
  IN [kept |-> fresh, removed |-> DOMAIN ages \ fresh, records |-> << >>]

\* percentiles, of a sorted sequence that is not empty: the share of its range, rounded down.
Percentile(sorted, p) == sorted[((Len(sorted) - 1) * p) \div 100 + 1]

OcrTimes(samples) ==
  IF samples = << >> THEN << >>
  ELSE LET below  == [i \in DOMAIN samples |->
                        {j \in DOMAIN samples : samples[j] < samples[i] \/ (samples[j] = samples[i] /\ j < i)}]
           sorted == Arranged(samples, below)
       IN <<Percentile(sorted, 50), Percentile(sorted, 90), sorted[Len(sorted)]>>

\* The counts of the events and of the report, and those the tables keep: unchanged is in neither.
Counts == [scanned |-> Len(begun.assets), count |-> totals.count, chunks |-> totals.chunks,
           embedded |-> totals.embedded]
TableCounts == [Counts EXCEPT !.count = Restrict(@, ItemKinds \ {"unchanged"})]

-----------------------------------------------------------------------------
(* The run. *)

Moves(from, to) == stage = from /\ stage' = to
Quietly == UNCHANGED <<presses, failures, begun, shown, board, printed>>
May == failures < MaxFailures
Fails == May /\ failures' = failures + 1 /\ UNCHANGED <<presses, begun, shown, board, printed>>

OpenLog ==
  /\ Moves("start", "scan") /\ Quietly
  /\ \/ runLog' = CleanedUp(begun.logs)
     \/ runLog' = Untold  \* disabled, or it could not be opened
  /\ Announce(<<Event("scan_started", 0, 0)>>)
  /\ UNCHANGED <<course, totals, ledger>>

ScanEnds ==
  /\ Moves("scan", "setup") /\ Quietly
  /\ Announce(<<Event("scan_completed", Len(begun.assets), 0)>>)
  /\ UNCHANGED <<course, totals, ledger, runLog>>

\* The scan, the embedder, an OCR engine or the list of documents is not to be had.
RunFails ==
  /\ stage \in {"scan", "setup"} /\ stage' = "failed" /\ Fails
  /\ UNCHANGED <<course, totals, told, ledger, runLog>>

SweepBegins ==
  /\ stage = "setup" /\ Quietly
  /\ IF begun.stored = 0 THEN stage' = "seed" /\ UNCHANGED told
     ELSE stage' = "sweep" /\ Announce(<<Event("sweep_started", begun.stored, 0)>>)
  /\ UNCHANGED <<course, totals, ledger, runLog>>

\* A stored path the scan did not find: its file is there, it is purged, or the purge fails.
Examine ==
  /\ stage = "sweep" /\ ~Pressed /\ course.at < begun.stored
  /\ \E fate \in {"there", "purge", "purge_failed"} :
       /\ IF fate = "purge_failed" THEN Fails ELSE Quietly
       /\ course' = [course EXCEPT !.at = @ + 1, !.purged = IF fate = "purge" THEN @ + 1 ELSE @]
       /\ Announce(<<Event("sweep_progress", course.at + 1, IF fate = "purge" THEN "purged" ELSE "kept")>>)
       /\ Logged(IF fate = "there" THEN << >> ELSE <<<<fate, course.at + 1>>>>)
  /\ UNCHANGED <<stage, totals, ledger>>

SweepEnds ==
  /\ Moves("sweep", "seed") /\ Quietly
  /\ Pressed \/ course.at = begun.stored
  /\ Announce(<<Event("sweep_completed", course.at, course.purged)>>)
  /\ Logged(<<<<"sweep_summary", course.at, course.purged>>>>)
  /\ UNCHANGED <<course, totals, ledger>>

\* A mutant of SeedStopped: the flag is looked at per asset only.
SeedNotStopped ==
  /\ Moves("seed", "next") /\ Quietly
  /\ course' = [course EXCEPT !.at = 0]
  /\ UNCHANGED <<totals, told, ledger, runLog>>

\* was_cancelled starts as the flag is: the loop may have nothing to look at.
SeedStopped ==
  /\ Moves("seed", "next") /\ Quietly
  /\ course' = [course EXCEPT !.at = 0, !.stopped = Pressed]
  /\ UNCHANGED <<totals, told, ledger, runLog>>

LoopStops ==
  /\ Moves("next", "jobs") /\ Quietly
  /\ \/ course.at = Len(begun.assets) /\ UNCHANGED course
     \/ course.at < Len(begun.assets) /\ Pressed /\ course' = [course EXCEPT !.stopped = TRUE]
  /\ UNCHANGED <<totals, told, ledger, runLog>>

AssetStarts ==
  /\ stage = "next" /\ course.at < Len(begun.assets) /\ ~Pressed /\ Quietly
  /\ LET medium == begun.assets[course.at + 1]
     IN stage' = CASE medium = "pdf" -> "pages" [] medium = "image" -> "vision" [] medium = "text" -> "chunk"
                   [] OTHER -> "quiet"
  /\ course' = [course EXCEPT !.at = @ + 1, !.chunks = 0, !.page = 0, !.blank = 0, !.item = "none"]
  /\ Announce(<<Event("asset_started", course.at + 1, 0)>>)
  /\ UNCHANGED <<totals, ledger, runLog>>

Item(k, n) == stage' = "tally" /\ course' = [course EXCEPT !.item = k, !.chunks = n]

\* Nothing to do: the document is current, or the medium is not supported.
AssetPasses ==
  /\ \/ stage \in {"quiet", "vision"}
     \/ stage = "chunk" /\ begun.assets[course.at] = "text"
     \/ stage = "pages" /\ course.page = 0
  /\ Quietly
  /\ \E k \in {"unchanged", "skipped"} : Item(k, 0)
  /\ UNCHANGED <<totals, told, ledger, runLog>>

\* Source code: no phase of it is announced.
CodeStored ==
  /\ stage = "quiet" /\ begun.assets[course.at] = "code" /\ Quietly
  /\ \E k \in {"new", "updated"}, n \in ChunkCounts : Item(k, n)
  /\ UNCHANGED <<totals, told, ledger, runLog>>

AssetFails ==
  /\ stage \in {"quiet", "pages", "vision", "chunk", "store", "embed"} /\ Fails
  /\ Item("error", 0)
  /\ UNCHANGED <<totals, told, ledger, runLog>>

\* OCR and caption of an image; what fails in them is a warning.
Vision ==
  /\ Moves("vision", "chunk") /\ Quietly
  /\ \E phases \in {<< >>, <<"ocr">>, <<"caption">>, <<"ocr", "caption">>} :
       Announce([p \in DOMAIN phases |-> Event("asset_phase", course.at, phases[p])])
  /\ UNCHANGED <<course, totals, ledger, runLog>>

\* A page of a PDF that is to be read: read, left by the engine, or without an image.  That its
\* row of pdf_ocr_events may fail, with a warning, is left out.
PageRead ==
  /\ stage = "pages" /\ course.page < begun.pages /\ ~Pressed /\ Quietly
  /\ \E fate \in {"read", "unread", "blank"}, ms \in Durations :
       /\ course' = [course EXCEPT !.page = @ + 1, !.blank = IF fate = "blank" THEN @ + 1 ELSE @]
       /\ Announce(<<Event("ocr_started", course.page + 1, 0), Event("ocr_finished", course.page + 1, fate)>>)
       /\ Logged(<<<<"ocr", course.page + 1, fate = "read">>>>)
       /\ ledger' = [ledger EXCEPT !.ocr = @ + 1]
       /\ totals' = [totals EXCEPT !.pages = @ + 1, !.unread = IF fate = "read" THEN @ ELSE @ + 1,
                                   !.samples = IF fate = "read" THEN Append(@, ms) ELSE @]
  /\ UNCHANGED stage

\* The cancelled PDF is an error of the run, the one asset a cancel does not let finish.
PagesCancelled ==
  /\ stage = "pages" /\ course.page < begun.pages /\ Pressed /\ Quietly
  /\ Item("error", 0)
  /\ UNCHANGED <<totals, told, ledger, runLog>>

PagesEnd ==
  /\ Moves("pages", "chunk") /\ course.page = begun.pages /\ Quietly
  /\ totals' = [totals EXCEPT !.blank = @ + course.blank]
  /\ UNCHANGED <<course, told, ledger, runLog>>

Chunks ==
  /\ Moves("chunk", "store") /\ Quietly
  /\ \E n \in ChunkCounts :
       course' = [course EXCEPT !.chunks = n] /\ Announce(<<Event("asset_chunked", course.at, n)>>)
  /\ UNCHANGED <<totals, ledger, runLog>>

Stores ==
  /\ Moves("store", "embed") /\ Quietly
  /\ Announce(<<Event("asset_phase", course.at, "embed")>>)
  /\ UNCHANGED <<course, totals, ledger, runLog>>

Embeds ==
  /\ stage = "embed" /\ Quietly
  /\ \E k \in {"new", "updated"} : Item(k, course.chunks)
  /\ \E ms \in Durations : Announce(<<Event("asset_timings", course.at, ms)>>)
  /\ UNCHANGED <<totals, ledger, runLog>>

Tallied(k, n) ==
  LET stored == IF k \in {"new", "updated"} THEN n ELSE 0
  IN [totals EXCEPT !.items = Append(@, k), !.count[k] = @ + 1, !.chunks = @ + stored,
                    !.embedded = IF begun.embeds THEN @ + stored ELSE @]

AssetEnds ==
  /\ Moves("tally", "next") /\ Quietly
  /\ totals' = Tallied(course.item, course.chunks)
  /\ Logged(IF course.item = "error" THEN <<<<"error", course.at>>>> ELSE << >>)
  /\ Announce(<<Event("asset_finished", course.at, <<course.item, course.chunks>>)>>)
  /\ UNCHANGED <<course, ledger>>

-----------------------------------------------------------------------------
(* What is left behind: every write but the report's own is best effort. *)

CreateJob ==
  /\ stage = "jobs"
  /\ \/ /\ Quietly /\ stage' = "job_progress"
        /\ ledger' = [ledger EXCEPT !.job = [is |-> "job", status |-> "pending", progress |-> Untold]]
     \/ Fails /\ stage' = "row" /\ UNCHANGED ledger
  /\ UNCHANGED <<course, totals, told, runLog>>

UpdateJob ==
  /\ Moves("job_progress", "job_finish")
  /\ \/ /\ Quietly
        /\ ledger' = [ledger EXCEPT !.job.status = IF @ = "pending" THEN "running" ELSE @,
                                    !.job.progress = TableCounts]
     \/ Fails /\ UNCHANGED ledger
  /\ UNCHANGED <<course, totals, told, runLog>>

FinishJob ==
  /\ Moves("job_finish", "row")
  /\ \/ Quietly /\ ledger' = [ledger EXCEPT !.job.status = "succeeded"]
     \/ Fails /\ UNCHANGED ledger
  /\ UNCHANGED <<course, totals, told, runLog>>

RecordRun ==
  /\ Moves("row", "terminal")
  /\ \/ Quietly /\ ledger' = [ledger EXCEPT !.run = [is |-> "run", items |-> totals.items, count |-> TableCounts.count]]
     \/ Fails /\ UNCHANGED ledger
  /\ UNCHANGED <<course, totals, told, runLog>>

TellEnd ==
  /\ Moves("terminal", "summary") /\ Quietly
  /\ Announce(<<Event(IF course.stopped THEN "aborted" ELSE "completed", Len(begun.assets), Counts)>>)
  /\ UNCHANGED <<course, totals, ledger, runLog>>

Summarize ==
  /\ Moves("summary", "returned") /\ Quietly
  /\ Logged(<<<<"summary", Len(begun.assets), totals.count["new"], totals.count["error"], totals.pages,
                totals.unread, OcrTimes(totals.samples)>>>>)
  /\ UNCHANGED <<course, totals, told, ledger>>

-----------------------------------------------------------------------------
(* Ctrl-C: the first press sets the flag, the second ends the process. *)

Interrupted == presses = 0 /\ UNCHANGED <<stage, course, totals, told, runLog, shown, board>>

\* The memory of the process is gone, and with it what the log has not written out.
Quit ==
  /\ Pressed /\ stage' = "killed"
  /\ course' = FreshCourse /\ totals' = FreshTotals /\ board' = FreshBoard /\ told' = << >> /\ shown' = 0
  /\ IF runLog = Untold THEN UNCHANGED runLog
     ELSE \E n \in 0 .. Len(runLog.records) : runLog' = [runLog EXCEPT !.records = SubSeq(@, 1, n)]

Press ==
  /\ stage \notin {"killed", "reported", "gone"} /\ presses < 2
  /\ presses' = presses + 1
  /\ Interrupted \/ Quit
  /\ UNCHANGED <<failures, ledger, begun, printed>>

-----------------------------------------------------------------------------
(* The display.  The bar is drawn for a terminal and hidden otherwise. *)

\* dress_bar_for_assets
Dressed(b) == [b EXCEPT !.label = "ingest", !.len = b.scan, !.pos = 0]

DrawScan(b, e) ==
  IF e.kind = "scan_started" THEN [b EXCEPT !.live = TRUE, !.label = "scan"]
  ELSE Dressed([b EXCEPT !.scan = e.idx])

DrawSweep(b, e) ==
  CASE e.kind = "sweep_started" -> [b EXCEPT !.label = "sweep", !.len = e.idx, !.pos = 0]
    [] e.kind = "sweep_progress" -> [b EXCEPT !.pos = e.idx]
    [] OTHER -> Dressed(b)

DrawAsset(b, e) ==
  CASE e.kind = "asset_started" ->
         [b EXCEPT !.path = e.idx, !.named = @ \cup {e.idx}, !.clock = TRUE, !.pos = e.idx - 1]
    [] e.kind = "asset_finished" -> [b EXCEPT !.clock = FALSE, !.path = 0]
    [] e.kind = "asset_timings" /\ e.idx \in b.named -> [b EXCEPT !.timed = Append(@, <<e.idx, e.detail>>)]
    [] OTHER -> b

\* write_slowest_summary: the slowest first, ties by path.
Slower(s, t) == s[2] > t[2] \/ (s[2] = t[2] /\ s[1] < t[1])
Slowest(timed) ==
  LET ahead == [i \in DOMAIN timed |-> {j \in DOMAIN timed : Slower(timed[j], timed[i])}]
  IN SubSeq(Arranged(timed, ahead), 1, Min({Len(timed), SlowestTop}))

DrawEnd(b, e) ==
  IF e.kind = "completed" THEN [b EXCEPT !.live = FALSE, !.clock = FALSE, !.slowest = Slowest(b.timed)]
  ELSE [b EXCEPT !.live = FALSE]

Draw(b, e) ==
  CASE e.kind \in {"scan_started", "scan_completed"} -> DrawScan(b, e)
    [] e.kind \in {"sweep_started", "sweep_progress", "sweep_completed"} -> DrawSweep(b, e)
    [] e.kind \in {"completed", "aborted"} -> DrawEnd(b, e)
    [] e.kind \in {"ocr_started", "ocr_finished"} -> b
    [] OTHER -> DrawAsset(b, e)

Listening == stage \notin {"killed", "reported", "gone"} /\ shown < Len(told) /\ board.label # "closed"

Handle ==
  /\ Listening
  /\ shown' = shown + 1
  /\ board' = IF begun.json THEN board ELSE Draw(board, told[shown + 1])
  /\ UNCHANGED <<begun, stage, presses, failures, course, totals, told, ledger, runLog, printed>>

\* --json: stdout is gone, the display ends, and what is sent from then on is dropped.
StdoutCloses ==
  /\ Listening /\ begun.json
  /\ board' = [board EXCEPT !.label = "closed"]
  /\ UNCHANGED <<begun, stage, presses, failures, course, totals, told, shown, ledger, runLog, printed>>

\* The sender is dropped, the display drains the channel, and only then does the command go on.
Join ==
  /\ stage \in {"returned", "failed"} /\ (shown = Len(told) \/ board.label = "closed")
  /\ board' = [board EXCEPT !.live = FALSE]
  /\ IF stage = "failed" THEN stage' = "gone" /\ UNCHANGED printed
     ELSE /\ stage' = "reported"
          /\ printed' = [is |-> "report", items |-> totals.items, blank |-> totals.blank,
                        purged |-> course.purged, counts |-> Counts]
  /\ UNCHANGED <<begun, presses, failures, course, totals, told, shown, ledger, runLog>>

ProgressNext ==
  \/ OpenLog \/ ScanEnds \/ RunFails \/ SweepBegins \/ Examine \/ SweepEnds \/ SeedStopped
  \/ LoopStops \/ AssetStarts \/ AssetPasses \/ CodeStored \/ AssetFails \/ Vision \/ PageRead
  \/ PagesCancelled \/ PagesEnd \/ Chunks \/ Stores \/ Embeds \/ AssetEnds
  \/ CreateJob \/ UpdateJob \/ FinishJob \/ RecordRun \/ TellEnd \/ Summarize
  \/ Press \/ Handle \/ StdoutCloses \/ Join

ProgressSpec == ProgressInit /\ [][ProgressNext]_progressVars

-----------------------------------------------------------------------------
(* What is promised. *)

Sent(kinds) == {i \in DOMAIN told : told[i].kind \in kinds}
SweepKinds == {"sweep_started", "sweep_progress", "sweep_completed"}
WithinKinds == {"ocr_started", "ocr_finished", "asset_phase", "asset_chunked", "asset_timings"}

\* The asset in flight after the first n events, 0 if there is none.
InFlight(n) ==
  LET bounds == {i \in Sent({"asset_started", "asset_finished"}) : i <= n}
  IN IF bounds # {} /\ told[Max(bounds)].kind = "asset_started" THEN told[Max(bounds)].idx ELSE 0

\* The order of design 2.4a: the scan, the sweep as one block, one asset at a time from first to
\* start to its own finish, and nothing after the end; read once the run is over, however it ended.
OrderIsKept ==
  stage \in {"returned", "failed"} => \A i \in DOMAIN told :
    LET e == told[i]
    IN /\ (e.kind = "scan_started") = (i = 1)
       /\ (e.kind = "scan_completed") = (i = 2)
       /\ e.kind \in SweepKinds => \A j \in 3 .. i - 1 : told[j].kind \in SweepKinds \ {"sweep_completed"}
       /\ e.kind = "asset_started" => InFlight(i - 1) = 0
                                      /\ e.idx = Cardinality({j \in Sent({"asset_started"}) : j <= i})
       /\ e.kind \in WithinKinds => InFlight(i - 1) # 0
       /\ e.kind \in {"asset_phase", "asset_chunked", "asset_timings", "asset_finished"} =>
            e.idx = InFlight(i - 1)
       /\ e.kind \in {"completed", "aborted"} => i = Len(told) /\ InFlight(i) = 0

\* The bar shows the phase of the last event handled: its label, its own total, a position in it,
\* and a clock that runs just while an asset is in flight.
BarIsOfItsPhase ==
  (~begun.json /\ shown > 0 /\ board.live) =>
    LET e == told[shown]
    IN /\ shown > 1 =>
            board.label = (IF e.kind \in SweepKinds \ {"sweep_completed"} THEN "sweep" ELSE "ingest")
       /\ board.label = "sweep" => board.len = begun.stored
       /\ board.label = "ingest" => board.len = Len(begun.assets)
       /\ board.pos <= board.len
       /\ board.clock = (InFlight(shown) # 0) /\ board.path = InFlight(shown)
       /\ InFlight(shown) # 0 => board.pos = InFlight(shown) - 1

\* Every surface of a run that returned has the totals of its items, and the events the same items.
TotalsAgree ==
  stage \in {"returned", "reported"} =>
    LET items    == totals.items
        finished == Sent({"asset_finished"})
        ended    == told[Len(told)].detail
        chunksOf == [i \in finished |-> told[i].detail[2]]
    IN /\ \A k \in ItemKinds : totals.count[k] = Cardinality({i \in DOMAIN items : items[i] = k})
       /\ Cardinality(finished) = Len(items)
       /\ \A i \in finished : told[i].detail[1] = items[Cardinality({j \in finished : j <= i})]
       /\ totals.chunks = FoldFunction(+, 0, chunksOf)
       /\ totals.embedded = IF begun.embeds THEN totals.chunks ELSE 0
       /\ ended = Counts
       /\ ledger.run # Untold => /\ ledger.run.items = items
                                 /\ \A k \in DOMAIN ledger.run.count : ledger.run.count[k] = ended.count[k]
       /\ (ledger.job # Untold /\ ledger.job.progress # Untold) =>
            /\ \A k \in DOMAIN ledger.job.progress.count : ledger.job.progress.count[k] = ended.count[k]
            /\ ledger.job.progress.chunks = ended.chunks
       /\ printed # Untold => /\ printed.items = items /\ printed.counts = ended
                             /\ printed.purged = Cardinality({i \in Sent({"sweep_progress"}) : told[i].detail = "purged"})

\* A run is told as completed only if no candidate and no asset was left out, and as aborted only
\* if the user asked for it.
EndIsTrue ==
  \A i \in Sent({"completed", "aborted"}) :
    IF told[i].kind = "aborted" THEN Pressed
    ELSE /\ Len(totals.items) = Len(begun.assets)
         /\ Cardinality(Sent({"sweep_progress"})) = begun.stored

\* The log of a run that returned ends with its summary and tells the same purges, pages and
\* errors as the events and the tables; the logs removed for it are no newer than those kept.
LogIsWhole ==
  runLog # Untold =>
    LET Records(what) == {i \in DOMAIN runLog.records : runLog.records[i][1] = what}
    IN /\ \A k \in runLog.kept, r \in runLog.removed : begun.logs[k] <= begun.logs[r]
       /\ Cardinality(runLog.kept) <= KeepRecent
       /\ stage \in {"returned", "reported"} =>
            LET last == runLog.records[Len(runLog.records)]
            IN /\ Records("summary") = {Len(runLog.records)}
               /\ Cardinality(Records("purge")) = course.purged
               /\ Cardinality(Records("error")) = totals.count["error"] /\ last[4] = totals.count["error"]
               /\ Cardinality(Records("ocr")) = last[5] /\ ledger.ocr = last[5]
               /\ last[7] # << >> => last[7][1] <= last[7][2] /\ last[7][2] <= last[7][3]

\* The slowest assets of the summary: none that was timed and is not named took longer.
SlowestAreNamed ==
  (~begun.json /\ shown > 0 /\ told[shown].kind = "completed") =>
    LET timed == {<<told[i].idx, told[i].detail>> : i \in Sent({"asset_timings"})}
    IN /\ Len(board.slowest) = Min({Cardinality(timed), SlowestTop})
       /\ \A t \in timed \ Range(board.slowest) : \A s \in Range(board.slowest) : t[2] <= s[2]

\* A run tells the truth of itself on every surface, whatever fails, is cancelled or lags.
RunIsToldTruly ==
  /\ OrderIsKept /\ BarIsOfItsPhase /\ TotalsAgree /\ EndIsTrue /\ LogIsWhole /\ SlowestAreNamed

=============================================================================
